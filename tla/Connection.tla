----------------------------- MODULE Connection -----------------------------
(***************************************************************************)
(* What the server promises the clients that connect to it: it listens for *)
(* one connection at a time; each connection that is accepted is answered  *)
(* at most once and is closed only after it was answered; and 500 is what  *)
(* it answers only to a client that has stopped sending.  The process may  *)
(* end at any moment.                                                      *)
(***************************************************************************)
CONSTANTS Session, Null

VARIABLES phase, client, answer, running

vars == <<phase, client, answer, running>>

(* 400 and 500 are the session's own answers, "handler" is a handler's. *)
Code == {"400", "500", "handler"}

Init ==
  /\ running = TRUE
  /\ \E s \in Session : phase = [t \in Session |-> IF t = s THEN "listening" ELSE "none"]
  /\ client = [s \in Session |-> "none"]
  /\ answer = [s \in Session |-> Null]

Listen(s) ==
  /\ phase[s] = "none" /\ \A t \in Session : phase[t] # "listening"
  /\ phase' = [phase EXCEPT ![s] = "listening"]
  /\ UNCHANGED <<client, answer, running>>

Connect(s) ==
  /\ phase[s] = "listening" /\ client[s] = "none"
  /\ client' = [client EXCEPT ![s] = "open"]
  /\ UNCHANGED <<phase, answer, running>>

Accept(s) ==
  /\ phase[s] = "listening" /\ client[s] # "none"
  /\ phase' = [phase EXCEPT ![s] = "open"]
  /\ UNCHANGED <<client, answer, running>>

Refuse(s) ==
  /\ phase[s] = "listening" /\ client[s] = "none"
  /\ phase' = [phase EXCEPT ![s] = "none"]
  /\ UNCHANGED <<client, answer, running>>

Answer(s, c) ==
  /\ phase[s] = "open"
  /\ c = "500" => client[s] # "open"
  /\ phase' = [phase EXCEPT ![s] = "answered"]
  /\ answer' = [answer EXCEPT ![s] = c]
  /\ UNCHANGED <<client, running>>

Close(s) ==
  /\ phase[s] = "answered"
  /\ phase' = [phase EXCEPT ![s] = "none"]
  /\ client' = [client EXCEPT ![s] = "none"]
  /\ answer' = [answer EXCEPT ![s] = Null]
  /\ UNCHANGED running

(* The client stops sending, or the connection breaks. *)
Leave(s, how) ==
  /\ client[s] \notin {"none", "reset", how}
  /\ client' = [client EXCEPT ![s] = how]
  /\ UNCHANGED <<phase, answer, running>>

End ==
  /\ running' = FALSE
  /\ phase' = [s \in Session |-> "none"]
  /\ client' = [s \in Session |-> "none"]
  /\ answer' = [s \in Session |-> Null]

Next ==
  /\ running
  /\ \/ \E s \in Session :
          \/ Listen(s) \/ Connect(s) \/ Accept(s) \/ Refuse(s) \/ Close(s)
          \/ \E c \in Code : Answer(s, c)
          \/ \E how \in {"done", "reset"} : Leave(s, how)
     \/ End

Spec == Init /\ [][Next]_vars
=============================================================================
