--------------------------- MODULE SessionProofs ----------------------------
(***************************************************************************)
(* Proofs about Session, for any number of addresses, of workers and of    *)
(* requests, any buffer and any lengths: a session always has exactly one  *)
(* operation or one worker, the server always accepts exactly one          *)
(* connection at a time, no byte of a body is lost or read twice, and the  *)
(* server keeps the promises of Connection.                                *)
(* Everything rests on the inductive invariant SessionInv of Session: in   *)
(* which place a session is, and what its conversation has come to there.  *)
(***************************************************************************)
EXTENDS Session, NumberLemmas

(* Null is none of the values that variables have. *)
LEMMA NullIsNone ==
  /\ Null \notin Session /\ Null \notin Socket /\ Null \notin Int
  /\ Null # "400" /\ Null # "500" /\ Null # "handler"
<1>1. Null \notin Session \cup Socket \cup Int \cup {"400", "500", "handler"}
  BY SessionAssumption
<1>2. QED
  BY <1>1

(* The buffer holds at least one byte. *)
LEMMA LengthIsPositive == max_length \in Nat /\ max_length > 0
  BY SessionAssumption

(* What the proofs use of a request. *)
LEMMA RequestFacts ==
  ASSUME NEW r \in Request
  PROVE  r.header \in Nat /\ r.header > 0 /\ r.fields \in Seq(Field)
  BY SessionAssumption

(* get_header returns what stoi is given, or nothing. *)
LEMMA HeaderValue ==
  ASSUME NEW r \in Request, NEW name
  PROVE  get_header(r, name) \in Int \cup {NotNumber, TooLarge, Null}
<1> DEFINE found == {i \in DOMAIN r.fields : r.fields[i].name = name}
           last == CHOOSE i \in found : \A j \in found : j <= i
<1>1. r.fields \in Seq(Field)
  BY RequestFacts
<1>2. PICK n \in Nat : DOMAIN r.fields = 1..n
  BY <1>1
<1>3. CASE found = {}
  BY <1>3 DEF get_header
<1>4. CASE found # {}
  <2>1. found \in SUBSET Nat /\ \A i \in found : i <= n
    BY <1>2
  <2>2. \E i \in found : \A j \in found : j <= i
    BY <1>4, <2>1, GreatestNumber
  <2>3. last \in found
    BY <2>2
  <2>4. last \in DOMAIN r.fields
    BY <2>3
  <2>5. r.fields[last] \in Field
    <3> DEFINE f == r.fields
    <3>1. f \in Seq(Field) /\ last \in DOMAIN f
      BY <1>1, <2>4
    <3> HIDE DEF f, last
    <3>2. f[last] \in Field
      BY <3>1
    <3>3. QED
      BY <3>2 DEF f
  <2>6. r.fields[last].value \in Int \cup {NotNumber, TooLarge}
    BY <2>5 DEF Field
  <2>7. get_header(r, name) = r.fields[last].value
    BY <1>4 DEF get_header
  <2>8. QED
    BY <2>6, <2>7
<1>5. QED
  BY <1>3, <1>4

(* Nothing of the other sessions is touched. *)
Frame(s) ==
  \A t \in Session \ {s} :
    /\ \A o \in Operation : <<o, t>> \in pending' <=> <<o, t>> \in pending
    /\ \A w \in Worker : Responds(w, t)' <=> Responds(w, t)
    /\ t \in live' <=> t \in live
    /\ result'[t] = result[t] /\ client'[t] = client[t]
    /\ request_string_'[t] = request_string_[t] /\ request_body_'[t] = request_body_[t]
    /\ content_length_'[t] = content_length_[t] /\ response_'[t] = response_[t]
    /\ request'[t] = request[t] /\ read'[t] = read[t]

(* So their conversations go on. *)
LEMMA OthersGoOn ==
  ASSUME SessionInv, NEW s \in Session, Frame(s)
  PROVE  \A t \in Session \ {s} : Conversation(t)'
<1> SUFFICES ASSUME NEW t \in Session \ {s} PROVE Conversation(t)'
  OBVIOUS
<1>1. Conversation(t)
  BY DEF SessionInv
<1>2. /\ \A o \in Operation : <<o, t>> \in pending' <=> <<o, t>> \in pending
      /\ \A w \in Worker : Responds(w, t)' <=> Responds(w, t)
      /\ t \in live' <=> t \in live
  BY DEF Frame
<1>3. /\ result'[t] = result[t] /\ client'[t] = client[t]
      /\ request_string_'[t] = request_string_[t] /\ request_body_'[t] = request_body_[t]
      /\ content_length_'[t] = content_length_[t] /\ response_'[t] = response_[t]
      /\ request'[t] = request[t] /\ read'[t] = read[t]
  BY DEF Frame
<1>4. Blank(t)' <=> Blank(t)
  BY <1>3 DEF Blank
<1>5. (Connected(t)' <=> Connected(t)) /\ Got(t)' = Got(t)
  BY <1>3 DEF Connected, Got
<1>6. BlankUntilConnected(t)'
  BY <1>1, <1>2, <1>3, <1>4, <1>5 DEF Conversation, BlankUntilConnected, Operation
<1>7. HeaderIsWhatWasRead(t)'
  BY <1>1, <1>2, <1>3, <1>5 DEF Conversation, HeaderIsWhatWasRead, Operation
<1>8. BodyIsTheRest(t)'
  BY <1>1, <1>2, <1>3, <1>5 DEF Conversation, BodyIsTheRest, Operation
<1>9. PassedOnIsComplete(t)'
  BY <1>1, <1>2, <1>3 DEF Conversation, PassedOnIsComplete
<1>10. AnsweredIsWritten(t)'
  BY <1>1, <1>2, <1>3 DEF Conversation, AnsweredIsWritten, Operation
<1>11. QED
  BY <1>6, <1>7, <1>8, <1>9, <1>10 DEF Conversation

(* The types of the variables, for citing. *)
LEMMA Types ==
  ASSUME SessionInv
  PROVE  /\ live \subseteq Session /\ sockets \subseteq Socket /\ pending \subseteq Operation \X Session
         /\ socket_ \in [Session -> Socket \cup {Null}] /\ result \in [Session -> Result]
         /\ busy \in [Worker -> Occupation]
         /\ request_string_ \in [Session -> Nat] /\ request_body_ \in [Session -> Nat]
         /\ content_length_ \in [Session -> Int]
         /\ response_ \in [Session -> {"400", "500", "handler", Null}]
         /\ client \in [Session -> {"none", "open", "done", "reset"}]
         /\ request \in [Session -> Request \cup {Null}]
         /\ sent \in [Session -> Nat] /\ read \in [Session -> Nat]
  BY DEF SessionInv, TypeOK

(* An operation goes on or ends: everybody stays where he is. *)
LEMMA StaysInPlace ==
  ASSUME SessionInv, UNCHANGED <<running, live, sockets, socket_, pending, busy>>,
         NEW s \in Session, Waits(s), \A t \in Session \ {s} : result'[t] = result[t]
  PROVE  OnePlace' /\ SocketsAreTheirs' /\ OneAcceptor'
<1>1. OnePlace'
  BY DEF SessionInv, OnePlace, Waits, Responds
<1>2. SocketsAreTheirs'
  BY DEF SessionInv, SocketsAreTheirs
<1>3. OneAcceptor'
  BY DEF SessionInv, OneAcceptor, Accepted
<1>4. QED
  BY <1>1, <1>2, <1>3

(* A callback starts another operation of its session. *)
LEMMA MovesOn ==
  ASSUME SessionInv, NEW s \in Session, NEW o \in Operation, NEW n \in Operation,
         <<o, s>> \in pending, o # "accept", n # "accept", Restart(o, s, n),
         UNCHANGED <<running, live, sockets, socket_, busy>>
  PROVE  OnePlace' /\ SocketsAreTheirs' /\ OneAcceptor'
<1>1. /\ pending' = (pending \ {<<o, s>>}) \cup {<<n, s>>}
      /\ result' = [result EXCEPT ![s] = Null] /\ result \in [Session -> Result]
  BY Types DEF Restart
<1>2. /\ \A t \in Session \ {s}, p \in Operation : <<p, t>> \in pending' <=> <<p, t>> \in pending
      /\ \A p \in Operation : <<p, s>> \in pending' <=> p = n
  BY <1>1 DEF SessionInv, OnePlace
<1>3. \A t \in Session : Waits(t)' <=> Waits(t)
  BY <1>2 DEF Waits
<1>4. \A w \in Worker, t \in Session : Responds(w, t)' <=> Responds(w, t)
  BY DEF Responds
<1>5. OnePlace'
  <2>1. /\ \A t \in Session : \A p, q \in Operation :
             <<p, t>> \in pending' /\ <<q, t>> \in pending' => p = q
        /\ \A t \in Session : result'[t] # Null => Waits(t)'
    BY <1>1, <1>2, <1>3 DEF SessionInv, OnePlace
  <2>2. QED
    BY <1>3, <1>4, <2>1 DEF SessionInv, OnePlace
<1>6. SocketsAreTheirs'
  BY DEF SessionInv, SocketsAreTheirs
<1>7. OneAcceptor'
  <2>1. \A t \in Session : <<"accept", t>> \in pending' <=> <<"accept", t>> \in pending
    BY <1>1
  <2>2. QED
    BY <2>1 DEF SessionInv, OneAcceptor, Accepted
<1>8. QED
  BY <1>5, <1>6, <1>7

(* A callback passes its session on to its worker. *)
LEMMA Occupies ==
  ASSUME SessionInv, NEW s \in Session, NEW o \in Operation, NEW w \in Worker,
         <<o, s>> \in pending, o # "accept", busy[w] = Idle, Dispatch(w, o, s)
  PROVE  OnePlace' /\ SocketsAreTheirs' /\ OneAcceptor' /\ Responds(w, s)'
<1>1. /\ pending' = pending \ {<<o, s>>} /\ result' = [result EXCEPT ![s] = Null]
      /\ busy' = [busy EXCEPT ![w] = [at |-> "respond", session |-> s]]
      /\ UNCHANGED <<running, live, sockets, socket_>>
  BY DEF Dispatch
<1>2. result \in [Session -> Result] /\ busy \in [Worker -> Occupation]
  BY Types
<1>3. /\ \A t \in Session \ {s}, p \in Operation : <<p, t>> \in pending' <=> <<p, t>> \in pending
      /\ \A p \in Operation : <<p, s>> \notin pending'
  BY <1>1 DEF SessionInv, OnePlace
<1>4. /\ \A t \in Session \ {s} : Waits(t)' <=> Waits(t)
      /\ Waits(s) /\ ~Waits(s)'
  BY <1>3 DEF Waits
<1>5. /\ busy'[w].at = "respond" /\ busy'[w].session = s
      /\ \A v \in Worker \ {w} : busy'[v] = busy[v]
  BY <1>1, <1>2
<1>6. busy[w].at = "idle"
  BY DEF Idle
<1>7. \A t \in Session : /\ \A v \in Worker \ {w} : Responds(v, t)' <=> Responds(v, t)
                         /\ ~Responds(w, t) /\ (Responds(w, t)' <=> t = s)
  BY <1>5, <1>6 DEF Responds
<1>8. OnePlace'
  <2>1. \A t \in Session : result'[t] # Null => Waits(t)'
    BY <1>1, <1>2, <1>4 DEF SessionInv, OnePlace
  <2>2. \A v \in Worker : busy'[v].at = "respond" => busy'[v].session \in live'
    BY <1>1, <1>4, <1>5 DEF SessionInv, OnePlace
  <2>3. \A v, x \in Worker : \A t \in Session : Responds(v, t)' /\ Responds(x, t)' => v = x
    BY <1>4, <1>7 DEF SessionInv, OnePlace
  <2>4. \A v \in Worker : \A t \in Session : Responds(v, t)' => ~Waits(t)'
    BY <1>4, <1>7 DEF SessionInv, OnePlace
  <2>5. live' = {t \in Session : Waits(t)' \/ \E v \in Worker : Responds(v, t)'}
    BY <1>1, <1>4, <1>7 DEF SessionInv, OnePlace
  <2>6. QED
    BY <1>3, <2>1, <2>2, <2>3, <2>4, <2>5 DEF SessionInv, OnePlace
<1>9. SocketsAreTheirs'
  BY <1>1 DEF SessionInv, SocketsAreTheirs
<1>10. OneAcceptor'
  <2>1. \A t \in Session : <<"accept", t>> \in pending' <=> <<"accept", t>> \in pending
    BY <1>1
  <2>2. \A v \in Worker : Accepted(v)' <=> Accepted(v)
    BY <1>5, <1>6 DEF Accepted
  <2>3. QED
    BY <1>1, <2>1, <2>2 DEF SessionInv, OneAcceptor
<1>11. QED
  BY <1>7, <1>8, <1>9, <1>10

(* A session that exists waits for one operation, or a worker responds to it. *)
At(s, o) ==
  /\ s \in live
  /\ \A p \in Operation : <<p, s>> \in pending <=> p = o
  /\ \A w \in Worker : ~Responds(w, s)
InHandler(s) ==
  /\ s \in live
  /\ \A p \in Operation : <<p, s>> \notin pending
  /\ \E w \in Worker : Responds(w, s)
Gone(s) ==
  /\ s \notin live
  /\ \A p \in Operation : <<p, s>> \notin pending
  /\ \A w \in Worker : ~Responds(w, s)

(* A session that waits for an operation is nowhere else, ... *)
LEMMA WaitingIsAt ==
  ASSUME SessionInv, NEW s \in Session, NEW o \in Operation, <<o, s>> \in pending
  PROVE  At(s, o)
<1>1. OnePlace /\ Waits(s)
  BY DEF SessionInv, Waits
<1>2. s \in live /\ \A p \in Operation : <<p, s>> \in pending <=> p = o
  BY <1>1 DEF OnePlace
<1>3. \A w \in Worker : ~Responds(w, s)
  BY <1>1 DEF OnePlace
<1>4. QED
  BY <1>2, <1>3 DEF At

(* ... also in the next state; ... *)
LEMMA WaitingIsAtNext ==
  ASSUME OnePlace', NEW s \in Session, NEW o \in Operation, <<o, s>> \in pending'
  PROVE  At(s, o)'
<1>1. Waits(s)'
  BY DEF Waits
<1>2. s \in live' /\ \A p \in Operation : <<p, s>> \in pending' <=> p = o
  BY <1>1 DEF OnePlace
<1>3. \A w \in Worker : ~Responds(w, s)'
  BY <1>1 DEF OnePlace
<1>4. QED
  BY <1>2, <1>3 DEF At

(* ... and so is one that a worker responds to, ... *)
LEMMA RespondingIsInHandler ==
  ASSUME SessionInv, NEW s \in Session, NEW w \in Worker, Responds(w, s)
  PROVE  InHandler(s)
<1>1. OnePlace
  BY DEF SessionInv
<1>2. s \in live
  BY <1>1 DEF OnePlace
<1>3. ~Waits(s)
  BY <1>1 DEF OnePlace
<1>4. QED
  BY <1>2, <1>3 DEF InHandler, Waits

(* ... also in the next state. *)
LEMMA RespondingIsInHandlerNext ==
  ASSUME OnePlace', NEW s \in Session, NEW w \in Worker, Responds(w, s)'
  PROVE  InHandler(s)'
<1>1. s \in live'
  BY DEF OnePlace
<1>2. ~Waits(s)'
  BY DEF OnePlace
<1>3. QED
  BY <1>1, <1>2 DEF InHandler, Waits

(* What is to be shown of a session depends on where it is. *)
LEMMA ConversationOfAccepting ==
  ASSUME NEW s \in Session, At(s, "accept")', Blank(s)',
         IF result'[s] \in {Null, Error} THEN client'[s] = "none" ELSE Connected(s)'
  PROVE  Conversation(s)'
<1>1. response_'[s] = Null
  BY DEF Blank
<1>2. QED
  BY <1>1 DEF At, Operation, Conversation, BlankUntilConnected, HeaderIsWhatWasRead, BodyIsTheRest,
       PassedOnIsComplete, AnsweredIsWritten

(* While the header is read. *)
LEMMA ConversationOfHeader ==
  ASSUME NEW s \in Session, At(s, "header")', Connected(s)', response_'[s] = Null,
         request_string_'[s] < request'[s].header, request_string_'[s] + Got(s)' = read'[s],
         request_body_'[s] = 0, content_length_'[s] = 0, result'[s] = Error => client'[s] # "open"
  PROVE  Conversation(s)'
  BY DEF At, Operation, Conversation, BlankUntilConnected, HeaderIsWhatWasRead, BodyIsTheRest,
       PassedOnIsComplete, AnsweredIsWritten

(* While the body is read. *)
LEMMA ConversationOfBody ==
  ASSUME NEW s \in Session, At(s, "body")', Connected(s)', response_'[s] = Null,
         request_body_'[s] + Got(s)' = read'[s] - request'[s].header,
         get_header(request'[s], "Content-Length") \in Int =>
           content_length_'[s] = get_header(request'[s], "Content-Length"),
         result'[s] = Error => client'[s] # "open"
  PROVE  Conversation(s)'
  BY DEF At, Operation, Conversation, BlankUntilConnected, HeaderIsWhatWasRead, BodyIsTheRest,
       PassedOnIsComplete, AnsweredIsWritten

(* While the answer is written. *)
LEMMA ConversationOfWriting ==
  ASSUME NEW s \in Session, At(s, "write")', Connected(s)', response_'[s] # Null
  PROVE  Conversation(s)'
  BY DEF At, Operation, Conversation, BlankUntilConnected, HeaderIsWhatWasRead, BodyIsTheRest,
       PassedOnIsComplete, AnsweredIsWritten

(* While the handler runs. *)
LEMMA ConversationOfHandling ==
  ASSUME NEW s \in Session, InHandler(s)', Connected(s)', response_'[s] = Null,
         request_body_'[s] = read'[s] - request'[s].header,
         request'[s].method \in {"POST", "PUT"} /\ get_header(request'[s], "Content-Length") \in Int
           => get_header(request'[s], "Content-Length") <= request_body_'[s]
  PROVE  Conversation(s)'
  BY DEF InHandler, Operation, Conversation, BlankUntilConnected, HeaderIsWhatWasRead, BodyIsTheRest,
       PassedOnIsComplete, AnsweredIsWritten

(* When there is no session. *)
LEMMA ConversationOfNobody ==
  ASSUME NEW s \in Session, Gone(s)', Blank(s)', client'[s] = "none"
  PROVE  Conversation(s)'
<1>1. response_'[s] = Null
  BY DEF Blank
<1>2. QED
  BY <1>1 DEF Gone, Operation, Conversation, BlankUntilConnected, HeaderIsWhatWasRead, BodyIsTheRest,
       PassedOnIsComplete, AnsweredIsWritten

(* What is known of a session that reads a header. *)
LEMMA HeaderFacts ==
  ASSUME SessionInv, NEW s \in Session, <<"header", s>> \in pending
  PROVE  /\ At(s, "header") /\ Connected(s) /\ response_[s] = Null
         /\ request_string_[s] < request[s].header
         /\ request_string_[s] + Got(s) = read[s]
         /\ request_body_[s] = 0 /\ content_length_[s] = 0
         /\ result[s] = Error => client[s] # "open"
<1>1. Conversation(s) /\ At(s, "header")
  BY WaitingIsAt DEF SessionInv, Operation
<1>2. QED
  BY <1>1 DEF At, Operation, Conversation, BlankUntilConnected, HeaderIsWhatWasRead, AnsweredIsWritten

(* What is known of one that reads a body, ... *)
LEMMA BodyFacts ==
  ASSUME SessionInv, NEW s \in Session, <<"body", s>> \in pending
  PROVE  /\ At(s, "body") /\ Connected(s) /\ response_[s] = Null
         /\ request_body_[s] + Got(s) = read[s] - request[s].header
         /\ get_header(request[s], "Content-Length") \in Int =>
              content_length_[s] = get_header(request[s], "Content-Length")
         /\ result[s] = Error => client[s] # "open"
<1>1. Conversation(s) /\ At(s, "body")
  BY WaitingIsAt DEF SessionInv, Operation
<1>2. QED
  BY <1>1 DEF At, Operation, Conversation, BlankUntilConnected, BodyIsTheRest, AnsweredIsWritten

(* ... writes its answer, ... *)
LEMMA WritingFacts ==
  ASSUME SessionInv, NEW s \in Session, <<"write", s>> \in pending
  PROVE  At(s, "write") /\ Connected(s) /\ response_[s] # Null
<1>1. Conversation(s) /\ At(s, "write")
  BY WaitingIsAt DEF SessionInv, Operation
<1>2. QED
  BY <1>1 DEF At, Operation, Conversation, BlankUntilConnected, AnsweredIsWritten

(* ... or waits for a connection. *)
LEMMA AcceptingFacts ==
  ASSUME SessionInv, NEW s \in Session, <<"accept", s>> \in pending
  PROVE  /\ At(s, "accept") /\ Blank(s)
         /\ IF result[s] \in {Null, Error} THEN client[s] = "none" ELSE Connected(s)
<1>1. Conversation(s) /\ At(s, "accept")
  BY WaitingIsAt DEF SessionInv, Operation
<1>2. QED
  BY <1>1 DEF At, Operation, Conversation, BlankUntilConnected

-----------------------------------------------------------------------------
(* The client and the operating system. *)

(* Everybody stays where he is when no operation ends either. *)
LEMMA AllStay ==
  ASSUME SessionInv, UNCHANGED <<running, live, sockets, socket_, pending, busy, result>>
  PROVE  OnePlace' /\ SocketsAreTheirs' /\ OneAcceptor'
<1>1. OnePlace'
  BY DEF SessionInv, OnePlace, Waits, Responds
<1>2. SocketsAreTheirs'
  BY DEF SessionInv, SocketsAreTheirs
<1>3. OneAcceptor'
  BY DEF SessionInv, OneAcceptor, Accepted
<1>4. QED
  BY <1>1, <1>2, <1>3

(* Bytes that reach the machine are not read yet. *)
LEMMA SendInvariant ==
  ASSUME SessionInv, NEW s \in Session, Send(s)
  PROVE  SessionInv'
<1>1. /\ sent' = [sent EXCEPT ![s] = @ + 1]
      /\ UNCHANGED <<running, live, sockets, socket_, pending, busy, result>>
      /\ UNCHANGED <<request_string_, request_body_, content_length_, response_>>
      /\ UNCHANGED <<client, request, read>>
  BY DEF Send, conversation
<1>2. TypeOK'
  BY <1>1 DEF SessionInv, TypeOK
<1>3. OnePlace' /\ SocketsAreTheirs' /\ OneAcceptor'
  BY <1>1, AllStay
<1>4. Frame(s)
  BY <1>1 DEF Frame, Responds
<1>5. Conversation(s)'
  BY <1>1 DEF SessionInv, Conversation, BlankUntilConnected, HeaderIsWhatWasRead, BodyIsTheRest,
       PassedOnIsComplete, AnsweredIsWritten, Blank, Connected, Got, Responds
<1>6. QED
  BY <1>2, <1>3, <1>4, <1>5, OthersGoOn DEF SessionInv

(* A client that leaves was there, and has made room for a read error. *)
LEMMA LeaveInvariant ==
  ASSUME SessionInv, NEW s \in Session, NEW how \in {"done", "reset"}, Leave(s, how)
  PROVE  SessionInv'
<1>1. /\ client[s] # "none" /\ client' = [client EXCEPT ![s] = how]
      /\ UNCHANGED <<running, live, sockets, socket_, pending, busy, result>>
      /\ UNCHANGED <<request_string_, request_body_, content_length_, response_>>
      /\ UNCHANGED <<request, sent, read>>
  BY DEF Leave, conversation
<1>2. TypeOK'
  BY <1>1 DEF SessionInv, TypeOK
<1>3. OnePlace' /\ SocketsAreTheirs' /\ OneAcceptor'
  BY <1>1, AllStay
<1>4. Frame(s) /\ client'[s] = how
  BY <1>1, Types DEF Frame, Responds
<1>5. Conversation(s)'
  <2>1. Conversation(s)
    BY DEF SessionInv
  <2>2. BlankUntilConnected(s)'
    BY <1>1, <1>4, <2>1 DEF Conversation, BlankUntilConnected, Blank, Connected
  <2>3. HeaderIsWhatWasRead(s)' /\ BodyIsTheRest(s)' /\ PassedOnIsComplete(s)'
    BY <1>1, <2>1 DEF Conversation, HeaderIsWhatWasRead, BodyIsTheRest, PassedOnIsComplete, Got, Responds
  <2>4. AnsweredIsWritten(s)'
    BY <1>1, <1>4, <2>1 DEF Conversation, AnsweredIsWritten
  <2>5. QED
    BY <2>2, <2>3, <2>4 DEF Conversation
<1>6. QED
  BY <1>2, <1>3, <1>4, <1>5, OthersGoOn DEF SessionInv

(* A client connects to the session that waits for one. *)
LEMMA ConnectInvariant ==
  ASSUME SessionInv, NEW s \in Session, NEW r \in Request, Connect(s, r)
  PROVE  SessionInv'
<1>1. /\ <<"accept", s>> \in pending /\ result' = [result EXCEPT ![s] = 0]
      /\ client' = [client EXCEPT ![s] = "open"] /\ request' = [request EXCEPT ![s] = r]
      /\ UNCHANGED <<running, live, sockets, socket_, pending, busy>>
      /\ UNCHANGED <<request_string_, request_body_, content_length_, response_>>
      /\ UNCHANGED <<sent, read>>
  BY DEF Connect, conversation
<1>2. 0 \in Result
  BY LengthIsPositive DEF Result, Error
<1>3. TypeOK'
  BY <1>1, <1>2 DEF SessionInv, TypeOK
<1>4. Frame(s) /\ client'[s] = "open" /\ request'[s] = r
  BY <1>1, Types DEF Frame, Responds
<1>5. OnePlace' /\ SocketsAreTheirs' /\ OneAcceptor'
  BY <1>1, <1>4, StaysInPlace DEF Waits, Operation, Frame
<1>6. Conversation(s)'
  <2>1. Connected(s)'
    BY <1>4 DEF Connected
  <2>2. At(s, "accept")'
    BY <1>1, <1>5, WaitingIsAtNext DEF Operation
  <2>3. Blank(s)'
    BY <1>1, AcceptingFacts DEF Blank
  <2>4. result'[s] = 0 /\ 0 \notin {Null, Error}
    BY <1>1, Types, NullIsNone DEF Error
  <2>5. QED
    BY <2>1, <2>2, <2>3, <2>4, ConversationOfAccepting
<1>7. QED
  BY <1>3, <1>4, <1>5, <1>6, OthersGoOn DEF SessionInv

(* An operation that ends changes its result only, and what was read. *)
LEMMA Completes ==
  ASSUME SessionInv, NEW s \in Session, NEW o \in Operation, NEW r \in Result, Complete(o, s, r),
         UNCHANGED client, read' \in [Session -> Nat], \A t \in Session \ {s} : read'[t] = read[t]
  PROVE  /\ TypeOK' /\ OnePlace' /\ SocketsAreTheirs' /\ OneAcceptor' /\ Frame(s) /\ At(s, o)'
         /\ <<o, s>> \in pending /\ result[s] = Null /\ result'[s] = r
         /\ UNCHANGED <<request_string_, request_body_, content_length_, response_, request>>
         /\ (Connected(s)' <=> Connected(s))
<1>1. /\ <<o, s>> \in pending /\ result[s] = Null /\ result' = [result EXCEPT ![s] = r]
      /\ UNCHANGED <<running, live, sockets, socket_, pending, busy>>
      /\ UNCHANGED <<request_string_, request_body_, content_length_, response_>>
      /\ UNCHANGED <<request, sent>>
  BY DEF Complete, conversation
<1>2. TypeOK'
  BY <1>1 DEF SessionInv, TypeOK
<1>3. Frame(s) /\ result'[s] = r
  BY <1>1, Types DEF Frame, Responds
<1>4. OnePlace' /\ SocketsAreTheirs' /\ OneAcceptor'
  BY <1>1, <1>3, StaysInPlace DEF Waits, Frame
<1>5. At(s, o)'
  BY <1>1, <1>4, WaitingIsAtNext
<1>6. Connected(s)' <=> Connected(s)
  BY <1>1 DEF Connected
<1>7. QED
  BY <1>1, <1>2, <1>3, <1>4, <1>5, <1>6

(* The results an operation can have. *)
LEMMA ResultValues ==
  Null \in Result /\ Error \in Result /\ 0 \in Result /\ 1..max_length \subseteq Result
  BY LengthIsPositive DEF Result, Error

(* Accepting may fail. *)
LEMMA ConnectFailsInvariant ==
  ASSUME SessionInv, NEW s \in Session, ConnectFails(s)
  PROVE  SessionInv'
<1>1. Complete("accept", s, Error) /\ UNCHANGED <<client, read>>
  BY DEF ConnectFails
<1>2. "accept" \in Operation /\ read' \in [Session -> Nat]
  BY <1>1, Types DEF Operation
<1>3. /\ TypeOK' /\ OnePlace' /\ SocketsAreTheirs' /\ OneAcceptor' /\ Frame(s) /\ At(s, "accept")'
      /\ <<"accept", s>> \in pending /\ result[s] = Null /\ result'[s] = Error
      /\ UNCHANGED <<request_string_, request_body_, content_length_, response_, request>>
  BY <1>1, <1>2, Completes, ResultValues
<1>4. Blank(s)' /\ client'[s] = "none"
  BY <1>1, <1>3, AcceptingFacts DEF Blank
<1>5. Conversation(s)'
  BY <1>3, <1>4, ConversationOfAccepting
<1>6. QED
  BY <1>3, <1>5, OthersGoOn DEF SessionInv

(* What is read is added to what the session has. *)
LEMMA ReadInvariant ==
  ASSUME SessionInv, NEW s \in Session, NEW o \in Operation, NEW k \in 1..max_length, Read(o, s, k)
  PROVE  SessionInv'
<1>1. o \in {"header", "body"} /\ Complete(o, s, k) /\ UNCHANGED client
  BY DEF Read
<1>2. read' = [read EXCEPT ![s] = @ + k] /\ k \in Nat
  BY LengthIsPositive DEF Read
<1>3. /\ read' \in [Session -> Nat] /\ read'[s] = read[s] + k
      /\ \A t \in Session \ {s} : read'[t] = read[t]
  BY <1>2, Types
<1>4. /\ TypeOK' /\ OnePlace' /\ SocketsAreTheirs' /\ OneAcceptor' /\ Frame(s) /\ At(s, o)'
      /\ <<o, s>> \in pending /\ result[s] = Null /\ result'[s] = k
      /\ UNCHANGED <<request_string_, request_body_, content_length_, response_, request>>
      /\ (Connected(s)' <=> Connected(s))
  BY <1>1, <1>3, Completes, ResultValues
<1>5. Got(s) = 0 /\ Got(s)' = k /\ result'[s] # Error
  BY <1>2, <1>4, NullIsNone DEF Got, Error
<1>6. /\ request_string_[s] \in Nat /\ request_body_[s] \in Nat /\ read[s] \in Nat
  BY Types
<1>7. CASE o = "header"
  <2>1. /\ Connected(s) /\ response_[s] = Null /\ request_string_[s] < request[s].header
        /\ request_string_[s] + Got(s) = read[s] /\ request_body_[s] = 0 /\ content_length_[s] = 0
    BY <1>4, <1>7, HeaderFacts
  <2>2. request_string_'[s] + Got(s)' = read'[s]
    BY <1>2, <1>3, <1>4, <1>5, <1>6, <2>1
  <2>3. Conversation(s)'
    BY <1>4, <1>5, <1>7, <2>1, <2>2, ConversationOfHeader
  <2>4. QED
    BY <1>4, <2>3, OthersGoOn DEF SessionInv
<1>8. CASE o = "body"
  <2>1. /\ Connected(s) /\ response_[s] = Null
        /\ request_body_[s] + Got(s) = read[s] - request[s].header
        /\ get_header(request[s], "Content-Length") \in Int =>
             content_length_[s] = get_header(request[s], "Content-Length")
    BY <1>4, <1>8, BodyFacts
  <2>2. request[s].header \in Nat
    BY <2>1, RequestFacts DEF Connected
  <2>3. request_body_'[s] + Got(s)' = read'[s] - request'[s].header
    BY <1>2, <1>3, <1>4, <1>5, <1>6, <2>1, <2>2
  <2>4. Conversation(s)'
    BY <1>4, <1>5, <1>8, <2>1, <2>3, ConversationOfBody
  <2>5. QED
    BY <1>4, <2>4, OthersGoOn DEF SessionInv
<1>9. QED
  BY <1>1, <1>7, <1>8

(* A read fails when the client is gone. *)
LEMMA ReadFailsInvariant ==
  ASSUME SessionInv, NEW s \in Session, NEW o \in Operation, ReadFails(o, s)
  PROVE  SessionInv'
<1>1. /\ o \in {"header", "body"} /\ client[s] # "open"
      /\ Complete(o, s, Error) /\ UNCHANGED <<client, read>>
  BY DEF ReadFails
<1>2. read' \in [Session -> Nat]
  BY <1>1, Types
<1>3. /\ TypeOK' /\ OnePlace' /\ SocketsAreTheirs' /\ OneAcceptor' /\ Frame(s) /\ At(s, o)'
      /\ <<o, s>> \in pending /\ result[s] = Null /\ result'[s] = Error
      /\ UNCHANGED <<request_string_, request_body_, content_length_, response_, request>>
      /\ (Connected(s)' <=> Connected(s))
  BY <1>1, <1>2, Completes, ResultValues
<1>4. Got(s) = 0 /\ Got(s)' = 0 /\ client'[s] # "open"
  BY <1>1, <1>3 DEF Got
<1>5. CASE o = "header"
  <2>1. /\ Connected(s) /\ response_[s] = Null /\ request_string_[s] < request[s].header
        /\ request_string_[s] + Got(s) = read[s] /\ request_body_[s] = 0 /\ content_length_[s] = 0
    BY <1>3, <1>5, HeaderFacts
  <2>2. Conversation(s)'
    BY <1>1, <1>3, <1>4, <1>5, <2>1, ConversationOfHeader
  <2>3. QED
    BY <1>3, <2>2, OthersGoOn DEF SessionInv
<1>6. CASE o = "body"
  <2>1. /\ Connected(s) /\ response_[s] = Null
        /\ request_body_[s] + Got(s) = read[s] - request[s].header
        /\ get_header(request[s], "Content-Length") \in Int =>
             content_length_[s] = get_header(request[s], "Content-Length")
    BY <1>3, <1>6, BodyFacts
  <2>2. Conversation(s)'
    BY <1>1, <1>3, <1>4, <1>6, <2>1, ConversationOfBody
  <2>3. QED
    BY <1>3, <2>2, OthersGoOn DEF SessionInv
<1>7. QED
  BY <1>1, <1>5, <1>6

(* The answer is written, or the connection is broken. *)
LEMMA WriteInvariant ==
  ASSUME SessionInv, NEW s \in Session, Write(s)
  PROVE  SessionInv'
<1>1. PICK r \in Result : Complete("write", s, r) /\ UNCHANGED <<client, read>>
  BY ResultValues DEF Write
<1>2. "write" \in Operation /\ read' \in [Session -> Nat]
  BY <1>1, Types DEF Operation
<1>3. /\ TypeOK' /\ OnePlace' /\ SocketsAreTheirs' /\ OneAcceptor' /\ Frame(s) /\ At(s, "write")'
      /\ <<"write", s>> \in pending /\ UNCHANGED response_ /\ (Connected(s)' <=> Connected(s))
  BY <1>1, <1>2, Completes
<1>4. Connected(s)' /\ response_'[s] # Null
  BY <1>3, WritingFacts
<1>5. Conversation(s)'
  BY <1>3, <1>4, ConversationOfWriting
<1>6. QED
  BY <1>3, <1>5, OthersGoOn DEF SessionInv

-----------------------------------------------------------------------------
(* The callbacks. *)

(* Nothing is left of a process that ends. *)
LEMMA TerminateInvariant ==
  ASSUME SessionInv, Terminate
  PROVE  SessionInv'
<1>1. /\ running' = FALSE /\ live' = {} /\ sockets' = {} /\ pending' = {}
      /\ socket_' = [s \in Session |-> Null] /\ result' = [s \in Session |-> Null]
      /\ busy' = [w \in Worker |-> Idle]
  BY DEF Terminate
<1>2. /\ request_string_' = [s \in Session |-> 0] /\ request_body_' = [s \in Session |-> 0]
      /\ content_length_' = [s \in Session |-> 0] /\ response_' = [s \in Session |-> Null]
      /\ client' = [s \in Session |-> "none"] /\ request' = [s \in Session |-> Null]
      /\ sent' = [s \in Session |-> 0] /\ read' = [s \in Session |-> 0]
  BY DEF Terminate
<1>3. Idle \in Occupation /\ Null \in Result /\ Idle.at = "idle"
  BY DEF Idle, Occupation, Result
<1>4. TypeOK'
  <2>1. /\ running' \in BOOLEAN /\ live' \subseteq Session /\ sockets' \subseteq Socket
        /\ pending' \subseteq Operation \X Session
    BY <1>1
  <2>2. /\ socket_' \in [Session -> Socket \cup {Null}] /\ result' \in [Session -> Result]
        /\ busy' \in [Worker -> Occupation]
    BY <1>1, <1>3
  <2>3. /\ request_string_' \in [Session -> Nat] /\ request_body_' \in [Session -> Nat]
        /\ content_length_' \in [Session -> Int]
        /\ response_' \in [Session -> {"400", "500", "handler", Null}]
    BY <1>2
  <2>4. /\ client' \in [Session -> {"none", "open", "done", "reset"}]
        /\ request' \in [Session -> Request \cup {Null}]
        /\ sent' \in [Session -> Nat] /\ read' \in [Session -> Nat]
    BY <1>2
  <2>5. QED
    BY <2>1, <2>2, <2>3, <2>4 DEF TypeOK
<1>5. \A w \in Worker : busy'[w].at = "idle"
  BY <1>1, <1>3
<1>6. OnePlace'
  BY <1>1, <1>5 DEF OnePlace, Waits, Responds
<1>7. SocketsAreTheirs' /\ OneAcceptor'
  BY <1>1, <1>5 DEF SocketsAreTheirs, OneAcceptor, Accepted
<1>8. \A s \in Session : Conversation(s)'
  <2> TAKE s \in Session
  <2>1. Gone(s)'
    BY <1>1, <1>5 DEF Gone, Responds
  <2>2. Blank(s)' /\ client'[s] = "none"
    BY <1>2 DEF Blank
  <2>3. QED
    BY <2>1, <2>2, ConversationOfNobody
<1>9. QED
  BY <1>4, <1>6, <1>7, <1>8 DEF SessionInv

(* A session is made at an address where there is none. *)
LEMMA StartInvariant ==
  ASSUME SessionInv, NEW w \in Worker, NEW s \in Session, NEW k \in Socket, start_accept(w, s, k)
  PROVE  SessionInv'
<1>1. /\ busy[w].at = "accepted" /\ s \notin live /\ k \notin sockets
      /\ busy' = [busy EXCEPT ![w] = Idle]
      /\ live' = live \cup {s} /\ sockets' = sockets \cup {k}
      /\ socket_' = [socket_ EXCEPT ![s] = k]
      /\ pending' = pending \cup {<<"accept", s>>}
      /\ UNCHANGED <<running, result>>
      /\ UNCHANGED <<request_string_, request_body_, content_length_, response_>>
      /\ UNCHANGED <<client, request, sent, read>>
  BY DEF start_accept, conversation, peer
<1>2. Idle \in Occupation /\ "accept" \in Operation /\ Idle.at = "idle"
  BY DEF Idle, Occupation, Operation
<1>3. TypeOK'
  <2>1. <<"accept", s>> \in Operation \X Session
    BY <1>2
  <2>2. pending' \subseteq Operation \X Session
    BY <1>1, <2>1, Types
  <2>3. busy' \in [Worker -> Occupation]
    BY <1>1, <1>2, Types
  <2>4. QED
    BY <1>1, <2>2, <2>3 DEF SessionInv, TypeOK
<1>4. /\ busy'[w].at = "idle" /\ \A v \in Worker \ {w} : busy'[v] = busy[v]
      /\ socket_'[s] = k /\ \A t \in Session \ {s} : socket_'[t] = socket_[t]
  BY <1>1, <1>2, Types
<1>5. /\ ~Waits(s) /\ \A v \in Worker : ~Responds(v, s)
      /\ result[s] = Null
  BY <1>1 DEF SessionInv, OnePlace
<1>6. /\ \A v \in Worker, t \in Session : Responds(v, t)' <=> Responds(v, t)
      /\ \A v \in Worker : Accepted(v)' <=> Accepted(v) /\ v # w
  BY <1>1, <1>4 DEF Responds, Accepted
<1>7. /\ \A p \in Operation : <<p, s>> \in pending' <=> p = "accept"
      /\ \A t \in Session \ {s}, p \in Operation : <<p, t>> \in pending' <=> <<p, t>> \in pending
  BY <1>1, <1>5 DEF Waits
<1>8. Waits(s)' /\ \A t \in Session \ {s} : Waits(t)' <=> Waits(t)
  BY <1>2, <1>7 DEF Waits
<1>9. OnePlace'
  <2>1. OnePlace
    BY DEF SessionInv
  <2>2. \A t \in Session : \A p, q \in Operation :
          <<p, t>> \in pending' /\ <<q, t>> \in pending' => p = q
    BY <1>7, <2>1 DEF OnePlace
  <2>3. \A v, x \in Worker : \A t \in Session : Responds(v, t)' /\ Responds(x, t)' => v = x
    BY <1>6, <2>1 DEF OnePlace
  <2>4. \A v \in Worker : \A t \in Session : Responds(v, t)' => ~Waits(t)'
    BY <1>5, <1>6, <1>8, <2>1 DEF OnePlace
  <2>5. \A v \in Worker : busy'[v].at = "respond" => busy'[v].session \in live'
    BY <1>1, <1>4, <2>1 DEF OnePlace
  <2>6. live' = {t \in Session : Waits(t)' \/ \E v \in Worker : Responds(v, t)'}
    BY <1>1, <1>6, <1>8, <2>1 DEF OnePlace
  <2>7. \A t \in Session : result'[t] # Null => Waits(t)'
    BY <1>1, <1>8, <2>1 DEF OnePlace
  <2>8. QED
    BY <2>2, <2>3, <2>4, <2>5, <2>6, <2>7 DEF OnePlace
<1>10. SocketsAreTheirs'
  <2>1. \A t \in live : t # s /\ t \in Session /\ socket_'[t] \in sockets
    BY <1>1, <1>4, Types DEF SessionInv, SocketsAreTheirs
  <2>2. QED
    BY <1>1, <1>4, <2>1 DEF SessionInv, SocketsAreTheirs
<1>11. OneAcceptor'
  <2>1. Accepted(w) /\ OneAcceptor
    BY <1>1 DEF Accepted, SessionInv
  <2>2. \A t \in Session : <<"accept", t>> \notin pending
    BY <2>1 DEF OneAcceptor
  <2>3. \A t \in Session : <<"accept", t>> \in pending' <=> t = s
    BY <1>1, <2>2
  <2>4. \A v \in Worker : ~Accepted(v)'
    BY <1>6, <2>1 DEF OneAcceptor
  <2>5. QED
    BY <2>3, <2>4 DEF OneAcceptor
<1>12. Frame(s)
  BY <1>1, <1>6, <1>7 DEF Frame
<1>13. Conversation(s)'
  <2>1. At(s, "accept")'
    BY <1>1, <1>2, <1>9, WaitingIsAtNext
  <2>2. Blank(s) /\ client[s] = "none"
    BY <1>1 DEF SessionInv, Conversation, BlankUntilConnected
  <2>3. Blank(s)' /\ client'[s] = "none" /\ result'[s] = Null
    BY <1>1, <1>5, <2>2 DEF Blank
  <2>4. QED
    BY <2>1, <2>3, ConversationOfAccepting
<1>14. QED
  BY <1>3, <1>9, <1>10, <1>11, <1>12, <1>13, OthersGoOn DEF SessionInv

(* The worker that has accepted will accept again. *)
LEMMA AcceptedNext ==
  ASSUME SessionInv, NEW w \in Worker, busy[w] = Idle,
         busy' = [busy EXCEPT ![w] = [at |-> "accepted", session |-> Null]]
  PROVE  /\ busy' \in [Worker -> Occupation]
         /\ \A v \in Worker, t \in Session : Responds(v, t)' <=> Responds(v, t)
         /\ \A v \in Worker : Accepted(v)' <=> Accepted(v) \/ v = w
         /\ \A v \in Worker : busy'[v].at = "respond" => busy[v].at = "respond" /\ busy'[v] = busy[v]
<1>1. [at |-> "accepted", session |-> Null] \in Occupation
  BY DEF Occupation
<1>2. busy \in [Worker -> Occupation] /\ busy[w].at = "idle"
  BY Types DEF Idle
<1>3. busy'[w].at = "accepted" /\ \A v \in Worker \ {w} : busy'[v] = busy[v]
  BY <1>2
<1>4. busy' \in [Worker -> Occupation]
  BY <1>1, <1>2
<1>5. /\ \A v \in Worker, t \in Session : Responds(v, t)' <=> Responds(v, t)
      /\ \A v \in Worker : Accepted(v)' <=> Accepted(v) \/ v = w
  BY <1>2, <1>3 DEF Responds, Accepted
<1>6. QED
  BY <1>3, <1>4, <1>5

(* handle_accept passes a connection on to its session, ... *)
LEMMA AcceptInvariant ==
  ASSUME SessionInv, NEW w \in Worker, NEW s \in Session, Callback(w, "accept", s), result[s] # Error,
         busy' = [busy EXCEPT ![w] = [at |-> "accepted", session |-> Null]],
         Restart("accept", s, "header"),
         UNCHANGED <<running, live, sockets, socket_, conversation, peer>>
  PROVE  SessionInv'
<1>1. /\ busy[w] = Idle /\ <<"accept", s>> \in pending /\ result[s] # Null
      /\ pending' = (pending \ {<<"accept", s>>}) \cup {<<"header", s>>}
      /\ result' = [result EXCEPT ![s] = Null]
      /\ UNCHANGED <<request_string_, request_body_, content_length_, response_>>
      /\ UNCHANGED <<client, request, sent, read>>
  BY DEF Callback, Restart, conversation, peer
<1>2. /\ busy' \in [Worker -> Occupation]
      /\ \A v \in Worker, t \in Session : Responds(v, t)' <=> Responds(v, t)
      /\ \A v \in Worker : Accepted(v)' <=> Accepted(v) \/ v = w
      /\ \A v \in Worker : busy'[v].at = "respond" => busy[v].at = "respond" /\ busy'[v] = busy[v]
  BY <1>1, AcceptedNext
<1>3. TypeOK'
  <2>1. <<"header", s>> \in Operation \X Session
    BY DEF Operation
  <2>2. pending' \subseteq Operation \X Session
    BY <1>1, <2>1, Types
  <2>3. QED
    BY <1>1, <1>2, <2>2, ResultValues DEF SessionInv, TypeOK
<1>4. /\ \A t \in Session \ {s}, p \in Operation : <<p, t>> \in pending' <=> <<p, t>> \in pending
      /\ \A p \in Operation : <<p, s>> \in pending' <=> p = "header"
  BY <1>1, WaitingIsAt DEF At, Operation
<1>5. \A t \in Session : Waits(t)' <=> Waits(t)
  BY <1>1, <1>4 DEF Waits, Operation
<1>6. \A t \in Session : result'[t] # Null => result[t] # Null
  BY <1>1, Types
<1>7. OnePlace'
  <2>1. OnePlace
    BY DEF SessionInv
  <2>2. \A t \in Session : \A p, q \in Operation :
          <<p, t>> \in pending' /\ <<q, t>> \in pending' => p = q
    BY <1>4, <2>1 DEF OnePlace
  <2>3. \A v \in Worker : busy'[v].at = "respond" => busy'[v].session \in live'
    BY <1>2, <2>1 DEF OnePlace
  <2>4. live' = {t \in Session : Waits(t)' \/ \E v \in Worker : Responds(v, t)'}
    BY <1>2, <1>5, <2>1 DEF OnePlace
  <2>5. QED
    BY <1>2, <1>5, <1>6, <2>1, <2>2, <2>3, <2>4 DEF OnePlace
<1>8. SocketsAreTheirs'
  BY DEF SessionInv, SocketsAreTheirs
<1>9. OneAcceptor'
  <2>1. OneAcceptor
    BY DEF SessionInv
  <2>2. \A t \in Session : <<"accept", t>> \notin pending'
    BY <1>1, <2>1 DEF OneAcceptor
  <2>3. \A v \in Worker : Accepted(v)' <=> v = w
    BY <1>1, <1>2, <2>1 DEF OneAcceptor
  <2>4. QED
    BY <2>2, <2>3 DEF OneAcceptor
<1>10. Frame(s) /\ result'[s] = Null
  <2>1. result'[s] = Null /\ \A t \in Session \ {s} : result'[t] = result[t]
    BY <1>1, Types
  <2>2. QED
    BY <1>1, <1>2, <1>4, <2>1 DEF Frame
<1>11. Conversation(s)'
  <2>1. At(s, "header")'
    BY <1>1, <1>7, WaitingIsAtNext DEF Operation
  <2>2. Blank(s) /\ Connected(s)
    BY <1>1, AcceptingFacts
  <2>3. Connected(s)' /\ Got(s)' = 0 /\ result'[s] # Error
    BY <1>1, <1>10, <2>2, NullIsNone DEF Connected, Got, Error
  <2>4. request[s].header > 0
    BY <2>2, RequestFacts DEF Connected
  <2>5. /\ request_string_'[s] = 0 /\ request_body_'[s] = 0 /\ content_length_'[s] = 0
        /\ response_'[s] = Null /\ read'[s] = 0 /\ request'[s] = request[s]
    BY <1>1, <2>2 DEF Blank
  <2>6. QED
    BY <2>1, <2>3, <2>4, <2>5, ConversationOfHeader
<1>12. QED
  BY <1>3, <1>7, <1>8, <1>9, <1>10, <1>11, OthersGoOn DEF SessionInv

(* A session that ended is nowhere any more. *)
LEMMA Departs ==
  ASSUME SessionInv, NEW s \in Session, NEW o \in Operation, <<o, s>> \in pending,
         live' = live \ {s}, pending' = pending \ {<<o, s>>}, result' = [result EXCEPT ![s] = Null],
         \A v \in Worker, t \in Session : Responds(v, t)' <=> Responds(v, t),
         \A v \in Worker : busy'[v].at = "respond" => busy[v].at = "respond" /\ busy'[v] = busy[v]
  PROVE  /\ OnePlace' /\ Gone(s)' /\ result' \in [Session -> Result]
         /\ \A t \in Session \ {s} : result'[t] = result[t]
         /\ \A t \in Session \ {s}, p \in Operation : <<p, t>> \in pending' <=> <<p, t>> \in pending
<1>1. At(s, o) /\ OnePlace
  BY WaitingIsAt DEF SessionInv
<1>2. /\ \A t \in Session \ {s}, p \in Operation : <<p, t>> \in pending' <=> <<p, t>> \in pending
      /\ \A p \in Operation : <<p, s>> \notin pending'
  BY <1>1 DEF At
<1>3. ~Waits(s)' /\ \A t \in Session \ {s} : Waits(t)' <=> Waits(t)
  BY <1>2 DEF Waits
<1>4. \A v \in Worker : ~Responds(v, s)
  BY <1>1 DEF At
<1>5. Gone(s)'
  BY <1>2, <1>4 DEF Gone
<1>6. /\ result' \in [Session -> Result] /\ result'[s] = Null
      /\ \A t \in Session \ {s} : result'[t] = result[t]
  BY Types, ResultValues
<1>7. OnePlace'
  <2>1. \A t \in Session : \A p, q \in Operation :
          <<p, t>> \in pending' /\ <<q, t>> \in pending' => p = q
    BY <1>1, <1>2 DEF OnePlace
  <2>2. \A v, x \in Worker : \A t \in Session : Responds(v, t)' /\ Responds(x, t)' => v = x
    BY <1>1 DEF OnePlace
  <2>3. \A v \in Worker : \A t \in Session : Responds(v, t)' => ~Waits(t)'
    BY <1>1, <1>3 DEF OnePlace
  <2>4. \A v \in Worker : busy'[v].at = "respond" => busy'[v].session \in live'
    BY <1>1, <1>4 DEF OnePlace, Responds
  <2>5. live' = {t \in Session : Waits(t)' \/ \E v \in Worker : Responds(v, t)'}
    BY <1>1, <1>3, <1>4 DEF OnePlace
  <2>6. \A t \in Session : result'[t] # Null => Waits(t)'
    BY <1>1, <1>3, <1>6 DEF OnePlace
  <2>7. QED
    BY <2>1, <2>2, <2>3, <2>4, <2>5, <2>6 DEF OnePlace
<1>8. QED
  BY <1>2, <1>5, <1>6, <1>7

(* ... or deletes a session that nobody has connected to. *)
LEMMA AcceptFailsInvariant ==
  ASSUME SessionInv, NEW w \in Worker, NEW s \in Session, Callback(w, "accept", s), result[s] = Error,
         busy' = [busy EXCEPT ![w] = [at |-> "accepted", session |-> Null]],
         live' = live \ {s}, socket_' = [socket_ EXCEPT ![s] = Null],
         pending' = pending \ {<<"accept", s>>}, result' = [result EXCEPT ![s] = Null],
         UNCHANGED <<running, sockets, conversation, peer>>
  PROVE  SessionInv'
<1>1. /\ busy[w] = Idle /\ <<"accept", s>> \in pending
      /\ UNCHANGED <<request_string_, request_body_, content_length_, response_>>
      /\ UNCHANGED <<client, request, sent, read>>
  BY DEF Callback, conversation, peer
<1>2. /\ busy' \in [Worker -> Occupation]
      /\ \A v \in Worker, t \in Session : Responds(v, t)' <=> Responds(v, t)
      /\ \A v \in Worker : Accepted(v)' <=> Accepted(v) \/ v = w
      /\ \A v \in Worker : busy'[v].at = "respond" => busy[v].at = "respond" /\ busy'[v] = busy[v]
  BY <1>1, AcceptedNext
<1>3. "accept" \in Operation
  BY DEF Operation
<1>4. /\ OnePlace' /\ Gone(s)' /\ result' \in [Session -> Result]
      /\ \A t \in Session \ {s} : result'[t] = result[t]
      /\ \A t \in Session \ {s}, p \in Operation : <<p, t>> \in pending' <=> <<p, t>> \in pending
  BY <1>1, <1>2, <1>3, Departs
<1>5. TypeOK'
  BY <1>1, <1>2, <1>4 DEF SessionInv, TypeOK
<1>6. SocketsAreTheirs'
  <2>1. \A t \in Session \ {s} : socket_'[t] = socket_[t]
    BY Types
  <2>2. QED
    BY <2>1, Types DEF SessionInv, SocketsAreTheirs
<1>7. OneAcceptor'
  <2>1. OneAcceptor
    BY DEF SessionInv
  <2>2. \A t \in Session : <<"accept", t>> \notin pending'
    BY <1>1, <2>1 DEF OneAcceptor
  <2>3. \A v \in Worker : Accepted(v)' <=> v = w
    BY <1>1, <1>2, <2>1 DEF OneAcceptor
  <2>4. QED
    BY <2>2, <2>3 DEF OneAcceptor
<1>8. Frame(s)
  BY <1>1, <1>2, <1>4 DEF Frame
<1>9. Blank(s)' /\ client'[s] = "none"
  BY <1>1, AcceptingFacts DEF Blank
<1>10. Conversation(s)'
  BY <1>4, <1>9, ConversationOfNobody
<1>11. QED
  BY <1>4, <1>5, <1>6, <1>7, <1>8, <1>10, OthersGoOn DEF SessionInv

(* A callback that starts another operation leaves its session there. *)
LEMMA Restarts ==
  ASSUME SessionInv, NEW s \in Session, NEW o \in Operation, NEW n \in Operation,
         <<o, s>> \in pending, o # "accept", n # "accept", Restart(o, s, n),
         UNCHANGED <<running, live, sockets, socket_, busy>>
  PROVE  /\ OnePlace' /\ SocketsAreTheirs' /\ OneAcceptor' /\ At(s, n)'
         /\ pending' \subseteq Operation \X Session /\ result' \in [Session -> Result]
         /\ result'[s] = Null /\ Got(s)' = 0 /\ result'[s] # Error
         /\ \A t \in Session \ {s} : result'[t] = result[t]
         /\ \A t \in Session \ {s}, p \in Operation : <<p, t>> \in pending' <=> <<p, t>> \in pending
         /\ \A t \in Session, w \in Worker : Responds(w, t)' <=> Responds(w, t)
<1>1. OnePlace' /\ SocketsAreTheirs' /\ OneAcceptor'
  BY MovesOn
<1>2. pending' = (pending \ {<<o, s>>}) \cup {<<n, s>>} /\ result' = [result EXCEPT ![s] = Null]
  BY DEF Restart
<1>3. At(s, n)'
  BY <1>1, <1>2, WaitingIsAtNext
<1>4. <<n, s>> \in Operation \X Session
  OBVIOUS
<1>5. pending' \subseteq Operation \X Session
  BY <1>2, <1>4, Types
<1>6. /\ result' \in [Session -> Result] /\ result'[s] = Null
      /\ \A t \in Session \ {s} : result'[t] = result[t]
  BY <1>2, Types, ResultValues
<1>7. Got(s)' = 0 /\ result'[s] # Error
  BY <1>6, NullIsNone DEF Got, Error
<1>8. \A t \in Session \ {s}, p \in Operation : <<p, t>> \in pending' <=> <<p, t>> \in pending
  BY <1>2
<1>9. \A t \in Session, w \in Worker : Responds(w, t)' <=> Responds(w, t)
  BY DEF Responds
<1>10. QED
  BY <1>1, <1>3, <1>5, <1>6, <1>7, <1>8, <1>9

(* A callback that passes its session on leaves it with its worker. *)
LEMMA Dispatches ==
  ASSUME SessionInv, NEW s \in Session, NEW o \in Operation, NEW w \in Worker,
         <<o, s>> \in pending, o # "accept", busy[w] = Idle, Dispatch(w, o, s)
  PROVE  /\ OnePlace' /\ SocketsAreTheirs' /\ OneAcceptor' /\ InHandler(s)'
         /\ pending' \subseteq Operation \X Session /\ result' \in [Session -> Result]
         /\ busy' \in [Worker -> Occupation]
         /\ \A t \in Session \ {s} : result'[t] = result[t]
         /\ \A t \in Session \ {s}, p \in Operation : <<p, t>> \in pending' <=> <<p, t>> \in pending
         /\ \A t \in Session \ {s}, v \in Worker : Responds(v, t)' <=> Responds(v, t)
<1>1. OnePlace' /\ SocketsAreTheirs' /\ OneAcceptor' /\ Responds(w, s)'
  BY Occupies
<1>2. InHandler(s)'
  BY <1>1, RespondingIsInHandlerNext
<1>3. /\ pending' = pending \ {<<o, s>>} /\ result' = [result EXCEPT ![s] = Null]
      /\ busy' = [busy EXCEPT ![w] = [at |-> "respond", session |-> s]]
  BY DEF Dispatch
<1>4. pending' \subseteq Operation \X Session
  BY <1>3, Types
<1>5. result' \in [Session -> Result] /\ \A t \in Session \ {s} : result'[t] = result[t]
  BY <1>3, Types, ResultValues
<1>6. [at |-> "respond", session |-> s] \in Occupation
  BY DEF Occupation
<1>7. busy' \in [Worker -> Occupation]
  BY <1>3, <1>6, Types
<1>8. \A t \in Session \ {s}, p \in Operation : <<p, t>> \in pending' <=> <<p, t>> \in pending
  BY <1>3
<1>9. \A t \in Session \ {s}, v \in Worker : Responds(v, t)' <=> Responds(v, t)
  <2>1. busy'[w].session = s /\ busy[w].at = "idle" /\ \A v \in Worker \ {w} : busy'[v] = busy[v]
    BY <1>3, Types DEF Idle
  <2>2. QED
    BY <2>1 DEF Responds
<1>10. QED
  BY <1>1, <1>2, <1>4, <1>5, <1>7, <1>8, <1>9

(* How much a callback that was given no error has been given. *)
LEMMA GotIsResult ==
  ASSUME SessionInv, NEW s \in Session, result[s] # Null, result[s] # Error
  PROVE  result[s] \in Nat /\ Got(s) = result[s]
<1>1. result[s] \in Result
  BY Types
<1>2. result[s] \in Nat
  BY <1>1, LengthIsPositive DEF Result, Error
<1>3. QED
  BY <1>2 DEF Got

(* The header goes on. *)
LEMMA HeaderOnInvariant ==
  ASSUME SessionInv, NEW w \in Worker, NEW s \in Session, read_header_on(w, s)
  PROVE  SessionInv'
<1>1. /\ <<"header", s>> \in pending /\ result[s] # Null /\ result[s] # Error
      /\ request_string_[s] + result[s] < request[s].header
      /\ request_string_' = [request_string_ EXCEPT ![s] = @ + result[s]]
      /\ Restart("header", s, "header")
      /\ UNCHANGED <<running, live, sockets, socket_, busy>>
      /\ UNCHANGED <<request_body_, content_length_, response_>>
      /\ UNCHANGED <<client, request, sent, read>>
  BY DEF read_header_on, Callback, ReadOn, peer
<1>2. "header" \in Operation
  BY DEF Operation
<1>3. /\ OnePlace' /\ SocketsAreTheirs' /\ OneAcceptor' /\ At(s, "header")'
      /\ pending' \subseteq Operation \X Session /\ result' \in [Session -> Result]
      /\ Got(s)' = 0 /\ result'[s] # Error
      /\ \A t \in Session \ {s} : result'[t] = result[t]
      /\ \A t \in Session \ {s}, p \in Operation : <<p, t>> \in pending' <=> <<p, t>> \in pending
      /\ \A t \in Session, v \in Worker : Responds(v, t)' <=> Responds(v, t)
  BY <1>1, <1>2, Restarts
<1>4. result[s] \in Nat /\ Got(s) = result[s]
  BY <1>1, GotIsResult
<1>5. /\ request_string_' \in [Session -> Nat] /\ request_string_'[s] = request_string_[s] + result[s]
      /\ \A t \in Session \ {s} : request_string_'[t] = request_string_[t]
  BY <1>1, <1>4, Types
<1>6. TypeOK'
  BY <1>1, <1>3, <1>5 DEF SessionInv, TypeOK
<1>7. Frame(s)
  BY <1>1, <1>3, <1>5 DEF Frame
<1>8. Conversation(s)'
  <2>1. /\ Connected(s) /\ response_[s] = Null /\ request_string_[s] + Got(s) = read[s]
        /\ request_body_[s] = 0 /\ content_length_[s] = 0
    BY <1>1, HeaderFacts
  <2>2. Connected(s)'
    BY <1>1, <2>1 DEF Connected
  <2>3. request_string_'[s] \in Nat /\ request_string_'[s] + Got(s)' = read'[s]
    BY <1>1, <1>3, <1>4, <1>5, <2>1
  <2>4. request_string_'[s] < request'[s].header
    BY <1>1, <1>5
  <2>5. QED
    BY <1>1, <1>3, <2>1, <2>2, <2>3, <2>4, ConversationOfHeader
<1>9. QED
  BY <1>3, <1>6, <1>7, <1>8, OthersGoOn DEF SessionInv

(* What is known when the header is complete: what follows it is the body.    *)
HeaderDone(s) ==
  /\ request_string_' \in [Session -> Nat] /\ request_body_' \in [Session -> Nat]
  /\ request_body_'[s] = read[s] - request[s].header
  /\ Connected(s) /\ response_[s] = Null
  /\ \A t \in Session \ {s} :
       request_string_'[t] = request_string_[t] /\ request_body_'[t] = request_body_[t]

(* handle_read_header takes everything after the header as body. *)
LEMMA BodyStarts ==
  ASSUME SessionInv, NEW s \in Session, <<"header", s>> \in pending,
         result[s] # Null, result[s] # Error, request_string_[s] + result[s] >= request[s].header,
         request_string_' = [request_string_ EXCEPT ![s] = @ + result[s]],
         request_body_' = [request_body_ EXCEPT ![s] = body_substr(s, result[s])]
  PROVE  HeaderDone(s) /\ body_substr(s, result[s]) = request_body_'[s]
<1>1. result[s] \in Nat /\ Got(s) = result[s]
  BY GotIsResult
<1>2. /\ Connected(s) /\ response_[s] = Null /\ request_string_[s] < request[s].header
      /\ request_string_[s] + Got(s) = read[s]
  BY HeaderFacts
<1>3. /\ request_string_ \in [Session -> Nat] /\ request_body_ \in [Session -> Nat]
      /\ request_string_[s] \in Nat
  BY Types
<1>4. request[s].header \in Nat
  BY <1>2, RequestFacts DEF Connected
<1>5. body_substr(s, result[s]) = read[s] - request[s].header /\ body_substr(s, result[s]) \in Nat
  <2>1. request_string_[s] + result[s] - request[s].header < result[s]
    BY <1>1, <1>2, <1>3, <1>4
  <2>2. body_substr(s, result[s]) = request_string_[s] + result[s] - request[s].header
    BY <1>1, <1>3, <1>4, <2>1 DEF body_substr, Least
  <2>3. QED
    BY <1>1, <1>2, <1>3, <1>4, <2>2
<1>6. /\ request_string_' \in [Session -> Nat]
      /\ \A t \in Session \ {s} : request_string_'[t] = request_string_[t]
  BY <1>1, <1>3
<1>7. /\ request_body_' \in [Session -> Nat] /\ request_body_'[s] = body_substr(s, result[s])
      /\ \A t \in Session \ {s} : request_body_'[t] = request_body_[t]
  BY <1>3, <1>5
<1>8. QED
  BY <1>2, <1>5, <1>6, <1>7 DEF HeaderDone

(* What a callback notes in its own session. *)
Notes(s) ==
  /\ request_string_' \in [Session -> Nat] /\ request_body_' \in [Session -> Nat]
  /\ content_length_' \in [Session -> Int]
  /\ \A t \in Session \ {s} :
       /\ request_string_'[t] = request_string_[t] /\ request_body_'[t] = request_body_[t]
       /\ content_length_'[t] = content_length_[t]

(* A callback answers itself. *)
LEMMA AnswerInvariant ==
  ASSUME SessionInv, NEW s \in Session, NEW o \in {"header", "body"}, NEW code \in {"400", "500"},
         <<o, s>> \in pending, Notes(s), Answer(o, s, code)
  PROVE  SessionInv'
<1>1. /\ response_' = [response_ EXCEPT ![s] = code] /\ Restart(o, s, "write")
      /\ UNCHANGED <<running, live, sockets, socket_, busy>>
      /\ UNCHANGED <<client, request, sent, read>>
  BY DEF Answer, peer
<1>2. o \in Operation /\ "write" \in Operation /\ o # "accept"
  BY DEF Operation
<1>3. /\ OnePlace' /\ SocketsAreTheirs' /\ OneAcceptor' /\ At(s, "write")'
      /\ pending' \subseteq Operation \X Session /\ result' \in [Session -> Result]
      /\ \A t \in Session \ {s} : result'[t] = result[t]
      /\ \A t \in Session \ {s}, p \in Operation : <<p, t>> \in pending' <=> <<p, t>> \in pending
      /\ \A t \in Session, v \in Worker : Responds(v, t)' <=> Responds(v, t)
  BY <1>1, <1>2, Restarts
<1>4. /\ response_' \in [Session -> {"400", "500", "handler", Null}] /\ response_'[s] = code
      /\ \A t \in Session \ {s} : response_'[t] = response_[t]
  BY <1>1, Types
<1>5. TypeOK'
  BY <1>1, <1>3, <1>4 DEF SessionInv, TypeOK, Notes
<1>6. Frame(s)
  BY <1>1, <1>3, <1>4 DEF Frame, Notes
<1>7. Connected(s)' /\ response_'[s] # Null
  BY <1>1, <1>4, HeaderFacts, BodyFacts, NullIsNone DEF Connected
<1>8. Conversation(s)'
  BY <1>3, <1>7, ConversationOfWriting
<1>9. QED
  BY <1>3, <1>5, <1>6, <1>8, OthersGoOn DEF SessionInv

(* A callback passes a request on with all of its body. *)
LEMMA DispatchInvariant ==
  ASSUME SessionInv, NEW s \in Session, NEW o \in {"header", "body"}, NEW w \in Worker,
         <<o, s>> \in pending, busy[w] = Idle, Notes(s), Dispatch(w, o, s),
         request_body_'[s] = read[s] - request[s].header,
         request[s].method \in {"POST", "PUT"} /\ get_header(request[s], "Content-Length") \in Int
           => get_header(request[s], "Content-Length") <= request_body_'[s]
  PROVE  SessionInv'
<1>1. /\ UNCHANGED <<running, live, sockets, socket_, response_>>
      /\ UNCHANGED <<client, request, sent, read>>
  BY DEF Dispatch, peer
<1>2. o \in Operation /\ o # "accept"
  BY DEF Operation
<1>3. /\ OnePlace' /\ SocketsAreTheirs' /\ OneAcceptor' /\ InHandler(s)'
      /\ pending' \subseteq Operation \X Session /\ result' \in [Session -> Result]
      /\ busy' \in [Worker -> Occupation]
      /\ \A t \in Session \ {s} : result'[t] = result[t]
      /\ \A t \in Session \ {s}, p \in Operation : <<p, t>> \in pending' <=> <<p, t>> \in pending
      /\ \A t \in Session \ {s}, v \in Worker : Responds(v, t)' <=> Responds(v, t)
  BY <1>2, Dispatches
<1>4. TypeOK'
  BY <1>1, <1>3 DEF SessionInv, TypeOK, Notes
<1>5. Frame(s)
  BY <1>1, <1>3 DEF Frame, Notes
<1>6. Connected(s)' /\ response_'[s] = Null
  BY <1>1, HeaderFacts, BodyFacts DEF Connected
<1>7. Conversation(s)'
  BY <1>1, <1>3, <1>6, ConversationOfHandling
<1>8. QED
  BY <1>3, <1>4, <1>5, <1>7, OthersGoOn DEF SessionInv

(* A callback waits for more of the body. *)
LEMMA BodyOnInvariant ==
  ASSUME SessionInv, NEW s \in Session, NEW o \in {"header", "body"},
         <<o, s>> \in pending, Notes(s), ReadOn(o, s, "body"),
         request_body_'[s] = read[s] - request[s].header,
         get_header(request[s], "Content-Length") \in Int =>
           content_length_'[s] = get_header(request[s], "Content-Length")
  PROVE  SessionInv'
<1>1. /\ Restart(o, s, "body") /\ UNCHANGED <<running, live, sockets, socket_, busy, response_>>
      /\ UNCHANGED <<client, request, sent, read>>
  BY DEF ReadOn, peer
<1>2. o \in Operation /\ "body" \in Operation /\ o # "accept"
  BY DEF Operation
<1>3. /\ OnePlace' /\ SocketsAreTheirs' /\ OneAcceptor' /\ At(s, "body")'
      /\ pending' \subseteq Operation \X Session /\ result' \in [Session -> Result]
      /\ Got(s)' = 0 /\ result'[s] # Error
      /\ \A t \in Session \ {s} : result'[t] = result[t]
      /\ \A t \in Session \ {s}, p \in Operation : <<p, t>> \in pending' <=> <<p, t>> \in pending
      /\ \A t \in Session, v \in Worker : Responds(v, t)' <=> Responds(v, t)
  BY <1>1, <1>2, Restarts
<1>4. TypeOK'
  BY <1>1, <1>3 DEF SessionInv, TypeOK, Notes
<1>5. Frame(s)
  BY <1>1, <1>3 DEF Frame, Notes
<1>6. Connected(s)' /\ response_'[s] = Null
  BY <1>1, HeaderFacts, BodyFacts DEF Connected
<1>7. request_body_'[s] + Got(s)' = read'[s] - request'[s].header
  <2>1. request_body_'[s] \in Nat
    BY DEF Notes
  <2>2. QED
    BY <1>1, <1>3, <2>1
<1>8. Conversation(s)'
  BY <1>1, <1>3, <1>6, <1>7, ConversationOfBody
<1>9. QED
  BY <1>3, <1>4, <1>5, <1>8, OthersGoOn DEF SessionInv

(* The header is complete. *)
LEMMA HeaderDoneInvariant ==
  ASSUME SessionInv, NEW w \in Worker, NEW s \in Session, read_header_done(w, s)
  PROVE  SessionInv'
<1> DEFINE k == result[s]
           length == get_header(request[s], "Content-Length")
           value == IF length = Null THEN content_length_[s] ELSE length
<1>1. /\ busy[w] = Idle /\ <<"header", s>> \in pending /\ k # Null /\ k # Error
      /\ request_string_[s] + k >= request[s].header
  BY DEF read_header_done, Callback
<1>2. CASE Terminate
  BY <1>2, TerminateInvariant
<1>3. CASE ~Terminate
  <2>1. /\ request_string_' = [request_string_ EXCEPT ![s] = @ + k]
        /\ request_body_' = [request_body_ EXCEPT ![s] = body_substr(s, k)]
    BY <1>3 DEF read_header_done
  <2>2. HeaderDone(s) /\ body_substr(s, k) = request_body_'[s]
    BY <1>1, <2>1, BodyStarts
  <2>3. /\ request_body_'[s] = read[s] - request[s].header /\ request_body_'[s] \in Nat
        /\ request[s] \in Request
    BY <2>2 DEF HeaderDone, Connected
  <2>4. content_length_ \in [Session -> Int]
    BY Types
  <2>5. CASE Answer("header", s, "400") /\ UNCHANGED content_length_
    <3>1. Notes(s)
      BY <2>2, <2>4, <2>5 DEF Notes, HeaderDone
    <3>2. QED
      BY <1>1, <2>5, <3>1, AnswerInvariant
  <2>6. CASE /\ request[s].method \notin {"POST", "PUT"}
             /\ Dispatch(w, "header", s) /\ UNCHANGED content_length_
    <3>1. Notes(s)
      BY <2>2, <2>4, <2>6 DEF Notes, HeaderDone
    <3>2. QED
      BY <1>1, <2>3, <2>6, <3>1, DispatchInvariant
  <2>7. CASE /\ length \notin {NotNumber, TooLarge}
             /\ content_length_' = [content_length_ EXCEPT ![s] = value]
             /\ IF Enough(body_substr(s, k), value) THEN Dispatch(w, "header", s)
                ELSE ReadOn("header", s, "body")
    <3>1. length \in Int \cup {Null}
      BY <2>3, <2>7, HeaderValue
    <3>2. value \in Int /\ (length \in Int => value = length)
      BY <2>4, <3>1, NullIsNone
    <3> HIDE DEF value
    <3>3. /\ content_length_' \in [Session -> Int] /\ content_length_'[s] = value
          /\ \A t \in Session \ {s} : content_length_'[t] = content_length_[t]
      BY <2>4, <2>7, <3>2
    <3>4. Notes(s)
      BY <2>2, <3>3 DEF Notes, HeaderDone
    <3>5. CASE Enough(body_substr(s, k), value) /\ Dispatch(w, "header", s)
      <4>1. length \in Int => length <= request_body_'[s]
        BY <2>2, <3>2, <3>5 DEF Enough
      <4>2. QED
        BY <1>1, <2>3, <3>4, <3>5, <4>1, DispatchInvariant
    <3>6. CASE ReadOn("header", s, "body")
      BY <1>1, <2>3, <3>2, <3>3, <3>4, <3>6, BodyOnInvariant
    <3>7. QED
      BY <2>7, <3>5, <3>6
  <2>8. QED
    BY <1>3, <2>5, <2>6, <2>7 DEF read_header_done
<1>4. QED
  BY <1>2, <1>3

(* More of the body is there. *)
LEMMA BodyInvariant ==
  ASSUME SessionInv, NEW w \in Worker, NEW s \in Session, handle_read_body(w, s)
  PROVE  SessionInv'
<1>1. /\ busy[w] = Idle /\ <<"body", s>> \in pending /\ result[s] # Null /\ result[s] # Error
      /\ request_body_' = [request_body_ EXCEPT ![s] = @ + result[s]]
      /\ UNCHANGED <<request_string_, content_length_>>
  BY DEF handle_read_body, Callback
<1>2. result[s] \in Nat /\ Got(s) = result[s]
  BY <1>1, GotIsResult
<1>3. /\ request_body_' \in [Session -> Nat] /\ request_body_'[s] = request_body_[s] + result[s]
      /\ \A t \in Session \ {s} : request_body_'[t] = request_body_[t]
  BY <1>1, <1>2, Types
<1>4. Notes(s)
  BY <1>1, <1>3, Types DEF Notes
<1>5. /\ request_body_'[s] = read[s] - request[s].header
      /\ get_header(request[s], "Content-Length") \in Int =>
           content_length_'[s] = get_header(request[s], "Content-Length")
  BY <1>1, <1>2, <1>3, BodyFacts
<1>6. CASE Enough(request_body_'[s], content_length_[s]) /\ Dispatch(w, "body", s)
  <2>1. get_header(request[s], "Content-Length") \in Int =>
          get_header(request[s], "Content-Length") <= request_body_'[s]
    BY <1>1, <1>5, <1>6 DEF Enough
  <2>2. QED
    BY <1>1, <1>4, <1>5, <1>6, <2>1, DispatchInvariant
<1>7. CASE ReadOn("body", s, "body")
  BY <1>1, <1>4, <1>5, <1>7, BodyOnInvariant
<1>8. QED
  BY <1>6, <1>7 DEF handle_read_body

(* A read error is answered with 500. *)
LEMMA ReadErrorInvariant ==
  ASSUME SessionInv, NEW w \in Worker, NEW s \in Session, NEW o \in Operation, read_error(w, o, s)
  PROVE  SessionInv'
<1>1. /\ o \in {"header", "body"} /\ <<o, s>> \in pending /\ Answer(o, s, "500")
      /\ UNCHANGED <<request_string_, request_body_, content_length_>>
  BY DEF read_error, Callback
<1>2. Notes(s)
  BY <1>1, Types DEF Notes
<1>3. QED
  BY <1>1, <1>2, AnswerInvariant

(* The handler returns, and its worker is free again. *)
LEMMA RespondInvariant ==
  ASSUME SessionInv, NEW w \in Worker, respond_to_request(w)
  PROVE  SessionInv'
<1>1. CASE Terminate
  BY <1>1, TerminateInvariant
<1>2. CASE ~Terminate
  <2>1. PICK s \in Session : s = busy[w].session
    BY Types DEF respond_to_request, SessionInv, OnePlace
  <2>2. busy[w].at = "respond"
    BY DEF respond_to_request
  <2>3. PICK code \in {"400", "handler"} :
          /\ response_' = [response_ EXCEPT ![s] = code]
          /\ pending' = pending \cup {<<"write", s>>}
          /\ busy' = [busy EXCEPT ![w] = Idle]
          /\ UNCHANGED <<running, live, sockets, socket_, result>>
          /\ UNCHANGED <<client, request, sent, read>>
          /\ UNCHANGED <<request_string_, request_body_, content_length_>>
    BY <1>2, <2>1 DEF respond_to_request, peer
  <2>4. Responds(w, s)
    BY <2>1, <2>2 DEF Responds
  <2>5. OnePlace /\ InHandler(s)
    BY <2>4, RespondingIsInHandler DEF SessionInv
  <2>6. Idle \in Occupation /\ Idle.at = "idle" /\ "write" \in Operation
    BY DEF Idle, Occupation, Operation
  <2>7. /\ busy' \in [Worker -> Occupation] /\ busy'[w].at = "idle"
        /\ \A v \in Worker \ {w} : busy'[v] = busy[v]
    BY <2>3, <2>6, Types
  <2>8. /\ response_' \in [Session -> {"400", "500", "handler", Null}] /\ response_'[s] # Null
        /\ \A t \in Session \ {s} : response_'[t] = response_[t]
    BY <2>3, Types, NullIsNone
  <2>9. TypeOK'
    <3>1. <<"write", s>> \in Operation \X Session
      BY <2>6
    <3>2. pending' \subseteq Operation \X Session
      BY <2>3, <3>1, Types
    <3>3. QED
      BY <2>3, <2>7, <2>8, <3>2 DEF SessionInv, TypeOK
  <2>10. /\ \A p \in Operation : <<p, s>> \in pending' <=> p = "write"
         /\ \A t \in Session \ {s}, p \in Operation : <<p, t>> \in pending' <=> <<p, t>> \in pending
    BY <2>3, <2>5 DEF InHandler
  <2>11. Waits(s)' /\ \A t \in Session \ {s} : Waits(t)' <=> Waits(t)
    BY <2>6, <2>10 DEF Waits
  <2>12. /\ \A v \in Worker : ~Responds(v, s)'
         /\ \A t \in Session \ {s}, v \in Worker : Responds(v, t)' <=> Responds(v, t)
    <3>1. \A v \in Worker \ {w} : ~Responds(v, s)
      BY <2>4, <2>5 DEF OnePlace
    <3>2. QED
      BY <2>1, <2>7, <3>1 DEF Responds
  <2>13. OnePlace'
    <3>1. \A t \in Session : \A p, q \in Operation :
            <<p, t>> \in pending' /\ <<q, t>> \in pending' => p = q
      BY <2>5, <2>10 DEF OnePlace
    <3>2. \A v, x \in Worker : \A t \in Session : Responds(v, t)' /\ Responds(x, t)' => v = x
      BY <2>5, <2>12 DEF OnePlace
    <3>3. \A v \in Worker : \A t \in Session : Responds(v, t)' => ~Waits(t)'
      BY <2>5, <2>11, <2>12 DEF OnePlace
    <3>4. \A v \in Worker : busy'[v].at = "respond" => busy'[v].session \in live'
      BY <2>3, <2>5, <2>7 DEF OnePlace
    <3>5. live' = {t \in Session : Waits(t)' \/ \E v \in Worker : Responds(v, t)'}
      BY <2>3, <2>5, <2>11, <2>12 DEF OnePlace, InHandler
    <3>6. \A t \in Session : result'[t] # Null => Waits(t)'
      BY <2>3, <2>5, <2>11 DEF OnePlace
    <3>7. QED
      BY <3>1, <3>2, <3>3, <3>4, <3>5, <3>6 DEF OnePlace
  <2>14. SocketsAreTheirs'
    BY <2>3 DEF SessionInv, SocketsAreTheirs
  <2>15. OneAcceptor'
    <3>1. \A t \in Session : <<"accept", t>> \in pending' <=> <<"accept", t>> \in pending
      BY <2>3
    <3>2. \A v \in Worker : Accepted(v)' <=> Accepted(v)
      BY <2>2, <2>7 DEF Accepted
    <3>3. QED
      BY <2>3, <3>1, <3>2 DEF SessionInv, OneAcceptor
  <2>16. Frame(s)
    BY <2>3, <2>8, <2>10, <2>12 DEF Frame
  <2>17. Conversation(s)'
    <3>1. At(s, "write")'
      BY <2>6, <2>10, <2>13, WaitingIsAtNext
    <3>2. Connected(s)
      BY <2>5 DEF SessionInv, Conversation, BlankUntilConnected, InHandler, Operation
    <3>3. Connected(s)'
      BY <2>3, <3>2 DEF Connected
    <3>4. QED
      BY <2>8, <3>1, <3>3, ConversationOfWriting
  <2>18. QED
    BY <2>9, <2>13, <2>14, <2>15, <2>16, <2>17, OthersGoOn DEF SessionInv
<1>3. QED
  BY <1>1, <1>2

(* The session deletes itself and its socket. *)
LEMMA DeleteInvariant ==
  ASSUME SessionInv, NEW s \in Session, <<"write", s>> \in pending,
         pending' = pending \ {<<"write", s>>}, result' = [result EXCEPT ![s] = Null],
         Delete(s), UNCHANGED <<running, busy>>
  PROVE  SessionInv'
<1>1. /\ live' = live \ {s} /\ sockets' = sockets \ {socket_[s]}
      /\ socket_' = [socket_ EXCEPT ![s] = Null]
  BY DEF Delete
<1>2. /\ request_string_' = [request_string_ EXCEPT ![s] = 0]
      /\ request_body_' = [request_body_ EXCEPT ![s] = 0]
      /\ content_length_' = [content_length_ EXCEPT ![s] = 0]
      /\ response_' = [response_ EXCEPT ![s] = Null]
  BY DEF Delete
<1>3. /\ client' = [client EXCEPT ![s] = "none"] /\ request' = [request EXCEPT ![s] = Null]
      /\ sent' = [sent EXCEPT ![s] = 0] /\ read' = [read EXCEPT ![s] = 0]
  BY DEF Delete
<1>4. \A v \in Worker, t \in Session : Responds(v, t)' <=> Responds(v, t)
  BY DEF Responds
<1>5. "write" \in Operation
  BY DEF Operation
<1>6. /\ OnePlace' /\ Gone(s)' /\ result' \in [Session -> Result]
      /\ \A t \in Session \ {s} : result'[t] = result[t]
      /\ \A t \in Session \ {s}, p \in Operation : <<p, t>> \in pending' <=> <<p, t>> \in pending
  BY <1>1, <1>4, <1>5, Departs
<1>7. TypeOK'
  <2>1. /\ running' \in BOOLEAN /\ live' \subseteq Session /\ sockets' \subseteq Socket
        /\ pending' \subseteq Operation \X Session
        /\ socket_' \in [Session -> Socket \cup {Null}] /\ busy' \in [Worker -> Occupation]
    BY <1>1 DEF SessionInv, TypeOK
  <2>2. /\ request_string_' \in [Session -> Nat] /\ request_body_' \in [Session -> Nat]
        /\ content_length_' \in [Session -> Int]
        /\ response_' \in [Session -> {"400", "500", "handler", Null}]
    BY <1>2 DEF SessionInv, TypeOK
  <2>3. /\ client' \in [Session -> {"none", "open", "done", "reset"}]
        /\ request' \in [Session -> Request \cup {Null}]
        /\ sent' \in [Session -> Nat] /\ read' \in [Session -> Nat]
    BY <1>3 DEF SessionInv, TypeOK
  <2>4. QED
    BY <1>6, <2>1, <2>2, <2>3 DEF TypeOK
<1>8. SocketsAreTheirs'
  <2>1. s \in live
    BY <1>5, WaitingIsAt DEF At
  <2>2. \A t \in live \ {s} : socket_'[t] = socket_[t] /\ socket_[t] # socket_[s]
    BY <1>1, <2>1, Types DEF SessionInv, SocketsAreTheirs
  <2>3. QED
    BY <1>1, <2>2 DEF SessionInv, SocketsAreTheirs
<1>9. OneAcceptor'
  <2>1. \A t \in Session : <<"accept", t>> \in pending' <=> <<"accept", t>> \in pending
    OBVIOUS
  <2>2. QED
    BY <2>1 DEF SessionInv, OneAcceptor, Accepted
<1>10. Frame(s)
  <2>1. \A t \in Session \ {s} :
          /\ request_string_'[t] = request_string_[t] /\ request_body_'[t] = request_body_[t]
          /\ content_length_'[t] = content_length_[t] /\ response_'[t] = response_[t]
    BY <1>2, Types
  <2>2. \A t \in Session \ {s} :
          client'[t] = client[t] /\ request'[t] = request[t] /\ read'[t] = read[t]
    BY <1>3, Types
  <2>3. QED
    BY <1>1, <1>4, <1>6, <2>1, <2>2 DEF Frame
<1>11. Conversation(s)'
  <2>1. Blank(s)' /\ client'[s] = "none"
    BY <1>2, <1>3, Types DEF Blank
  <2>2. QED
    BY <1>6, <2>1, ConversationOfNobody
<1>12. QED
  BY <1>6, <1>7, <1>8, <1>9, <1>10, <1>11, OthersGoOn DEF SessionInv

-----------------------------------------------------------------------------
(* In the first state one session waits for a connection. *)
LEMMA InitInvariant == Init => SessionInv
<1> SUFFICES ASSUME Init PROVE SessionInv
  OBVIOUS
<1>1. PICK s \in Session, k \in Socket :
        /\ live = {s} /\ sockets = {k}
        /\ socket_ = [t \in Session |-> IF t = s THEN k ELSE Null]
        /\ pending = {<<"accept", s>>}
  BY DEF Init
<1>2. /\ running = TRUE /\ result = [t \in Session |-> Null] /\ busy = [w \in Worker |-> Idle]
  BY DEF Init
<1>3. /\ request_string_ = [t \in Session |-> 0] /\ request_body_ = [t \in Session |-> 0]
      /\ content_length_ = [t \in Session |-> 0] /\ response_ = [t \in Session |-> Null]
      /\ client = [t \in Session |-> "none"] /\ request = [t \in Session |-> Null]
      /\ sent = [t \in Session |-> 0] /\ read = [t \in Session |-> 0]
  BY DEF Init
<1>4. Idle \in Occupation /\ Null \in Result /\ Idle.at = "idle" /\ "accept" \in Operation
  BY DEF Idle, Occupation, Result, Operation
<1>5. TypeOK
  <2>1. <<"accept", s>> \in Operation \X Session
    BY <1>4
  <2>2. running \in BOOLEAN /\ live \subseteq Session /\ sockets \subseteq Socket
    BY <1>1, <1>2
  <2>3. socket_ \in [Session -> Socket \cup {Null}] /\ pending \subseteq Operation \X Session
    BY <1>1, <2>1
  <2>4. result \in [Session -> Result] /\ busy \in [Worker -> Occupation]
    BY <1>2, <1>4
  <2>5. /\ request_string_ \in [Session -> Nat] /\ request_body_ \in [Session -> Nat]
        /\ content_length_ \in [Session -> Int]
        /\ response_ \in [Session -> {"400", "500", "handler", Null}]
    BY <1>3
  <2>6. /\ client \in [Session -> {"none", "open", "done", "reset"}]
        /\ request \in [Session -> Request \cup {Null}]
        /\ sent \in [Session -> Nat] /\ read \in [Session -> Nat]
    BY <1>3
  <2>7. QED
    BY <2>2, <2>3, <2>4, <2>5, <2>6 DEF TypeOK
<1>6. \A w \in Worker : busy[w].at = "idle"
  BY <1>2, <1>4
<1>7. \A t \in Session : Waits(t) <=> t = s
  BY <1>1, <1>4 DEF Waits
<1>8. OnePlace
  BY <1>1, <1>2, <1>6, <1>7 DEF OnePlace, Responds
<1>9. SocketsAreTheirs
  BY <1>1 DEF SocketsAreTheirs
<1>10. OneAcceptor
  BY <1>1, <1>6 DEF OneAcceptor, Accepted
<1>11. \A t \in Session : Conversation(t)
  <2> TAKE t \in Session
  <2>1. Blank(t) /\ client[t] = "none" /\ result[t] = Null
    BY <1>2, <1>3 DEF Blank
  <2>2. \A o \in {"header", "body", "write"} : <<o, t>> \notin pending
    BY <1>1
  <2>3. \A w \in Worker : ~Responds(w, t)
    BY <1>6 DEF Responds
  <2>4. t \in live => <<"accept", t>> \in pending
    BY <1>1
  <2>5. QED
    BY <2>1, <2>2, <2>3, <2>4 DEF Conversation, BlankUntilConnected, HeaderIsWhatWasRead,
         BodyIsTheRest, PassedOnIsComplete, AnsweredIsWritten, Blank
<1>12. QED
  BY <1>5, <1>8, <1>9, <1>10, <1>11 DEF SessionInv

(* Nothing happens. *)
LEMMA StutterInvariant == SessionInv /\ UNCHANGED vars => SessionInv'
<1> SUFFICES ASSUME SessionInv, UNCHANGED vars PROVE SessionInv'
  OBVIOUS
<1>1. /\ UNCHANGED <<running, live, sockets, socket_, pending, busy, result>>
      /\ UNCHANGED <<request_string_, request_body_, content_length_, response_>>
      /\ UNCHANGED <<client, request, sent, read>>
  BY DEF vars, conversation, peer
<1>2. TypeOK'
  BY <1>1 DEF SessionInv, TypeOK
<1>3. OnePlace' /\ SocketsAreTheirs' /\ OneAcceptor'
  BY <1>1, AllStay
<1>4. \A s \in Session : Conversation(s)'
  BY <1>1 DEF SessionInv, Conversation, BlankUntilConnected, HeaderIsWhatWasRead, BodyIsTheRest,
       PassedOnIsComplete, AnsweredIsWritten, Blank, Connected, Got, Responds
<1>5. QED
  BY <1>2, <1>3, <1>4 DEF SessionInv

(* handle_accept and handle_write: one lemma above for each outcome. *)
LEMMA HandleInvariant ==
  ASSUME SessionInv, NEW s \in Session, Handle(s)
  PROVE  SessionInv'
<1>1. ASSUME NEW w \in Worker, handle_accept(w, s) PROVE SessionInv'
  <2>1. /\ Callback(w, "accept", s)
        /\ busy' = [busy EXCEPT ![w] = [at |-> "accepted", session |-> Null]]
        /\ UNCHANGED <<running, sockets, conversation, peer>>
    BY <1>1 DEF handle_accept
  <2>2. CASE result[s] # Error /\ Restart("accept", s, "header") /\ UNCHANGED <<live, socket_>>
    BY <2>1, <2>2, AcceptInvariant
  <2>3. CASE /\ result[s] = Error
             /\ live' = live \ {s} /\ socket_' = [socket_ EXCEPT ![s] = Null]
             /\ pending' = pending \ {<<"accept", s>>} /\ result' = [result EXCEPT ![s] = Null]
    BY <2>1, <2>3, AcceptFailsInvariant
  <2>4. QED
    BY <1>1, <2>2, <2>3 DEF handle_accept
<1>2. ASSUME NEW w \in Worker, handle_write(w, s) PROVE SessionInv'
  <2>1. <<"write", s>> \in pending
    BY <1>2 DEF handle_write, Callback
  <2>2. CASE Terminate
    BY <2>2, TerminateInvariant
  <2>3. CASE /\ pending' = pending \ {<<"write", s>>} /\ result' = [result EXCEPT ![s] = Null]
             /\ Delete(s) /\ UNCHANGED <<running, busy>>
    BY <2>1, <2>3, DeleteInvariant
  <2>4. QED
    BY <1>2, <2>2, <2>3 DEF handle_write
<1>3. QED
  BY <1>1, <1>2, HeaderOnInvariant, HeaderDoneInvariant, BodyInvariant, ReadErrorInvariant DEF Handle

(* Every step of the server keeps the invariant. *)
LEMMA NextInvariant == SessionInv /\ Next => SessionInv'
<1> SUFFICES ASSUME SessionInv, Next PROVE SessionInv'
  OBVIOUS
<1>1. CASE Client
  BY <1>1, SendInvariant, LeaveInvariant, ConnectInvariant DEF Client
<1>2. ASSUME NEW s \in Session, Network(s) PROVE SessionInv'
  BY <1>2, ReadInvariant, ReadFailsInvariant, WriteInvariant DEF Network
<1>3. CASE interrupt_handler
  BY <1>3, TerminateInvariant DEF interrupt_handler
<1>4. QED
  BY <1>1, <1>2, <1>3, ConnectFailsInvariant, HandleInvariant, StartInvariant, RespondInvariant DEF Next

(* The invariant holds. *)
THEOREM Invariance == Spec => []SessionInv
<1>1. Init => SessionInv
  BY InitInvariant
<1>2. SessionInv /\ [Next]_vars => SessionInv'
  BY NextInvariant, StutterInvariant
<1>3. QED
  BY <1>1, <1>2, PTL DEF Spec

(* Every variable keeps its type. *)
THEOREM TypeCorrect == Spec => []TypeOK
<1>1. SessionInv => TypeOK
  BY DEF SessionInv
<1>2. QED
  BY <1>1, Invariance, PTL

-----------------------------------------------------------------------------
(* A session that exists is awaited or handled exactly once. *)
THEOREM Operations == Spec => []OneOperation
<1>1. SessionInv => OneOperation
  <2> SUFFICES ASSUME SessionInv PROVE OneOperation
    OBVIOUS
  <2>1. OnePlace /\ SocketsAreTheirs
    BY DEF SessionInv
  <2>2. ASSUME NEW s \in Session
        PROVE  Cardinality({o \in Operation : <<o, s>> \in pending}) + Cardinality(RunningFor(s))
                 = IF s \in live THEN 1 ELSE 0
    <3> DEFINE waiting == {o \in Operation : <<o, s>> \in pending}
    <3>1. Cardinality(waiting) = IF waiting = {} THEN 0 ELSE 1
      <4>1. \A o, p \in waiting : o = p
        BY <2>1 DEF OnePlace
      <4>2. QED
        BY <4>1, AtMostOne
    <3>2. Cardinality(RunningFor(s)) = IF RunningFor(s) = {} THEN 0 ELSE 1
      <4>1. \A w, v \in RunningFor(s) : w = v
        BY <2>1 DEF OnePlace, RunningFor, Responds
      <4>2. QED
        BY <4>1, AtMostOne
    <3>3. /\ waiting # {} <=> Waits(s)
          /\ RunningFor(s) # {} <=> \E w \in Worker : Responds(w, s)
      BY DEF Waits, RunningFor, Responds
    <3>4. s \in live <=> waiting # {} \/ RunningFor(s) # {}
      BY <2>1, <3>3 DEF OnePlace
    <3>5. waiting = {} \/ RunningFor(s) = {}
      BY <2>1, <3>3 DEF OnePlace
    <3> HIDE DEF waiting
    <3>6. Cardinality(waiting) + Cardinality(RunningFor(s)) = IF s \in live THEN 1 ELSE 0
      BY <3>1, <3>2, <3>4, <3>5
    <3>7. QED
      BY <3>6 DEF waiting
  <2>3. QED
    BY <2>1, <2>2 DEF OneOperation, SocketsAreTheirs
<1>2. QED
  BY <1>1, Invariance, PTL

(* The server never stops accepting, and never accepts twice at a time. *)
THEOREM Accepting == Spec => []AlwaysAccepting
<1>1. SessionInv => AlwaysAccepting
  <2> SUFFICES ASSUME SessionInv, running
               PROVE  Cardinality({s \in Session : <<"accept", s>> \in pending})
                        + Cardinality({w \in Worker : busy[w].at = "accepted"}) = 1
    BY DEF AlwaysAccepting
  <2> DEFINE listening == {s \in Session : <<"accept", s>> \in pending}
             accepting == {w \in Worker : busy[w].at = "accepted"}
  <2>1. OneAcceptor
    BY DEF SessionInv
  <2>2. Cardinality(listening) = IF listening = {} THEN 0 ELSE 1
    <3>1. \A s, t \in listening : s = t
      BY <2>1 DEF OneAcceptor
    <3>2. QED
      BY <3>1, AtMostOne
  <2>3. Cardinality(accepting) = IF accepting = {} THEN 0 ELSE 1
    <3>1. \A w, v \in accepting : w = v
      BY <2>1 DEF OneAcceptor, Accepted
    <3>2. QED
      BY <3>1, AtMostOne
  <2>4. listening = {} \/ accepting = {}
    BY <2>1 DEF OneAcceptor, Accepted
  <2>5. listening # {} \/ accepting # {}
    BY <2>1 DEF OneAcceptor, Accepted
  <2> HIDE DEF listening, accepting
  <2>6. Cardinality(listening) + Cardinality(accepting) = 1
    BY <2>2, <2>3, <2>4, <2>5
  <2>7. QED
    BY <2>6 DEF listening, accepting
<1>2. QED
  BY <1>1, Invariance, PTL

(* No byte of a body is lost or read twice. *)
THEOREM Bodies == Spec => []BodyIsExact
<1>1. SessionInv => BodyIsExact
  <2> SUFFICES ASSUME SessionInv, NEW s \in live
               PROVE  /\ RunningFor(s) # {} \/ (<<"body", s>> \in pending /\ result[s] = Null)
                           => request_body_[s] = read[s] - request[s].header
                      /\ RunningFor(s) # {} /\ request[s].method \in {"POST", "PUT"} =>
                           (get_header(request[s], "Content-Length") \in Int =>
                              read[s] - request[s].header >= get_header(request[s], "Content-Length"))
    BY DEF BodyIsExact
  <2>1. s \in Session /\ request_body_[s] \in Nat
    BY Types
  <2>2. CASE RunningFor(s) # {}
    <3>1. \E w \in Worker : Responds(w, s)
      BY <2>2 DEF RunningFor, Responds
    <3>2. /\ request_body_[s] = read[s] - request[s].header
          /\ request[s].method \in {"POST", "PUT"} /\ get_header(request[s], "Content-Length") \in Int
               => get_header(request[s], "Content-Length") <= request_body_[s]
      BY <2>1, <3>1 DEF SessionInv, Conversation, PassedOnIsComplete
    <3>3. QED
      BY <2>1, <2>2, <3>2
  <2>3. CASE <<"body", s>> \in pending /\ result[s] = Null
    <3>1. request_body_[s] + Got(s) = read[s] - request[s].header /\ Got(s) = 0
      BY <2>1, <2>3, BodyFacts DEF Got
    <3>2. request_body_[s] = read[s] - request[s].header
      BY <2>1, <3>1
    <3>3. CASE RunningFor(s) = {}
      BY <3>2, <3>3
    <3>4. QED
      BY <2>2, <3>3
  <2>4. QED
    BY <2>2, <2>3
<1>2. QED
  BY <1>1, Invariance, PTL

-----------------------------------------------------------------------------
(* The server keeps the promises of Connection: every step of Session is a    *)
(* step of Connection or changes nothing that Connection knows of.  The phase *)
(* of a session follows from the place where it is, which SessionInv says is  *)
(* only one.                                                                  *)

(* Where a session is decides its phase. *)
LEMMA PhaseOf ==
  ASSUME SessionInv, NEW s \in Session
  PROVE  /\ Gone(s) => phase[s] = "none"
         /\ At(s, "accept") => phase[s] = "listening"
         /\ At(s, "header") \/ At(s, "body") \/ InHandler(s) => phase[s] = "open"
         /\ At(s, "write") => phase[s] = "answered"
<1>1. /\ response_[s] # Null <=> <<"write", s>> \in pending
  BY DEF SessionInv, Conversation, AnsweredIsWritten
<1>2. phase[s] = CASE s \notin live -> "none"
                   [] <<"accept", s>> \in pending -> "listening"
                   [] response_[s] # Null -> "answered"
                   [] OTHER -> "open"
  BY DEF phase
<1>3. Gone(s) => phase[s] = "none"
  BY <1>1, <1>2 DEF Gone, Operation
<1>4. ASSUME NEW o \in Operation, At(s, o)
      PROVE  /\ s \in live /\ (<<"accept", s>> \in pending <=> o = "accept")
             /\ response_[s] # Null <=> o = "write"
  BY <1>1, <1>4 DEF At, Operation
<1>5. At(s, "accept") => phase[s] = "listening"
  BY <1>2, <1>4 DEF Operation
<1>6. At(s, "write") => phase[s] = "answered"
  BY <1>2, <1>4 DEF Operation
<1>7. At(s, "header") \/ At(s, "body") => phase[s] = "open"
  BY <1>2, <1>4 DEF Operation
<1>8. InHandler(s) => phase[s] = "open"
  BY <1>1, <1>2 DEF InHandler, Operation
<1>9. QED
  BY <1>3, <1>5, <1>6, <1>7, <1>8

(* The same in the next state. *)
LEMMA PhaseOfNext ==
  ASSUME SessionInv', NEW s \in Session
  PROVE  /\ Gone(s)' => phase'[s] = "none"
         /\ At(s, "accept")' => phase'[s] = "listening"
         /\ At(s, "header")' \/ At(s, "body")' \/ InHandler(s)' => phase'[s] = "open"
         /\ At(s, "write")' => phase'[s] = "answered"
<1>1. /\ response_'[s] # Null <=> <<"write", s>> \in pending'
  BY DEF SessionInv, Conversation, AnsweredIsWritten
<1>2. phase'[s] = CASE s \notin live' -> "none"
                   [] <<"accept", s>> \in pending' -> "listening"
                   [] response_'[s] # Null -> "answered"
                   [] OTHER -> "open"
  BY DEF phase
<1>3. Gone(s)' => phase'[s] = "none"
  BY <1>1, <1>2 DEF Gone, Operation
<1>4. ASSUME NEW o \in Operation, At(s, o)'
      PROVE  /\ s \in live' /\ (<<"accept", s>> \in pending' <=> o = "accept")
             /\ response_'[s] # Null <=> o = "write"
  BY <1>1, <1>4 DEF At, Operation
<1>5. At(s, "accept")' => phase'[s] = "listening"
  BY <1>2, <1>4 DEF Operation
<1>6. At(s, "write")' => phase'[s] = "answered"
  BY <1>2, <1>4 DEF Operation
<1>7. At(s, "header")' \/ At(s, "body")' => phase'[s] = "open"
  BY <1>2, <1>4 DEF Operation
<1>8. InHandler(s)' => phase'[s] = "open"
  BY <1>1, <1>2 DEF InHandler, Operation
<1>9. QED
  BY <1>3, <1>5, <1>6, <1>7, <1>8

(* What an action leaves alone keeps its phase. *)
LEMMA PhaseStays ==
  ASSUME NEW t \in Session, t \in live' <=> t \in live,
         <<"accept", t>> \in pending' <=> <<"accept", t>> \in pending, response_'[t] = response_[t]
  PROVE  phase'[t] = phase[t]
  BY DEF phase

(* phase has a value for every session. *)
LEMMA PhaseIsFunction ==
  /\ phase = [t \in Session |-> phase[t]] /\ phase' = [t \in Session |-> phase'[t]]
  BY DEF phase

(* One session changes its phase. *)
LEMMA PhaseChanges ==
  ASSUME NEW s \in Session, NEW p, phase'[s] = p,
         \A t \in Session \ {s} :
           /\ t \in live' <=> t \in live
           /\ <<"accept", t>> \in pending' <=> <<"accept", t>> \in pending
           /\ response_'[t] = response_[t]
  PROVE  phase' = [phase EXCEPT ![s] = p]
<1>1. \A t \in Session \ {s} : phase'[t] = phase[t]
  BY PhaseStays
<1>2. QED
  BY <1>1, PhaseIsFunction

(* None does. *)
LEMMA PhasesStay ==
  ASSUME \A t \in Session :
           /\ t \in live' <=> t \in live
           /\ <<"accept", t>> \in pending' <=> <<"accept", t>> \in pending
           /\ response_'[t] = response_[t]
  PROVE  phase' = phase
<1>1. \A t \in Session : phase'[t] = phase[t]
  BY PhaseStays
<1>2. QED
  BY <1>1, PhaseIsFunction

(* A session that exists is in one of the places. *)
LEMMA GoneOrSomewhere ==
  ASSUME SessionInv, NEW s \in Session
  PROVE  /\ s \notin live => Gone(s)
         /\ Gone(s) \/ InHandler(s) \/ \E o \in Operation : At(s, o)
<1>1. OnePlace
  BY DEF SessionInv
<1>2. s \notin live => Gone(s)
  BY <1>1 DEF OnePlace, Gone, Waits
<1>3. s \in live => InHandler(s) \/ \E o \in Operation : At(s, o)
  BY <1>1, WaitingIsAt, RespondingIsInHandler DEF OnePlace, Waits
<1>4. QED
  BY <1>2, <1>3

(* One that does not exist any more is in none. *)
LEMMA GoneNext ==
  ASSUME SessionInv', NEW s \in Session, s \notin live'
  PROVE  Gone(s)'
<1>1. OnePlace'
  BY DEF SessionInv
<1>2. QED
  BY <1>1 DEF OnePlace, Gone, Waits

(* The server begins by listening. *)
LEMMA InitSimulation == Init => Promise!Init
<1> SUFFICES ASSUME Init PROVE Promise!Init
  OBVIOUS
<1>1. PICK s \in Session : live = {s} /\ pending = {<<"accept", s>>}
  BY DEF Init
<1>2. SessionInv
  BY InitInvariant
<1>3. phase[s] = "listening"
  BY <1>1, <1>2, AcceptingFacts, PhaseOf
<1>4. \A t \in Session \ {s} : phase[t] = "none"
  BY <1>1, <1>2, GoneOrSomewhere, PhaseOf
<1>5. phase = [t \in Session |-> IF t = s THEN "listening" ELSE "none"]
  BY <1>3, <1>4, PhaseIsFunction
<1>6. running = TRUE /\ client = [t \in Session |-> "none"] /\ response_ = [t \in Session |-> Null]
  BY DEF Init
<1>7. QED
  BY <1>5, <1>6 DEF Promise!Init

(* The end of the process may come at any moment. *)
LEMMA TerminateSimulation ==
  ASSUME SessionInv, SessionInv', Terminate
  PROVE  Promise!End
<1>1. /\ running' = FALSE /\ live' = {} /\ client' = [s \in Session |-> "none"]
      /\ response_' = [s \in Session |-> Null]
  BY DEF Terminate
<1>2. \A s \in Session : phase'[s] = "none"
  BY <1>1, GoneNext, PhaseOfNext
<1>3. phase' = [s \in Session |-> "none"]
  BY <1>2, PhaseIsFunction
<1>4. QED
  BY <1>1, <1>3 DEF Promise!End

(* What clients do. *)
LEMMA ClientSimulation ==
  ASSUME SessionInv, SessionInv', running, Client
  PROVE  Promise!Next \/ UNCHANGED Promise!vars
<1>1. UNCHANGED <<running, live, pending, response_>>
  BY DEF Client, Send, Leave, Connect, conversation
<1>2. phase' = phase
  BY <1>1, PhasesStay
<1>3. ASSUME NEW s \in Session, Send(s) PROVE UNCHANGED Promise!vars
  BY <1>1, <1>2, <1>3 DEF Send, Promise!vars
<1>4. ASSUME NEW s \in Session, NEW how \in {"done", "reset"}, Leave(s, how) PROVE Promise!Next
  <2>1. Promise!Leave(s, how)
    BY <1>1, <1>2, <1>4 DEF Leave, Promise!Leave
  <2>2. QED
    BY <2>1 DEF Promise!Next
<1>5. ASSUME NEW s \in Session, NEW r \in Request, Connect(s, r) PROVE Promise!Next
  <2>1. /\ <<"accept", s>> \in pending /\ result[s] = Null
        /\ client' = [client EXCEPT ![s] = "open"]
    BY <1>5 DEF Connect
  <2>2. phase[s] = "listening" /\ client[s] = "none"
    BY <2>1, AcceptingFacts, PhaseOf
  <2>3. Promise!Connect(s)
    BY <1>1, <1>2, <2>1, <2>2 DEF Promise!Connect
  <2>4. QED
    BY <2>3 DEF Promise!Next
<1>6. QED
  BY <1>3, <1>4, <1>5 DEF Client

(* An operation that ends is no news to the client. *)
LEMMA CompleteSimulation ==
  ASSUME NEW s \in Session, ConnectFails(s) \/ Network(s)
  PROVE  UNCHANGED Promise!vars
<1>1. UNCHANGED <<running, live, pending, response_, client>>
  BY DEF ConnectFails, Network, Read, ReadFails, Write, Complete, conversation
<1>2. phase' = phase
  BY <1>1, PhasesStay
<1>3. QED
  BY <1>1, <1>2 DEF Promise!vars

(* A connection is accepted or refused, ... *)
LEMMA AcceptSimulation ==
  ASSUME SessionInv, SessionInv', NEW w \in Worker, NEW s \in Session, handle_accept(w, s)
  PROVE  Promise!Accept(s) \/ Promise!Refuse(s)
<1>1. /\ <<"accept", s>> \in pending /\ result[s] # Null
      /\ UNCHANGED <<running, response_, client>>
  BY DEF handle_accept, Callback, conversation, peer
<1>2. phase[s] = "listening"
  BY <1>1, AcceptingFacts, PhaseOf
<1>3. CASE result[s] # Error
  <2>1. /\ pending' = (pending \ {<<"accept", s>>}) \cup {<<"header", s>>}
        /\ UNCHANGED live
    BY <1>3 DEF handle_accept, Restart
  <2>2. At(s, "header")'
    BY <2>1, WaitingIsAtNext DEF SessionInv, Operation
  <2>3. phase'[s] = "open"
    BY <2>2, PhaseOfNext
  <2>4. phase' = [phase EXCEPT ![s] = "open"]
    BY <1>1, <2>1, <2>3, PhaseChanges
  <2>5. client[s] # "none"
    BY <1>1, <1>3, AcceptingFacts DEF Connected
  <2>6. QED
    BY <1>1, <1>2, <2>4, <2>5 DEF Promise!Accept
<1>4. CASE result[s] = Error
  <2>1. live' = live \ {s} /\ pending' = pending \ {<<"accept", s>>}
    BY <1>4 DEF handle_accept
  <2>2. phase'[s] = "none"
    BY <2>1, GoneNext, PhaseOfNext
  <2>3. phase' = [phase EXCEPT ![s] = "none"]
    BY <1>1, <2>1, <2>2, PhaseChanges
  <2>4. client[s] = "none"
    BY <1>1, <1>4, AcceptingFacts
  <2>5. QED
    BY <1>1, <1>2, <2>3, <2>4 DEF Promise!Refuse
<1>5. QED
  BY <1>3, <1>4

(* ... and the server listens again, when no session does. *)
LEMMA ListenSimulation ==
  ASSUME SessionInv, SessionInv', NEW w \in Worker, NEW s \in Session, NEW k \in Socket,
         start_accept(w, s, k)
  PROVE  Promise!Listen(s)
<1>1. /\ Accepted(w) /\ s \notin live /\ live' = live \cup {s}
      /\ pending' = pending \cup {<<"accept", s>>}
      /\ UNCHANGED <<running, response_, client>>
  BY DEF start_accept, conversation, peer, Accepted
<1>2. phase[s] = "none"
  BY <1>1, GoneOrSomewhere, PhaseOf
<1>3. \A t \in Session : phase[t] # "listening"
  <2> TAKE t \in Session
  <2>1. <<"accept", t>> \notin pending
    BY <1>1 DEF SessionInv, OneAcceptor
  <2>2. ~At(t, "accept")
    BY <2>1 DEF At, Operation
  <2>3. Gone(t) \/ InHandler(t) \/ At(t, "header") \/ At(t, "body") \/ At(t, "write")
    BY <2>2, GoneOrSomewhere DEF Operation
  <2>4. QED
    BY <2>3, PhaseOf
<1>4. At(s, "accept")'
  BY <1>1, WaitingIsAtNext DEF SessionInv, Operation
<1>5. phase'[s] = "listening"
  BY <1>4, PhaseOfNext
<1>6. phase' = [phase EXCEPT ![s] = "listening"]
  BY <1>1, <1>5, PhaseChanges
<1>7. QED
  BY <1>1, <1>2, <1>3, <1>6 DEF Promise!Listen

(* Reading goes on or a handler is called: the client cannot tell. *)
LEMMA ReadOnSimulation ==
  ASSUME NEW s \in Session, NEW w \in Worker, NEW o \in {"header", "body"}, NEW n \in {"header", "body"},
         ReadOn(o, s, n) \/ Dispatch(w, o, s)
  PROVE  UNCHANGED Promise!vars
<1>1. UNCHANGED <<running, live, response_, client>>
  BY DEF ReadOn, Dispatch, peer
<1>2. pending' = (pending \ {<<o, s>>}) \cup {<<n, s>>} \/ pending' = pending \ {<<o, s>>}
  BY DEF ReadOn, Restart, Dispatch
<1>3. \A t \in Session : <<"accept", t>> \in pending' <=> <<"accept", t>> \in pending
  BY <1>2
<1>4. phase' = phase
  BY <1>1, <1>3, PhasesStay
<1>5. QED
  BY <1>1, <1>4 DEF Promise!vars

(* The session or a handler answers a session that reads or is handled. *)
LEMMA AnswerSimulation ==
  ASSUME SessionInv, SessionInv', NEW s \in Session, NEW c \in Promise!Code, phase[s] = "open",
         c = "500" => client[s] # "open", response_' = [response_ EXCEPT ![s] = c],
         UNCHANGED <<running, live, client>>, <<"write", s>> \in pending',
         \A t \in Session \ {s} : <<"accept", t>> \in pending' <=> <<"accept", t>> \in pending
  PROVE  Promise!Answer(s, c)
<1>1. At(s, "write")'
  BY WaitingIsAtNext DEF SessionInv, Operation
<1>2. phase'[s] = "answered"
  BY <1>1, PhaseOfNext
<1>3. \A t \in Session \ {s} : response_'[t] = response_[t]
  BY Types
<1>4. phase' = [phase EXCEPT ![s] = "answered"]
  BY <1>2, <1>3, PhaseChanges
<1>5. QED
  BY <1>4 DEF Promise!Answer

(* An answer of the session: 400, or 500 to a client that is gone. *)
LEMMA OwnAnswerSimulation ==
  ASSUME SessionInv, SessionInv', NEW s \in Session, NEW o \in {"header", "body"},
         NEW c \in {"400", "500"}, <<o, s>> \in pending, Answer(o, s, c), c = "500" => client[s] # "open"
  PROVE  Promise!Answer(s, c)
<1>1. /\ response_' = [response_ EXCEPT ![s] = c]
      /\ pending' = (pending \ {<<o, s>>}) \cup {<<"write", s>>}
      /\ UNCHANGED <<running, live, client>>
  BY DEF Answer, Restart, peer
<1>2. phase[s] = "open"
  BY HeaderFacts, BodyFacts, PhaseOf
<1>3. c \in Promise!Code
  BY DEF Promise!Code
<1>4. \A t \in Session \ {s} : <<"accept", t>> \in pending' <=> <<"accept", t>> \in pending
  BY <1>1
<1>5. QED
  BY <1>1, <1>2, <1>3, <1>4, AnswerSimulation

(* An answer of the handler, or the end of the process. *)
LEMMA RespondSimulation ==
  ASSUME SessionInv, SessionInv', NEW w \in Worker, respond_to_request(w)
  PROVE  Promise!End \/ \E s \in Session, c \in Promise!Code : Promise!Answer(s, c)
<1>1. CASE Terminate
  BY <1>1, TerminateSimulation
<1>2. CASE ~Terminate
  <2>1. PICK s \in Session : s = busy[w].session
    BY Types DEF respond_to_request, SessionInv, OnePlace
  <2>2. PICK c \in {"400", "handler"} :
          /\ response_' = [response_ EXCEPT ![s] = c]
          /\ pending' = pending \cup {<<"write", s>>}
          /\ UNCHANGED <<running, live, client>>
    BY <1>2, <2>1 DEF respond_to_request, peer
  <2>3. InHandler(s)
    BY <2>1, RespondingIsInHandler DEF respond_to_request, Responds
  <2>4. phase[s] = "open"
    BY <2>3, PhaseOf
  <2>5. c \in Promise!Code /\ c # "500"
    BY DEF Promise!Code
  <2>6. \A t \in Session \ {s} : <<"accept", t>> \in pending' <=> <<"accept", t>> \in pending
    BY <2>2
  <2>7. <<"write", s>> \in pending'
    BY <2>2
  <2>8. Promise!Answer(s, c)
    BY <2>2, <2>4, <2>5, <2>6, <2>7, AnswerSimulation
  <2>9. QED
    BY <2>5, <2>8
<1>3. QED
  BY <1>1, <1>2

(* A session that was answered is closed. *)
LEMMA CloseSimulation ==
  ASSUME SessionInv, SessionInv', NEW w \in Worker, NEW s \in Session, handle_write(w, s)
  PROVE  Promise!End \/ Promise!Close(s)
<1>1. CASE Terminate
  BY <1>1, TerminateSimulation
<1>2. CASE ~Terminate
  <2>1. /\ <<"write", s>> \in pending /\ pending' = pending \ {<<"write", s>>}
        /\ live' = live \ {s} /\ response_' = [response_ EXCEPT ![s] = Null]
        /\ client' = [client EXCEPT ![s] = "none"] /\ UNCHANGED running
    BY <1>2 DEF handle_write, Callback, Delete
  <2>2. phase[s] = "answered"
    BY <2>1, WritingFacts, PhaseOf
  <2>3. phase'[s] = "none"
    BY <2>1, GoneNext, PhaseOfNext
  <2>4. \A t \in Session \ {s} : response_'[t] = response_[t]
    BY <2>1, Types
  <2>5. phase' = [phase EXCEPT ![s] = "none"]
    BY <2>1, <2>3, <2>4, PhaseChanges
  <2>6. QED
    BY <2>1, <2>2, <2>5 DEF Promise!Close
<1>3. QED
  BY <1>1, <1>2

(* Each callback is a step of Connection, or none that it sees. *)
LEMMA HandleSimulation ==
  ASSUME SessionInv, SessionInv', running, NEW s \in Session, Handle(s)
  PROVE  Promise!Next \/ UNCHANGED Promise!vars
<1>1. PICK w \in Worker :
        \/ handle_accept(w, s)
        \/ read_header_on(w, s) \/ read_header_done(w, s) \/ handle_read_body(w, s)
        \/ \E o \in Operation : read_error(w, o, s)
        \/ handle_write(w, s)
  BY DEF Handle
<1>2. CASE handle_accept(w, s)
  BY <1>2, AcceptSimulation DEF Promise!Next
<1>3. CASE read_header_on(w, s)
  BY <1>3, ReadOnSimulation DEF read_header_on
<1>4. CASE read_header_done(w, s)
  <2>1. <<"header", s>> \in pending
    BY <1>4 DEF read_header_done, Callback
  <2>2. \/ Terminate \/ Answer("header", s, "400")
        \/ Dispatch(w, "header", s) \/ ReadOn("header", s, "body")
    BY <1>4 DEF read_header_done
  <2>3. CASE Terminate
    BY <2>3, TerminateSimulation DEF Promise!Next
  <2>4. CASE Answer("header", s, "400")
    <3>1. Promise!Answer(s, "400")
      BY <2>1, <2>4, OwnAnswerSimulation
    <3>2. QED
      BY <3>1 DEF Promise!Next, Promise!Code
  <2>5. CASE Dispatch(w, "header", s) \/ ReadOn("header", s, "body")
    BY <2>5, ReadOnSimulation
  <2>6. QED
    BY <2>2, <2>3, <2>4, <2>5
<1>5. CASE handle_read_body(w, s)
  BY <1>5, ReadOnSimulation DEF handle_read_body
<1>6. ASSUME NEW o \in Operation, read_error(w, o, s) PROVE Promise!Next
  <2>1. o \in {"header", "body"} /\ <<o, s>> \in pending /\ result[s] = Error /\ Answer(o, s, "500")
    BY <1>6 DEF read_error, Callback
  <2>2. client[s] # "open"
    BY <2>1, HeaderFacts, BodyFacts
  <2>3. Promise!Answer(s, "500")
    BY <2>1, <2>2, OwnAnswerSimulation
  <2>4. QED
    BY <2>3 DEF Promise!Next, Promise!Code
<1>7. CASE handle_write(w, s)
  BY <1>7, CloseSimulation DEF Promise!Next
<1>8. QED
  BY <1>1, <1>2, <1>3, <1>4, <1>5, <1>6, <1>7

(* The server keeps the promises of Connection. *)
THEOREM Refinement == Spec => Promises
<1>1. Init => Promise!Init
  BY InitSimulation
<1>2. SessionInv /\ SessionInv' /\ [Next]_vars => [Promise!Next]_Promise!vars
  <2> SUFFICES ASSUME SessionInv, SessionInv', [Next]_vars
               PROVE  Promise!Next \/ UNCHANGED Promise!vars
    OBVIOUS
  <2>1. CASE Next
    <3>1. running
      BY <2>1 DEF Next
    <3>2. CASE Client
      BY <3>1, <3>2, ClientSimulation
    <3>3. ASSUME NEW s \in Session, ConnectFails(s) \/ Network(s) PROVE UNCHANGED Promise!vars
      BY <3>3, CompleteSimulation
    <3>4. ASSUME NEW s \in Session, Handle(s) PROVE Promise!Next \/ UNCHANGED Promise!vars
      BY <3>1, <3>4, HandleSimulation
    <3>5. ASSUME NEW w \in Worker, NEW s \in Session, NEW k \in Socket, start_accept(w, s, k)
          PROVE  Promise!Next
      BY <3>1, <3>5, ListenSimulation DEF Promise!Next
    <3>6. ASSUME NEW w \in Worker, respond_to_request(w) PROVE Promise!Next
      BY <3>1, <3>6, RespondSimulation DEF Promise!Next
    <3>7. CASE interrupt_handler
      BY <3>1, <3>7, TerminateSimulation DEF Promise!Next, interrupt_handler
    <3>8. QED
      BY <2>1, <3>2, <3>3, <3>4, <3>5, <3>6, <3>7 DEF Next
  <2>2. CASE UNCHANGED vars
    <3>1. UNCHANGED <<running, live, pending, response_, client>>
      BY <2>2 DEF vars, conversation, peer
    <3>2. phase' = phase
      BY <3>1, PhasesStay
    <3>3. QED
      BY <3>1, <3>2 DEF Promise!vars
  <2>3. QED
    BY <2>1, <2>2
<1>3. QED
  BY <1>1, <1>2, Invariance, PTL DEF Spec, Promises, Promise!Spec
=============================================================================
