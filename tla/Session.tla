------------------------------ MODULE Session ------------------------------
(***************************************************************************)
(* The server's connections: server, which accepts them                    *)
(* (src/src/server.cc), session, which reads a request in pieces, has it   *)
(* answered and deletes itself (src/src/session.cc), the parser it uses    *)
(* for the header (src/src/http_request_parser.cc), and the worker threads *)
(* of the io_service, which run their callbacks.                           *)
(*                                                                         *)
(* Text is represented by its length: a request is a header of so many     *)
(* bytes, blank line included, and the bytes the client sends after it.    *)
(* Sessions and sockets are heap objects, whose addresses are reused.      *)
(***************************************************************************)
EXTENDS FiniteSets, Integers, Sequences

CONSTANTS
  Session,      \* bound: the addresses at which sessions are allocated
  Socket,       \* bound: the addresses at which sockets are allocated
  Worker,       \* the threads that run the io_service
  Request,      \* the requests that clients send
  max_length,   \* the size of buffer_
  MaxFailures,  \* bound: accepts that fail
  NotNumber,    \* the value of a header field that stoi refuses
  TooLarge,     \* the value of a header field that int cannot hold
  Null          \* nothing

Field == [colon : BOOLEAN, name : {"Content-Length", "content-length", "Host"},
          value : Int \cup {NotNumber, TooLarge}]

ASSUME SessionAssumption ==
  /\ IsFiniteSet(Session) /\ IsFiniteSet(Socket)
  /\ max_length \in Nat \ {0} /\ MaxFailures \in Nat
  /\ Cardinality(Socket) >= Cardinality(Session) + MaxFailures
  /\ Session # {} /\ Null \notin Session \cup Socket \cup Int \cup {"400", "500", "handler"}
  /\ \A r \in Request :
       /\ DOMAIN r = {"words", "method", "fields", "header", "body"}
       /\ r.words \in Nat /\ r.method \in {"GET", "POST", "PUT"}
       /\ r.fields \in Seq(Field)
       /\ r.header \in Nat \ {0} /\ r.body \in Nat

VARIABLES
  running,          \* the process has not ended
  live,             \* the sessions that are allocated
  sockets,          \* the sockets that are allocated
  socket_,          \* the socket of each session
  pending,          \* the asynchronous operations in progress
  result,           \* how the operation of a session has ended: bytes or Error
  busy,             \* what a worker is in the middle of
  request_string_,  \* how much a session has read while it reads the header
  request_body_,    \* how much of the body it has
  content_length_,
  response_,
  client,           \* the client's end of the connection
  request,          \* the request it sends
  sent,             \* how much of it has reached the server's machine
  read              \* how much of that the session has been handed

conversation == <<request_string_, request_body_, content_length_, response_>>
peer == <<client, request, sent, read>>
vars == <<running, live, sockets, socket_, pending, result, busy, conversation, peer>>

Error == -1
Idle == [at |-> "idle", session |-> Null]
Operation == {"accept", "header", "body", "write"}

Occupation == [at : {"idle", "accepted", "respond"}, session : Session \cup {Null}]
Result == (Error..max_length) \cup {Null}

TypeOK ==
  /\ running \in BOOLEAN
  /\ live \subseteq Session /\ sockets \subseteq Socket
  /\ socket_ \in [Session -> Socket \cup {Null}]
  /\ pending \subseteq Operation \X Session
  /\ result \in [Session -> Result]
  /\ busy \in [Worker -> Occupation]
  /\ request_string_ \in [Session -> Nat] /\ request_body_ \in [Session -> Nat]
  /\ content_length_ \in [Session -> Int]
  /\ response_ \in [Session -> {"400", "500", "handler", Null}]
  /\ client \in [Session -> {"none", "open", "done", "reset"}]
  /\ request \in [Session -> Request \cup {Null}]
  /\ sent \in [Session -> Nat] /\ read \in [Session -> Nat]

-----------------------------------------------------------------------------
(* HttpRequestParser. *)

Least(m, n) == IF m < n THEN m ELSE n

(* parse: three words in the first line, a colon in all others. *)
parse(r) == r.words >= 3 /\ \A i \in DOMAIN r.fields : r.fields[i].colon

(* get_header: names are compared as they are written, the last field wins. *)
get_header(r, name) ==
  LET found == {i \in DOMAIN r.fields : r.fields[i].name = name}
  IN  IF found = {} THEN Null
      ELSE r.fields[CHOOSE i \in found : \A j \in found : j <= i].value

Length(r) == r.header + r.body

-----------------------------------------------------------------------------
(* The client and the operating system. *)

Send(s) ==
  /\ client[s] = "open" /\ sent[s] < Length(request[s])
  /\ sent' = [sent EXCEPT ![s] = @ + 1]
  /\ UNCHANGED <<running, live, sockets, socket_, pending, result, busy, conversation, client, request, read>>

(* The client closes its side when it likes, or the connection breaks. *)
Leave(s, how) ==
  /\ client[s] \notin {"none", "reset", how}
  /\ client' = [client EXCEPT ![s] = how]
  /\ UNCHANGED <<running, live, sockets, socket_, pending, result, busy, conversation, request, sent, read>>

(* The operation o of s ends with r. *)
Complete(o, s, r) ==
  /\ <<o, s>> \in pending /\ result[s] = Null
  /\ result' = [result EXCEPT ![s] = r]
  /\ UNCHANGED <<running, live, sockets, socket_, pending, busy, conversation, request, sent>>

(* A client connects, ... *)
Connect(s, r) ==
  /\ <<"accept", s>> \in pending /\ result[s] = Null
  /\ result' = [result EXCEPT ![s] = 0]
  /\ client' = [client EXCEPT ![s] = "open"]
  /\ request' = [request EXCEPT ![s] = r]
  /\ UNCHANGED <<running, live, sockets, socket_, pending, busy, conversation, sent, read>>

(* ... or accepting fails. *)
ConnectFails(s) ==
  /\ Cardinality(sockets) - Cardinality(live) < MaxFailures
  /\ Complete("accept", s, Error)
  /\ UNCHANGED <<client, read>>

(* async_read_some fills the buffer with what is there, ... *)
Read(o, s, k) ==
  /\ o \in {"header", "body"}
  /\ client[s] # "reset" /\ read[s] + k <= sent[s]
  /\ Complete(o, s, k)
  /\ read' = [read EXCEPT ![s] = @ + k]
  /\ UNCHANGED client

(* ... or fails: at the end of what a client that closed has sent, or because *)
(* the connection is broken.                                                  *)
ReadFails(o, s) ==
  /\ o \in {"header", "body"}
  /\ \/ client[s] = "reset"
     \/ client[s] = "done" /\ read[s] = sent[s]
  /\ Complete(o, s, Error)
  /\ UNCHANGED <<client, read>>

Write(s) ==
  /\ \/ client[s] # "reset" /\ Complete("write", s, 0)
     \/ client[s] = "reset" /\ Complete("write", s, Error)
  /\ UNCHANGED <<client, read>>

-----------------------------------------------------------------------------
(* The callbacks, run by the worker threads. *)

(* The process ends: an exception leaves a worker thread, or SIGINT. *)
Terminate ==
  /\ running' = FALSE
  /\ live' = {} /\ sockets' = {} /\ pending' = {}
  /\ socket_' = [s \in Session |-> Null]
  /\ result' = [s \in Session |-> Null]
  /\ busy' = [w \in Worker |-> Idle]
  /\ request_string_' = [s \in Session |-> 0] /\ request_body_' = [s \in Session |-> 0]
  /\ content_length_' = [s \in Session |-> 0] /\ response_' = [s \in Session |-> Null]
  /\ client' = [s \in Session |-> "none"] /\ request' = [s \in Session |-> Null]
  /\ sent' = [s \in Session |-> 0] /\ read' = [s \in Session |-> 0]

interrupt_handler == Terminate

(* A worker without work takes the callback of an operation that has ended. *)
Callback(w, o, s) ==
  /\ busy[w] = Idle
  /\ <<o, s>> \in pending /\ result[s] # Null

(* The callback of o starts the operation n in its turn ... *)
Restart(o, s, n) ==
  /\ pending' = (pending \ {<<o, s>>}) \cup {<<n, s>>}
  /\ result' = [result EXCEPT ![s] = Null]

(* ... and does nothing else, ... *)
ReadOn(o, s, n) ==
  /\ Restart(o, s, n)
  /\ UNCHANGED <<running, live, sockets, socket_, busy, response_, peer>>

(* Mutant: the write is started and the reading goes on. *)
Answer_and_read_on(o, s, code) ==
  /\ response_' = [response_ EXCEPT ![s] = code]
  /\ pending' = pending \cup {<<"write", s>>}
  /\ result' = [result EXCEPT ![s] = Null]
  /\ UNCHANGED <<running, live, sockets, socket_, busy, peer>>

(* ... or answers: respond_to_request_client_error and ..._server_error. *)
Answer(o, s, code) ==
  /\ response_' = [response_ EXCEPT ![s] = code]
  /\ Restart(o, s, "write")
  /\ UNCHANGED <<running, live, sockets, socket_, busy, peer>>

(* respond_to_request: the worker is occupied until the handler returns. *)
Dispatch(w, o, s) ==
  /\ busy' = [busy EXCEPT ![w] = [at |-> "respond", session |-> s]]
  /\ pending' = pending \ {<<o, s>>}
  /\ result' = [result EXCEPT ![s] = Null]
  /\ UNCHANGED <<running, live, sockets, socket_, response_, peer>>

(* SessionFactory::create allocates the socket and the session. *)
start_accept(w, s, k) ==
  /\ busy[w].at = "accepted"
  /\ s \notin live /\ k \notin sockets
  /\ busy' = [busy EXCEPT ![w] = Idle]
  /\ live' = live \cup {s} /\ sockets' = sockets \cup {k}
  /\ socket_' = [socket_ EXCEPT ![s] = k]
  /\ pending' = pending \cup {<<"accept", s>>}
  /\ UNCHANGED <<running, result, conversation, peer>>

(* Mutant: the server does not accept again after a failure. *)
handle_accept_gives_up(w, s) ==
  /\ Callback(w, "accept", s)
  /\ \/ /\ result[s] # Error
        /\ busy' = [busy EXCEPT ![w] = [at |-> "accepted", session |-> Null]]
        /\ Restart("accept", s, "header")
        /\ UNCHANGED <<live, socket_>>
     \/ /\ result[s] = Error
        /\ live' = live \ {s} /\ socket_' = [socket_ EXCEPT ![s] = Null]
        /\ pending' = pending \ {<<"accept", s>>}
        /\ result' = [result EXCEPT ![s] = Null]
        /\ UNCHANGED busy
  /\ UNCHANGED <<running, sockets, conversation, peer>>

(* handle_accept: the session starts to read, or is deleted without its       *)
(* socket; in both cases the worker then calls start_accept.                  *)
handle_accept(w, s) ==
  /\ Callback(w, "accept", s)
  /\ busy' = [busy EXCEPT ![w] = [at |-> "accepted", session |-> Null]]
  /\ \/ /\ result[s] # Error
        /\ Restart("accept", s, "header")
        /\ UNCHANGED <<live, socket_>>
     \/ /\ result[s] = Error
        /\ live' = live \ {s} /\ socket_' = [socket_ EXCEPT ![s] = Null]
        /\ pending' = pending \ {<<"accept", s>>}
        /\ result' = [result EXCEPT ![s] = Null]
  /\ UNCHANGED <<running, sockets, conversation, peer>>

(* Mutant: one byte more than the length is waited for. *)
Enough_strict(size, length) == 0 <= length /\ length < size

(* Mutant: the length is compared with the place of the last byte. *)
Enough_early(size, length) == 0 <= length /\ length <= size + 1

(* The body is complete: size() is unsigned, so a negative length is never    *)
(* reached.                                                                   *)
Enough(size, length) == 0 <= length /\ length <= size

(* request_string_.substr(header_pos + 4, bytes_transferred). *)
body_substr(s, k) == Least(k, request_string_[s] + k - request[s].header)

(* handle_read_header, when the header is not yet complete ... *)
read_header_on(w, s) ==
  /\ Callback(w, "header", s) /\ result[s] # Error
  /\ request_string_[s] + result[s] < request[s].header
  /\ request_string_' = [request_string_ EXCEPT ![s] = @ + result[s]]
  /\ ReadOn("header", s, "header")
  /\ UNCHANGED <<request_body_, content_length_>>

(* ... and when it is: a bad header is answered with 400; a good one is       *)
(* logged with the client's address, which throws if the connection is        *)
(* broken; then POST and PUT read as much of a body as Content-Length says,   *)
(* where stoi may throw as well.                                              *)
read_header_done(w, s) ==
  LET k == result[s]
      length == get_header(request[s], "Content-Length")
      value == IF length = Null THEN content_length_[s] ELSE length
  IN
  /\ Callback(w, "header", s) /\ k # Error
  /\ request_string_[s] + k >= request[s].header
  /\ \/ /\ parse(request[s])
        /\ \/ client[s] = "reset"
           \/ request[s].method \in {"POST", "PUT"} /\ length \in {NotNumber, TooLarge}
        /\ Terminate
     \/ /\ request_string_' = [request_string_ EXCEPT ![s] = @ + k]
        /\ request_body_' = [request_body_ EXCEPT ![s] = body_substr(s, k)]
        /\ \/ /\ ~parse(request[s])
              /\ Answer("header", s, "400")
              /\ UNCHANGED content_length_
           \/ /\ parse(request[s]) /\ client[s] # "reset"
              /\ request[s].method \notin {"POST", "PUT"}
              /\ Dispatch(w, "header", s)
              /\ UNCHANGED content_length_
           \/ /\ parse(request[s]) /\ client[s] # "reset"
              /\ request[s].method \in {"POST", "PUT"} /\ length \notin {NotNumber, TooLarge}
              /\ content_length_' = [content_length_ EXCEPT ![s] = value]
              /\ IF Enough(body_substr(s, k), value) THEN Dispatch(w, "header", s)
                 ELSE ReadOn("header", s, "body")

(* Mutant: a body that comes in several pieces is an error. *)
handle_read_body_once(w, s) ==
  /\ Callback(w, "body", s) /\ result[s] # Error
  /\ request_body_' = [request_body_ EXCEPT ![s] = @ + result[s]]
  /\ IF Enough(request_body_'[s], content_length_[s]) THEN Dispatch(w, "body", s)
     ELSE Answer("body", s, "500")
  /\ UNCHANGED <<request_string_, content_length_>>

(* handle_read_body appends what was read and passes a complete request on. *)
handle_read_body(w, s) ==
  /\ Callback(w, "body", s) /\ result[s] # Error
  /\ request_body_' = [request_body_ EXCEPT ![s] = @ + result[s]]
  /\ IF Enough(request_body_'[s], content_length_[s]) THEN Dispatch(w, "body", s)
     ELSE ReadOn("body", s, "body")
  /\ UNCHANGED <<request_string_, content_length_>>

(* Mutant: a read error is not answered. *)
read_error_dropped(w, o, s) ==
  /\ o \in {"header", "body"}
  /\ Callback(w, o, s) /\ result[s] = Error
  /\ pending' = pending \ {<<o, s>>}
  /\ result' = [result EXCEPT ![s] = Null]
  /\ UNCHANGED <<running, live, sockets, socket_, busy, conversation, peer>>

(* Both reading callbacks answer an error with 500. *)
read_error(w, o, s) ==
  /\ o \in {"header", "body"}
  /\ Callback(w, o, s) /\ result[s] = Error
  /\ Answer(o, s, "500")
  /\ UNCHANGED <<request_string_, request_body_, content_length_>>

(* The rest of respond_to_request: the parser of boost::beast refuses the     *)
(* request, the handler answers, or it throws. A body is a number of bytes    *)
(* here: that beast cuts it to Content-Length and that a blank line is added   *)
(* to one that is not empty before the handler gets it is left out.           *)
respond_to_request(w) ==
  LET s == busy[w].session IN
  /\ busy[w].at = "respond"
  /\ \/ \E code \in {"400", "handler"} :
          /\ response_' = [response_ EXCEPT ![s] = code]
          /\ pending' = pending \cup {<<"write", s>>}
          /\ busy' = [busy EXCEPT ![w] = Idle]
          /\ UNCHANGED <<running, live, sockets, socket_, result, peer>>
          /\ UNCHANGED <<request_string_, request_body_, content_length_>>
     \/ Terminate

(* delete socket_ and delete this: nothing of the connection is left. *)
Delete(s) ==
  /\ live' = live \ {s} /\ sockets' = sockets \ {socket_[s]}
  /\ socket_' = [socket_ EXCEPT ![s] = Null]
  /\ request_string_' = [request_string_ EXCEPT ![s] = 0]
  /\ request_body_' = [request_body_ EXCEPT ![s] = 0]
  /\ content_length_' = [content_length_ EXCEPT ![s] = 0]
  /\ response_' = [response_ EXCEPT ![s] = Null]
  /\ client' = [client EXCEPT ![s] = "none"] /\ request' = [request EXCEPT ![s] = Null]
  /\ sent' = [sent EXCEPT ![s] = 0] /\ read' = [read EXCEPT ![s] = 0]

(* shutdown throws if the connection is broken by the time it is called. *)
handle_write(w, s) ==
  /\ Callback(w, "write", s)
  /\ \/ result[s] # Error /\ client[s] = "reset" /\ Terminate
     \/ /\ result[s] # Error => client[s] # "reset"
        /\ pending' = pending \ {<<"write", s>>}
        /\ result' = [result EXCEPT ![s] = Null]
        /\ Delete(s)
        /\ UNCHANGED <<running, busy>>

-----------------------------------------------------------------------------
Init ==
  /\ running = TRUE
  /\ \E s \in Session, k \in Socket :
       /\ live = {s} /\ sockets = {k}
       /\ socket_ = [t \in Session |-> IF t = s THEN k ELSE Null]
       /\ pending = {<<"accept", s>>}
  /\ result = [s \in Session |-> Null]
  /\ busy = [w \in Worker |-> Idle]
  /\ request_string_ = [s \in Session |-> 0] /\ request_body_ = [s \in Session |-> 0]
  /\ content_length_ = [s \in Session |-> 0] /\ response_ = [s \in Session |-> Null]
  /\ client = [s \in Session |-> "none"] /\ request = [s \in Session |-> Null]
  /\ sent = [s \in Session |-> 0] /\ read = [s \in Session |-> 0]

Client ==
  \E s \in Session :
    \/ Send(s)
    \/ \E how \in {"done", "reset"} : Leave(s, how)
    \/ \E r \in Request : Connect(s, r)

Network(s) ==
  \/ \E o \in Operation, k \in 1..max_length : Read(o, s, k)
  \/ \E o \in Operation : ReadFails(o, s)
  \/ Write(s)

Handle(s) ==
  \E w \in Worker :
    \/ handle_accept(w, s)
    \/ read_header_on(w, s) \/ read_header_done(w, s) \/ handle_read_body(w, s)
    \/ \E o \in Operation : read_error(w, o, s)
    \/ handle_write(w, s)

Next ==
  /\ running
  /\ \/ Client
     \/ \E s \in Session : ConnectFails(s) \/ Network(s) \/ Handle(s)
     \/ \E w \in Worker, s \in Session, k \in Socket : start_accept(w, s, k)
     \/ \E w \in Worker : respond_to_request(w)
     \/ interrupt_handler

Spec == Init /\ [][Next]_vars

(* The network delivers what was sent, handlers return, and the io_service    *)
(* runs callbacks in the order in which their operations ended, so that none  *)
(* waits forever while there is a free worker again and again.                *)
FairSpec ==
  /\ Spec
  /\ \A s \in Session : WF_vars(running /\ Network(s)) /\ SF_vars(running /\ Handle(s))
  /\ \A w \in Worker : WF_vars(running /\ respond_to_request(w))
  /\ WF_vars(running /\ \E w \in Worker, s \in Session, k \in Socket : start_accept(w, s, k))

-----------------------------------------------------------------------------
(* What keeps delete this safe: every session that exists waits for exactly   *)
(* one asynchronous operation or has one worker running its callback, and     *)
(* nothing refers to one that does not exist.                                 *)
RunningFor(s) == {w \in Worker : busy[w].at = "respond" /\ busy[w].session = s}

OneOperation ==
  /\ \A s \in Session :
       Cardinality({o \in Operation : <<o, s>> \in pending}) + Cardinality(RunningFor(s))
         = IF s \in live THEN 1 ELSE 0
  /\ \A s \in live : socket_[s] \in sockets
  /\ \A s, t \in live : socket_[s] = socket_[t] => s = t

(* While the process runs there is always exactly one session that waits for  *)
(* the next connection, or one worker about to make it.                       *)
AlwaysAccepting ==
  running =>
    Cardinality({s \in Session : <<"accept", s>> \in pending})
      + Cardinality({w \in Worker : busy[w].at = "accepted"}) = 1

(* No byte of the body is lost or read twice between handle_read_header and   *)
(* handle_read_body, however the request is cut into pieces: what the session *)
(* has as body when it answers is all that it was handed after the header,    *)
(* and, for a POST or PUT, no less than its Content-Length, if it is spelled  *)
(* like this (session.cc:39, 50).                                             *)
BodyIsExact ==
  \A s \in live :
    /\ RunningFor(s) # {} \/ (<<"body", s>> \in pending /\ result[s] = Null)
         => request_body_[s] = read[s] - request[s].header
    /\ RunningFor(s) # {} /\ request[s].method \in {"POST", "PUT"} =>
         LET length == get_header(request[s], "Content-Length")
         IN  length \in Int => read[s] - request[s].header >= length

(* The server keeps the promises of Connection. *)
phase ==
  [s \in Session |-> CASE s \notin live -> "none"
                       [] <<"accept", s>> \in pending -> "listening"
                       [] response_[s] # Null -> "answered"
                       [] OTHER -> "open"]

Promise == INSTANCE Connection WITH answer <- response_
Promises == Promise!Spec

(* A client that has sent its whole request, with a body at least as long as  *)
(* its Content-Length says, is answered without having to close its side.     *)
Sufficient(r) ==
  LET length == get_header(r, "Content-Length")
  IN  parse(r) /\ r.method \in {"POST", "PUT"} /\ length \in Int => length \in 0..r.body

SentIsAnswered ==
  \A s \in Session :
    (s \in live /\ client[s] = "open" /\ sent[s] = Length(request[s]) /\ Sufficient(request[s]))
      ~> (s \notin live \/ client[s] # "open" \/ response_[s] # Null)

(* A session ends when its client is gone. *)
GoneIsDeleted ==
  \A s \in Session : client[s] \in {"done", "reset"} ~> s \notin live

-----------------------------------------------------------------------------
(* What makes those invariants inductive. *)

Waits(s) == \E o \in Operation : <<o, s>> \in pending
Responds(w, s) == busy[w].at = "respond" /\ busy[w].session = s
Accepted(w) == busy[w].at = "accepted"

(* OneOperation without numbers: a session that exists is in one place. *)
OnePlace ==
  /\ \A s \in Session : \A o, p \in Operation :
       <<o, s>> \in pending /\ <<p, s>> \in pending => o = p
  /\ \A w, v \in Worker : \A s \in Session : Responds(w, s) /\ Responds(v, s) => w = v
  /\ \A w \in Worker : \A s \in Session : Responds(w, s) => ~Waits(s)
  /\ \A w \in Worker : busy[w].at = "respond" => busy[w].session \in live
  /\ live = {s \in Session : Waits(s) \/ \E w \in Worker : Responds(w, s)}
  /\ \A s \in Session : result[s] # Null => Waits(s)

SocketsAreTheirs ==
  /\ \A s \in live : socket_[s] \in sockets
  /\ \A s, t \in live : socket_[s] = socket_[t] => s = t

(* AlwaysAccepting without numbers. *)
OneAcceptor ==
  /\ \A s, t \in Session : <<"accept", s>> \in pending /\ <<"accept", t>> \in pending => s = t
  /\ \A w, v \in Worker : Accepted(w) /\ Accepted(v) => w = v
  /\ \A w \in Worker, s \in Session : ~(Accepted(w) /\ <<"accept", s>> \in pending)
  /\ running => \/ \E s \in Session : <<"accept", s>> \in pending
                \/ \E w \in Worker : Accepted(w)

(* What has been read and not been passed to the callback yet. *)
Got(s) == IF result[s] \in {Null, Error} THEN 0 ELSE result[s]

(* A session that is not connected has nothing of an earlier connection. *)
Blank(s) ==
  /\ request_string_[s] = 0 /\ request_body_[s] = 0 /\ content_length_[s] = 0
  /\ response_[s] = Null /\ read[s] = 0
Connected(s) == request[s] \in Request /\ client[s] # "none"

BlankUntilConnected(s) ==
  /\ s \notin live => Blank(s) /\ client[s] = "none"
  /\ <<"accept", s>> \in pending =>
       Blank(s) /\ IF result[s] \in {Null, Error} THEN client[s] = "none" ELSE Connected(s)
  /\ s \in live /\ <<"accept", s>> \notin pending => Connected(s)

(* While the header is read: everything that was read is in request_string_. *)
HeaderIsWhatWasRead(s) ==
  <<"header", s>> \in pending =>
    /\ request_string_[s] < request[s].header
    /\ request_string_[s] + Got(s) = read[s]
    /\ request_body_[s] = 0 /\ content_length_[s] = 0

(* While the body is: everything after the header is in request_body_. *)
BodyIsTheRest(s) ==
  <<"body", s>> \in pending =>
    /\ request_body_[s] + Got(s) = read[s] - request[s].header
    /\ LET length == get_header(request[s], "Content-Length")
       IN  length \in Int => content_length_[s] = length

(* What is passed on to boost::beast is all that was read. *)
PassedOnIsComplete(s) ==
  (\E w \in Worker : Responds(w, s)) =>
    /\ request_body_[s] = read[s] - request[s].header
    /\ request[s].method \in {"POST", "PUT"} =>
         LET length == get_header(request[s], "Content-Length")
         IN  length \in Int => length <= request_body_[s]

(* Only a session that writes has an answer, and an error that stopped a      *)
(* session from reading is the client's.                                      *)
AnsweredIsWritten(s) ==
  /\ response_[s] # Null <=> <<"write", s>> \in pending
  /\ \A o \in {"header", "body"} :
       <<o, s>> \in pending /\ result[s] = Error => client[s] # "open"

Conversation(s) ==
  /\ BlankUntilConnected(s)
  /\ HeaderIsWhatWasRead(s) /\ BodyIsTheRest(s) /\ PassedOnIsComplete(s)
  /\ AnsweredIsWritten(s)

SessionInv ==
  /\ TypeOK
  /\ OnePlace
  /\ SocketsAreTheirs
  /\ OneAcceptor
  /\ \A s \in Session : Conversation(s)

-----------------------------------------------------------------------------
(* What the tests and comments say and the code does not do. *)

(* "socket and sess should have deleted themselves": there is no socket       *)
(* without a session.                                                         *)
SocketsAreOwned == \A k \in sockets : \E s \in live : socket_[s] = k

(* "check if entire body is read": a POST or PUT is passed on only with as    *)
(* many bytes of body as its header declares, in whatever spelling.           *)
EntireBodyIsRead ==
  \A s \in live : RunningFor(s) # {} /\ request[s].method \in {"POST", "PUT"} =>
    \A i \in DOMAIN request[s].fields :
      LET f == request[s].fields[i]
      IN  f.name # "Host" /\ f.value \in Nat => request_body_[s] >= f.value
=============================================================================
