----------------------------- MODULE MCSession -----------------------------
(* Clients whose requests exercise every branch of the session. *)
EXTENDS Session, TLC

field(n, v) == [colon |-> TRUE, name |-> n, value |-> v]
length(v) == <<field("Content-Length", v)>>
request_of(m, f, h, b) == [words |-> 3, method |-> m, fields |-> f, header |-> h, body |-> b]

Requests ==
  {request_of("PUT", length(2), 2, 2),
   request_of("POST", length(TooLarge), 2, 0),
   request_of("GET", <<>>, 2, 0),
   [request_of("GET", <<>>, 1, 0) EXCEPT !.words = 2]}

(* The last of two fields counts; what is no number of bytes is waited for. *)
Lengths ==
  {request_of("POST", <<field("Content-Length", 3), field("Content-Length", 1)>>, 1, 1),
   request_of("POST", length(-1), 1, 0)}

OtherSpelling == {request_of("PUT", <<field("content-length", 1)>>, 2, 1)}

Symmetry == Permutations(Session) \cup Permutations(Socket) \cup Permutations(Worker)
=============================================================================
