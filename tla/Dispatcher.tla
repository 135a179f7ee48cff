----------------------------- MODULE Dispatcher -----------------------------
(***************************************************************************)
(* From the configuration to a response: the start of the program          *)
(* (src/src/server_main.cc), the maps of factories and arguments           *)
(* (src/src/config_parser.cc), RequestDispatcher, which finds the location *)
(* of a target in them (src/src/request_dispatcher.cc), the factories      *)
(* (src/src/factory), and the handlers without a store (src/src/handler).  *)
(*                                                                         *)
(* Paths, targets and file names are sequences of characters.  The text of *)
(* a body is a word for it, and so is a Content-Length: it is the body it  *)
(* was computed from.  Requests are served one after the other: all that   *)
(* they share here are the maps, which no request changes (see             *)
(* ArgumentsCoverFactories).                                               *)
(***************************************************************************)
EXTENDS Integers, Sequences, SequencesExt

CONSTANTS
  Config,  \* the configurations: whether they parse, their port, their statements
  Url,     \* the targets that are asked for
  Opens,   \* the file names that can be opened
  Null     \* no block

Char == {"NUL", ".", "/", "a", "b"}
Text == Seq(Char \ {"NUL"})
NeedsRoot == {"StaticHandler", "CrudHandler", "MemeHandler"}
Known == NeedsRoot \cup {"EchoHandler", "HealthHandler", "BlockHandler", "FileNotFoundHandler"}

(* A statement of a block: two tokens, the first of them "root", the second.  *)
Child == [two : BOOLEAN, root : BOOLEAN, value : Text]

(* A statement at the top: its first token is "location", it has three, ...   *)
Statement ==
  [location : BOOLEAN, three : BOOLEAN, path : Text \ {<<>>},
   type : Known \cup {"Unknown"}, block : {Null} \cup Seq(Child)]

(* What get_port_num returns, -1 when there is no port. *)
Port == -1..65535

ASSUME DispatcherAssumption ==
  /\ \A c \in Config :
       c.parses \in BOOLEAN /\ c.port \in Port /\ c.statements \in Seq(Statement)
  /\ Url \subseteq Text \ {<<>>}
  /\ Opens \subseteq Text

VARIABLES
  phase,      \* of the process
  config,     \* its configuration
  arguments,  \* location -> the statement whose block has the arguments
  factories,  \* location -> the statement whose type made the factory
  url,        \* the target that is being served
  rest,       \* the locations that match has not compared with it yet
  location,   \* the best location so far, then the one it is dispatched to
  handler,    \* the handler that was created for it
  made,       \* what the handler returned and the response it made
  res         \* the response that is sent

maps == <<arguments, factories>>
request == <<url, rest, location, handler, made>>
vars == <<phase, config, maps, request, res>>

NoMap == [p \in {} |-> 0]
NoHandler == [type |-> "none", file |-> <<>>]

(* http::response, as the session passes it, ... *)
Fresh == [code |-> "200", body |-> "", length |-> "none"]

(* ... and after prepare_payload. *)
Prepared(code, body) == [code |-> code, body |-> body, length |-> body]

NothingMade == [status |-> "none", res |-> Fresh]

-----------------------------------------------------------------------------
(* NginxConfig: the maps. *)

(* Mutant: one slash is removed. *)
removeTrailingSlashes_once(p) ==
  IF Len(p) > 1 /\ Last(p) = "/" THEN Front(p) ELSE p

removeTrailingSlashes(p) ==
  LET keeps == {n \in 0..Len(p) :
                  (n > 0 \/ Len(p) = 0) /\ \A i \in n + 1..Len(p) : p[i] = "/"}
  IN  SubSeq(p, 1, CHOOSE n \in keeps : \A m \in keeps : n <= m)

ValidLocation(s) == s.location /\ s.three /\ s.block # Null

(* The map of the valid statements by their keys: the last one counts. *)
MapOf(key, valid) ==
  [p \in {key[i] : i \in valid} |->
     CHOOSE i \in valid : key[i] = p /\ \A j \in valid : key[j] = p => j <= i]

Keys(c) == [i \in DOMAIN c |-> removeTrailingSlashes(c[i].path)]

(* Mutant: the path is the key as it is written. *)
getArguments_as_written(c) ==
  MapOf([i \in DOMAIN c |-> c[i].path], {i \in DOMAIN c : ValidLocation(c[i])})

getArguments(c) == MapOf(Keys(c), {i \in DOMAIN c : ValidLocation(c[i])})

(* createHandlerFactory knows the type. *)
getFactories(c) ==
  MapOf(Keys(c), {i \in DOMAIN c : ValidLocation(c[i]) /\ c[i].type \in Known})

-----------------------------------------------------------------------------
(* RequestDispatcher::match. *)

(* The string ends in a NUL, which may be read. *)
CharAt(u, k) == IF k <= Len(u) THEN u[k] ELSE "NUL"

(* std::mismatch: the first place at which p is over or differs from u. *)
mismatch(p, u) ==
  CHOOSE k \in 1..Len(p) + 1 :
    /\ k = Len(p) + 1 \/ p[k] # CharAt(u, k)
    /\ \A j \in 1..k - 1 : p[j] = CharAt(u, j)

Order == <<"NUL", ".", "/", "a", "b">>
Rank(c) == CHOOSE n \in DOMAIN Order : Order[n] = c

(* std::map holds its keys in lexicographic order. *)
Before(p, q) ==
  LET k == mismatch(p, q)
  IN  p # q /\ (k <= Len(p) => Rank(p[k]) < Rank(CharAt(q, k)))

(* Mutant: the first match is kept. *)
better_first(best, p, u) == mismatch(p, u) = Len(p) + 1 /\ best = <<>>

better(best, p, u) == mismatch(p, u) = Len(p) + 1 /\ Len(p) >= Len(best)

-----------------------------------------------------------------------------
(* The factories and the handlers. *)

(* Mutant: all statements of the block are tested. *)
root_of_all(block) ==
  IF block # <<>> /\ \A i \in DOMAIN block : block[i].two /\ block[i].root
  THEN {removeTrailingSlashes(block[1].value)} ELSE {}

(* Only the first statement of the block counts. *)
root_of(block) ==
  IF block # <<>> /\ Head(block).two /\ Head(block).root
  THEN {removeTrailingSlashes(Head(block).value)} ELSE {}

(* create: the handlers it may return, none for a null pointer.  The file of  *)
(* a static handler is the target with the root in place of the location.     *)
create(type, block, l, u) ==
  CASE type = "StaticHandler" ->
         {[type |-> type, file |-> r \o SubSeq(u, Len(l) + 1, Len(u))] :
            r \in {r \in root_of(block) : SubSeq(u, 1, Len(l)) = l}}
    [] type \in NeedsRoot \ {"StaticHandler"} ->
         {[type |-> type, file |-> <<>>] : r \in root_of(block)}
    [] OTHER -> {[type |-> type, file |-> <<>>]}

(* MIME::get_mime_type throws when there is no dot in the name. *)
mime_throws(file) == \A i \in DOMAIN file : file[i] # "."

Returned(s, r) == [status |-> s, res |-> r]

(* handle_request of the handlers: what they return and the response they     *)
(* make.  Nothing is returned when they throw.  The stores' handlers prepare  *)
(* their successes; CrudHandler also prepares its errors.                     *)
StaticResults(file) ==
  IF file \notin Opens THEN {Returned("404", Fresh)}
  ELSE IF mime_throws(file) THEN {}
  ELSE {Returned("200", Prepared("200", "content"))}

StoreResults == {Returned(s, Prepared(s, "content")) : s \in {"200", "201"}}
CrudResults ==
  StoreResults \cup {Returned(s, Prepared(s, "reason")) : s \in {"400", "500"}} \cup {Returned("400", Fresh)}
MemeResults == StoreResults \cup {Returned(s, Fresh) : s \in {"400", "404", "500"}}

EchoResults == {Returned("200", Prepared("200", "request"))}
HealthResults == {Returned("200", Prepared("200", "OK"))}
BlockResults == {Returned("100", Fresh)}
FileNotFoundResults == {Returned("404", Prepared("404", ""))}

handle(h) ==
  CASE h.type = "StaticHandler" -> StaticResults(h.file)
    [] h.type = "CrudHandler" -> CrudResults
    [] h.type = "MemeHandler" -> MemeResults
    [] h.type = "EchoHandler" -> EchoResults
    [] h.type = "HealthHandler" -> HealthResults
    [] h.type = "BlockHandler" -> BlockResults
    [] OTHER -> FileNotFoundResults

(* The switch over the status: three of them replace the response, without    *)
(* preparing it.                                                              *)
Switched(m) ==
  IF m.status \in {"404", "500", "400"}
  THEN [code |-> m.status, body |-> m.status, length |-> m.res.length]
  ELSE m.res

-----------------------------------------------------------------------------
End(why) == phase' = why

(* main: a file that does not parse, or has no port, or no location. *)
main_refuses ==
  /\ phase = "start"
  /\ \/ ~config.parses \/ config.port = -1
     \/ getArguments(config.statements) = NoMap
  /\ End("refused")
  /\ UNCHANGED <<config, maps, request, res>>

main_starts ==
  /\ phase = "start"
  /\ config.parses /\ config.port # -1
  /\ getArguments(config.statements) # NoMap
  /\ arguments' = getArguments(config.statements)
  /\ factories' = getFactories(config.statements)
  /\ phase' = "configured"
  /\ UNCHANGED <<config, request, res>>

(* The server binds the port; if that fails, the exception is caught in main. *)
main_serves ==
  /\ phase = "configured"
  /\ phase' = "serving" \/ End("refused")
  /\ UNCHANGED <<config, maps, request, res>>

(* handle_request: a target is matched, ... *)
dispatch(u) ==
  /\ phase = "serving"
  /\ url' = u /\ rest' = DOMAIN factories
  /\ phase' = "matching"
  /\ UNCHANGED <<config, maps, location, handler, made, res>>

(* ... one location after the other, in the order of the map, ... *)
match ==
  /\ phase = "matching"
  /\ \E p \in rest :
       /\ \A q \in rest \ {p} : Before(p, q)
       /\ rest' = rest \ {p}
       /\ location' = IF better(location, p, url) THEN p ELSE location
  /\ UNCHANGED <<phase, config, maps, url, handler, made, res>>

(* ... and dispatched to the best of them, or answered with 404. *)
matched ==
  /\ phase = "matching" /\ rest = {}
  /\ \/ location = <<>> /\ phase' = "sent" /\ res' = Prepared("404", "404")
     \/ location # <<>> /\ phase' = "dispatched" /\ UNCHANGED res
  /\ UNCHANGED <<config, maps, request>>

(* The factory creates the handler, which is not tested for null. *)
create_handler ==
  LET c == config.statements
      handlers == create(c[factories[location]].type, c[arguments[location]].block, location, url)
  IN
  /\ phase = "dispatched"
  /\ \/ handler' \in handlers /\ phase' = "created"
     \/ handlers = {} /\ End("null handler") /\ UNCHANGED handler
  /\ UNCHANGED <<config, maps, url, rest, location, made, res>>

handle_request ==
  /\ phase = "created"
  /\ \/ /\ made' \in handle(handler)
        /\ phase' = "sent" /\ res' = Switched(made')
     \/ handle(handler) = {} /\ End("exception") /\ UNCHANGED <<made, res>>
  /\ UNCHANGED <<config, maps, url, rest, location, handler>>

(* The response is written; the next request finds nothing of this one. *)
next_request ==
  /\ phase = "sent"
  /\ phase' = "serving"
  /\ url' = <<>> /\ location' = <<>> /\ handler' = NoHandler /\ made' = NothingMade
  /\ res' = Fresh
  /\ UNCHANGED <<config, maps, rest>>

Init ==
  /\ phase = "start" /\ config \in Config
  /\ arguments = NoMap /\ factories = NoMap
  /\ url = <<>> /\ rest = {} /\ location = <<>> /\ handler = NoHandler /\ made = NothingMade
  /\ res = Fresh

Next ==
  \/ main_refuses \/ main_starts \/ main_serves
  \/ (\E u \in Url : dispatch(u)) \/ match \/ matched
  \/ create_handler \/ handle_request \/ next_request

Spec == Init /\ [][Next]_vars

-----------------------------------------------------------------------------
Code == {"200", "201", "400", "404", "500"}

TypeOK ==
  /\ phase \in {"start", "refused", "configured", "serving", "matching", "dispatched",
                "created", "sent", "null handler", "exception"}
  /\ config \in Config /\ url \in Url \cup {<<>>}
  /\ <<>> \notin DOMAIN arguments \cup DOMAIN factories
  /\ rest \subseteq DOMAIN factories
  /\ location \in DOMAIN factories \cup {<<>>}
  /\ handler.type \in Known \cup {"none"} /\ handler.file \in Text
  /\ made.status \in Code \cup {"100", "none"}
  /\ {made.res.code, res.code} \subseteq Code

(* The location of a target is the longest one that is a prefix of it, and    *)
(* there is none only if no location is; the comparison stops at the target's *)
(* end, although mismatch is not told where that is.                          *)
MatchIsLongest ==
  phase \in {"dispatched", "sent"} =>
    LET prefixes == {p \in DOMAIN factories : IsPrefix(p, url)} IN
    /\ location = <<>> <=> prefixes = {}
    /\ location # <<>> => location \in prefixes /\ \A p \in prefixes : Len(p) <= Len(location)
    /\ \A p \in DOMAIN factories : mismatch(p, url) <= Len(p) => mismatch(p, url) <= Len(url) + 1

(* Every location with a factory has arguments, so that looking both up with  *)
(* operator[], on all worker threads, never inserts into the maps.            *)
ArgumentsCoverFactories == DOMAIN factories \subseteq DOMAIN arguments

(* What the configuration names is served: a target under a path of a valid   *)
(* statement, with or without the slashes at its end, is not answered with    *)
(* "no matching handler".                                                     *)
ConfiguredIsServed ==
  phase = "sent" /\ location = <<>> =>
    \A i \in DOMAIN config.statements : LET s == config.statements[i] IN
      ValidLocation(s) /\ s.type \in Known =>
        \A n \in 1..Len(s.path) :
          (\A k \in n + 1..Len(s.path) : s.path[k] = "/") => ~IsPrefix(SubSeq(s.path, 1, n), url)

(* No null handler is called when all types are known and the blocks of those *)
(* that need a root begin with one, whatever follows and however often a path *)
(* is given.                                                                  *)
Good(c) ==
  \A i \in DOMAIN c : ValidLocation(c[i]) =>
    /\ c[i].type \in Known
    /\ c[i].type \in NeedsRoot =>
         c[i].block # <<>> /\ c[i].block[1].two /\ c[i].block[1].root

GoodConfigServes == phase = "null handler" => ~Good(config.statements)

(* What makes those invariants inductive: the maps are the configuration's,   *)
(* and between requests there is no target and no location.                   *)
MapsAreTheConfigs ==
  \/ /\ arguments = NoMap /\ factories = NoMap
     /\ phase \in {"start", "refused"}
  \/ /\ arguments = getArguments(config.statements)
     /\ factories = getFactories(config.statements)

OneTargetAtATime ==
  phase \in {"start", "refused", "configured", "serving"} =>
    url = <<>> /\ rest = {} /\ location = <<>>

(* The loop of match has the longest of the prefixes that are behind it.      *)
BestSoFar ==
  LET seen == {p \in DOMAIN factories \ rest : IsPrefix(p, url)} IN
  \/ location = <<>> /\ seen = {}
  \/ location \in seen /\ \A p \in seen : Len(p) <= Len(location)

MatchEnds == phase # "matching" => rest = {}
DispatchedHasLocation == phase \in {"dispatched", "created"} => location # <<>>

DispatcherInv ==
  /\ TypeOK /\ MapsAreTheConfigs /\ OneTargetAtATime
  /\ BestSoFar /\ MatchEnds /\ DispatchedHasLocation

-----------------------------------------------------------------------------
(* What comments say and the code does not do. *)

(* "a map containing NginxConfig pointers that contain handler arguments":    *)
(* they are the arguments of the statement that the factory is for.           *)
FactoryHasItsArguments == \A p \in DOMAIN factories : factories[p] = arguments[p]

(* "handler_request itself already handles all the error status": an error    *)
(* response that a handler has prepared is the one that is sent.              *)
HandlerErrorIsSent ==
  phase = "sent" /\ made.res.code = made.status /\ made.res.length # "none" => res = made.res

(* "default mime type if no extension found": a file that opens is served. *)
OpenFileIsServed == phase = "exception" => handler.file \notin Opens
=============================================================================
