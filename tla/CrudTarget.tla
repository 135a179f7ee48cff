----------------------------- MODULE CrudTarget -----------------------------
(***************************************************************************)
(* The CRUD API at the level of the text of its targets and of its files:   *)
(* how CrudHandler cuts a request's target into a directory and an id      *)
(* (src/src/handler/crud_handler.cc), and how the scan of                   *)
(* CrudHandlerFactory turns file names into ids                            *)
(* (src/src/factory/crud_handler_factory.cc).                              *)
(*                                                                         *)
(* The server has one worker thread here and its disk does not fail, so    *)
(* that a request is one step; CrudStore has the threads and the failures, *)
(* and takes targets as already cut.  A text is a sequence of characters.  *)
(* The root of the handler holds directories only.                         *)
(***************************************************************************)
EXTENDS Integers, FiniteSets, Functions, SequencesExt

CONSTANTS
  Target,         \* the targets that requests name, all of them below a location
  PutTarget,      \* those that PUT requests name
  Found,          \* the sets of files a start may find, each file as <<directory, name>>
  Content,        \* request bodies
  Null,           \* no response, no id, no body
  NotNumber,      \* what stoi throws: invalid_argument ...
  TooLarge,       \* ... and out_of_range
  Uninitialized,  \* bound: what an int that nobody has assigned may hold
  MaxInt,         \* the largest int
  MaxRequests     \* bound: requests the server receives

ASSUME TargetAssumption ==
  /\ \A t \in Target : Len(t) > 1 /\ t[1] = "/" /\ t[2] # "/"
  /\ Target # {} /\ PutTarget \subseteq Target
  /\ Target \subseteq Seq(STRING)
  /\ \A found \in Found : /\ IsFiniteSet(found) /\ found \subseteq Seq(STRING) \X Seq(STRING)
                          /\ \A f \in found : /\ f[1] # <<>> /\ f[2] # <<>>
                                              /\ "/" \notin ToSet(f[1]) \cup ToSet(f[2])
  /\ NotNumber \notin Int /\ TooLarge \notin Int
  /\ MaxInt \in Nat /\ MaxRequests \in Nat /\ Uninitialized \subseteq -MaxInt..MaxInt

VARIABLES
  entity_ids,  \* entity_ids_: the sorted vector of ids of each directory that has one
  dirs,        \* the directories on the disk
  disk,        \* the files on the disk, by directory and name
  requests,    \* how many requests have arrived
  res,         \* the last response, with the request it answers
  stored,      \* history: what the responses say is stored under each entity
  named        \* history: the ids that files have ever had, with their directory

vars == <<entity_ids, dirs, disk, requests, res, stored, named>>

(* The function f with v at x, where it may not have been defined. *)
Put(f, x, v) == [y \in DOMAIN f \cup {x} |-> IF y = x THEN v ELSE f[y]]

-----------------------------------------------------------------------------
(* Text. *)

(* find_last_of("/"): 0 for npos. *)
LastSlash(s) == Max({0} \cup {k \in DOMAIN s : s[k] = "/"})
Before(s, k) == SubSeq(s, 1, k - 1)
After(s, k) == SubSeq(s, k + 1, Len(s))

DigitChar == <<"0", "1", "2", "3", "4", "5", "6", "7", "8", "9">>
DigitValue(c) == (CHOOSE k \in 1..10 : DigitChar[k] = c) - 1

(* The number that a text of digits is: what its first k digits are, for each k. *)
Numbers(digits) ==
  LET value[k \in 0..Len(digits)] ==
        IF k = 0 THEN 0 ELSE 10 * value[k - 1] + DigitValue(digits[k])
  IN value
Number(digits) == Numbers(digits)[Len(digits)]

Int32 == -MaxInt - 1..MaxInt

(* stoi reads a sign and the digits after it and ignores what follows them. *)
stoi(s) ==
  LET sign == IF s # <<>> /\ s[1] \in {"+", "-"} THEN 1 ELSE 0
      last == Max({0} \cup {n \in DOMAIN s : \A k \in (sign + 1)..n : s[k] \in ToSet(DigitChar)})
      number == Number(SubSeq(s, sign + 1, last))
      value == IF s[1] = "-" THEN -number ELSE number
  IN IF last <= sign THEN NotNumber
     ELSE IF value \in Int32 THEN value ELSE TooLarge

Digits[n \in Nat] ==
  IF n < 10 THEN <<DigitChar[n + 1]>> ELSE Append(Digits[n \div 10], DigitChar[(n % 10) + 1])

to_string(n) == IF n < 0 THEN <<"-">> \o Digits[-n] ELSE Digits[n]

IsId(i) == i \notin {NotNumber, TooLarge}

-----------------------------------------------------------------------------
(* The factory's scan. *)

Files(d) == {f \in DOMAIN disk : f[1] = d}
Unnumbered == {f \in DOMAIN disk : stoi(f[2]) = NotNumber}

(* std::sort: the n-th id is the least that at least n of the ids do not exceed. *)
Sorted(ids) ==
  [n \in DOMAIN ids |->
     Min({v \in ToSet(ids) : Cardinality({k \in DOMAIN ids : ids[k] <= v}) >= n})]

(* initialize_entity_map pushes the id of every file's name to its directory's *)
(* vector. The name of a file in Unnumbered leaves the variable id without a   *)
(* value, and whatever it holds is pushed.                                     *)
pushed(d, id) ==
  LET fs == SetToSeq(Files(d))
  IN [k \in DOMAIN fs |-> IF fs[k] \in Unnumbered THEN id[fs[k]] ELSE stoi(fs[k][2])]

ids_of(ids, d) == IF d \in DOMAIN ids THEN ids[d] ELSE <<>>

initialize_entity_map(id) ==
  [d \in DOMAIN entity_ids \cup {f[1] : f \in DOMAIN disk} |->
     Sorted(ids_of(entity_ids, d) \o pushed(d, id))]

(* The handlers' view of the map; ids is the map as the scan has left it. *)
entity_exists(ids, d, i) == d \in DOMAIN ids /\ Contains(ids[d], i)

get_available_id(ids, d) ==
  IF d \notin DOMAIN ids THEN 1
  ELSE Max({0} \cup {n \in DOMAIN ids[d] : \A k \in 1..n : ids[d][k] = k}) + 1

(* Mutant: the map gets the id before the new one. *)
add_id_to_entity_off_by_one(ids, d, i) ==
  IF d \notin DOMAIN ids THEN Put(ids, d, <<i - 1>>)
  ELSE [ids EXCEPT ![d] = Sorted(Append(@, i - 1))]

add_id_to_entity(ids, d, i) ==
  IF d \notin DOMAIN ids THEN Put(ids, d, <<i>>)
  ELSE IF entity_exists(ids, d, i) THEN ids
  ELSE [ids EXCEPT ![d] = Sorted(Append(@, i))]

remove_id_from_entity(ids, d, i) == [ids EXCEPT ![d] = RemoveFirst(@, i)]

-----------------------------------------------------------------------------
(* What a target means: its last two segments are the directory and the name   *)
(* of an entity.  The properties compare the handlers, which cut the target    *)
(* each in a way of its own, with this.                                        *)
Segment(s) == "/" \notin ToSet(s)
Entity(t) ==
  LET i == After(t, LastSlash(t))
      rest == Before(t, LastSlash(t))
  IN <<After(rest, LastSlash(rest)), i>>

-----------------------------------------------------------------------------
(* The handlers. Each of them gets its request and the scanned map. *)

(* A method that the handler does not know is refused whatever its target. *)
Method == {"post", "get", "put", "delete", "other"}
Requests ==
  [method : {"post"}, target : Target, body : Content]
    \cup [method : {"put"}, target : PutTarget, body : Content]
    \cup [method : {"get", "delete"}, target : Target, body : {Null}]
    \cup [method : {"other"}, target : {CHOOSE t \in Target : TRUE}, body : {Null}]

Respond(r, code, id, ids, body) ==
  res' = [method |-> r.method, target |-> r.target, code |-> code,
          id |-> id, ids |-> ids, body |-> body]

(* A 400: what is left of the request is its scan. *)
bad_response(r, ids) ==
  /\ entity_ids' = ids
  /\ Respond(r, 400, Null, <<>>, Null)
  /\ UNCHANGED <<dirs, disk, stored, named>>

(* An exception that nobody catches ends the process; the next one starts with *)
(* an empty map on the same disk.                                              *)
Terminate ==
  /\ entity_ids' = <<>>
  /\ res' = Null
  /\ UNCHANGED <<dirs, disk, stored, named>>

(* Creating or overwriting a file, and its directory. *)
Write(d, i, c) ==
  /\ dirs' = dirs \cup {d}
  /\ disk' = Put(disk, <<d, to_string(i)>>, c)
  /\ named' = named \cup {<<d, i>>}

(* POST: the last segment is the directory.  (Bound: the ids of a directory do *)
(* not use up int, so that the counter in get_available_id does not overflow.)  *)
handle_creation(r, ids) ==
  LET d == After(r.target, LastSlash(r.target))
      id == get_available_id(ids, d)
  IN \/ d = <<>> /\ bad_response(r, ids)
     \/ /\ d # <<>> /\ id <= MaxInt
        /\ Write(d, id, r.body)
        /\ entity_ids' = add_id_to_entity(ids, d, id)
        /\ stored' = Put(stored, <<d, to_string(id)>>, r.body)
        /\ Respond(r, 201, id, <<>>, Null)

(* The directory of a PUT is the last segment of its target without the slash  *)
(* and as many characters as the id has when it is printed; <<>> for none.      *)
target_dir(t, id) ==
  LET target_url_dir == SubSeq(t, 1, Len(t) - Len(to_string(id)) - 1)
  IN IF LastSlash(target_url_dir) = 0 THEN <<>>
     ELSE After(target_url_dir, LastSlash(target_url_dir))

(* PUT: a number after the last slash is the id. *)
handle_update(r, ids) ==
  LET id == stoi(After(r.target, LastSlash(r.target)))
      d == target_dir(r.target, id)
  IN \/ id = TooLarge /\ Terminate
     \/ id = NotNumber /\ bad_response(r, ids)
     \/ IsId(id) /\ d = <<>> /\ bad_response(r, ids)
     \/ /\ IsId(id) /\ d # <<>>
        /\ Write(d, id, r.body)
        /\ \/ /\ <<d, to_string(id)>> \in DOMAIN disk
              /\ entity_ids' = ids
              /\ Respond(r, 200, id, <<>>, Null)
           \/ /\ <<d, to_string(id)>> \notin DOMAIN disk
              /\ entity_ids' = add_id_to_entity(ids, d, id)
              /\ Respond(r, 201, id, <<>>, Null)
        /\ stored' = Put(stored, Entity(r.target), r.body)

(* Mutant: the file is sought under the number, not under the name, of the id. *)
deletion_path_of_number(t) ==
  LET last_slash == LastSlash(t)
      entity_slash == LastSlash(IF last_slash = 1 THEN t ELSE Before(t, last_slash))
      id == After(t, last_slash)
  IN <<SubSeq(t, entity_slash + 1, last_slash - 1), IF IsId(stoi(id)) THEN to_string(stoi(id)) ELSE id>>

(* The file of a DELETE: the last two segments of the target. The search for    *)
(* the slash before a slash at position 0 finds that slash again; the path has  *)
(* one segment then, and names a directory or nothing. No file has an empty     *)
(* directory or name, so that the targets refused for those are refused here.   *)
deletion_path(t) ==
  LET last_slash == LastSlash(t)
      entity_slash == LastSlash(IF last_slash = 1 THEN t ELSE Before(t, last_slash))
  IN <<SubSeq(t, entity_slash + 1, last_slash - 1), After(t, last_slash)>>

(* DELETE: the file must be there, and its name's number be in the map. *)
handle_deletion(r, ids) ==
  LET file == deletion_path(r.target)
      id == stoi(file[2])
      deletes == /\ file \in DOMAIN disk
                 /\ IsId(id) /\ entity_exists(ids, file[1], id)
  IN \/ ~deletes /\ bad_response(r, ids)
     \/ /\ deletes
        /\ entity_ids' = remove_id_from_entity(ids, file[1], id)
        /\ disk' = Restrict(disk, DOMAIN disk \ {file})
        /\ stored' = Restrict(stored, DOMAIN stored \ {Entity(r.target)})
        /\ Respond(r, 200, id, <<>>, Null)
        /\ UNCHANGED <<dirs, named>>

(* GET without a number after the last slash: that segment is the directory. *)
list_entities(r, ids) ==
  LET d == After(r.target, LastSlash(r.target))
  IN \/ d \notin DOMAIN ids /\ bad_response(r, ids)
     \/ /\ d \in DOMAIN ids
        /\ entity_ids' = ids
        /\ Respond(r, 200, Null, ids[d], Null)
        /\ UNCHANGED <<dirs, disk, stored, named>>

(* Mutant: the directory is the first segment below the location, not the last *)
(* but one of all.                                                             *)
retrieve_path_below_location(t) ==
  LET slash == {k \in DOMAIN t : t[k] = "/"}
      second == CHOOSE k \in slash \ {1} : \A j \in slash \ {1} : k <= j
      third == CHOOSE k \in slash \ {1, second} : \A j \in slash \ {1, second} : k <= j
  IN IF Cardinality(slash) < 3 THEN <<<<>>, After(t, LastSlash(t))>>
     ELSE <<SubSeq(t, second + 1, third - 1), After(t, LastSlash(t))>>

(* The file of a GET: the directory is empty if the target has one slash. *)
retrieve_path(t) ==
  LET last_slash == LastSlash(t)
      second_last == LastSlash(Before(t, last_slash))
  IN <<IF last_slash > 1 /\ second_last > 0
       THEN SubSeq(t, second_last + 1, last_slash - 1) ELSE <<>>,
       After(t, last_slash)>>

(* GET with one: the id is looked up as a number, the file opened as it is     *)
(* written.                                                                    *)
retrieve_entity(r, ids) ==
  LET file == retrieve_path(r.target)
      found == entity_exists(ids, file[1], stoi(file[2])) /\ file \in DOMAIN disk
  IN \/ ~found /\ bad_response(r, ids)
     \/ /\ found
        /\ entity_ids' = ids
        /\ Respond(r, 200, Null, <<>>, disk[file])
        /\ UNCHANGED <<dirs, disk, stored, named>>

(* ends_with_id decides between the two. *)
handle_get(r, ids) ==
  LET id == stoi(After(r.target, LastSlash(r.target)))
  IN \/ id = TooLarge /\ Terminate
     \/ id = NotNumber /\ list_entities(r, ids)
     \/ IsId(id) /\ retrieve_entity(r, ids)

handle_request(r, ids) ==
  \/ r.method = "post" /\ handle_creation(r, ids)
  \/ r.method = "get" /\ handle_get(r, ids)
  \/ r.method = "put" /\ handle_update(r, ids)
  \/ r.method = "delete" /\ handle_deletion(r, ids)
  \/ r.method = "other" /\ bad_response(r, ids)

(* create() scans, and the new handler serves the request; a file name that int *)
(* cannot hold ends the process in the scan.                                    *)
create(r) ==
  /\ requests < MaxRequests
  /\ requests' = requests + 1
  /\ \/ (\E f \in DOMAIN disk : stoi(f[2]) = TooLarge) /\ Terminate
     \/ /\ \A f \in DOMAIN disk : stoi(f[2]) # TooLarge
        /\ \E id \in [Unnumbered -> Uninitialized] :
             handle_request(r, initialize_entity_map(id))

-----------------------------------------------------------------------------
(* The server starts on a disk that somebody has prepared. *)
Init ==
  /\ entity_ids = <<>>
  /\ \E found \in Found : /\ dirs = {f[1] : f \in found}
                          /\ disk \in [found -> Content]
  /\ requests = 0
  /\ res = Null
  /\ stored = Restrict(disk, {f \in DOMAIN disk : IsId(stoi(f[2]))})
  /\ named = {<<f[1], stoi(f[2])>> : f \in DOMAIN stored}

Next == \E r \in Requests : create(r)

Spec == Init /\ [][Next]_vars

-----------------------------------------------------------------------------
(* What the properties below need of the requests and of the disk: an id that a *)
(* PUT names is written as to_string writes it, and a file that a start finds   *)
(* has a name that stoi reads.                                                  *)
CanonicalTargets(targets) ==
  \A t \in targets : LET i == After(t, LastSlash(t))
                     IN IsId(stoi(i)) => i = to_string(stoi(i))
NumberedNames(founds) == \A found \in founds : \A f \in found : stoi(f[2]) # NotNumber

(* A map of sorted vectors of ints. *)
MapOK(ids) ==
  /\ ids \in [DOMAIN ids -> Seq(Int32)]
  /\ \A d \in DOMAIN ids : \A k \in 2..Len(ids[d]) : ids[d][k - 1] <= ids[d][k]

(* The state has its types: the vectors of entity_ids_ are sorted and hold     *)
(* ints, and files lie in directories and have names without a slash.            *)
TypeOK ==
  /\ MapOK(entity_ids)
  /\ disk \in [DOMAIN disk -> Content] /\ IsFiniteSet(DOMAIN disk)
  /\ \A f \in DOMAIN disk : /\ f = <<f[1], f[2]>> /\ f[1] \in dirs
                            /\ f[1] # <<>> /\ Segment(f[1]) /\ Segment(f[2])
  /\ stored \in [DOMAIN stored -> Content]
  /\ requests \in 0..MaxRequests
  /\ res # Null => res.method \in Method /\ res.target \in Target /\ res.code \in {200, 201, 400}
  /\ \A n \in named : n = <<n[1], n[2]>> /\ n[2] \in Int32

(* A GET that names an entity answers with what the last acknowledged POST or   *)
(* PUT has stored there, and with 400 if nothing has or a DELETE has removed    *)
(* it: POST, PUT, DELETE and GET, each with a parser of its own, agree on what  *)
(* a target means (crud_handler.cc:115, 190, 318, 394).                         *)
GetIsLastWrite ==
  (res # Null /\ res.method = "get" /\ IsId(stoi(After(res.target, LastSlash(res.target))))) =>
    LET e == Entity(res.target)
    IN IF e \in DOMAIN stored THEN res.code = 200 /\ res.body = stored[e]
       ELSE res.code = 400

(* A listing names only ids that a file in this directory has or has had: what  *)
(* the scan pushes comes from the files' names (crud_handler_factory.cc:50).    *)
ListedWasNamed ==
  (res # Null /\ res.method = "get" /\ res.code = 200 /\ res.ids # <<>>) =>
    \A i \in ToSet(res.ids) : <<After(res.target, LastSlash(res.target)), i>> \in named

(* An entity that has been acknowledged is on the disk under its own name, and  *)
(* every file that a name gives an id to is acknowledged: no request writes or  *)
(* removes a file other than the one that its target names (the paths built at  *)
(* crud_handler.cc:145, 204 and 408).                                           *)
DiskIsStored ==
  stored = Restrict(disk, {f \in DOMAIN disk : IsId(stoi(f[2]))})
=============================================================================
