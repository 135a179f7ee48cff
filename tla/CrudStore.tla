----------------------------- MODULE CrudStore -----------------------------
(***************************************************************************)
(* The entity store behind the CRUD API: CrudHandlerFactory, which keeps    *)
(* the map entity_ids_ and rescans the data directory for every request    *)
(* (src/src/factory/crud_handler_factory.cc), and the CrudHandlers it makes *)
(* (src/src/handler/crud_handler.cc), run by the server's worker threads.  *)
(*                                                                         *)
(* POST, PUT and DELETE run under the factory's mutex_; the scan and GET   *)
(* do not.  A vector of entity_ids_ is sorted after every push, so it is   *)
(* represented by the number of times each id occurs in it.  Every access  *)
(* to the map is one step here: what the races between the scan and the    *)
(* handlers can do to the vectors' memory is beyond this model.            *)
(***************************************************************************)
EXTENDS FiniteSets, Integers

CONSTANTS
  Thread,       \* the worker threads of the server
  Dir,          \* names of entities: directories below the handler's root
  Id,           \* the ids that occur: what int can hold, cut to a small set
  TargetId,     \* bound: the ids that requests name and that a start may find
  Content,      \* request bodies
  Null,         \* no file, no owner, no response
  Truncated,    \* a file that is opened for writing and not yet written
  NotNumber,    \* an id in a target that stoi refuses, or a malformed target
  TooLarge,     \* an id in a target that int cannot hold
  MaxRequests   \* bound: requests the server receives

ASSUME CrudAssumption ==
  /\ Id \subseteq Int /\ IsFiniteSet(Id) /\ TargetId \subseteq Id
  /\ {NotNumber, TooLarge, Null} \cap Id = {}
  /\ Cardinality({NotNumber, TooLarge, Null}) = 3
  /\ Null \notin Thread \cup Content \cup {Truncated}
  /\ Truncated \notin Content
  /\ "absent" \notin Content \cup {Truncated, Null}
  /\ Dir # {}
  /\ MaxRequests \in Nat

VARIABLES
  entity_ids,  \* entity_ids_: how often each id occurs in each directory's vector
  known,       \* the directories that have an entry in entity_ids_
  mutex,       \* the owner of mutex_
  dirs,        \* the directories on the disk
  disk,        \* the entity files on the disk
  pc,          \* where a thread is in its request
  req,         \* the request it serves
  todo,        \* directories its scan has not opened yet
  entries,     \* entries of the directory it scans that it has not read yet
  id,          \* the handler's local id
  res,         \* its response
  requests,    \* how many requests have arrived
  acked,       \* history: the store as the responses sent describe it
  undeleted,   \* history: the entities whose DELETE has failed with 500
  owed         \* history: what a GET in progress must find

state == <<entity_ids, known, mutex, dirs, disk, todo, entries, id>>
history == <<requests, acked, undeleted, owed>>
vars == <<state, history, pc, req, res>>

Method == {"post", "get", "list", "put", "delete", "other"}
Request ==
  [method : Method, dir : Dir, id : TargetId \cup {NotNumber, TooLarge, Null}, body : Content \cup {Null}]
(* A request has an id where its target names one, and a body where the       *)
(* handler stores it. For POST, NotNumber stands for a malformed target.      *)
Requests ==
  {r \in Request :
     /\ r.body # Null <=> r.method \in {"post", "put"}
     /\ r.method \in {"put", "delete"} => r.id # Null
     /\ r.method = "get" => r.id \in TargetId \cup {TooLarge}
     /\ r.method = "post" => r.id \in {Null, NotNumber}
     /\ r.method \in {"list", "other"} => r.id = Null}

(* What a thread without a request has for one. *)
NoRequest == CHOOSE r \in Requests : r.method = "other"

PC == {"idle", "scan", "handle", "locked", "directory", "opened", "created",
       "written", "written new", "removing", "found"}

Value == Content \cup {Truncated, Null, "bad target", "not found", "refused", "absent"}
Response == [code : {200, 201, 400, 500}, value : Value, ids : [Id -> Nat]]

(* The vectors of entity_ids_, and the files below the root. *)
Vectors == [Dir -> [Id -> Nat]]
Files == [Dir -> [Id -> Content \cup {Null, Truncated}]]

TypeOK ==
  /\ entity_ids \in Vectors
  /\ known \subseteq Dir
  /\ mutex \in Thread \cup {Null}
  /\ dirs \subseteq Dir
  /\ disk \in Files
  /\ pc \in [Thread -> PC]
  /\ req \in [Thread -> Request]
  /\ todo \in [Thread -> SUBSET Dir]
  /\ entries \in [Thread -> SUBSET (Dir \X Id)]
  /\ id \in [Thread -> Id \cup {Null}]
  /\ res \in [Thread -> Response \cup {Null}]
  /\ requests \in 0..MaxRequests
  /\ acked \in Files
  /\ undeleted \subseteq Dir \X Id
  /\ owed \in [Thread -> BOOLEAN]

-----------------------------------------------------------------------------
(* The map entity_ids_. *)

(* get_available_id walks the sorted vector while its n-th element is n: that *)
(* is, while every id below n occurs exactly once if positive and not at all  *)
(* otherwise, and n occurs.                                                   *)
Advances(d, n) ==
  /\ n \in Id /\ entity_ids[d][n] > 0
  /\ \A i \in Id : i < n => entity_ids[d][i] = IF i > 0 THEN 1 ELSE 0

get_available_id(d) ==
  CHOOSE n \in 1..(Cardinality(Id) + 1) :
    ~Advances(d, n) /\ \A k \in 1..(n - 1) : Advances(d, k)

entity_exists(d, i) == entity_ids[d][i] > 0

(* The scan pushes an id without looking for it in the vector ... *)
push_back(d, i) ==
  /\ entity_ids' = [entity_ids EXCEPT ![d][i] = @ + 1]
  /\ known' = known \cup {d}

(* Mutant: only the directory's entry is made. *)
add_id_to_entity_forgotten(d, i) == known' = known \cup {d} /\ UNCHANGED entity_ids

(* ... add_id_to_entity adds it only if it is not there. *)
add_id_to_entity(d, i) ==
  /\ entity_ids' = IF entity_exists(d, i) THEN entity_ids
                   ELSE [entity_ids EXCEPT ![d][i] = 1]
  /\ known' = known \cup {d}

(* remove_id_from_entity erases the first of the id's occurrences. *)
remove_id_from_entity(d, i) ==
  /\ entity_exists(d, i)
  /\ entity_ids' = [entity_ids EXCEPT ![d][i] = @ - 1]

-----------------------------------------------------------------------------
(* Requests, responses, and the factory's scan. *)

method(t) == req[t].method
dir(t) == req[t].dir
exists(d, i) == disk[d][i] # Null

(* How often each id occurs in a response that names i, or none for Null. *)
Named(i) == [j \in Id |-> IF j = i THEN 1 ELSE 0]

(* The thread answers with an error or a file's content as value and the ids    *)
(* the response names, the handler and the session are deleted; history is     *)
(* updated separately.                                                         *)
Respond(t, code, value, ids) ==
  /\ pc' = [pc EXCEPT ![t] = "idle"]
  /\ res' = [res EXCEPT ![t] = [code |-> code, value |-> value, ids |-> ids]]
  /\ id' = [id EXCEPT ![t] = Null]
  /\ req' = [req EXCEPT ![t] = NoRequest]

Goto(t, l) == pc' = [pc EXCEPT ![t] = l] /\ UNCHANGED <<req, res>>

(* A request arrives and create() opens the root directory for its scan. What *)
(* a GET is owed: an entity that has been acknowledged and that no DELETE has  *)
(* asked for since.                                                            *)
create(t, r) ==
  /\ pc[t] = "idle"
  /\ requests < MaxRequests
  /\ requests' = requests + 1
  /\ pc' = [pc EXCEPT ![t] = "scan"]
  /\ req' = [req EXCEPT ![t] = r]
  /\ res' = [res EXCEPT ![t] = Null]
  /\ todo' = [todo EXCEPT ![t] = dirs]
  /\ owed' = [u \in Thread |->
       IF u = t
       THEN /\ r.method = "get" /\ r.id \in Id
            /\ acked[r.dir][r.id] # Null /\ <<r.dir, r.id>> \notin undeleted
            /\ \A v \in Thread \ {t} : ~(/\ pc[v] # "idle" /\ method(v) = "delete"
                                         /\ dir(v) = r.dir /\ req[v].id = r.id)
       ELSE owed[u] /\ ~(r.method = "delete" /\ dir(u) = r.dir /\ req[u].id = r.id)]
  /\ UNCHANGED <<entity_ids, known, mutex, dirs, disk, entries, id, acked, undeleted>>

(* initialize_entity_map: open the next directory, ... *)
scan_directory(t, d) ==
  /\ pc[t] = "scan" /\ entries[t] = {} /\ d \in todo[t]
  /\ entries' = [entries EXCEPT ![t] = {<<d, i>> : i \in {j \in Id : exists(d, j)}}]
  /\ todo' = [todo EXCEPT ![t] = @ \ {d}]
  /\ UNCHANGED <<entity_ids, known, mutex, dirs, disk, id, pc, req, res, history>>

(* ... push each of the ids read from it, ... *)
scan_entry(t, e) ==
  /\ pc[t] = "scan" /\ e \in entries[t]
  /\ entries' = [entries EXCEPT ![t] = @ \ {e}]
  /\ push_back(e[1], e[2])
  /\ UNCHANGED <<mutex, dirs, disk, todo, id, pc, req, res, history>>

(* Mutant: the scan ends after its first directory entry. *)
scan_done_early(t) ==
  /\ pc[t] = "scan"
  /\ pc' = [pc EXCEPT ![t] = "handle"]
  /\ UNCHANGED <<state, history, req, res>>

(* ... and hand the request to a new CrudHandler. *)
scan_done(t) ==
  /\ pc[t] = "scan" /\ entries[t] = {} /\ todo[t] = {}
  /\ Goto(t, "handle")
  /\ UNCHANGED <<state, history>>

(* The process ends: exit() in the signal handler, or an exception that leaves *)
(* a worker thread.  The disk is what the next start finds: the file that the  *)
(* owner of mutex_ was working on is as it is, nothing else is disturbed.      *)
InFlight(d, i) ==
  \E t \in Thread : /\ mutex = t /\ dir(t) = d /\ id[t] = i
                    /\ pc[t] \in {"opened", "created", "written", "written new", "removing"}

Terminate ==
  /\ entity_ids' = [d \in Dir |-> [i \in Id |-> 0]]
  /\ known' = {}
  /\ mutex' = Null
  /\ pc' = [t \in Thread |-> "idle"]
  /\ todo' = [t \in Thread |-> {}]
  /\ entries' = [t \in Thread |-> {}]
  /\ id' = [t \in Thread |-> Null]
  /\ res' = [t \in Thread |-> Null]
  /\ acked' = [d \in Dir |-> [i \in Id |-> IF InFlight(d, i) THEN disk[d][i] ELSE acked[d][i]]]
  /\ owed' = [t \in Thread |-> FALSE]
  /\ req' = [t \in Thread |-> NoRequest]
  /\ UNCHANGED <<dirs, disk, requests, undeleted>>

-----------------------------------------------------------------------------
(* POST, PUT and DELETE: under the lock. *)

Locking == {"post", "put", "delete"}

(* Mutant: no lock_guard. *)
lock_not_taken(t) ==
  /\ pc[t] = "handle" /\ method(t) \in Locking
  /\ mutex' = t
  /\ Goto(t, "locked")
  /\ UNCHANGED <<entity_ids, known, dirs, disk, todo, entries, id, history>>

lock(t) ==
  /\ pc[t] = "handle" /\ method(t) \in Locking
  /\ mutex = Null
  /\ mutex' = t
  /\ Goto(t, "locked")
  /\ UNCHANGED <<entity_ids, known, dirs, disk, todo, entries, id, history>>

(* Mutant: a return path without an unlock. *)
Return_locked(t, code, value, i) == Respond(t, code, value, Named(i)) /\ UNCHANGED mutex

(* A return from a locked handler: the lock_guard unlocks. *)
Return(t, code, value, i) == mutex' = Null /\ Respond(t, code, value, Named(i))

(* A response that leaves map and disk alone. *)
Refuse(t, code, value) ==
  /\ Return(t, code, value, Null)
  /\ UNCHANGED <<entity_ids, known, dirs, disk, todo, entries, history>>

(* handle_creation and handle_update make the entity's directory unless the   *)
(* target or an existing file lets them do without.                           *)
make_directory(t) ==
  /\ pc[t] = "locked"
  /\ \/ method(t) = "post" /\ req[t].id # NotNumber
     \/ method(t) = "put" /\ req[t].id \in Id
  /\ \/ /\ dirs' = dirs \cup {dir(t)}
        /\ Goto(t, "directory")
        /\ UNCHANGED <<entity_ids, known, mutex, disk, todo, entries, id, history>>
     \/ dir(t) \notin dirs /\ Refuse(t, 400, "refused")

(* A target the handler cannot use: stoi's invalid_argument and the malformed  *)
(* paths are answered with 400, but its out_of_range is not caught.            *)
bad_target(t) ==
  /\ pc[t] = "locked"
  /\ \/ method(t) = "post" /\ req[t].id = NotNumber /\ Refuse(t, 400, "bad target")
     \/ method(t) = "put" /\ req[t].id = NotNumber /\ Refuse(t, 400, "bad target")
     \/ method(t) = "put" /\ req[t].id = TooLarge /\ Terminate

(* The ofstream empties or creates the file, or fails to. *)
open_file(t, i) ==
  \/ /\ disk' = [disk EXCEPT ![dir(t)][i] = Truncated]
     /\ id' = [id EXCEPT ![t] = i]
     /\ Goto(t, IF exists(dir(t), i) THEN "opened" ELSE "created")
     /\ UNCHANGED <<entity_ids, known, mutex, dirs, todo, entries, history>>
  \/ Refuse(t, 400, "refused")

creation_open(t) ==
  /\ pc[t] = "directory" /\ method(t) = "post"
  /\ get_available_id(dir(t)) \in Id
  /\ open_file(t, get_available_id(dir(t)))

update_open(t) ==
  /\ pc[t] = "directory" /\ method(t) = "put"
  /\ open_file(t, req[t].id)

write_close(t) ==
  /\ pc[t] \in {"opened", "created"}
  /\ disk' = [disk EXCEPT ![dir(t)][id[t]] = req[t].body]
  /\ Goto(t, IF pc[t] = "opened" THEN "written" ELSE "written new")
  /\ UNCHANGED <<entity_ids, known, mutex, dirs, todo, entries, id, history>>

Ack(t, c) ==
  /\ acked' = [acked EXCEPT ![dir(t)][id[t]] = c]
  /\ UNCHANGED <<requests, undeleted, owed>>

(* The end of handle_creation, and of handle_update when the file was new. *)
created(t) ==
  /\ pc[t] = "written new" \/ (pc[t] = "written" /\ method(t) = "post")
  /\ add_id_to_entity(dir(t), id[t])
  /\ Return(t, 201, Null, id[t])
  /\ Ack(t, req[t].body)
  /\ UNCHANGED <<dirs, disk, todo, entries>>

(* The end of handle_update when it was not. *)
updated(t) ==
  /\ pc[t] = "written" /\ method(t) = "put"
  /\ Return(t, 200, Null, id[t])
  /\ Ack(t, req[t].body)
  /\ UNCHANGED <<entity_ids, known, dirs, disk, todo, entries>>

(* handle_deletion takes the id out of the map if the file is there ... *)
deletion_remove_id(t) ==
  /\ pc[t] = "locked" /\ method(t) = "delete"
  /\ \/ /\ req[t].id \in Id /\ exists(dir(t), req[t].id)
        /\ \/ /\ remove_id_from_entity(dir(t), req[t].id)
              /\ id' = [id EXCEPT ![t] = req[t].id]
              /\ Goto(t, "removing")
              /\ UNCHANGED <<known, mutex, dirs, disk, todo, entries, history>>
           \/ ~entity_exists(dir(t), req[t].id) /\ Refuse(t, 400, "refused")
     \/ /\ req[t].id \in Id => ~exists(dir(t), req[t].id)
        /\ Refuse(t, 400, "not found")

(* ... and then removes the file, ... *)
deletion_remove_file(t) ==
  /\ pc[t] = "removing"
  /\ disk' = [disk EXCEPT ![dir(t)][id[t]] = Null]
  /\ Return(t, 200, Null, id[t])
  /\ Ack(t, Null)
  /\ UNCHANGED <<entity_ids, known, dirs, todo, entries>>

(* Mutant: the result of remove() is not tested. *)
deletion_not_tested(t) ==
  /\ pc[t] = "removing"
  /\ Return(t, 200, Null, id[t])
  /\ Ack(t, Null)
  /\ UNCHANGED <<entity_ids, known, dirs, disk, todo, entries>>

(* ... or fails to, and does not put the id back. *)
deletion_failed(t) ==
  /\ pc[t] = "removing"
  /\ Return(t, 500, "refused", Null)
  /\ undeleted' = undeleted \cup {<<dir(t), id[t]>>}
  /\ UNCHANGED <<entity_ids, known, dirs, disk, todo, entries, requests, acked, owed>>

-----------------------------------------------------------------------------
(* GET: without the lock. *)

Answer(t, code, value, ids) ==
  /\ Respond(t, code, value, ids)
  /\ UNCHANGED <<entity_ids, known, mutex, dirs, disk, todo, entries, history>>

(* A GET whose last segment is not a number lists that directory. *)
list_entities(t) ==
  /\ pc[t] = "handle" /\ method(t) = "list"
  /\ IF dir(t) \in known THEN Answer(t, 200, Null, entity_ids[dir(t)])
     ELSE Answer(t, 400, "not found", Named(Null))

(* retrieve_entity looks in the map, ... *)
retrieve_lookup(t) ==
  /\ pc[t] = "handle" /\ method(t) = "get"
  /\ \/ /\ req[t].id \in Id /\ entity_exists(dir(t), req[t].id)
        /\ Goto(t, "found")
        /\ UNCHANGED <<state, history>>
     \/ /\ req[t].id \in Id /\ ~entity_exists(dir(t), req[t].id)
        /\ Answer(t, 400, "absent", Named(Null))
     \/ req[t].id = TooLarge /\ Terminate

(* ... and then opens the file and reads it. *)
retrieve_read(t) ==
  /\ pc[t] = "found"
  /\ \/ exists(dir(t), req[t].id) /\ Answer(t, 200, disk[dir(t)][req[t].id], Named(Null))
     \/ Answer(t, 400, "refused", Named(Null))

(* handle_request with any other method. *)
unknown_method(t) ==
  /\ pc[t] = "handle" /\ method(t) = "other"
  /\ Answer(t, 400, "bad target", Named(Null))

-----------------------------------------------------------------------------
(* The server starts on any store it may have left behind. *)
Init ==
  /\ entity_ids = [d \in Dir |-> [i \in Id |-> 0]]
  /\ known = {}
  /\ mutex = Null
  /\ dirs \in SUBSET Dir
  /\ disk \in [Dir -> [Id -> Content \cup {Null}]]
  /\ \A d \in Dir, i \in Id : exists(d, i) => d \in dirs /\ i \in TargetId
  /\ pc = [t \in Thread |-> "idle"]
  /\ req = [t \in Thread |-> NoRequest]
  /\ todo = [t \in Thread |-> {}]
  /\ entries = [t \in Thread |-> {}]
  /\ id = [t \in Thread |-> Null]
  /\ res = [t \in Thread |-> Null]
  /\ requests = 0
  /\ acked = disk
  /\ undeleted = {}
  /\ owed = [t \in Thread |-> FALSE]

(* What a worker thread does with the request it serves. *)
Serve(t) ==
  \/ \E d \in Dir : scan_directory(t, d)
  \/ \E e \in Dir \X Id : scan_entry(t, e)
  \/ scan_done(t)
  \/ lock(t) \/ make_directory(t) \/ bad_target(t)
  \/ creation_open(t) \/ update_open(t) \/ write_close(t) \/ created(t) \/ updated(t)
  \/ deletion_remove_id(t) \/ deletion_remove_file(t) \/ deletion_failed(t)
  \/ list_entities(t) \/ retrieve_lookup(t) \/ retrieve_read(t) \/ unknown_method(t)

Next ==
  \/ \E t \in Thread, r \in Requests : create(t, r)
  \/ \E t \in Thread : Serve(t)
  \/ Terminate

Spec == Init /\ [][Next]_vars

-----------------------------------------------------------------------------
(* The map covers the disk: for a thread that has made its scan, every file   *)
(* on the disk has its id in entity_ids_, whatever the other threads did      *)
(* during the scan; except the file the owner of mutex_ is working on, and    *)
(* those whose DELETE has failed half-way.                                    *)
Covered(d, i) ==
  exists(d, i) => entity_exists(d, i) \/ <<d, i>> \in undeleted \/ InFlight(d, i)

MapCoversDisk ==
  \A t \in Thread : pc[t] \notin {"idle", "scan"} => \A d \in Dir, i \in Id : Covered(d, i)

(* The disk is what the responses say: every entity has the content of the    *)
(* last POST or PUT answered with 200 or 201, and none after a DELETE         *)
(* answered with 200, whatever was answered otherwise, also across a restart; *)
(* except the file that the owner of mutex_ is working on.                    *)
DiskIsAcknowledged ==
  \A d \in Dir, i \in Id : ~InFlight(d, i) => disk[d][i] = acked[d][i]

(* retrieve_entity does not answer "does not exist" for an entity that was    *)
(* acknowledged before the request arrived and that nobody asked to delete.   *)
AcknowledgedIsFound ==
  \A t \in Thread : owed[t] /\ res[t] # Null => res[t].value # "absent"

(* Nobody is stuck: none of the many returns of the locked handlers, and no   *)
(* exception, keeps mutex_, so that a request can go on or waits for one that *)
(* can (the lock_guards of crud_handler.cc:111, 171 and 368).                 *)
NobodyIsStuck ==
  \A t \in Thread : pc[t] # "idle" =>
    ENABLED Serve(t) \/ (mutex \in {u \in Thread : pc[u] # "idle"} /\ ENABLED Serve(mutex))

-----------------------------------------------------------------------------
(* What makes those invariants inductive. *)

(* Only the owner of mutex_ is inside a locked handler. *)
OneHandlerInside ==
  \A t \in Thread : pc[t] \notin {"idle", "scan", "handle", "found"} => mutex = t

(* What a thread has established when it is at each point of its request. *)
Writing == {"opened", "created", "written", "written new"}
LocalState ==
  \A t \in Thread :
    /\ req[t] \in Requests
    /\ pc[t] \notin {"idle", "scan"} => todo[t] = {} /\ entries[t] = {}
    /\ pc[t] \in Writing \cup {"directory"} =>
         /\ method(t) \in {"post", "put"} /\ dir(t) \in dirs
         /\ method(t) = "put" => req[t].id \in Id
    /\ pc[t] \in Writing => id[t] \in Id
    /\ pc[t] = "removing" => method(t) = "delete" /\ id[t] = req[t].id /\ id[t] \in Id
    /\ pc[t] = "found" => req[t].id \in Id
    /\ pc[t] \notin Writing \cup {"removing"} => id[t] = Null

(* The owner of mutex_ still knows whether its file was there when it opened   *)
(* it, and what is in it.                                                      *)
NewOrOld ==
  \A t \in Thread :
    /\ pc[t] \in {"opened", "written"} =>
         entity_exists(dir(t), id[t]) \/ <<dir(t), id[t]>> \in undeleted
    /\ pc[t] \in {"created", "written new"} => acked[dir(t)][id[t]] = Null
    /\ pc[t] \in {"opened", "created"} => disk[dir(t)][id[t]] = Truncated
    /\ pc[t] \in {"written", "written new"} => disk[dir(t)][id[t]] = req[t].body
    /\ pc[t] = "removing" => disk[dir(t)][id[t]] = acked[dir(t)][id[t]]

FilesAreInDirectories == \A d \in Dir, i \in Id : exists(d, i) => d \in dirs

(* A scan leaves out nothing but what the others take care of. *)
ScanCoversDisk ==
  \A t \in Thread : pc[t] # "idle" =>
    \A d \in Dir, i \in Id : Covered(d, i) \/ <<d, i>> \in entries[t] \/ d \in todo[t]

(* What a GET is owed stays there until it is answered. *)
OwedIsKept ==
  \A t \in Thread : owed[t] /\ pc[t] # "idle" =>
    /\ method(t) = "get" /\ req[t].id \in Id
    /\ acked[dir(t)][req[t].id] # Null
    /\ <<dir(t), req[t].id>> \notin undeleted
    /\ \A u \in Thread :
         ~(pc[u] # "idle" /\ method(u) = "delete" /\ dir(u) = dir(t) /\ req[u].id = req[t].id)

CrudInv ==
  /\ TypeOK
  /\ OneHandlerInside
  /\ LocalState
  /\ NewOrOld
  /\ FilesAreInDirectories
  /\ ScanCoversDisk
  /\ DiskIsAcknowledged
  /\ OwedIsKept
  /\ AcknowledgedIsFound

-----------------------------------------------------------------------------
(* What the code says of itself and does not do. *)

(* handle_creation, "prepare path for new entity": the file a POST opens is    *)
(* not the file of an entity that exists.                                     *)
PostIsNew ==
  [][\A t \in Thread :
       pc[t] = "directory" /\ method(t) = "post" /\ id'[t] # Null => ~exists(dir(t), id'[t])]_vars

(* remove_id_from_entity, "successfully deleted from entity map": the id is    *)
(* no longer in the map when it says so.                                      *)
DeletedFromMap ==
  [][\A t \in Thread :
       pc[t] = "locked" /\ pc'[t] = "removing" => entity_ids'[dir(t)][id'[t]] = 0]_vars

(* A GET answered with 200 returns a content that was stored. *)
RetrievedIsStored ==
  \A t \in Thread : res[t] # Null => res[t].value # Truncated
=============================================================================
