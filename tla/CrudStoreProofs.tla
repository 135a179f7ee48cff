-------------------------- MODULE CrudStoreProofs --------------------------
(***************************************************************************)
(* Proofs about CrudStore, for any number of worker threads, any entity    *)
(* names, ids and contents: the map covers the disk, the disk is what the  *)
(* responses say, and a GET finds what it is owed.  Everything rests on    *)
(* the inductive invariant CrudInv of CrudStore; there is one lemma for    *)
(* each way a step of the code can end.                                    *)
(***************************************************************************)
EXTENDS CrudStore, TLAPS

(* A thread without a request is represented by a request of no method. *)
LEMMA NoRequestIsOne == NoRequest \in Requests /\ NoRequest.method = "other"
<1>1. PICK d \in Dir : TRUE
  BY CrudAssumption
<1> DEFINE r == [method |-> "other", dir |-> d, id |-> Null, body |-> Null]
<1>2. r \in Requests /\ r.method = "other"
  BY DEF Requests, Request, Method
<1> HIDE DEF r
<1>3. QED
  BY <1>2 DEF NoRequest

(* Null is neither the owner of a mutex nor an id. *)
LEMMA NullIsNone == Null \notin Thread /\ Null \notin Id
  BY CrudAssumption

(* What the target and the method say of a request that arrives. *)
LEMMA RequestFacts ==
  ASSUME NEW r \in Requests
  PROVE  /\ r \in Request /\ r.dir \in Dir
         /\ r.method \in {"post", "put"} => r.body \in Content
         /\ r.method \in {"put", "delete"} => r.id # Null
  BY DEF Requests, Request

(* The handler is between opening or unlisting a file and its answer. *)
AtFile == Writing \cup {"removing"}

(* The step is t's own. *)
OnlyOf(t) ==
  \A u \in Thread \ {t} :
    /\ pc'[u] = pc[u] /\ req'[u] = req[u] /\ id'[u] = id[u] /\ res'[u] = res[u]
    /\ entries'[u] = entries[u] /\ todo'[u] = todo[u]

(* A step outside the files leaves what is in flight alone. *)
LEMMA InFlightUnchanged ==
  ASSUME NEW t \in Thread, OnlyOf(t),
         pc[t] \notin AtFile, pc'[t] \notin AtFile,
         mutex' = mutex \/ {mutex, mutex'} \subseteq {Null, t},
         Null \notin Thread
  PROVE  \A d \in Dir, i \in Id : InFlight(d, i)' <=> InFlight(d, i)
  BY DEF OnlyOf, AtFile, Writing, InFlight, dir

(* A step that changes neither the map nor a file keeps what is said of files. *)
LEMMA QuietStep ==
  ASSUME CrudInv, NEW t \in Thread, OnlyOf(t),
         pc[t] \notin AtFile, pc'[t] \notin AtFile,
         mutex' = mutex \/ {mutex, mutex'} \subseteq {Null, t},
         UNCHANGED <<entity_ids, disk, acked, undeleted>>, dirs \subseteq dirs'
  PROVE  /\ \A d \in Dir, i \in Id : Covered(d, i)' <=> Covered(d, i)
         /\ NewOrOld' /\ FilesAreInDirectories' /\ DiskIsAcknowledged'
<1>1. \A d \in Dir, i \in Id : InFlight(d, i)' <=> InFlight(d, i)
  BY InFlightUnchanged, CrudAssumption
<1>2. \A d \in Dir, i \in Id : Covered(d, i)' <=> Covered(d, i)
  BY <1>1 DEF Covered, exists, entity_exists
<1>3. NewOrOld'
  BY DEF CrudInv, NewOrOld, OnlyOf, AtFile, Writing, dir, entity_exists
<1>4. FilesAreInDirectories'
  BY DEF CrudInv, FilesAreInDirectories, exists
<1>5. DiskIsAcknowledged'
  BY <1>1 DEF CrudInv, DiskIsAcknowledged
<1>6. QED
  BY <1>2, <1>3, <1>4, <1>5

(* The scan ends when all it found is in the map. *)
LEMMA ScanDoneInvariant ==
  ASSUME CrudInv, NEW t \in Thread, scan_done(t)
  PROVE  CrudInv'
<1>1. /\ pc[t] = "scan" /\ pc' = [pc EXCEPT ![t] = "handle"]
      /\ entries[t] = {} /\ todo[t] = {}
      /\ UNCHANGED <<entity_ids, known, mutex, dirs, disk, todo, entries, id>>
      /\ UNCHANGED <<requests, acked, undeleted, owed, req, res>>
  BY DEF scan_done, Goto, state, history
<1>2. TypeOK
  BY DEF CrudInv
<1>3. TypeOK'
  BY <1>1, <1>2 DEF TypeOK, PC
<1>4. pc \in [Thread -> PC] /\ OnlyOf(t)
  BY <1>1, <1>2 DEF TypeOK, OnlyOf
<1>5. OneHandlerInside'
  BY <1>1, <1>4 DEF CrudInv, OneHandlerInside
<1>6. LocalState'
  BY <1>1, <1>4 DEF CrudInv, LocalState, Writing, method, dir
<1>7. /\ \A d \in Dir, i \in Id : Covered(d, i)' <=> Covered(d, i)
      /\ NewOrOld' /\ FilesAreInDirectories' /\ DiskIsAcknowledged'
  BY <1>1, <1>4, QuietStep DEF AtFile, Writing
<1>8. ScanCoversDisk'
  BY <1>1, <1>4, <1>7 DEF CrudInv, ScanCoversDisk
<1>9. OwedIsKept' /\ AcknowledgedIsFound'
  BY <1>1, <1>4 DEF CrudInv, OwedIsKept, AcknowledgedIsFound, method, dir
<1>10. QED
  BY <1>3, <1>5, <1>6, <1>7, <1>8, <1>9 DEF CrudInv

(* A request begins its scan with every directory that holds a file. *)
LEMMA CreateInvariant ==
  ASSUME CrudInv, NEW t \in Thread, NEW r \in Requests, create(t, r)
  PROVE  CrudInv'
<1>1. /\ pc[t] = "idle" /\ pc' = [pc EXCEPT ![t] = "scan"]
      /\ requests < MaxRequests /\ requests' = requests + 1
      /\ req' = [req EXCEPT ![t] = r] /\ res' = [res EXCEPT ![t] = Null]
      /\ todo' = [todo EXCEPT ![t] = dirs]
      /\ UNCHANGED <<entity_ids, known, mutex, dirs, disk, entries, id, acked, undeleted>>
  BY DEF create
<1>2. TypeOK
  BY DEF CrudInv
<1>3. TypeOK'
  <2>1. r \in Request
    BY RequestFacts
  <2>2. owed' \in [Thread -> BOOLEAN]
    BY <1>2 DEF create, TypeOK
  <2>3. requests' \in 0..MaxRequests
    BY <1>1, <1>2, CrudAssumption DEF TypeOK
  <2>4. QED
    BY <1>1, <1>2, <2>1, <2>2, <2>3 DEF TypeOK, PC
<1>4. OnlyOf(t) /\ pc'[t] = "scan" /\ req'[t] = r /\ res'[t] = Null /\ todo'[t] = dirs
  BY <1>1, <1>2 DEF TypeOK, OnlyOf
<1>5. OneHandlerInside'
  BY <1>1, <1>4 DEF CrudInv, OneHandlerInside, OnlyOf
<1>6. LocalState'
  <2>1. LocalState!(t)'
    BY <1>1, <1>4 DEF CrudInv, LocalState, Writing
  <2>2. \A u \in Thread \ {t} : LocalState!(u)'
    BY <1>1, <1>4 DEF CrudInv, LocalState, method, dir, OnlyOf
  <2>3. QED
    BY <2>1, <2>2 DEF LocalState
<1>7. /\ \A d \in Dir, i \in Id : Covered(d, i)' <=> Covered(d, i)
      /\ NewOrOld' /\ FilesAreInDirectories' /\ DiskIsAcknowledged'
  BY <1>1, <1>4, QuietStep DEF AtFile, Writing
<1>8. ScanCoversDisk'
  BY <1>1, <1>4, <1>7 DEF CrudInv, ScanCoversDisk, FilesAreInDirectories, Covered, exists, OnlyOf
<1>9. OwedIsKept'
  <2>1. SUFFICES ASSUME NEW u \in Thread, owed'[u], pc'[u] # "idle"
                 PROVE  OwedIsKept!(u)!2'
    BY DEF OwedIsKept
  <2>2. CASE u = t
    <3>1. /\ r.method = "get" /\ r.id \in Id
          /\ acked[r.dir][r.id] # Null /\ <<r.dir, r.id>> \notin undeleted
          /\ \A v \in Thread \ {t} : ~(/\ pc[v] # "idle" /\ method(v) = "delete"
                                       /\ dir(v) = r.dir /\ req[v].id = r.id)
      BY <2>1, <2>2 DEF create
    <3>2. QED
      BY <1>1, <1>4, <2>2, <3>1 DEF OnlyOf, method, dir
  <2>3. CASE u # t
    <3>1. /\ owed[u] /\ pc[u] # "idle"
          /\ ~(r.method = "delete" /\ dir(u) = r.dir /\ req[u].id = r.id)
      BY <1>4, <2>1, <2>3 DEF create, OnlyOf
    <3>2. OwedIsKept!(u)!2
      BY <3>1 DEF CrudInv, OwedIsKept
    <3>3. QED
      BY <1>1, <1>4, <2>3, <3>1, <3>2 DEF OnlyOf, method, dir
  <2>4. QED
    BY <2>2, <2>3
<1>10. AcknowledgedIsFound'
  BY <1>1, <1>2, <1>4 DEF TypeOK, create, CrudInv, AcknowledgedIsFound, OnlyOf
<1>11. QED
  BY <1>3, <1>5, <1>6, <1>7, <1>8, <1>9, <1>10 DEF CrudInv

(* Opening a directory finds all the files in it ... *)
LEMMA ScanDirectoryInvariant ==
  ASSUME CrudInv, NEW t \in Thread, NEW d \in Dir, scan_directory(t, d)
  PROVE  CrudInv'
<1> DEFINE found == {<<d, i>> : i \in {j \in Id : exists(d, j)}}
<1>1. /\ pc[t] = "scan" /\ entries[t] = {}
      /\ entries' = [entries EXCEPT ![t] = found] /\ todo' = [todo EXCEPT ![t] = @ \ {d}]
      /\ UNCHANGED <<entity_ids, known, mutex, dirs, disk, id, pc, req, res>>
      /\ UNCHANGED <<requests, acked, undeleted, owed>>
  BY DEF scan_directory, history
<1>2. /\ found \subseteq Dir \X Id
      /\ \A i \in Id : exists(d, i) => <<d, i>> \in found
  <2>1. \A i \in Id : exists(d, i) => <<d, i>> \in found
    OBVIOUS
  <2>2. \A x \in found : \E i \in Id : x = <<d, i>>
    OBVIOUS
  <2>3. \A i \in Id : <<d, i>> \in Dir \X Id
    OBVIOUS
  <2>4. QED
    BY <2>1, <2>2, <2>3, Zenon
<1> HIDE DEF found
<1>3. TypeOK
  BY DEF CrudInv
<1>4. TypeOK'
  BY <1>1, <1>2, <1>3 DEF TypeOK
<1>5. OnlyOf(t) /\ pc'[t] = "scan" /\ entries'[t] = found /\ todo'[t] = todo[t] \ {d}
  BY <1>1, <1>3 DEF TypeOK, OnlyOf
<1>6. OneHandlerInside'
  BY <1>1 DEF CrudInv, OneHandlerInside
<1>7. LocalState'
  BY <1>1, <1>5 DEF CrudInv, LocalState, Writing, method, dir, OnlyOf
<1>8. /\ \A e \in Dir, i \in Id : Covered(e, i)' <=> Covered(e, i)
      /\ NewOrOld' /\ FilesAreInDirectories' /\ DiskIsAcknowledged'
  BY <1>1, <1>5, QuietStep DEF AtFile, Writing
<1>9. ScanCoversDisk'
  BY <1>1, <1>2, <1>5, <1>8 DEF CrudInv, ScanCoversDisk, Covered, OnlyOf
<1>10. OwedIsKept' /\ AcknowledgedIsFound'
  BY <1>1 DEF CrudInv, OwedIsKept, AcknowledgedIsFound, method, dir
<1>11. QED
  BY <1>4, <1>6, <1>7, <1>8, <1>9, <1>10 DEF CrudInv

(* ... and the map is only added to. *)
LEMMA ScanEntryInvariant ==
  ASSUME CrudInv, NEW t \in Thread, NEW e \in Dir \X Id, scan_entry(t, e)
  PROVE  CrudInv'
<1>1. /\ pc[t] = "scan"
      /\ entries' = [entries EXCEPT ![t] = @ \ {e}]
      /\ entity_ids' = [entity_ids EXCEPT ![e[1]][e[2]] = @ + 1]
      /\ known' = known \cup {e[1]}
      /\ UNCHANGED <<mutex, dirs, disk, todo, id, pc, req, res>>
      /\ UNCHANGED <<requests, acked, undeleted, owed>>
  BY DEF scan_entry, push_back, history
<1>2. TypeOK
  BY DEF CrudInv
<1>3. /\ entity_ids' \in Vectors
      /\ \A d \in Dir, i \in Id : entity_exists(d, i) \/ <<d, i>> = e => entity_exists(d, i)'
  BY <1>1, <1>2 DEF TypeOK, Vectors, entity_exists
<1>4. TypeOK'
  BY <1>1, <1>2, <1>3 DEF TypeOK
<1>5. /\ \A u \in Thread \ {t} : entries'[u] = entries[u]
      /\ entries'[t] = entries[t] \ {e}
  BY <1>1, <1>2 DEF TypeOK
<1>6. \A d \in Dir, i \in Id : InFlight(d, i)' <=> InFlight(d, i)
  BY <1>1 DEF InFlight, dir
<1>7. \A d \in Dir, i \in Id : Covered(d, i) \/ <<d, i>> = e => Covered(d, i)'
  BY <1>1, <1>3, <1>6 DEF Covered, exists
<1>8. OneHandlerInside'
  BY <1>1 DEF CrudInv, OneHandlerInside
<1>9. LocalState'
  BY <1>1, <1>5 DEF CrudInv, LocalState, Writing, method, dir
<1>10. NewOrOld'
  BY <1>1, <1>3, RequestFacts DEF CrudInv, NewOrOld, LocalState, Writing, dir
<1>11. FilesAreInDirectories' /\ DiskIsAcknowledged'
  BY <1>1, <1>6 DEF CrudInv, FilesAreInDirectories, DiskIsAcknowledged, exists
<1>12. ScanCoversDisk'
  BY <1>1, <1>5, <1>7 DEF CrudInv, ScanCoversDisk
<1>13. OwedIsKept' /\ AcknowledgedIsFound'
  BY <1>1 DEF CrudInv, OwedIsKept, AcknowledgedIsFound, method, dir
<1>14. QED
  BY <1>4, <1>8, <1>9, <1>10, <1>11, <1>12, <1>13 DEF CrudInv

(* The next start finds nobody inside, and the disk as it is. *)
LEMMA TerminateInvariant ==
  ASSUME CrudInv, Terminate
  PROVE  CrudInv'
<1>1. /\ pc' = [t \in Thread |-> "idle"] /\ owed' = [t \in Thread |-> FALSE]
      /\ UNCHANGED <<dirs, disk>>
  BY DEF Terminate
<1>2. TypeOK'
  <2>1. acked' \in Files /\ entity_ids' \in Vectors
    BY DEF Terminate, CrudInv, TypeOK, Files, Vectors
  <2>2. req' \in [Thread -> Request]
    BY NoRequestIsOne, RequestFacts DEF Terminate
  <2>3. QED
    BY <2>1, <2>2 DEF Terminate, CrudInv, TypeOK, PC
<1>3. OneHandlerInside' /\ NewOrOld' /\ ScanCoversDisk' /\ OwedIsKept' /\ AcknowledgedIsFound'
  BY <1>1 DEF OneHandlerInside, NewOrOld, ScanCoversDisk, OwedIsKept, AcknowledgedIsFound
<1>4. LocalState'
  BY NoRequestIsOne DEF Terminate, LocalState, Writing
<1>5. FilesAreInDirectories'
  BY <1>1 DEF CrudInv, FilesAreInDirectories, exists
<1>6. DiskIsAcknowledged'
  BY <1>1 DEF Terminate, CrudInv, DiskIsAcknowledged
<1>7. QED
  BY <1>2, <1>3, <1>4, <1>5, <1>6 DEF CrudInv

(* A response from a handler that has touched neither map nor disk. *)
LEMMA QuietReturn ==
  ASSUME CrudInv, NEW t \in Thread,
         pc[t] \in {"handle", "locked", "directory", "found"},
         NEW answer \in Response, answer.value = "absent" => ~owed[t],
         res' = [res EXCEPT ![t] = answer],
         pc' = [pc EXCEPT ![t] = "idle"],
         id' = [id EXCEPT ![t] = Null],
         req' = [req EXCEPT ![t] = NoRequest],
         \/ pc[t] \in {"locked", "directory"} /\ mutex' = Null
         \/ pc[t] \in {"handle", "found"} /\ UNCHANGED mutex,
         UNCHANGED <<entity_ids, known, dirs, disk, todo, entries>>,
         UNCHANGED <<requests, acked, undeleted, owed>>
  PROVE  CrudInv'
<1>1. TypeOK
  BY DEF CrudInv
<1>2. NoRequest \in Request
  BY NoRequestIsOne, RequestFacts
<1>3. TypeOK'
  BY <1>1, <1>2 DEF TypeOK, PC
<1>4. OnlyOf(t) /\ pc'[t] = "idle" /\ id'[t] = Null /\ req'[t] = NoRequest /\ res'[t] = answer
  BY <1>1 DEF TypeOK, OnlyOf
<1>5. mutex' = mutex \/ {mutex, mutex'} \subseteq {Null, t}
  BY DEF CrudInv, OneHandlerInside
<1>6. OneHandlerInside'
  BY <1>4, NullIsNone DEF CrudInv, OneHandlerInside, OnlyOf
<1>7. LocalState'
  <2>1. LocalState!(t)'
    BY <1>4, NoRequestIsOne DEF LocalState, Writing
  <2>2. \A u \in Thread \ {t} : LocalState!(u)'
    BY <1>4 DEF CrudInv, LocalState, method, dir, OnlyOf
  <2>3. QED
    BY <2>1, <2>2 DEF LocalState
<1>8. /\ \A d \in Dir, i \in Id : Covered(d, i)' <=> Covered(d, i)
      /\ NewOrOld' /\ FilesAreInDirectories' /\ DiskIsAcknowledged'
  BY <1>4, <1>5, QuietStep DEF AtFile, Writing
<1>9. ScanCoversDisk'
  BY <1>4, <1>8 DEF CrudInv, ScanCoversDisk, OnlyOf
<1>10. OwedIsKept'
  BY <1>4 DEF CrudInv, OwedIsKept, OnlyOf, method, dir
<1>11. AcknowledgedIsFound'
  BY <1>4 DEF CrudInv, AcknowledgedIsFound, OnlyOf
<1>12. QED
  BY <1>3, <1>6, <1>7, <1>8, <1>9, <1>10, <1>11 DEF CrudInv

(* An error answer of a locked handler only unlocks. *)
LEMMA RefuseInvariant ==
  ASSUME CrudInv, NEW t \in Thread, pc[t] \in {"locked", "directory"},
         NEW value \in {"bad target", "not found", "refused"}, Refuse(t, 400, value)
  PROVE  CrudInv'
<1>1. Named(Null) \in [Id -> Nat]
  BY DEF Named
<1>2. /\ Respond(t, 400, value, Named(Null)) /\ mutex' = Null
      /\ UNCHANGED <<entity_ids, known, dirs, disk, todo, entries, history>>
  BY DEF Refuse, Return
<1>3. [code |-> 400, value |-> value, ids |-> Named(Null)] \in Response
  BY <1>1 DEF Response, Value
<1>4. QED
  BY <1>2, <1>3, QuietReturn DEF Respond, history

(* lock_guard: nobody else is inside. *)
LEMMA LockInvariant ==
  ASSUME CrudInv, NEW t \in Thread, lock(t)
  PROVE  CrudInv'
<1>1. /\ pc[t] = "handle" /\ pc' = [pc EXCEPT ![t] = "locked"]
      /\ mutex = Null /\ mutex' = t
      /\ UNCHANGED <<entity_ids, known, dirs, disk, todo, entries, id, req, res>>
      /\ UNCHANGED <<requests, acked, undeleted, owed>>
  BY DEF lock, Goto, history
<1>2. TypeOK
  BY DEF CrudInv
<1>3. TypeOK'
  BY <1>1, <1>2 DEF TypeOK, PC
<1>4. OnlyOf(t) /\ pc'[t] = "locked"
  BY <1>1, <1>2 DEF TypeOK, OnlyOf
<1>5. OneHandlerInside'
  BY <1>1, <1>4, NullIsNone DEF CrudInv, OneHandlerInside, OnlyOf
<1>6. LocalState'
  BY <1>1, <1>4 DEF CrudInv, LocalState, Writing, method, dir, OnlyOf
<1>7. /\ \A d \in Dir, i \in Id : Covered(d, i)' <=> Covered(d, i)
      /\ NewOrOld' /\ FilesAreInDirectories' /\ DiskIsAcknowledged'
  BY <1>1, <1>4, QuietStep DEF AtFile, Writing
<1>8. ScanCoversDisk'
  BY <1>1, <1>4, <1>7 DEF CrudInv, ScanCoversDisk, OnlyOf
<1>9. OwedIsKept' /\ AcknowledgedIsFound'
  BY <1>1, <1>4 DEF CrudInv, OwedIsKept, AcknowledgedIsFound, OnlyOf, method, dir
<1>10. QED
  BY <1>3, <1>5, <1>6, <1>7, <1>8, <1>9 DEF CrudInv

(* create_directories, or its failure, before the file is opened. *)
LEMMA MakeDirectoryInvariant ==
  ASSUME CrudInv, NEW t \in Thread, make_directory(t)
  PROVE  CrudInv'
<1>1. CASE Refuse(t, 400, "refused")
  BY <1>1, RefuseInvariant DEF make_directory
<1>2. CASE ~Refuse(t, 400, "refused")
  <2>1. /\ pc[t] = "locked" /\ pc' = [pc EXCEPT ![t] = "directory"]
        /\ dirs' = dirs \cup {dir(t)}
        /\ method(t) \in {"post", "put"} /\ (method(t) = "put" => req[t].id \in Id)
        /\ UNCHANGED <<entity_ids, known, mutex, disk, todo, entries, id, req, res>>
        /\ UNCHANGED <<requests, acked, undeleted, owed>>
    BY <1>2 DEF make_directory, Goto, history
  <2>2. TypeOK /\ req[t] \in Requests /\ dir(t) \in Dir
    BY RequestFacts DEF CrudInv, LocalState, dir
  <2>3. TypeOK'
    BY <2>1, <2>2 DEF TypeOK, PC
  <2>4. OnlyOf(t) /\ pc'[t] = "directory"
    BY <2>1, <2>2 DEF TypeOK, OnlyOf
  <2>5. OneHandlerInside'
    BY <2>1, <2>4 DEF CrudInv, OneHandlerInside, OnlyOf
  <2>6. LocalState'
    <3>1. LocalState!(t)'
      BY <2>1, <2>4 DEF CrudInv, LocalState, Writing, method, dir
    <3>2. \A u \in Thread \ {t} : LocalState!(u)'
      BY <2>1, <2>4 DEF CrudInv, LocalState, method, dir, OnlyOf
    <3>3. QED
      BY <3>1, <3>2 DEF LocalState
  <2>7. /\ \A d \in Dir, i \in Id : Covered(d, i)' <=> Covered(d, i)
        /\ NewOrOld' /\ FilesAreInDirectories' /\ DiskIsAcknowledged'
    BY <2>1, <2>4, QuietStep DEF AtFile, Writing
  <2>8. ScanCoversDisk'
    BY <2>1, <2>4, <2>7 DEF CrudInv, ScanCoversDisk, OnlyOf
  <2>9. OwedIsKept' /\ AcknowledgedIsFound'
    BY <2>1, <2>4 DEF CrudInv, OwedIsKept, AcknowledgedIsFound, OnlyOf, method, dir
  <2>10. QED
    BY <2>3, <2>5, <2>6, <2>7, <2>8, <2>9 DEF CrudInv
<1>3. QED
  BY <1>1, <1>2

(* A target that stoi refuses, or that ends the process. *)
LEMMA BadTargetInvariant ==
  ASSUME CrudInv, NEW t \in Thread, bad_target(t)
  PROVE  CrudInv'
  BY RefuseInvariant, TerminateInvariant DEF bad_target

(* A listing, and what is none of the methods. *)
LEMMA ListInvariant ==
  ASSUME CrudInv, NEW t \in Thread, list_entities(t) \/ unknown_method(t)
  PROVE  CrudInv'
<1>1. Named(Null) \in [Id -> Nat] /\ entity_ids[dir(t)] \in [Id -> Nat]
  BY RequestFacts DEF CrudInv, TypeOK, LocalState, Vectors, Named, dir
<1>2. pc[t] = "handle"
  BY DEF list_entities, unknown_method
<1>3. CASE list_entities(t) /\ dir(t) \in known
  <2>1. /\ [code |-> 200, value |-> Null, ids |-> entity_ids[dir(t)]] \in Response
        /\ Null # "absent"
    BY <1>1, CrudAssumption DEF Response, Value
  <2>2. QED
    BY <1>2, <1>3, <2>1, QuietReturn DEF list_entities, Answer, Respond, history
<1>4. CASE list_entities(t) /\ dir(t) \notin known
  <2>1. [code |-> 400, value |-> "not found", ids |-> Named(Null)] \in Response
    BY <1>1 DEF Response, Value
  <2>2. QED
    BY <1>2, <1>4, <2>1, QuietReturn DEF list_entities, Answer, Respond, history
<1>5. CASE unknown_method(t)
  <2>1. [code |-> 400, value |-> "bad target", ids |-> Named(Null)] \in Response
    BY <1>1 DEF Response, Value
  <2>2. QED
    BY <1>2, <1>5, <2>1, QuietReturn DEF unknown_method, Answer, Respond, history
<1>6. QED
  BY <1>3, <1>4, <1>5

(* retrieve_entity does not miss what a GET is owed. *)
LEMMA OwedIsInMap ==
  ASSUME CrudInv, NEW t \in Thread, pc[t] = "handle", method(t) = "get",
         req[t].id \in Id, owed[t]
  PROVE  entity_exists(dir(t), req[t].id)
<1> DEFINE d == dir(t)
           i == req[t].id
<1>1. d \in Dir /\ i \in Id
  BY RequestFacts DEF CrudInv, LocalState, dir
<1>2. /\ acked[d][i] # Null /\ <<d, i>> \notin undeleted
      /\ \A u \in Thread :
           ~(pc[u] # "idle" /\ method(u) = "delete" /\ dir(u) = d /\ req[u].id = i)
  BY DEF CrudInv, OwedIsKept
<1>3. Covered(d, i)
  BY <1>1 DEF CrudInv, ScanCoversDisk, LocalState
<1> HIDE DEF d, i
<1>4. CASE ~InFlight(d, i)
  BY <1>1, <1>2, <1>3, <1>4 DEF CrudInv, DiskIsAcknowledged, Covered, exists, d, i
<1>5. CASE InFlight(d, i)
  <2>1. PICK u \in Thread : dir(u) = d /\ id[u] = i /\ pc[u] \in AtFile
    BY <1>5 DEF InFlight, AtFile, Writing
  <2>2. pc[u] # "removing"
    BY <1>2, <2>1 DEF CrudInv, LocalState
  <2>3. pc[u] \notin {"created", "written new"}
    BY <1>2, <2>1 DEF CrudInv, NewOrOld
  <2>4. QED
    BY <1>2, <2>1, <2>2, <2>3 DEF CrudInv, NewOrOld, AtFile, Writing, d, i
<1>6. QED
  BY <1>4, <1>5

(* retrieve_entity looks in the map: found, absent, or the process ends. *)
LEMMA RetrieveLookupInvariant ==
  ASSUME CrudInv, NEW t \in Thread, retrieve_lookup(t)
  PROVE  CrudInv'
<1>1. pc[t] = "handle" /\ method(t) = "get"
  BY DEF retrieve_lookup
<1>2. CASE Terminate
  BY <1>2, TerminateInvariant
<1>3. CASE req[t].id \in Id /\ ~entity_exists(dir(t), req[t].id)
           /\ Answer(t, 400, "absent", Named(Null))
  <2>1. Named(Null) \in [Id -> Nat]
    BY DEF Named
  <2>2. [code |-> 400, value |-> "absent", ids |-> Named(Null)] \in Response
    BY <2>1 DEF Response, Value
  <2>3. ~owed[t]
    BY <1>1, <1>3, OwedIsInMap
  <2>4. QED
    BY <1>1, <1>3, <2>2, <2>3, QuietReturn DEF Answer, Respond, history
<1>4. CASE req[t].id \in Id /\ Goto(t, "found") /\ UNCHANGED <<state, history>>
  <2>1. /\ pc' = [pc EXCEPT ![t] = "found"]
        /\ UNCHANGED <<entity_ids, known, mutex, dirs, disk, todo, entries, id, req, res>>
        /\ UNCHANGED <<requests, acked, undeleted, owed>>
    BY <1>4 DEF Goto, state, history
  <2>2. TypeOK
    BY DEF CrudInv
  <2>3. TypeOK'
    BY <2>1, <2>2 DEF TypeOK, PC
  <2>4. OnlyOf(t) /\ pc'[t] = "found"
    BY <2>1, <2>2 DEF TypeOK, OnlyOf
  <2>5. OneHandlerInside'
    BY <2>1, <2>4 DEF CrudInv, OneHandlerInside, OnlyOf
  <2>6. LocalState'
    BY <1>1, <1>4, <2>1, <2>4 DEF CrudInv, LocalState, Writing, method, dir, OnlyOf
  <2>7. /\ \A d \in Dir, i \in Id : Covered(d, i)' <=> Covered(d, i)
        /\ NewOrOld' /\ FilesAreInDirectories' /\ DiskIsAcknowledged'
    BY <1>1, <2>1, <2>4, QuietStep DEF AtFile, Writing
  <2>8. ScanCoversDisk'
    BY <1>1, <2>1, <2>4, <2>7 DEF CrudInv, ScanCoversDisk, OnlyOf
  <2>9. OwedIsKept' /\ AcknowledgedIsFound'
    BY <1>1, <2>1, <2>4 DEF CrudInv, OwedIsKept, AcknowledgedIsFound, OnlyOf, method, dir
  <2>10. QED
    BY <2>3, <2>5, <2>6, <2>7, <2>8, <2>9 DEF CrudInv
<1>5. QED
  BY <1>2, <1>3, <1>4 DEF retrieve_lookup

(* retrieve_entity reads the file, or cannot. *)
LEMMA RetrieveReadInvariant ==
  ASSUME CrudInv, NEW t \in Thread, retrieve_read(t)
  PROVE  CrudInv'
<1>1. pc[t] = "found"
  BY DEF retrieve_read
<1>2. dir(t) \in Dir /\ req[t].id \in Id
  BY <1>1, RequestFacts DEF CrudInv, LocalState, dir
<1>3. Named(Null) \in [Id -> Nat]
  BY DEF Named
<1>4. CASE exists(dir(t), req[t].id) /\ Answer(t, 200, disk[dir(t)][req[t].id], Named(Null))
  <2>1. disk[dir(t)][req[t].id] \in Value /\ disk[dir(t)][req[t].id] # "absent"
    <3>1. disk \in Files
      BY DEF CrudInv, TypeOK
    <3>2. disk[dir(t)][req[t].id] \in Content \cup {Null, Truncated}
      BY <1>2, <3>1 DEF Files
    <3>3. QED
      BY <3>2, CrudAssumption DEF Value
  <2>2. [code |-> 200, value |-> disk[dir(t)][req[t].id], ids |-> Named(Null)] \in Response
    BY <1>3, <2>1 DEF Response
  <2>3. QED
    BY <1>1, <1>4, <2>1, <2>2, QuietReturn DEF Answer, Respond, history
<1>5. CASE Answer(t, 400, "refused", Named(Null))
  <2>1. [code |-> 400, value |-> "refused", ids |-> Named(Null)] \in Response
    BY <1>3 DEF Response, Value
  <2>2. QED
    BY <1>1, <1>5, <2>1, QuietReturn DEF Answer, Respond, history
<1>6. QED
  BY <1>4, <1>5 DEF retrieve_read

(* Only what the owner of mutex_ works on is in flight. *)
LEMMA OwnersFile ==
  ASSUME NEW t \in Thread, mutex = t, NEW d \in Dir, NEW i \in Id
  PROVE  InFlight(d, i) <=> pc[t] \in AtFile /\ dir(t) = d /\ id[t] = i
  BY DEF InFlight, AtFile, Writing

(* The same after a step that ends with the lock held, ... *)
LEMMA OwnersFileNext ==
  ASSUME NEW t \in Thread, mutex' = t, NEW d \in Dir, NEW i \in Id
  PROVE  InFlight(d, i)' <=> pc'[t] \in AtFile /\ dir(t)' = d /\ id'[t] = i
  BY DEF InFlight, AtFile, Writing

(* ... and nothing is in flight when it is free. *)
LEMMA NothingInFlightNext ==
  ASSUME mutex' = Null, NEW d \in Dir, NEW i \in Id
  PROVE  ~InFlight(d, i)'
  BY NullIsNone DEF InFlight

(* The file that is opened is in flight from then on, and its writer still     *)
(* knows whether it was there before.                                          *)
LEMMA OpenFileInvariant ==
  ASSUME CrudInv, NEW t \in Thread, NEW i \in Id, pc[t] = "directory", open_file(t, i)
  PROVE  CrudInv'
<1>1. CASE Refuse(t, 400, "refused")
  BY <1>1, RefuseInvariant
<1>2. CASE ~Refuse(t, 400, "refused")
  <2> DEFINE d == dir(t)
             l == IF exists(d, i) THEN "opened" ELSE "created"
  <2>1. /\ disk' = [disk EXCEPT ![d][i] = Truncated]
        /\ id' = [id EXCEPT ![t] = i] /\ pc' = [pc EXCEPT ![t] = l]
        /\ UNCHANGED <<entity_ids, known, mutex, dirs, todo, entries, req, res>>
        /\ UNCHANGED <<requests, acked, undeleted, owed>>
    BY <1>2 DEF open_file, Goto, history
  <2>2. /\ TypeOK /\ d \in Dir /\ d \in dirs /\ mutex = t
        /\ method(t) \in {"post", "put"} /\ (method(t) = "put" => req[t].id \in Id)
        /\ todo[t] = {} /\ entries[t] = {}
    BY RequestFacts DEF CrudInv, LocalState, OneHandlerInside, dir
  <2>3. Truncated # Null
    BY CrudAssumption
  <2>4. /\ disk' \in Files /\ disk'[d][i] = Truncated
        /\ \A e \in Dir, j \in Id : ~(e = d /\ j = i) => disk'[e][j] = disk[e][j]
    BY <2>1, <2>2 DEF TypeOK, Files
  <2>5. l \in {"opened", "created"} /\ (l = "opened" <=> exists(d, i))
    OBVIOUS
  <2>6. dir(t)' = d /\ method(t)' = method(t)
    BY <2>1 DEF dir, method
  <2> HIDE DEF d, l
  <2>7. TypeOK'
    BY <2>1, <2>2, <2>4, <2>5 DEF TypeOK, PC
  <2>8. OnlyOf(t) /\ pc'[t] = l /\ id'[t] = i
    BY <2>1, <2>2 DEF TypeOK, OnlyOf
  <2>9. \A e \in Dir, j \in Id : InFlight(e, j)' <=> e = d /\ j = i
    BY <2>1, <2>2, <2>5, <2>6, <2>8, OwnersFileNext DEF AtFile, Writing
  <2>10. \A e \in Dir, j \in Id : ~InFlight(e, j)
    BY <2>2, OwnersFile DEF AtFile, Writing
  <2>11. \A e \in Dir, j \in Id : Covered(e, j) => Covered(e, j)'
    BY <2>1, <2>4, <2>9, <2>10 DEF Covered, exists, entity_exists
  <2>12. OneHandlerInside'
    BY <2>1, <2>2, <2>5, <2>8 DEF CrudInv, OneHandlerInside, OnlyOf
  <2>13. LocalState'
    <3>1. LocalState!(t)'
      BY <2>1, <2>2, <2>5, <2>6, <2>8 DEF CrudInv, LocalState, Writing, d
    <3>2. \A u \in Thread \ {t} : LocalState!(u)'
      BY <2>1, <2>8 DEF CrudInv, LocalState, method, dir, OnlyOf
    <3>3. QED
      BY <3>1, <3>2 DEF LocalState
  <2>14. NewOrOld'
    <3>1. exists(d, i) => entity_exists(d, i) \/ <<d, i>> \in undeleted
      BY <2>2, <2>10 DEF CrudInv, ScanCoversDisk, Covered
    <3>2. ~exists(d, i) => acked[d][i] = Null
      BY <2>2, <2>10 DEF CrudInv, DiskIsAcknowledged, exists
    <3>3. NewOrOld!(t)'
      <4>1. UNCHANGED <<entity_ids, undeleted, acked>>
        BY <2>1
      <4>2. QED
        BY <2>4, <2>5, <2>6, <2>8, <3>1, <3>2, <4>1 DEF entity_exists
    <3>4. \A u \in Thread \ {t} : pc'[u] \notin AtFile
      BY <2>2, <2>8 DEF CrudInv, OneHandlerInside, OnlyOf, AtFile, Writing
    <3>5. QED
      BY <3>3, <3>4 DEF NewOrOld, AtFile, Writing
  <2>15. FilesAreInDirectories'
    BY <2>1, <2>2, <2>4 DEF CrudInv, FilesAreInDirectories, exists
  <2>16. ScanCoversDisk'
    BY <2>1, <2>8, <2>11 DEF CrudInv, ScanCoversDisk, OnlyOf
  <2>17. DiskIsAcknowledged'
    BY <2>1, <2>4, <2>9, <2>10 DEF CrudInv, DiskIsAcknowledged
  <2>18. OwedIsKept' /\ AcknowledgedIsFound'
    BY <2>1, <2>5, <2>8 DEF CrudInv, OwedIsKept, AcknowledgedIsFound, OnlyOf, method, dir
  <2>19. QED
    BY <2>7, <2>12, <2>13, <2>14, <2>15, <2>16, <2>17, <2>18 DEF CrudInv
<1>3. QED
  BY <1>1, <1>2

(* The content is in the file before the handler answers. *)
LEMMA WriteCloseInvariant ==
  ASSUME CrudInv, NEW t \in Thread, write_close(t)
  PROVE  CrudInv'
<1> DEFINE d == dir(t)
           i == id[t]
           b == req[t].body
           l == IF pc[t] = "opened" THEN "written" ELSE "written new"
<1>1. /\ pc[t] \in {"opened", "created"}
      /\ disk' = [disk EXCEPT ![d][i] = b] /\ pc' = [pc EXCEPT ![t] = l]
      /\ UNCHANGED <<entity_ids, known, mutex, dirs, todo, entries, id, req, res>>
      /\ UNCHANGED <<requests, acked, undeleted, owed>>
  BY DEF write_close, Goto, history
<1>2. /\ TypeOK /\ d \in Dir /\ i \in Id /\ b \in Content /\ mutex = t
  BY <1>1, RequestFacts DEF CrudInv, LocalState, OneHandlerInside, Writing, dir, method
<1>3. disk[d][i] = Truncated /\ d \in dirs
  BY <1>1 DEF CrudInv, NewOrOld, LocalState, Writing
<1>4. b # Null
  BY <1>2, CrudAssumption
<1>5. /\ disk' \in Files /\ disk'[d][i] = b
      /\ \A e \in Dir, j \in Id : ~(e = d /\ j = i) => disk'[e][j] = disk[e][j]
  BY <1>1, <1>2 DEF TypeOK, Files
<1>6. l \in {"written", "written new"} /\ (l = "written" <=> pc[t] = "opened")
  OBVIOUS
<1>7. dir(t)' = d /\ method(t)' = method(t)
  BY <1>1 DEF dir, method
<1> HIDE DEF d, i, b, l
<1>8. TypeOK'
  BY <1>1, <1>2, <1>5, <1>6 DEF TypeOK, PC
<1>9. OnlyOf(t) /\ pc'[t] = l
  BY <1>1, <1>2 DEF TypeOK, OnlyOf
<1>10. \A e \in Dir, j \in Id : /\ InFlight(e, j)' <=> e = d /\ j = i
                                /\ InFlight(e, j) <=> e = d /\ j = i
  BY <1>1, <1>2, <1>6, <1>7, <1>9, OwnersFile, OwnersFileNext DEF AtFile, Writing, d, i
<1>11. \A e \in Dir, j \in Id : Covered(e, j) => Covered(e, j)'
  BY <1>1, <1>5, <1>10 DEF Covered, exists, entity_exists
<1>12. OneHandlerInside'
  BY <1>1, <1>2, <1>6, <1>9 DEF CrudInv, OneHandlerInside, OnlyOf
<1>13. LocalState'
  <2>1. LocalState!(t)'
    BY <1>1, <1>6, <1>7, <1>9 DEF CrudInv, LocalState, Writing, d
  <2>2. \A u \in Thread \ {t} : LocalState!(u)'
    BY <1>1, <1>9 DEF CrudInv, LocalState, method, dir, OnlyOf
  <2>3. QED
    BY <2>1, <2>2 DEF LocalState
<1>14. NewOrOld'
  <2>1. /\ pc[t] = "opened" => entity_exists(d, i) \/ <<d, i>> \in undeleted
        /\ pc[t] = "created" => acked[d][i] = Null
    BY <1>1 DEF CrudInv, NewOrOld, d, i
  <2>2. NewOrOld!(t)'
    BY <1>1, <1>5, <1>6, <1>9, <2>1 DEF entity_exists, dir, d, i, b
  <2>3. \A u \in Thread \ {t} : pc'[u] \notin AtFile
    BY <1>2, <1>9 DEF CrudInv, OneHandlerInside, OnlyOf, AtFile, Writing
  <2>4. QED
    BY <2>2, <2>3 DEF NewOrOld, AtFile, Writing
<1>15. FilesAreInDirectories'
  BY <1>1, <1>3, <1>5 DEF CrudInv, FilesAreInDirectories, exists
<1>16. ScanCoversDisk'
  BY <1>1, <1>9, <1>11 DEF CrudInv, ScanCoversDisk, OnlyOf
<1>17. DiskIsAcknowledged'
  BY <1>1, <1>5, <1>10 DEF CrudInv, DiskIsAcknowledged
<1>18. OwedIsKept'
  BY <1>1, <1>9 DEF CrudInv, OwedIsKept, OnlyOf, method, dir
<1>19. AcknowledgedIsFound'
  BY <1>1 DEF CrudInv, AcknowledgedIsFound
<1>20. QED
  BY <1>8, <1>12, <1>13, <1>14, <1>15, <1>16, <1>17, <1>18, <1>19 DEF CrudInv

(* What a step leaves of the file it has worked on: the responses and the disk *)
(* agree on it, and the map has it unless its DELETE has failed.               *)
Settles(t, d, i) ==
  /\ entity_ids' \in Vectors /\ known' \subseteq Dir /\ disk' \in Files /\ acked' \in Files
  /\ undeleted' \in {undeleted, undeleted \cup {<<d, i>>}}
  /\ method(t) # "delete" => undeleted' = undeleted /\ acked'[d][i] # Null
  /\ \A e \in Dir, j \in Id : entity_ids[e][j] > 0 => entity_ids'[e][j] > 0
  /\ \A e \in Dir, j \in Id : ~(e = d /\ j = i) =>
       disk'[e][j] = disk[e][j] /\ acked'[e][j] = acked[e][j]
  /\ disk'[d][i] = acked'[d][i]
  /\ disk'[d][i] # Null =>
       d \in dirs /\ (entity_ids'[d][i] > 0 \/ <<d, i>> \in undeleted')

(* A return from a locked handler that has worked on a file. *)
LEMMA HandlerReturns ==
  ASSUME CrudInv, NEW t \in Thread, pc[t] \in AtFile,
         NEW d \in Dir, d = dir(t), NEW i \in Id, i = id[t],
         NEW answer \in Response, answer.value # "absent",
         res' = [res EXCEPT ![t] = answer],
         pc' = [pc EXCEPT ![t] = "idle"],
         id' = [id EXCEPT ![t] = Null],
         req' = [req EXCEPT ![t] = NoRequest],
         mutex' = Null,
         UNCHANGED <<dirs, todo, entries, requests, owed>>,
         Settles(t, d, i)
  PROVE  CrudInv'
<1>1. TypeOK /\ mutex = t
  BY DEF CrudInv, OneHandlerInside, AtFile, Writing
<1>2. NoRequest \in Request
  BY NoRequestIsOne, RequestFacts
<1>3. TypeOK'
  <2>1. undeleted' \subseteq Dir \X Id
    BY <1>1 DEF TypeOK, Settles
  <2>2. QED
    BY <1>1, <1>2, <2>1 DEF TypeOK, PC, Settles
<1>4. OnlyOf(t) /\ pc'[t] = "idle" /\ id'[t] = Null /\ req'[t] = NoRequest /\ res'[t] = answer
  BY <1>1 DEF TypeOK, OnlyOf
<1>5. \A e \in Dir, j \in Id : /\ InFlight(e, j) <=> e = d /\ j = i
                               /\ ~InFlight(e, j)'
  BY <1>1, OwnersFile, NothingInFlightNext
<1>6. \A e \in Dir, j \in Id : Covered(e, j) => Covered(e, j)'
  BY <1>5 DEF Covered, exists, entity_exists, Settles
<1>7. \A u \in Thread \ {t} : pc'[u] \in {"idle", "scan", "handle", "found"}
  BY <1>1, <1>3, <1>4 DEF CrudInv, OneHandlerInside, OnlyOf, TypeOK, PC
<1>8. OneHandlerInside' /\ NewOrOld'
  BY <1>4, <1>7 DEF OneHandlerInside, NewOrOld
<1>9. LocalState'
  <2>1. LocalState!(t)'
    BY <1>4, NoRequestIsOne DEF LocalState, Writing
  <2>2. \A u \in Thread \ {t} : LocalState!(u)'
    BY <1>4 DEF CrudInv, LocalState, method, dir, OnlyOf
  <2>3. QED
    BY <2>1, <2>2 DEF LocalState
<1>10. FilesAreInDirectories'
  BY DEF CrudInv, FilesAreInDirectories, exists, Settles
<1>11. ScanCoversDisk'
  BY <1>4, <1>6 DEF CrudInv, ScanCoversDisk, OnlyOf
<1>12. DiskIsAcknowledged'
  BY <1>5 DEF CrudInv, DiskIsAcknowledged, Settles
<1>13. OwedIsKept'
  <2>1. SUFFICES ASSUME NEW u \in Thread, owed'[u], pc'[u] # "idle"
                 PROVE  OwedIsKept!(u)!2'
    BY DEF OwedIsKept
  <2>2. u # t /\ owed[u] /\ pc[u] # "idle" /\ req'[u] = req[u]
    BY <1>4, <2>1 DEF OnlyOf
  <2>3. OwedIsKept!(u)!2
    BY <2>2 DEF CrudInv, OwedIsKept
  <2>4. method(t) = "delete" => ~(dir(u) = d /\ req[u].id = i)
    <3>1. method(t) = "delete" => id[t] = req[t].id /\ pc[t] # "idle"
      BY DEF CrudInv, LocalState, AtFile, Writing
    <3>2. ~(pc[t] # "idle" /\ method(t) = "delete" /\ dir(t) = dir(u) /\ req[t].id = req[u].id)
      BY <2>3
    <3>3. QED
      BY <3>1, <3>2
  <2>5. dir(u) \in Dir /\ req[u].id \in Id
    BY <2>3, RequestFacts DEF CrudInv, LocalState, dir
  <2>6. acked'[dir(u)][req[u].id] # Null /\ <<dir(u), req[u].id>> \notin undeleted'
    BY <2>3, <2>4, <2>5 DEF Settles
  <2>7. \A v \in Thread :
          ~(pc'[v] # "idle" /\ method(v)' = "delete" /\ dir(v)' = dir(u) /\ req'[v].id = req[u].id)
    BY <1>4, <2>3 DEF OnlyOf, method, dir
  <2>8. QED
    BY <2>2, <2>3, <2>6, <2>7 DEF method, dir
<1>14. AcknowledgedIsFound'
  BY <1>4 DEF CrudInv, AcknowledgedIsFound, OnlyOf
<1>15. QED
  BY <1>3, <1>8, <1>9, <1>10, <1>11, <1>12, <1>13, <1>14 DEF CrudInv

(* The end of a POST or PUT. *)
LEMMA WrittenInvariant ==
  ASSUME CrudInv, NEW t \in Thread, created(t) \/ updated(t)
  PROVE  CrudInv'
<1>1. pc[t] \in {"written", "written new"}
  BY DEF created, updated
<1>2. /\ dir(t) \in Dir /\ id[t] \in Id /\ req[t].body \in Content /\ dir(t) \in dirs
      /\ method(t) \in {"post", "put"} /\ disk[dir(t)][id[t]] = req[t].body
  BY <1>1, RequestFacts DEF CrudInv, LocalState, NewOrOld, Writing, dir, method
<1>3. PICK d \in Dir, i \in Id, b \in Content : d = dir(t) /\ i = id[t] /\ b = req[t].body
  BY <1>2
<1>4. /\ acked' = [acked EXCEPT ![d][i] = b]
      /\ UNCHANGED <<dirs, disk, todo, entries, requests, undeleted, owed>>
  BY <1>3 DEF created, updated, Return, Ack
<1>5. b # Null /\ Null # "absent"
  BY CrudAssumption
<1>6. entity_ids \in Vectors /\ disk \in Files /\ acked \in Files /\ known \subseteq Dir
  BY DEF CrudInv, TypeOK
<1>7. /\ acked' \in Files /\ acked'[d][i] = b
      /\ \A e \in Dir, j \in Id : ~(e = d /\ j = i) => acked'[e][j] = acked[e][j]
  BY <1>4, <1>6 DEF Files
<1>8. /\ pc' = [pc EXCEPT ![t] = "idle"] /\ id' = [id EXCEPT ![t] = Null]
      /\ req' = [req EXCEPT ![t] = NoRequest] /\ mutex' = Null
  BY DEF created, updated, Return, Respond
<1>9. PICK answer \in Response : res' = [res EXCEPT ![t] = answer] /\ answer.value = Null
  <2>1. Named(i) \in [Id -> Nat]
    BY DEF Named
  <2>2. Null \in Value
    BY DEF Value
  <2>3. /\ [code |-> 200, value |-> Null, ids |-> Named(i)] \in Response
        /\ [code |-> 201, value |-> Null, ids |-> Named(i)] \in Response
    BY <2>1, <2>2 DEF Response
  <2>4. \/ res' = [res EXCEPT ![t] = [code |-> 200, value |-> Null, ids |-> Named(i)]]
        \/ res' = [res EXCEPT ![t] = [code |-> 201, value |-> Null, ids |-> Named(i)]]
    BY <1>3 DEF created, updated, Return, Respond
  <2>5. QED
    BY <2>3, <2>4
<1>10. res' = [res EXCEPT ![t] = answer] /\ answer.value # "absent"
  BY <1>5, <1>9
<1>11. /\ entity_ids' \in Vectors /\ known' \subseteq Dir
       /\ \A e \in Dir, j \in Id : entity_ids[e][j] > 0 => entity_ids'[e][j] > 0
       /\ entity_ids'[d][i] > 0 \/ <<d, i>> \in undeleted
  <2>1. CASE created(t)
    <3>1. /\ entity_ids' = IF entity_ids[d][i] > 0 THEN entity_ids
                           ELSE [entity_ids EXCEPT ![d][i] = 1]
          /\ known' = known \cup {d}
      BY <1>3, <2>1 DEF created, add_id_to_entity, entity_exists
    <3>2. QED
      BY <1>6, <3>1 DEF Vectors
  <2>2. CASE updated(t)
    <3>1. UNCHANGED <<entity_ids, known>> /\ pc[t] = "written"
      BY <2>2 DEF updated
    <3>2. entity_ids[d][i] > 0 \/ <<d, i>> \in undeleted
      BY <1>3, <3>1 DEF CrudInv, NewOrOld, entity_exists
    <3>3. QED
      BY <1>6, <3>1, <3>2
  <2>3. QED
    BY <2>1, <2>2
<1>12. pc[t] \in AtFile /\ d = dir(t) /\ i = id[t]
  BY <1>1, <1>3 DEF AtFile, Writing
<1>13. disk' \in Files /\ disk' = disk /\ disk'[d][i] = acked'[d][i] /\ d \in dirs
  BY <1>2, <1>3, <1>4, <1>6, <1>7
<1>14. UNCHANGED <<dirs, todo, entries, requests, owed>>
  BY <1>4
<1>15. Settles(t, d, i)
  BY <1>4, <1>5, <1>7, <1>11, <1>13 DEF Settles
<1>16. QED
  BY <1>8, <1>10, <1>12, <1>14, <1>15, HandlerReturns

(* handle_deletion: the file whose id has been taken out of the map is in flight. *)
LEMMA DeletionRemoveIdInvariant ==
  ASSUME CrudInv, NEW t \in Thread, deletion_remove_id(t)
  PROVE  CrudInv'
<1>1. CASE Refuse(t, 400, "refused") \/ Refuse(t, 400, "not found")
  BY <1>1, RefuseInvariant DEF deletion_remove_id
<1>2. CASE ~(Refuse(t, 400, "refused") \/ Refuse(t, 400, "not found"))
  <2> DEFINE d == dir(t)
             i == req[t].id
  <2>1. /\ pc[t] = "locked" /\ method(t) = "delete" /\ i \in Id
        /\ entity_ids[d][i] > 0
        /\ entity_ids' = [entity_ids EXCEPT ![d][i] = @ - 1]
        /\ id' = [id EXCEPT ![t] = i] /\ pc' = [pc EXCEPT ![t] = "removing"]
        /\ UNCHANGED <<known, mutex, dirs, disk, todo, entries, req, res>>
        /\ UNCHANGED <<requests, acked, undeleted, owed>>
    BY <1>2 DEF deletion_remove_id, remove_id_from_entity, entity_exists, Goto, history
  <2>2. /\ TypeOK /\ d \in Dir /\ mutex = t /\ todo[t] = {} /\ entries[t] = {}
    BY <2>1, RequestFacts DEF CrudInv, LocalState, OneHandlerInside, dir
  <2>3. dir(t)' = d /\ method(t)' = method(t) /\ req'[t].id = i
    BY <2>1 DEF dir, method
  <2> HIDE DEF d, i
  <2>4. /\ entity_ids' \in Vectors
        /\ \A e \in Dir, j \in Id : ~(e = d /\ j = i) => entity_ids'[e][j] = entity_ids[e][j]
    <3>1. entity_ids \in Vectors /\ d \in Dir /\ i \in Id /\ entity_ids[d][i] > 0
          /\ entity_ids' = [entity_ids EXCEPT ![d][i] = @ - 1]
      BY <2>1, <2>2 DEF TypeOK
    <3>2. QED
      BY <3>1 DEF Vectors
  <2>5. TypeOK'
    BY <2>1, <2>2, <2>4 DEF TypeOK, PC
  <2>6. OnlyOf(t) /\ pc'[t] = "removing" /\ id'[t] = i
    BY <2>1, <2>2 DEF TypeOK, OnlyOf
  <2>7. \A e \in Dir, j \in Id : InFlight(e, j)' <=> e = d /\ j = i
    BY <2>1, <2>2, <2>3, <2>6, OwnersFileNext DEF AtFile, Writing
  <2>8. \A e \in Dir, j \in Id : ~InFlight(e, j)
    BY <2>1, <2>2, OwnersFile DEF AtFile, Writing
  <2>9. \A e \in Dir, j \in Id : Covered(e, j) => Covered(e, j)'
    <3>1. disk' = disk /\ undeleted' = undeleted
      BY <2>1
    <3>2. QED
      BY <2>4, <2>7, <2>8, <3>1 DEF Covered, exists, entity_exists
  <2>10. OneHandlerInside'
    BY <2>1, <2>2, <2>6 DEF CrudInv, OneHandlerInside, OnlyOf
  <2>11. LocalState'
    <3>1. LocalState!(t)'
      BY <2>1, <2>2, <2>3, <2>6 DEF CrudInv, LocalState, Writing
    <3>2. \A u \in Thread \ {t} : LocalState!(u)'
      BY <2>1, <2>6 DEF CrudInv, LocalState, method, dir, OnlyOf
    <3>3. QED
      BY <3>1, <3>2 DEF LocalState
  <2>12. NewOrOld'
    <3>1. \A u \in Thread \ {t} : pc'[u] \notin AtFile
      BY <2>1, <2>2, <2>6 DEF CrudInv, OneHandlerInside, OnlyOf, AtFile, Writing
    <3>2. NewOrOld!(t)'
      <4>1. disk[d][i] = acked[d][i]
        BY <2>1, <2>2, <2>8 DEF CrudInv, DiskIsAcknowledged
      <4>2. disk' = disk /\ acked' = acked
        BY <2>1
      <4>3. QED
        BY <2>3, <2>6, <4>1, <4>2
    <3>3. QED
      BY <3>1, <3>2 DEF NewOrOld, AtFile, Writing
  <2>13. FilesAreInDirectories'
    BY <2>1 DEF CrudInv, FilesAreInDirectories, exists
  <2>14. ScanCoversDisk'
    BY <2>1, <2>6, <2>9 DEF CrudInv, ScanCoversDisk, OnlyOf
  <2>15. DiskIsAcknowledged'
    BY <2>1, <2>8 DEF CrudInv, DiskIsAcknowledged
  <2>16. OwedIsKept' /\ AcknowledgedIsFound'
    BY <2>1, <2>6 DEF CrudInv, OwedIsKept, AcknowledgedIsFound, OnlyOf, method, dir
  <2>17. QED
    BY <2>5, <2>10, <2>11, <2>12, <2>13, <2>14, <2>15, <2>16 DEF CrudInv
<1>3. QED
  BY <1>1, <1>2

(* The end of a DELETE: the file is gone, or it stays and is noted. *)
LEMMA DeletionEndsInvariant ==
  ASSUME CrudInv, NEW t \in Thread, deletion_remove_file(t) \/ deletion_failed(t)
  PROVE  CrudInv'
<1>1. pc[t] = "removing"
  BY DEF deletion_remove_file, deletion_failed
<1>2. dir(t) \in Dir /\ id[t] \in Id /\ method(t) = "delete" /\ pc[t] \in AtFile
  BY <1>1, RequestFacts DEF CrudInv, LocalState, dir, AtFile
<1>3. PICK d \in Dir, i \in Id : d = dir(t) /\ i = id[t]
  BY <1>2
<1>4. entity_ids \in Vectors /\ disk \in Files /\ acked \in Files /\ known \subseteq Dir
  BY DEF CrudInv, TypeOK
<1>5. /\ mutex' = Null /\ pc' = [pc EXCEPT ![t] = "idle"]
      /\ id' = [id EXCEPT ![t] = Null] /\ req' = [req EXCEPT ![t] = NoRequest]
      /\ UNCHANGED <<dirs, todo, entries, requests, owed>>
      /\ UNCHANGED <<entity_ids, known>>
  BY DEF deletion_remove_file, deletion_failed, Return, Respond, Ack
<1>6. /\ entity_ids' \in Vectors /\ known' \subseteq Dir
      /\ \A e \in Dir, j \in Id : entity_ids[e][j] > 0 => entity_ids'[e][j] > 0
  BY <1>4, <1>5
<1>7. /\ Named(i) \in [Id -> Nat] /\ Named(Null) \in [Id -> Nat]
      /\ Null \in Value /\ "refused" \in Value
  BY DEF Named, Value
<1>8. CASE deletion_remove_file(t)
  <2>1. PICK answer \in Response : answer = [code |-> 200, value |-> Null, ids |-> Named(i)]
    BY <1>7 DEF Response
  <2>2. res' = [res EXCEPT ![t] = answer] /\ answer.value # "absent"
    BY <1>3, <1>8, <2>1, CrudAssumption DEF deletion_remove_file, Return, Respond
  <2>3. /\ disk' = [disk EXCEPT ![d][i] = Null] /\ acked' = [acked EXCEPT ![d][i] = Null]
        /\ undeleted' = undeleted
    BY <1>3, <1>8 DEF deletion_remove_file, Ack
  <2>4. /\ disk' \in Files /\ disk'[d][i] = Null /\ acked' \in Files /\ acked'[d][i] = Null
        /\ \A e \in Dir, j \in Id : ~(e = d /\ j = i) =>
             disk'[e][j] = disk[e][j] /\ acked'[e][j] = acked[e][j]
    BY <1>4, <2>3 DEF Files
  <2>5. Settles(t, d, i)
    BY <1>2, <1>6, <2>3, <2>4 DEF Settles
  <2>6. QED
    BY <1>2, <1>3, <1>5, <2>2, <2>5, HandlerReturns
<1>9. CASE deletion_failed(t)
  <2>1. PICK answer \in Response : answer = [code |-> 500, value |-> "refused", ids |-> Named(Null)]
    BY <1>7 DEF Response
  <2>2. res' = [res EXCEPT ![t] = answer] /\ answer.value # "absent"
    BY <1>9, <2>1 DEF deletion_failed, Return, Respond
  <2>3. disk' = disk /\ acked' = acked /\ undeleted' = undeleted \cup {<<d, i>>}
    BY <1>3, <1>9 DEF deletion_failed
  <2>4. disk[d][i] = acked[d][i] /\ (disk[d][i] # Null => d \in dirs)
    BY <1>1, <1>3 DEF CrudInv, NewOrOld, FilesAreInDirectories, exists
  <2>5. Settles(t, d, i)
    BY <1>2, <1>4, <1>6, <2>3, <2>4 DEF Settles
  <2>6. QED
    BY <1>2, <1>3, <1>5, <2>2, <2>5, HandlerReturns
<1>10. QED
  BY <1>8, <1>9

(* POST opens the file of an available id, PUT the file it names. *)
LEMMA OpenInvariant ==
  ASSUME CrudInv, NEW t \in Thread, creation_open(t) \/ update_open(t)
  PROVE  CrudInv'
<1>1. CASE creation_open(t)
  BY <1>1, OpenFileInvariant DEF creation_open
<1>2. CASE update_open(t)
  <2>1. pc[t] = "directory" /\ req[t].id \in Id
    BY <1>2 DEF CrudInv, LocalState, update_open
  <2>2. QED
    BY <1>2, <2>1, OpenFileInvariant DEF update_open
<1>3. QED
  BY <1>1, <1>2

(* The store a start finds. *)
LEMMA InitInvariant == Init => CrudInv
<1> SUFFICES ASSUME Init PROVE CrudInv
  OBVIOUS
<1>1. NoRequest \in Requests /\ NoRequest \in Request
  BY NoRequestIsOne, RequestFacts
<1>2. TypeOK
  BY <1>1, CrudAssumption DEF Init, TypeOK, Vectors, Files, PC
<1>3. \A t \in Thread : /\ pc[t] = "idle" /\ res[t] = Null /\ id[t] = Null /\ ~owed[t]
                        /\ req[t] = NoRequest
  BY DEF Init
<1>4. OneHandlerInside /\ NewOrOld /\ ScanCoversDisk /\ OwedIsKept /\ AcknowledgedIsFound
  BY <1>3 DEF OneHandlerInside, NewOrOld, ScanCoversDisk, OwedIsKept, AcknowledgedIsFound
<1>5. LocalState
  BY <1>1, <1>3 DEF LocalState, Writing
<1>6. FilesAreInDirectories /\ DiskIsAcknowledged
  BY DEF Init, FilesAreInDirectories, DiskIsAcknowledged
<1>7. QED
  BY <1>2, <1>4, <1>5, <1>6 DEF CrudInv

(* What other components do changes nothing here. *)
LEMMA StutteringInvariant == CrudInv /\ UNCHANGED vars => CrudInv'
<1> SUFFICES ASSUME CrudInv, UNCHANGED vars PROVE CrudInv'
  OBVIOUS
<1>1. /\ UNCHANGED <<entity_ids, known, mutex, dirs, disk, todo, entries, id>>
      /\ UNCHANGED <<requests, acked, undeleted, owed, req, res, pc>>
  BY DEF vars, state, history
<1>2. TypeOK'
  BY <1>1 DEF CrudInv, TypeOK
<1>3. OneHandlerInside' /\ LocalState'
  BY <1>1 DEF CrudInv, OneHandlerInside, LocalState, method, dir
<1>4. NewOrOld' /\ FilesAreInDirectories'
  BY <1>1 DEF CrudInv, NewOrOld, FilesAreInDirectories, exists, entity_exists, dir
<1>5. \A d \in Dir, i \in Id : InFlight(d, i)' <=> InFlight(d, i)
  BY <1>1 DEF InFlight, dir
<1>6. ScanCoversDisk' /\ DiskIsAcknowledged'
  BY <1>1, <1>5 DEF CrudInv, ScanCoversDisk, DiskIsAcknowledged, Covered, exists, entity_exists
<1>7. OwedIsKept' /\ AcknowledgedIsFound'
  BY <1>1 DEF CrudInv, OwedIsKept, AcknowledgedIsFound, method, dir
<1>8. QED
  BY <1>2, <1>3, <1>4, <1>6, <1>7 DEF CrudInv

(* Every step of a worker thread, from its scan to its answer. *)
LEMMA ServeInvariant ==
  ASSUME CrudInv, NEW t \in Thread, Serve(t)
  PROVE  CrudInv'
<1>1. CASE \E d \in Dir : scan_directory(t, d)
  BY <1>1, ScanDirectoryInvariant
<1>2. CASE \E e \in Dir \X Id : scan_entry(t, e)
  BY <1>2, ScanEntryInvariant
<1>3. CASE scan_done(t) \/ lock(t) \/ make_directory(t) \/ bad_target(t)
  BY <1>3, ScanDoneInvariant, LockInvariant, MakeDirectoryInvariant, BadTargetInvariant
<1>4. CASE creation_open(t) \/ update_open(t) \/ write_close(t) \/ created(t) \/ updated(t)
  BY <1>4, OpenInvariant, WriteCloseInvariant, WrittenInvariant
<1>5. CASE deletion_remove_id(t) \/ deletion_remove_file(t) \/ deletion_failed(t)
  BY <1>5, DeletionRemoveIdInvariant, DeletionEndsInvariant
<1>6. CASE list_entities(t) \/ retrieve_lookup(t) \/ retrieve_read(t) \/ unknown_method(t)
  BY <1>6, ListInvariant, RetrieveLookupInvariant, RetrieveReadInvariant
<1>7. QED
  BY <1>1, <1>2, <1>3, <1>4, <1>5, <1>6 DEF Serve

(* The inductive invariant holds: whatever the threads do in whatever order,  *)
(* with the process ending anywhere.                                          *)
THEOREM Invariance == Spec => []CrudInv
<1>1. Init => CrudInv
  BY InitInvariant
<1>2. CrudInv /\ [Next]_vars => CrudInv'
  <2> SUFFICES ASSUME CrudInv, [Next]_vars PROVE CrudInv'
    OBVIOUS
  <2>1. CASE \E t \in Thread, r \in Requests : create(t, r)
    BY <2>1, CreateInvariant
  <2>2. CASE \E t \in Thread : Serve(t)
    BY <2>2, ServeInvariant
  <2>3. CASE Terminate
    BY <2>3, TerminateInvariant
  <2>4. CASE UNCHANGED vars
    BY <2>4, StutteringInvariant
  <2>5. QED
    BY <2>1, <2>2, <2>3, <2>4 DEF Next
<1>3. QED
  BY <1>1, <1>2, PTL DEF Spec

(* Every variable keeps its type. *)
THEOREM TypeCorrect == Spec => []TypeOK
<1>1. CrudInv => TypeOK
  BY DEF CrudInv
<1>2. QED
  BY <1>1, Invariance, PTL

(* For a thread that has made its scan the map covers the disk. *)
THEOREM MapCovers == Spec => []MapCoversDisk
<1>1. CrudInv => MapCoversDisk
  BY DEF CrudInv, LocalState, ScanCoversDisk, MapCoversDisk
<1>2. QED
  BY <1>1, Invariance, PTL

(* The disk is what the responses say. *)
THEOREM Acknowledged == Spec => []DiskIsAcknowledged
<1>1. CrudInv => DiskIsAcknowledged
  BY DEF CrudInv
<1>2. QED
  BY <1>1, Invariance, PTL

(* A GET does not answer "does not exist" for what it is owed. *)
THEOREM Found == Spec => []AcknowledgedIsFound
<1>1. CrudInv => AcknowledgedIsFound
  BY DEF CrudInv
<1>2. QED
  BY <1>1, Invariance, PTL

-----------------------------------------------------------------------------
(* Nobody keeps mutex_. *)

(* The owner of mutex_ is between the lock and a return: none of the points     *)
(* that it can be at waits for the mutex.                                       *)
Locked == Writing \cup {"locked", "directory", "removing"}
OwnerIsInside == mutex # Null => mutex \in Thread /\ pc[mutex] \in Locked

(* A step to another point of a locked handler, or outside of one, keeps that; ... *)
LEMMA OwnerStaysInside ==
  ASSUME TypeOK, OwnerIsInside, NEW t \in Thread, NEW l,
         pc' = [pc EXCEPT ![t] = l], mutex' = mutex, pc[t] \notin Locked \/ l \in Locked
  PROVE  OwnerIsInside'
<1>1. pc \in [Thread -> PC]
  BY DEF TypeOK
<1>2. ASSUME mutex' # Null PROVE mutex' \in Thread /\ pc'[mutex'] \in Locked
  <2>1. mutex' \in Thread /\ pc[mutex'] \in Locked
    BY <1>2 DEF OwnerIsInside
  <2>2. pc'[mutex'] = IF mutex' = t THEN l ELSE pc[mutex']
    BY <1>1, <2>1
  <2>3. QED
    BY <2>1, <2>2
<1>3. QED
  BY <1>2 DEF OwnerIsInside

(* ... and a return gives the mutex back. *)
LEMMA ReturnsGiveBack ==
  ASSUME mutex' = Null
  PROVE  OwnerIsInside'
  BY DEF OwnerIsInside

(* To open the file fails and returns, or goes on in the handler. *)
LEMMA OpeningKeepsOwner ==
  ASSUME TypeOK, OwnerIsInside, NEW t \in Thread, NEW i, open_file(t, i)
  PROVE  OwnerIsInside'
<1>1. CASE Refuse(t, 400, "refused")
  BY <1>1, ReturnsGiveBack DEF Refuse, Return
<1>2. CASE Goto(t, IF exists(dir(t), i) THEN "opened" ELSE "created") /\ mutex' = mutex
  <2>1. PICK l : l = IF exists(dir(t), i) THEN "opened" ELSE "created"
    OBVIOUS
  <2>2. l \in Locked
    BY <2>1 DEF Locked, Writing
  <2>3. pc' = [pc EXCEPT ![t] = l]
    BY <1>2, <2>1 DEF Goto
  <2>4. QED
    BY <1>2, <2>2, <2>3, OwnerStaysInside
<1>3. QED
  BY <1>1, <1>2 DEF open_file

(* The steps of the owner: those that leave the handler give the mutex back. *)
LEMMA LockedKeepsOwner ==
  ASSUME TypeOK, OwnerIsInside, NEW t \in Thread,
         \/ make_directory(t) \/ bad_target(t) \/ creation_open(t) \/ update_open(t)
         \/ write_close(t) \/ created(t) \/ updated(t)
         \/ deletion_remove_id(t) \/ deletion_remove_file(t) \/ deletion_failed(t)
  PROVE  OwnerIsInside'
<1>1. CASE make_directory(t)
  <2>1. CASE Goto(t, "directory") /\ mutex' = mutex
    BY <2>1, OwnerStaysInside DEF Goto, Locked
  <2>2. CASE Refuse(t, 400, "refused")
    BY <2>2, ReturnsGiveBack DEF Refuse, Return
  <2>3. QED
    BY <1>1, <2>1, <2>2 DEF make_directory
<1>2. CASE bad_target(t)
  BY <1>2, ReturnsGiveBack DEF bad_target, Refuse, Return, Terminate
<1>3. CASE creation_open(t) \/ update_open(t)
  BY <1>3, OpeningKeepsOwner DEF creation_open, update_open
<1>4. CASE write_close(t)
  <2>1. PICK l : l = IF pc[t] = "opened" THEN "written" ELSE "written new"
    OBVIOUS
  <2>2. l \in Locked
    BY <2>1 DEF Locked, Writing
  <2>3. pc' = [pc EXCEPT ![t] = l] /\ mutex' = mutex
    BY <1>4, <2>1 DEF write_close, Goto
  <2>4. QED
    BY <2>2, <2>3, OwnerStaysInside
<1>5. CASE created(t) \/ updated(t) \/ deletion_remove_file(t) \/ deletion_failed(t)
  BY <1>5, ReturnsGiveBack DEF created, updated, deletion_remove_file, deletion_failed, Return
<1>6. CASE deletion_remove_id(t)
  <2>1. CASE Goto(t, "removing") /\ mutex' = mutex
    BY <2>1, OwnerStaysInside DEF Goto, Locked
  <2>2. CASE mutex' = Null
    BY <2>2, ReturnsGiveBack
  <2>3. QED
    BY <1>6, <2>1, <2>2 DEF deletion_remove_id, Refuse, Return
<1>7. QED
  BY <1>1, <1>2, <1>3, <1>4, <1>5, <1>6

(* The other steps of a worker are made outside, and lock() goes in. *)
LEMMA ServingKeepsOwner ==
  ASSUME TypeOK, OwnerIsInside, NEW t \in Thread, Serve(t)
  PROVE  OwnerIsInside'
<1>1. CASE pc' = pc /\ mutex' = mutex
  BY <1>1 DEF OwnerIsInside
<1>2. CASE (\E d \in Dir : scan_directory(t, d)) \/ (\E e \in Dir \X Id : scan_entry(t, e))
  BY <1>1, <1>2 DEF scan_directory, scan_entry
<1>3. ASSUME NEW l, pc[t] \in {"scan", "handle", "found"}, pc' = [pc EXCEPT ![t] = l], mutex' = mutex
      PROVE  OwnerIsInside'
  <2>1. pc[t] \notin Locked
    BY <1>3 DEF Locked, Writing
  <2>2. QED
    BY <1>3, <2>1, OwnerStaysInside
<1>4. CASE scan_done(t)
  BY <1>3, <1>4 DEF scan_done, Goto, state
<1>5. CASE lock(t)
  <2>1. pc \in [Thread -> PC]
    BY DEF TypeOK
  <2>2. mutex' = t /\ pc' = [pc EXCEPT ![t] = "locked"]
    BY <1>5 DEF lock, Goto
  <2>3. QED
    BY <2>1, <2>2 DEF OwnerIsInside, Locked
<1>6. ASSUME NEW code, NEW value, NEW ids, pc[t] \in {"handle", "found"}, Answer(t, code, value, ids)
      PROVE  OwnerIsInside'
  <2>1. pc' = [pc EXCEPT ![t] = "idle"] /\ mutex' = mutex
    BY <1>6 DEF Answer, Respond
  <2>2. pc[t] \notin Locked
    BY <1>6 DEF Locked, Writing
  <2>3. QED
    BY <2>1, <2>2, OwnerStaysInside
<1>7. CASE list_entities(t) \/ retrieve_read(t) \/ unknown_method(t)
  <2>1. pc[t] \in {"handle", "found"}
    BY <1>7 DEF list_entities, retrieve_read, unknown_method
  <2>2. \E code, value, ids : Answer(t, code, value, ids)
    BY <1>7, Zenon DEF list_entities, retrieve_read, unknown_method
  <2>3. QED
    BY <1>6, <2>1, <2>2
<1>8. CASE retrieve_lookup(t)
  <2>1. CASE Goto(t, "found") /\ mutex' = mutex
    BY <1>3, <1>8, <2>1 DEF retrieve_lookup, Goto
  <2>2. CASE Terminate
    BY <2>2, ReturnsGiveBack DEF Terminate
  <2>3. QED
    BY <1>6, <1>8, <2>1, <2>2 DEF retrieve_lookup, state
<1>9. QED
  BY <1>2, <1>4, <1>5, <1>7, <1>8, LockedKeepsOwner DEF Serve

(* No return of a locked handler, no exception and no end of the process keeps   *)
(* mutex_: whoever has it is inside a locked handler, where nobody waits, and so  *)
(* no request waits for itself or for one that is over (the lock_guards of        *)
(* crud_handler.cc:111, 171 and 368).                                            *)
THEOREM MutexIsGivenBack == Spec => []OwnerIsInside
<1>1. Init => OwnerIsInside
  BY DEF Init, OwnerIsInside
<1>2. TypeOK /\ OwnerIsInside /\ [Next]_vars => OwnerIsInside'
  <2> SUFFICES ASSUME TypeOK, OwnerIsInside, [Next]_vars PROVE OwnerIsInside'
    OBVIOUS
  <2>1. CASE \E t \in Thread, r \in Requests : create(t, r)
    <3>1. PICK t \in Thread, r \in Requests : create(t, r)
      BY <2>1
    <3>2. pc[t] \notin Locked /\ pc' = [pc EXCEPT ![t] = "scan"] /\ mutex' = mutex
      BY <3>1 DEF create, Locked, Writing
    <3>3. QED
      BY <3>2, OwnerStaysInside
  <2>2. CASE \E t \in Thread : Serve(t)
    BY <2>2, ServingKeepsOwner
  <2>3. CASE Terminate
    BY <2>3, ReturnsGiveBack DEF Terminate
  <2>4. CASE UNCHANGED vars
    BY <2>4 DEF vars, state, OwnerIsInside
  <2>5. QED
    BY <2>1, <2>2, <2>3, <2>4 DEF Next
<1>3. QED
  BY <1>1, <1>2, TypeCorrect, PTL DEF Spec
=============================================================================
