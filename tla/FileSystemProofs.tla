-------------------------- MODULE FileSystemProofs --------------------------
(***************************************************************************)
(* Proofs about FileSystem, for any set of threads, any tree of paths and  *)
(* any heap: mutual exclusion per path, reads that are never torn, and the *)
(* refinement of AtomicFiles.  Everything rests on the inductive invariant *)
(* IInv of FileSystem.                                                     *)
(***************************************************************************)
EXTENDS FileSystem, TLAPS

USE DEF Dir, Truncated

(* The server starts with nobody inside an operation and no torn file. *)
LEMMA InitInvariant == Init => IInv
  BY PathAssumption, ValueAssumption
  DEF Init, IInv, TypeOK, TableKeepsMutexes, OnePathPerMutex, OwnersAreInside,
      TornOnlyByWriter, NoTornRead, Path, PathsOf, FileOperation, Operation,
      Status, PC, Critical, exist

(* Calling an operation touches no mutex and no file. *)
LEMMA CallInvariant ==
  ASSUME IInv, NEW t \in Thread, NEW o \in Operation, NEW p \in Path, NEW c \in Content,
         Call(t, o, p, c)
  PROVE  IInv'
<1> USE PathAssumption, ValueAssumption DEF IInv, TypeOK, Path, PathsOf, FileOperation, Operation, Status, PC
<1>1. TypeOK'
  BY DEF Call
<1>2. TableKeepsMutexes'
  BY DEF Call, TableKeepsMutexes
<1>3. OnePathPerMutex'
  BY DEF Call, OnePathPerMutex
<1>4. OwnersAreInside'
  BY DEF Call, OwnersAreInside, Critical
<1>5. TornOnlyByWriter'
  BY DEF Call, TornOnlyByWriter, exist
<1>6. NoTornRead'
  BY DEF Call, NoTornRead
<1>7. QED
  BY <1>1, <1>2, <1>3, <1>4, <1>5, <1>6 DEF IInv

(* get_mutex hands out the table's object for the path, or a free one. *)
LEMMA GetMutexInvariant ==
  ASSUME IInv, NEW t \in Thread, get_mutex(t)
  PROVE  IInv'
<1> USE PathAssumption, ValueAssumption DEF IInv, TypeOK, Path, PathsOf, FileOperation, Operation, Status, PC
<1>1. TypeOK'
  BY DEF get_mutex
<1>2. TableKeepsMutexes'
  BY DEF get_mutex, TableKeepsMutexes
<1>3. OnePathPerMutex'
  BY DEF get_mutex, InTable, OnePathPerMutex
<1>4. OwnersAreInside'
  BY DEF get_mutex, OwnersAreInside, Critical
<1>5. TornOnlyByWriter'
  BY DEF get_mutex, TornOnlyByWriter, exist
<1>6. NoTornRead'
  BY DEF get_mutex, NoTornRead
<1>7. QED
  BY <1>1, <1>2, <1>3, <1>4, <1>5, <1>6 DEF IInv

(* Only a free mutex is locked. *)
LEMMA LockInvariant ==
  ASSUME IInv, NEW t \in Thread, Lock(t)
  PROVE  IInv'
<1> USE PathAssumption, ValueAssumption DEF IInv, TypeOK, Path, PathsOf, FileOperation, Operation, Status, PC
<1>1. TypeOK'
  BY DEF Lock
<1>2. TableKeepsMutexes'
  BY DEF Lock, TableKeepsMutexes
<1>3. OnePathPerMutex'
  BY DEF Lock, OnePathPerMutex
<1>4. OwnersAreInside'
  BY DEF Lock, OwnersAreInside, TableKeepsMutexes, Critical
<1>5. TornOnlyByWriter'
  BY DEF Lock, TornOnlyByWriter, exist
<1>6. NoTornRead'
  BY DEF Lock, NoTornRead
<1>7. QED
  BY <1>1, <1>2, <1>3, <1>4, <1>5, <1>6 DEF IInv

(* Unlocking frees the mutex of the thread that leaves. *)
LEMMA UnlockInvariant ==
  ASSUME IInv, NEW t \in Thread, Unlock(t)
  PROVE  IInv'
<1> USE PathAssumption, ValueAssumption DEF IInv, TypeOK, Path, PathsOf, FileOperation, Operation, Status, PC
<1>1. TypeOK'
  BY DEF Unlock
<1>2. TableKeepsMutexes'
  BY DEF Unlock, TableKeepsMutexes
<1>3. OnePathPerMutex'
  BY DEF Unlock, OnePathPerMutex
<1>4. OwnersAreInside'
  BY DEF Unlock, OwnersAreInside, Critical
<1>5. TornOnlyByWriter'
  BY DEF Unlock, TornOnlyByWriter, exist
<1>6. NoTornRead'
  BY DEF Unlock, NoTornRead
<1>7. QED
  BY <1>1, <1>2, <1>3, <1>4, <1>5, <1>6 DEF IInv

(* Dropping the shared_ptr leaves the table as it is. *)
LEMMA ReleaseInvariant ==
  ASSUME IInv, NEW t \in Thread, Release(t)
  PROVE  IInv'
<1> USE PathAssumption, ValueAssumption DEF IInv, TypeOK, Path, PathsOf, FileOperation, Operation, Status, PC
<1>1. TypeOK'
  BY DEF Release
<1>2. TableKeepsMutexes'
  BY DEF Release, TableKeepsMutexes
<1>3. OnePathPerMutex'
  BY DEF Release, OnePathPerMutex
<1>4. OwnersAreInside'
  BY DEF Release, OwnersAreInside, Critical
<1>5. TornOnlyByWriter'
  BY DEF Release, TornOnlyByWriter, exist
<1>6. NoTornRead'
  BY DEF Release, NoTornRead
<1>7. QED
  BY <1>1, <1>2, <1>3, <1>4, <1>5, <1>6 DEF IInv

(* cleanup_mutexes drops no mutex that an operation refers to. *)
LEMMA CleanupInvariant ==
  ASSUME IInv, cleanup_mutexes
  PROVE  IInv'
<1> USE PathAssumption, ValueAssumption DEF IInv, TypeOK, Path, PathsOf, FileOperation, Operation, Status, PC
<1>1. TypeOK'
  BY DEF cleanup_mutexes
<1>2. TableKeepsMutexes'
  BY DEF cleanup_mutexes, InUse, TableKeepsMutexes
<1>3. OnePathPerMutex'
  BY DEF cleanup_mutexes, OnePathPerMutex
<1>4. OwnersAreInside'
  BY DEF cleanup_mutexes, OwnersAreInside
<1>5. TornOnlyByWriter'
  BY DEF cleanup_mutexes, TornOnlyByWriter, exist
<1>6. NoTornRead'
  BY DEF cleanup_mutexes, NoTornRead
<1>7. QED
  BY <1>1, <1>2, <1>3, <1>4, <1>5, <1>6 DEF IInv

(* A writer tears its file on opening it and heals it on closing it. *)
LEMMA WriteInvariant ==
  ASSUME IInv, NEW t \in Thread,
         write_file_open(t) \/ write_file_not_opened(t) \/ write_file_close(t)
  PROVE  IInv'
<1> USE PathAssumption, ValueAssumption DEF IInv, TypeOK, Path, PathsOf, FileOperation, Operation, Status, PC
<1>1. TypeOK'
  BY DEF write_file_open, write_file_not_opened, write_file_close, Inside, Return
<1>2. TableKeepsMutexes'
  BY DEF write_file_open, write_file_not_opened, write_file_close, Inside, TableKeepsMutexes
<1>3. OnePathPerMutex'
  BY DEF write_file_open, write_file_not_opened, write_file_close, Inside, OnePathPerMutex
<1>4. OwnersAreInside'
  BY DEF write_file_open, write_file_not_opened, write_file_close, Inside, OwnersAreInside, Critical
<1>5. TornOnlyByWriter'
  BY DEF write_file_open, write_file_not_opened, write_file_close, Inside, TornOnlyByWriter, TableKeepsMutexes, OwnersAreInside, Critical, exist
<1>6. NoTornRead'
  BY DEF write_file_open, write_file_not_opened, write_file_close, NoTornRead
<1>7. QED
  BY <1>1, <1>2, <1>3, <1>4, <1>5, <1>6 DEF IInv

(* A reader inside its path excludes the writer of that path. *)
LEMMA ReadInvariant ==
  ASSUME IInv, NEW t \in Thread, read_file(t)
  PROVE  IInv'
<1> USE PathAssumption, ValueAssumption DEF IInv, TypeOK, Path, PathsOf, FileOperation, Operation, Status, PC
<1>1. TypeOK'
  BY DEF read_file, not_exist, exist_checked, Inside, Return
<1>2. TableKeepsMutexes'
  BY DEF read_file, not_exist, exist_checked, Inside, TableKeepsMutexes
<1>3. OnePathPerMutex'
  BY DEF read_file, not_exist, exist_checked, Inside, OnePathPerMutex
<1>4. OwnersAreInside'
  BY DEF read_file, not_exist, exist_checked, Inside, OwnersAreInside, Critical
<1>5. TornOnlyByWriter'
  BY DEF read_file, not_exist, exist_checked, Inside, TornOnlyByWriter, exist
<1>6. NoTornRead'
  BY DEF read_file, not_exist, exist_checked, Inside, NoTornRead, TableKeepsMutexes, OwnersAreInside, TornOnlyByWriter, Critical
<1>7. QED
  BY <1>1, <1>2, <1>3, <1>4, <1>5, <1>6 DEF IInv

(* Deleting a file leaves none torn. *)
LEMMA DeleteFileInvariant ==
  ASSUME IInv, NEW t \in Thread, delete_file(t)
  PROVE  IInv'
<1> USE PathAssumption, ValueAssumption DEF IInv, TypeOK, Path, PathsOf, FileOperation, Operation, Status, PC
<1>1. TypeOK'
  BY DEF delete_file, not_exist, exist_checked, Inside, Return
<1>2. TableKeepsMutexes'
  BY DEF delete_file, not_exist, exist_checked, Inside, TableKeepsMutexes
<1>3. OnePathPerMutex'
  BY DEF delete_file, not_exist, exist_checked, Inside, OnePathPerMutex
<1>4. OwnersAreInside'
  BY DEF delete_file, not_exist, exist_checked, Inside, OwnersAreInside, Critical
<1>5. TornOnlyByWriter'
  BY DEF delete_file, not_exist, exist_checked, Inside, TornOnlyByWriter, exist
<1>6. NoTornRead'
  BY DEF delete_file, not_exist, exist_checked, NoTornRead
<1>7. QED
  BY <1>1, <1>2, <1>3, <1>4, <1>5, <1>6 DEF IInv

(* Between the check for a directory and its creation nobody creates it. *)
LEMMA CreateDirectoryInvariant ==
  ASSUME IInv, NEW t \in Thread, create_directory(t)
  PROVE  IInv'
<1> USE PathAssumption, ValueAssumption DEF IInv, TypeOK, Path, PathsOf, FileOperation, Operation, Status, PC
<1>1. TypeOK'
  BY DEF create_directory, Inside, Return
<1>2. TableKeepsMutexes'
  BY DEF create_directory, Inside, TableKeepsMutexes
<1>3. OnePathPerMutex'
  BY DEF create_directory, Inside, OnePathPerMutex
<1>4. OwnersAreInside'
  BY DEF create_directory, Inside, OwnersAreInside, Critical
<1>5. TornOnlyByWriter'
  BY DEF create_directory, Inside, TornOnlyByWriter, TableKeepsMutexes, OwnersAreInside, Critical, exist
<1>6. NoTornRead'
  BY DEF create_directory, NoTornRead
<1>7. QED
  BY <1>1, <1>2, <1>3, <1>4, <1>5, <1>6 DEF IInv

(* remove_all deletes files under their writers' feet, but tears none. *)
LEMMA DeleteDirectoryInvariant ==
  ASSUME IInv, NEW t \in Thread, delete_directory(t)
  PROVE  IInv'
<1> USE PathAssumption, ValueAssumption DEF IInv, TypeOK, Path, PathsOf, FileOperation, Operation, Status, PC
<1>1. TypeOK'
  BY DEF delete_directory, remove_all_entry, not_exist, exist_checked, Inside, Return
<1>2. TableKeepsMutexes'
  BY DEF delete_directory, remove_all_entry, not_exist, exist_checked, Inside, TableKeepsMutexes
<1>3. OnePathPerMutex'
  BY DEF delete_directory, remove_all_entry, not_exist, exist_checked, Inside, OnePathPerMutex
<1>4. OwnersAreInside'
  BY DEF delete_directory, remove_all_entry, not_exist, exist_checked, Inside, OwnersAreInside, Critical
<1>5. TornOnlyByWriter'
  BY DEF delete_directory, remove_all_entry, not_exist, exist_checked, Inside, TornOnlyByWriter, exist
<1>6. NoTornRead'
  BY DEF delete_directory, remove_all_entry, not_exist, exist_checked, NoTornRead
<1>7. QED
  BY <1>1, <1>2, <1>3, <1>4, <1>5, <1>6 DEF IInv

-----------------------------------------------------------------------------
(* IInv is inductive. *)
LEMMA StepInvariant == IInv /\ [Next]_vars => IInv'
<1> SUFFICES ASSUME IInv, [Next]_vars PROVE IInv'
  OBVIOUS
<1>1. ASSUME NEW t \in Thread, NEW o \in Operation, NEW p \in Path, NEW c \in Content,
             Call(t, o, p, c)
      PROVE  IInv'
  BY <1>1, CallInvariant
<1>2. ASSUME NEW t \in Thread, Work(t)
      PROVE  IInv'
  BY <1>2, GetMutexInvariant, LockInvariant, UnlockInvariant, ReleaseInvariant,
     WriteInvariant, ReadInvariant, DeleteFileInvariant, CreateDirectoryInvariant,
     DeleteDirectoryInvariant
  DEF Work
<1>3. CASE cleanup_mutexes
  BY <1>3, CleanupInvariant
<1>4. CASE UNCHANGED vars
  BY <1>4 DEF vars, IInv, TypeOK, TableKeepsMutexes, OnePathPerMutex, OwnersAreInside,
     TornOnlyByWriter, NoTornRead, exist
<1>5. QED
  BY <1>1, <1>2, <1>3, <1>4 DEF Next

(* The whole inductive invariant, of which the theorems below are parts. *)
THEOREM Invariance == Spec => []IInv
  BY InitInvariant, StepInvariant, PTL DEF Spec

(* Every variable keeps its type. *)
THEOREM TypeCorrectness == Spec => []TypeOK
<1>1. IInv => TypeOK
  BY DEF IInv
<1>2. QED
  BY <1>1, Invariance, PTL

(* Two threads inside the same path would own the same mutex. *)
LEMMA InvariantExcludes == IInv => PathExclusion
  BY ValueAssumption DEF IInv, TypeOK, TableKeepsMutexes, OwnersAreInside, PathExclusion, Critical

(* The per-path mutexes exclude each other whatever the number of threads      *)
(* and paths, and whenever cleanup_mutexes runs.                               *)
THEOREM MutualExclusion == Spec => []PathExclusion
  BY InvariantExcludes, Invariance, PTL

(* No read_file returns a file that a write_file has emptied and not filled.   *)
THEOREM ReadsAreWhole == Spec => []NoTornRead
<1>1. IInv => NoTornRead
  BY DEF IInv
<1>2. QED
  BY <1>1, Invariance, PTL

-----------------------------------------------------------------------------
(* The abstract disk, without the CHOOSE of its definition: it differs from    *)
(* the disk only at the torn files, where it has what their writer writes.     *)
DiskBarFacts ==
  /\ diskBar \in [Path -> Content \cup {Null, Dir}]
  /\ \A p \in Path : disk[p] # Truncated => diskBar[p] = disk[p]
  /\ \A t \in Thread : pc[t] = "opened" /\ disk[path[t]] = Truncated =>
       diskBar[path[t]] = content[t]

(* A torn file has exactly one writer. *)
LEMMA DiskBarDetermined == IInv => DiskBarFacts
<1> SUFFICES ASSUME IInv PROVE DiskBarFacts
  OBVIOUS
<1>1. ASSUME NEW p \in Path, disk[p] = Truncated
      PROVE  Writer(p) \in Thread /\ pc[Writer(p)] = "opened" /\ path[Writer(p)] = p
  BY <1>1 DEF IInv, TornOnlyByWriter, Writer
<1>2. diskBar \in [Path -> Content \cup {Null, Dir}]
  BY <1>1 DEF diskBar, IInv, TypeOK
<1>3. ASSUME NEW t \in Thread, pc[t] = "opened", disk[path[t]] = Truncated
      PROVE  diskBar[path[t]] = content[t]
  <2>1. path[t] \in Path
    BY DEF IInv, TypeOK
  <2>2. Writer(path[t]) = t
    BY <1>1, <1>3, <2>1, InvariantExcludes DEF PathExclusion, Critical
  <2>3. QED
    BY <1>3, <2>1, <2>2 DEF diskBar
<1>4. QED
  BY <1>2, <1>3 DEF DiskBarFacts, diskBar

(* As long as nobody starts or finishes a write, the abstract disk changes as  *)
(* the disk does.                                                              *)
LEMMA DiskBarStep ==
  ASSUME IInv, IInv', DiskBarFacts, DiskBarFacts',
         \A u \in Thread : pc'[u] = "opened" <=> pc[u] = "opened",
         \A u \in Thread : pc[u] = "opened" => path'[u] = path[u] /\ content'[u] = content[u]
  PROVE  /\ disk' = disk => diskBar' = diskBar
         /\ \A q \in Path, v \in Content \cup {Null, Dir} :
              disk' = [disk EXCEPT ![q] = v] => diskBar' = [diskBar EXCEPT ![q] = v]
<1> USE DEF IInv, TypeOK, DiskBarFacts, TornOnlyByWriter
<1>1. ASSUME NEW q \in Path, disk'[q] = disk[q]
      PROVE  diskBar'[q] = diskBar[q]
  BY <1>1
<1>2. ASSUME NEW q \in Path, NEW v \in Content \cup {Null, Dir}, disk'[q] = v
      PROVE  diskBar'[q] = v
  BY <1>2, ValueAssumption
<1>3. ASSUME NEW q \in Path, NEW v \in Content \cup {Null, Dir},
             disk' = [disk EXCEPT ![q] = v], NEW r \in Path
      PROVE  diskBar'[r] = IF r = q THEN v ELSE diskBar[r]
  BY <1>1, <1>2, <1>3
<1>4. QED
  BY <1>1, <1>3

(* The server starts in an initial state of AtomicFiles. *)
LEMMA InitSimulation == Init => Abstract!Init
<1> SUFFICES ASSUME Init PROVE Abstract!Init
  OBVIOUS
<1>1. diskBar = disk
  BY PathAssumption, ValueAssumption DEF Init, diskBar
<1>2. pcBar = [t \in Thread |-> "idle"]
  BY DEF Init, pcBar
<1>3. statusBar = [t \in Thread |-> Null]
  BY DEF Init, statusBar
<1>4. QED
  BY <1>1, <1>2, <1>3 DEF Init, Abstract!Init, Abstract!Path, Path, Abstract!Dir, exist,
     Reachable, Abstract!exist, Abstract!Reachable
-----------------------------------------------------------------------------

(* The steps of the locking protocol, and a write_file that closes its file,   *)
(* are invisible to AtomicFiles.                                               *)
LEMMA InvisibleSteps ==
  ASSUME IInv, IInv', DiskBarFacts, DiskBarFacts', NEW t \in Thread,
         get_mutex(t) \/ Lock(t) \/ Unlock(t) \/ write_file_close(t)
  PROVE  UNCHANGED Abstract!vars
<1> USE DEF IInv, TypeOK
<1>1. pcBar' = pcBar /\ statusBar' = statusBar
  BY DEF get_mutex, Lock, Unlock, write_file_close, Inside, Return, pcBar, statusBar, PC
<1>2. diskBar' = diskBar
  <2>1. ASSUME NEW p \in Path PROVE diskBar'[p] = diskBar[p]
    BY ValueAssumption DEF DiskBarFacts, TornOnlyByWriter, get_mutex, Lock, Unlock, write_file_close,
       Inside, exist, PathsOf, FileOperation
  <2>2. QED
    BY <2>1 DEF DiskBarFacts
<1>3. QED
  BY <1>1, <1>2 DEF Abstract!vars, get_mutex, Lock, Unlock, write_file_close, Inside

(* cleanup_mutexes is invisible too. *)
LEMMA CleanupIsInvisible ==
  ASSUME IInv, IInv', DiskBarFacts, DiskBarFacts', cleanup_mutexes \/ UNCHANGED vars
  PROVE  UNCHANGED Abstract!vars
<1>1. UNCHANGED <<pc, op, path, content, disk, status, value>>
  BY DEF cleanup_mutexes, vars
<1>2. pcBar' = pcBar /\ statusBar' = statusBar
  BY <1>1 DEF pcBar, statusBar
<1>3. diskBar' = diskBar
  BY <1>1, DiskBarStep
<1>4. QED
  BY <1>1, <1>2, <1>3 DEF Abstract!vars

(* Calls map to calls. *)
LEMMA CallSimulation ==
  ASSUME IInv, IInv', DiskBarFacts, DiskBarFacts',
         NEW t \in Thread, NEW o \in Operation, NEW p \in Path, NEW c \in Content,
         Call(t, o, p, c)
  PROVE  Abstract!Call(t, o, p, c)
<1> USE DEF IInv, TypeOK, Call
<1>1. pcBar[t] = "idle" /\ pcBar' = [pcBar EXCEPT ![t] = "called"]
  BY DEF pcBar
<1>2. statusBar' = [statusBar EXCEPT ![t] = Null]
  BY DEF statusBar
<1>3. diskBar' = diskBar
  BY DiskBarStep
<1>4. QED
  BY <1>1, <1>2, <1>3 DEF Abstract!Call, Abstract!PathsOf, PathsOf, FileOperation

(* Returns map to returns. *)
LEMMA ReleaseSimulation ==
  ASSUME IInv, IInv', DiskBarFacts, DiskBarFacts', NEW t \in Thread, Release(t)
  PROVE  Abstract!Return(t)
<1> USE DEF IInv, TypeOK, Release
<1>1. pcBar[t] = "done" /\ pcBar' = [pcBar EXCEPT ![t] = "idle"]
  BY DEF pcBar
<1>2. statusBar' = statusBar
  BY DEF statusBar
<1>3. diskBar' = diskBar
  BY DiskBarStep
<1>4. QED
  BY <1>1, <1>2, <1>3 DEF Abstract!Return

(* The abstract disk lacks the same paths as the disk. *)
LEMMA SamePaths ==
  ASSUME IInv, DiskBarFacts
  PROVE  /\ \A p \in Path : exist(p) <=> Abstract!exist(p)
         /\ \A p \in Path : Reachable(p) <=> Abstract!Reachable(p)
         /\ \A p \in Path : Empty(p) <=> Abstract!Empty(p)
<1>1. ASSUME NEW p \in Path PROVE exist(p) <=> Abstract!exist(p)
  BY ValueAssumption DEF IInv, TypeOK, TornOnlyByWriter, DiskBarFacts, exist, Abstract!exist
<1>2. QED
  BY <1>1, PathAssumption DEF Reachable, Abstract!Reachable, Empty, Abstract!Empty, Path

(* A write takes effect when its file is opened, or is refused. *)
LEMMA WriteSimulation ==
  ASSUME IInv, IInv', DiskBarFacts, DiskBarFacts', NEW t \in Thread,
         write_file_open(t) \/ write_file_not_opened(t)
  PROVE  Abstract!Write(t) \/ Abstract!Refuse(t)
<1> USE DEF IInv, TypeOK, Inside, Return
<1>1. CASE write_file_open(t)
  <2> USE <1>1 DEF write_file_open
  <2>1. /\ pcBar[t] = "called" /\ pcBar' = [pcBar EXCEPT ![t] = "done"]
        /\ statusBar' = [statusBar EXCEPT ![t] = "success"]
    BY DEF pcBar, statusBar
  <2>2. ASSUME NEW q \in Path
        PROVE  diskBar'[q] = IF q = path[t] THEN content[t] ELSE diskBar[q]
    BY ValueAssumption DEF DiskBarFacts, TornOnlyByWriter
  <2>3. diskBar' = [diskBar EXCEPT ![path[t]] = content[t]]
    BY <2>2 DEF DiskBarFacts
  <2>4. QED
    BY <2>1, <2>3, SamePaths DEF Abstract!Write, Abstract!Effect
<1>2. CASE write_file_not_opened(t)
  <2> USE <1>2 DEF write_file_not_opened
  <2>1. /\ pcBar[t] = "called" /\ pcBar' = [pcBar EXCEPT ![t] = "done"]
        /\ statusBar' = [statusBar EXCEPT ![t] = "not_found"]
    BY DEF pcBar, statusBar
  <2>2. diskBar' = diskBar
    BY DiskBarStep
  <2>3. QED
    BY <2>1, <2>2 DEF Abstract!Refuse, Abstract!Effect
<1>3. QED
  BY <1>1, <1>2
-----------------------------------------------------------------------------

(* What every step under the lock does to the abstract pc and status: it ends   *)
(* the operation with its status, or it is not seen.                           *)
LEMMA InsideBar ==
  ASSUME IInv, NEW t \in Thread, NEW o \in Operation \ {"write_file"},
         NEW from \in {"locked", "checked"}
  PROVE  /\ Inside(t, o, from, "checked") /\ UNCHANGED status
              => UNCHANGED <<pcBar, statusBar>> /\ pcBar[t] = "called"
         /\ \A s \in Status : Inside(t, o, from, "unlock") /\ Return(t, s)
              => /\ pcBar[t] = "called"
                 /\ pcBar' = [pcBar EXCEPT ![t] = "done"]
                 /\ statusBar' = [statusBar EXCEPT ![t] = s]
<1> USE DEF IInv, TypeOK, Inside, Return, PC
<1>1. ASSUME Inside(t, o, from, "checked"), UNCHANGED status
      PROVE  UNCHANGED <<pcBar, statusBar>> /\ pcBar[t] = "called"
  BY <1>1 DEF pcBar, statusBar
<1>2. ASSUME NEW s \in Status, Inside(t, o, from, "unlock"), Return(t, s)
      PROVE  /\ pcBar[t] = "called"
             /\ pcBar' = [pcBar EXCEPT ![t] = "done"]
             /\ statusBar' = [statusBar EXCEPT ![t] = s]
  BY <1>2 DEF pcBar, statusBar
<1>3. QED
  BY <1>1, <1>2

(* Such a step neither starts nor finishes a write. *)
LEMMA InsideWrites ==
  ASSUME IInv, NEW t \in Thread, NEW o \in Operation \ {"write_file"},
         NEW from \in {"locked", "checked"}, NEW to \in {"checked", "unlock"},
         Inside(t, o, from, to)
  PROVE  /\ \A u \in Thread : pc'[u] = "opened" <=> pc[u] = "opened"
         /\ \A u \in Thread : pc[u] = "opened" => path'[u] = path[u] /\ content'[u] = content[u]
  BY DEF IInv, TypeOK, Inside

(* The checks at the start of read_file, delete_file and delete_directory. *)
LEMMA CheckSimulation ==
  ASSUME IInv, IInv', DiskBarFacts, DiskBarFacts', NEW t \in Thread,
         NEW o \in {"read_file", "delete_file", "delete_directory"}
  PROVE  /\ not_exist(t, o) => Abstract!Refuse(t)
         /\ exist_checked(t, o) => UNCHANGED Abstract!vars
<1> o \in Operation \ {"write_file"} /\ path[t] \in Path
  BY DEF Operation, IInv, TypeOK
<1>1. ASSUME not_exist(t, o) PROVE Abstract!Refuse(t)
  <2>1. diskBar' = diskBar
    BY <1>1, DiskBarStep, InsideWrites DEF not_exist
  <2>2. QED
    BY <1>1, <2>1, InsideBar, SamePaths
    DEF not_exist, Inside, Status, Abstract!Refuse, Abstract!Effect
<1>2. ASSUME exist_checked(t, o) PROVE UNCHANGED Abstract!vars
  <2>1. diskBar' = diskBar
    BY <1>2, DiskBarStep, InsideWrites DEF exist_checked
  <2>2. QED
    BY <1>2, <2>1, InsideBar DEF exist_checked, Inside, Abstract!vars
<1>3. QED
  BY <1>1, <1>2

(* A read sees the file as it is on the abstract disk: it is not torn. *)
LEMMA ReadSimulation ==
  ASSUME IInv, IInv', DiskBarFacts, DiskBarFacts', NEW t \in Thread, read_file(t)
  PROVE  Abstract!Read(t) \/ Abstract!Refuse(t) \/ UNCHANGED Abstract!vars
<1> "read_file" \in Operation \ {"write_file"} /\ path[t] \in Path
  BY DEF Operation, IInv, TypeOK
<1>1. CASE not_exist(t, "read_file") \/ exist_checked(t, "read_file")
  BY <1>1, CheckSimulation
<1>2. CASE /\ exist(path[t])
           /\ value' = [value EXCEPT ![t] = disk[path[t]]]
           /\ Return(t, "success")
           /\ Inside(t, "read_file", "checked", "unlock")
           /\ UNCHANGED disk
  <2>1. diskBar' = diskBar
    BY <1>2, DiskBarStep, InsideWrites
  <2>2. disk[path[t]] # Truncated
    BY <1>2, InvariantExcludes
    DEF IInv, TornOnlyByWriter, PathExclusion, Critical, Inside
  <2>3. disk[path[t]] = diskBar[path[t]]
    BY <2>2 DEF DiskBarFacts
  <2>4. QED
    BY <1>2, <2>1, <2>3, InsideBar, SamePaths
    DEF Inside, Status, Abstract!Read, Abstract!Effect
<1>3. CASE /\ Return(t, "error")
           /\ Inside(t, "read_file", "checked", "unlock")
           /\ UNCHANGED <<disk, value>>
  <2>1. diskBar' = diskBar
    BY <1>3, DiskBarStep, InsideWrites
  <2>2. QED
    BY <1>3, <2>1, InsideBar DEF Inside, Status, Abstract!Refuse, Abstract!Effect
<1>4. QED
  BY <1>1, <1>2, <1>3 DEF read_file

(* A file is deleted at once. *)
LEMMA DeleteFileSimulation ==
  ASSUME IInv, IInv', DiskBarFacts, DiskBarFacts', NEW t \in Thread, delete_file(t)
  PROVE  Abstract!Delete(t) \/ Abstract!Refuse(t) \/ UNCHANGED Abstract!vars
<1> "delete_file" \in Operation \ {"write_file"} /\ path[t] \in Path
  BY DEF Operation, IInv, TypeOK
<1>1. CASE not_exist(t, "delete_file") \/ exist_checked(t, "delete_file")
  BY <1>1, CheckSimulation
<1>2. CASE /\ disk' = [disk EXCEPT ![path[t]] = Null]
           /\ Return(t, "success")
           /\ Inside(t, "delete_file", "checked", "unlock")
           /\ UNCHANGED value
  <2>1. diskBar' = [diskBar EXCEPT ![path[t]] = Null]
    BY <1>2, DiskBarStep, InsideWrites
  <2>2. path[t] \notin Directory
    BY <1>2, PathAssumption DEF IInv, TypeOK, PathsOf, FileOperation, Inside
  <2>3. QED
    BY <1>2, <2>1, <2>2, InsideBar
    DEF Inside, Status, Abstract!Delete, Abstract!Empty, Abstract!Effect
<1>3. CASE /\ Return(t, "error")
           /\ Inside(t, "delete_file", "checked", "unlock")
           /\ UNCHANGED <<disk, value>>
  <2>1. diskBar' = diskBar
    BY <1>3, DiskBarStep, InsideWrites
  <2>2. QED
    BY <1>3, <2>1, InsideBar DEF Inside, Status, Abstract!Refuse, Abstract!Effect
<1>4. QED
  BY <1>1, <1>2, <1>3 DEF delete_file

(* A directory that create_directory found missing is still missing when it    *)
(* is created.                                                                 *)
LEMMA CreateDirectorySimulation ==
  ASSUME IInv, IInv', DiskBarFacts, DiskBarFacts', NEW t \in Thread, create_directory(t)
  PROVE  Abstract!Create(t) \/ Abstract!Refuse(t) \/ UNCHANGED Abstract!vars
<1> DEFINE o == "create_directory"
<1> "create_directory" \in Operation \ {"write_file"} /\ path[t] \in Path
  BY DEF Operation, IInv, TypeOK
<1>1. CASE /\ exist(path[t])
           /\ Return(t, "conflict")
           /\ Inside(t, o, "locked", "unlock")
           /\ UNCHANGED <<disk, value>>
  <2>1. diskBar' = diskBar
    BY <1>1, DiskBarStep, InsideWrites
  <2>2. QED
    BY <1>1, <2>1, InsideBar, SamePaths DEF Inside, Status, Abstract!Refuse, Abstract!Effect
<1>2. CASE /\ ~exist(path[t])
           /\ Inside(t, o, "locked", "checked")
           /\ UNCHANGED <<disk, status, value>>
  <2>1. diskBar' = diskBar
    BY <1>2, DiskBarStep, InsideWrites
  <2>2. QED
    BY <1>2, <2>1, InsideBar DEF Inside, Abstract!vars
<1>3. CASE /\ Reachable(path[t])
           /\ disk' = [disk EXCEPT ![path[t]] = Dir]
           /\ Return(t, "success")
           /\ Inside(t, o, "checked", "unlock")
           /\ UNCHANGED value
  <2>1. diskBar' = [diskBar EXCEPT ![path[t]] = Dir]
    BY <1>3, DiskBarStep, InsideWrites
  <2>2. ~exist(path[t])
    BY <1>3 DEF IInv, TornOnlyByWriter, Inside
  <2>3. QED
    BY <1>3, <2>1, <2>2, InsideBar, SamePaths
    DEF Inside, Status, Abstract!Create, Abstract!Dir, Abstract!Effect
<1>4. CASE /\ Return(t, "error")
           /\ Inside(t, o, "checked", "unlock")
           /\ UNCHANGED <<disk, value>>
  <2>1. diskBar' = diskBar
    BY <1>4, DiskBarStep, InsideWrites
  <2>2. QED
    BY <1>4, <2>1, InsideBar DEF Inside, Status, Abstract!Refuse, Abstract!Effect
<1>5. QED
  BY <1>1, <1>2, <1>3, <1>4 DEF create_directory

(* remove_all takes the entries of the abstract directory away one by one. *)
LEMMA DeleteDirectorySimulation ==
  ASSUME IInv, IInv', DiskBarFacts, DiskBarFacts', NEW t \in Thread, delete_directory(t)
  PROVE  \/ Abstract!Delete(t) \/ Abstract!Refuse(t) \/ UNCHANGED Abstract!vars
         \/ \E q \in Path : Abstract!RemoveBelow(t, q)
<1> DEFINE o == "delete_directory"
<1> "delete_directory" \in Operation \ {"write_file"} /\ path[t] \in Path
  BY DEF Operation, IInv, TypeOK
<1>1. CASE not_exist(t, o) \/ exist_checked(t, o)
  BY <1>1, CheckSimulation
<1>2. ASSUME NEW q \in Path, remove_all_entry(t, q)
      PROVE  Abstract!RemoveBelow(t, q)
  <2>1. diskBar' = [diskBar EXCEPT ![q] = Null]
    BY <1>2, DiskBarStep, InsideWrites DEF remove_all_entry
  <2>2. QED
    BY <1>2, <2>1, InsideBar, SamePaths DEF remove_all_entry, Inside, Abstract!RemoveBelow
<1>3. CASE /\ Empty(path[t])
           /\ disk' = [disk EXCEPT ![path[t]] = Null]
           /\ Return(t, "success")
           /\ Inside(t, o, "checked", "unlock")
           /\ UNCHANGED value
  <2>1. diskBar' = [diskBar EXCEPT ![path[t]] = Null]
    BY <1>3, DiskBarStep, InsideWrites
  <2>2. QED
    BY <1>3, <2>1, InsideBar, SamePaths DEF Inside, Status, Abstract!Delete, Abstract!Effect
<1>4. CASE /\ Return(t, "error")
           /\ Inside(t, o, "checked", "unlock")
           /\ UNCHANGED <<disk, value>>
  <2>1. diskBar' = diskBar
    BY <1>4, DiskBarStep, InsideWrites
  <2>2. QED
    BY <1>4, <2>1, InsideBar DEF Inside, Status, Abstract!Refuse, Abstract!Effect
<1>5. QED
  BY <1>1, <1>2, <1>3, <1>4 DEF delete_directory

(* Every step of FileSystem is a step of AtomicFiles or is not seen there. *)
LEMMA StepSimulation ==
  IInv /\ IInv' /\ DiskBarFacts /\ DiskBarFacts' /\ [Next]_vars => [Abstract!Next]_(Abstract!vars)
<1> SUFFICES ASSUME IInv, IInv', DiskBarFacts, DiskBarFacts', [Next]_vars
             PROVE  Abstract!Next \/ UNCHANGED Abstract!vars
  OBVIOUS
<1>1. ASSUME NEW t \in Thread, NEW o \in Operation, NEW p \in Path, NEW c \in Content,
             Call(t, o, p, c)
      PROVE  Abstract!Next
  BY <1>1, CallSimulation
  DEF Abstract!Next, Abstract!Operation, Abstract!Path, Operation, Path
<1>2. ASSUME NEW t \in Thread, Work(t)
      PROVE  Abstract!Next \/ UNCHANGED Abstract!vars
  BY <1>2, InvisibleSteps, ReleaseSimulation, WriteSimulation, ReadSimulation,
     DeleteFileSimulation, CreateDirectorySimulation, DeleteDirectorySimulation
  DEF Work, Abstract!Next, Abstract!Path, Path
<1>3. CASE cleanup_mutexes \/ UNCHANGED vars
  BY <1>3, CleanupIsInvisible
<1>4. QED
  BY <1>1, <1>2, <1>3 DEF Next

(* The locked operations of BoostFileSystem implement atomic ones. *)
THEOREM Refinement == Spec => Atomicity
  BY InitSimulation, StepSimulation, DiskBarDetermined, Invariance, PTL
  DEF Spec, Atomicity, Abstract!Spec
=============================================================================
