----------------------------- MODULE FileSystem -----------------------------
(***************************************************************************)
(* The file layer of the meme service: FileSystem (the table of one mutex  *)
(* per path, src/src/file_system.cc) and BoostFileSystem (the operations    *)
(* that run under those mutexes, src/src/boost_file_system.cc).             *)
(*                                                                         *)
(* Every operation fetches the mutex of its path under fs_mutex_, locks    *)
(* it, does its work on the disk in the steps another thread can see, and  *)
(* on return unlocks the mutex and then drops its shared_ptr.  get_mutex    *)
(* and cleanup_mutexes are single steps: each runs wholly under fs_mutex_  *)
(* and waits for nothing else.                                             *)
(*                                                                         *)
(* Mutex objects live on the heap behind shared_ptrs: an object is free    *)
(* when neither the table nor a running operation refers to it, and        *)
(* make_shared may hand out any free object again.                         *)
(***************************************************************************)
EXTENDS FiniteSets, Naturals

CONSTANTS
  Thread,     \* the worker threads of the server
  File,       \* paths used as files
  Directory,  \* paths used as directories
  Under,      \* Under[d]: the paths strictly below directory d
  Mutex,      \* heap objects that can hold a mutex
  Content,    \* what a file can be asked to hold
  Null        \* a null pointer, an absent path, an unset value

Path == File \cup Directory

(***************************************************************************)
(* The two states of a path that are not the content of a file: a          *)
(* directory, and a file whose open for writing has emptied it while its   *)
(* new content is still in the stream buffer.                              *)
(***************************************************************************)
Dir == "dir"
Truncated == "truncated"

ASSUME PathAssumption ==
  /\ File \cap Directory = {}
  /\ Under \in [Directory -> SUBSET Path]
  /\ \A d, e \in Directory : e \in Under[d] => Under[e] \subseteq Under[d]
  /\ \A d \in Directory : d \notin Under[d]

ASSUME ValueAssumption ==
  /\ Null \notin Mutex \cup Thread \cup Content \cup {Dir, Truncated}
  /\ Content \cap {Dir, Truncated} = {}

VARIABLES
  file_mutexes,  \* the table file_mutexes_: path -> mutex object or Null
  owner,         \* the thread that holds a mutex, or Null
  f_mutex,       \* a running operation's shared_ptr to its path's mutex
  pc,            \* where a thread is in its operation
  op,            \* the operation a thread runs
  path,          \* its path argument
  content,       \* its content argument (write_file)
  disk,          \* what is on the disk at each path
  status,        \* the status_f a thread's operation returned
  value          \* the content its read_file returned

vars == <<file_mutexes, owner, f_mutex, pc, op, path, content, disk, status, value>>

Operation == {"write_file", "read_file", "delete_file",
              "create_directory", "delete_directory"}
Status == {"success", "not_found", "conflict", "error"}
PC == {"idle", "get_mutex", "lock", "locked", "checked", "opened", "unlock", "release"}

FileOperation == {"write_file", "read_file", "delete_file"}
PathsOf(o) == IF o \in FileOperation THEN File ELSE Directory

TypeOK ==
  /\ file_mutexes \in [Path -> Mutex \cup {Null}]
  /\ owner \in [Mutex -> Thread \cup {Null}]
  /\ f_mutex \in [Thread -> Mutex \cup {Null}]
  /\ pc \in [Thread -> PC]
  /\ op \in [Thread -> Operation]
  /\ path \in [Thread -> Path]
  /\ \A t \in Thread : path[t] \in PathsOf(op[t])
  /\ content \in [Thread -> Content]
  /\ disk \in [Path -> Content \cup {Null, Dir, Truncated}]
  /\ \A f \in File : disk[f] # Dir
  /\ \A d \in Directory : disk[d] \in {Null, Dir}
  /\ status \in [Thread -> Status \cup {Null}]
  /\ value \in [Thread -> Content \cup {Null, Truncated}]

-----------------------------------------------------------------------------
(* The mutex table. *)

(* The operations and table entries that hold a shared_ptr to m: use_count() *)
(* is 1 exactly when the table holds the only one.                           *)
InTable(m) == \E p \in Path : file_mutexes[p] = m
InUse(m) == \E t \in Thread : f_mutex[t] = m

(* Mutant: a new mutex is returned but not put into the table. *)
get_mutex_not_stored(t) ==
  /\ pc[t] = "get_mutex"
  /\ \E m \in Mutex :
       /\ file_mutexes[path[t]] \in {Null, m}
       /\ file_mutexes[path[t]] = Null => ~InTable(m) /\ ~InUse(m)
       /\ f_mutex' = [f_mutex EXCEPT ![t] = m]
  /\ pc' = [pc EXCEPT ![t] = "lock"]
  /\ UNCHANGED <<file_mutexes, owner, op, path, content, disk, status, value>>

(* FileSystem::get_mutex, with the shared_ptr it returns stored in f_mutex. *)
get_mutex(t) ==
  /\ pc[t] = "get_mutex"
  /\ \/ /\ file_mutexes[path[t]] # Null
        /\ f_mutex' = [f_mutex EXCEPT ![t] = file_mutexes[path[t]]]
        /\ UNCHANGED file_mutexes
     \/ /\ file_mutexes[path[t]] = Null
        /\ \E m \in Mutex :
             /\ ~InTable(m) /\ ~InUse(m)
             /\ file_mutexes' = [file_mutexes EXCEPT ![path[t]] = m]
             /\ f_mutex' = [f_mutex EXCEPT ![t] = m]
  /\ pc' = [pc EXCEPT ![t] = "lock"]
  /\ UNCHANGED <<owner, op, path, content, disk, status, value>>

(* Mutant: entries are dropped whatever their use_count. *)
cleanup_mutexes_in_use ==
  /\ file_mutexes' = [p \in Path |-> Null]
  /\ UNCHANGED <<owner, f_mutex, pc, op, path, content, disk, status, value>>

(* FileSystem::cleanup_mutexes: drop the entries only the table refers to.   *)
(* Nothing in src/ calls it yet; here it may run at any moment.              *)
cleanup_mutexes ==
  /\ file_mutexes' = [p \in Path |-> IF InUse(file_mutexes[p]) THEN file_mutexes[p] ELSE Null]
  /\ UNCHANGED <<owner, f_mutex, pc, op, path, content, disk, status, value>>

-----------------------------------------------------------------------------
(* Calling, locking and returning: common to the five operations. *)

(* Mutant: a file operation is called on a directory, or the reverse. *)
Call_any_path(t, o, p, c) ==
  /\ pc[t] = "idle"
  /\ pc' = [pc EXCEPT ![t] = "get_mutex"]
  /\ op' = [op EXCEPT ![t] = o]
  /\ path' = [path EXCEPT ![t] = p]
  /\ content' = [content EXCEPT ![t] = c]
  /\ status' = [status EXCEPT ![t] = Null]
  /\ value' = [value EXCEPT ![t] = Null]
  /\ UNCHANGED <<file_mutexes, owner, f_mutex, disk>>

(* A thread enters BoostFileSystem::o on path p; it has no result yet, and    *)
(* only write_file takes a content.                                           *)
Call(t, o, p, c) ==
  /\ pc[t] = "idle"
  /\ p \in PathsOf(o)
  /\ o # "write_file" => c = content[t]
  /\ pc' = [pc EXCEPT ![t] = "get_mutex"]
  /\ op' = [op EXCEPT ![t] = o]
  /\ path' = [path EXCEPT ![t] = p]
  /\ content' = [content EXCEPT ![t] = c]
  /\ status' = [status EXCEPT ![t] = Null]
  /\ value' = [value EXCEPT ![t] = Null]
  /\ UNCHANGED <<file_mutexes, owner, f_mutex, disk>>

(* Mutant: read_file does not wait for the lock. *)
Lock_not_for_reading(t) ==
  /\ pc[t] = "lock"
  /\ owner[f_mutex[t]] = Null \/ op[t] = "read_file"
  /\ owner' = IF op[t] = "read_file" THEN owner ELSE [owner EXCEPT ![f_mutex[t]] = t]
  /\ pc' = [pc EXCEPT ![t] = "locked"]
  /\ UNCHANGED <<file_mutexes, f_mutex, op, path, content, disk, status, value>>

(* Mutant: wait until no other operation refers to the mutex, not until it is *)
(* free.                                                                     *)
Lock_unshared(t) ==
  /\ pc[t] = "lock"
  /\ \A u \in Thread \ {t} : f_mutex[u] # f_mutex[t]
  /\ owner' = [owner EXCEPT ![f_mutex[t]] = t]
  /\ pc' = [pc EXCEPT ![t] = "locked"]
  /\ UNCHANGED <<file_mutexes, f_mutex, op, path, content, disk, status, value>>

(* The lock_guard or unique_lock on *f_mutex. *)
Lock(t) ==
  /\ pc[t] = "lock"
  /\ owner[f_mutex[t]] = Null
  /\ owner' = [owner EXCEPT ![f_mutex[t]] = t]
  /\ pc' = [pc EXCEPT ![t] = "locked"]
  /\ UNCHANGED <<file_mutexes, f_mutex, op, path, content, disk, status, value>>

(* The return statement's scope exit destroys the lock first ... *)
Unlock(t) ==
  /\ pc[t] = "unlock"
  /\ owner' = [owner EXCEPT ![f_mutex[t]] = Null]
  /\ pc' = [pc EXCEPT ![t] = "release"]
  /\ UNCHANGED <<file_mutexes, f_mutex, op, path, content, disk, status, value>>

(* ... and then the shared_ptr declared before it. *)
Release(t) ==
  /\ pc[t] = "release"
  /\ f_mutex' = [f_mutex EXCEPT ![t] = Null]
  /\ pc' = [pc EXCEPT ![t] = "idle"]
  /\ UNCHANGED <<file_mutexes, owner, op, path, content, disk, status, value>>

(* A step of t's critical section that moves it to pc l with the lock held. *)
Inside(t, o, from, to) ==
  /\ pc[t] = from
  /\ op[t] = o
  /\ pc' = [pc EXCEPT ![t] = to]
  /\ UNCHANGED <<file_mutexes, owner, f_mutex, op, path, content>>

Return(t, s) == status' = [status EXCEPT ![t] = s]

(* BoostFileSystem::exist *)
exist(p) == disk[p] # Null

(* Every directory above p is there, so that p can be created. *)
Reachable(p) == \A d \in Directory : p \in Under[d] => exist(d)

(* p is a file, or a directory with nothing left in it. *)
Empty(p) == p \in Directory => \A q \in Under[p] : ~exist(q)

-----------------------------------------------------------------------------
(* The operations' work on the disk. Where the code tests a stream or       *)
(* catches a filesystem_error, the disk may refuse the access.               *)

(* write_file: the ofstream's constructor empties or creates the file ... *)
write_file_open(t) ==
  /\ Reachable(path[t])
  /\ disk' = [disk EXCEPT ![path[t]] = Truncated]
  /\ Inside(t, "write_file", "locked", "opened")
  /\ UNCHANGED <<status, value>>

(* Mutant: is_open is not tested. *)
write_file_not_tested(t) ==
  /\ Return(t, "success")
  /\ Inside(t, "write_file", "locked", "unlock")
  /\ UNCHANGED <<disk, value>>

(* ... or fails, ... *)
write_file_not_opened(t) ==
  /\ Return(t, "not_found")
  /\ Inside(t, "write_file", "locked", "unlock")
  /\ UNCHANGED <<disk, value>>

(* ... and close() puts the content in it, unless it was unlinked meanwhile *)
(* by a delete_directory above it.                                          *)
write_file_close(t) ==
  /\ disk' = IF exist(path[t]) THEN [disk EXCEPT ![path[t]] = content[t]] ELSE disk
  /\ Return(t, "success")
  /\ Inside(t, "write_file", "opened", "unlock")
  /\ UNCHANGED value

(* read_file, delete_file and delete_directory: "if (!exist(path))". *)
not_exist(t, o) ==
  /\ ~exist(path[t])
  /\ Return(t, "not_found")
  /\ Inside(t, o, "locked", "unlock")
  /\ UNCHANGED <<disk, value>>

exist_checked(t, o) ==
  /\ exist(path[t])
  /\ Inside(t, o, "locked", "checked")
  /\ UNCHANGED <<disk, status, value>>

(* read_file: the ifstream opens and the whole file is read, or it does not. *)
read_file(t) ==
  \/ not_exist(t, "read_file")
  \/ exist_checked(t, "read_file")
  \/ /\ exist(path[t])
     /\ value' = [value EXCEPT ![t] = disk[path[t]]]
     /\ Return(t, "success")
     /\ Inside(t, "read_file", "checked", "unlock")
     /\ UNCHANGED disk
  \/ /\ Return(t, "error")
     /\ Inside(t, "read_file", "checked", "unlock")
     /\ UNCHANGED <<disk, value>>

(* delete_file: remove() is content with a file that is already gone. *)
delete_file(t) ==
  \/ not_exist(t, "delete_file")
  \/ exist_checked(t, "delete_file")
  \/ /\ disk' = [disk EXCEPT ![path[t]] = Null]
     /\ Return(t, "success")
     /\ Inside(t, "delete_file", "checked", "unlock")
     /\ UNCHANGED value
  \/ /\ Return(t, "error")
     /\ Inside(t, "delete_file", "checked", "unlock")
     /\ UNCHANGED <<disk, value>>

(* create_directory: the one operation whose check wants the path absent. *)
create_directory(t) ==
  \/ /\ exist(path[t])
     /\ Return(t, "conflict")
     /\ Inside(t, "create_directory", "locked", "unlock")
     /\ UNCHANGED <<disk, value>>
  \/ /\ ~exist(path[t])
     /\ Inside(t, "create_directory", "locked", "checked")
     /\ UNCHANGED <<disk, status, value>>
  \/ /\ Reachable(path[t])
     /\ disk' = [disk EXCEPT ![path[t]] = Dir]
     /\ Return(t, "success")
     /\ Inside(t, "create_directory", "checked", "unlock")
     /\ UNCHANGED value
  \/ /\ Return(t, "error")
     /\ Inside(t, "create_directory", "checked", "unlock")
     /\ UNCHANGED <<disk, value>>

(* remove_all takes away the entries below the directory one at a time, from *)
(* the bottom up, and locks none of their mutexes ...                        *)
remove_all_entry(t, q) ==
  /\ q \in Under[path[t]] /\ exist(q) /\ Empty(q)
  /\ disk' = [disk EXCEPT ![q] = Null]
  /\ Inside(t, "delete_directory", "checked", "checked")
  /\ UNCHANGED <<status, value>>

(* ... then the directory itself. *)
delete_directory(t) ==
  \/ not_exist(t, "delete_directory")
  \/ exist_checked(t, "delete_directory")
  \/ \E q \in Path : path[t] \in Directory /\ remove_all_entry(t, q)
  \/ /\ Empty(path[t])
     /\ disk' = [disk EXCEPT ![path[t]] = Null]
     /\ Return(t, "success")
     /\ Inside(t, "delete_directory", "checked", "unlock")
     /\ UNCHANGED value
  \/ /\ Return(t, "error")
     /\ Inside(t, "delete_directory", "checked", "unlock")
     /\ UNCHANGED <<disk, value>>

-----------------------------------------------------------------------------
(* The server starts with any tree on its disk and an empty mutex table. *)
Init ==
  /\ file_mutexes = [p \in Path |-> Null]
  /\ owner = [m \in Mutex |-> Null]
  /\ f_mutex = [t \in Thread |-> Null]
  /\ pc = [t \in Thread |-> "idle"]
  /\ op = [t \in Thread |-> "read_file"]
  /\ path \in {[t \in Thread |-> f] : f \in File}
  /\ content \in {[t \in Thread |-> c] : c \in Content}
  /\ disk \in [Path -> Content \cup {Null, Dir}]
  /\ \A f \in File : disk[f] # Dir
  /\ \A d \in Directory : disk[d] \in {Null, Dir}
  /\ \A p \in Path : exist(p) => Reachable(p)
  /\ status = [t \in Thread |-> Null]
  /\ value = [t \in Thread |-> Null]

Work(t) ==
  \/ get_mutex(t) \/ Lock(t) \/ Unlock(t) \/ Release(t)
  \/ write_file_open(t) \/ write_file_not_opened(t) \/ write_file_close(t)
  \/ read_file(t) \/ delete_file(t) \/ create_directory(t) \/ delete_directory(t)

Next ==
  \/ \E t \in Thread, o \in Operation, p \in Path, c \in Content : Call(t, o, p, c)
  \/ \E t \in Thread : Work(t)
  \/ cleanup_mutexes

Spec == Init /\ [][Next]_vars

(* The operating system runs every thread; a mutex promises its waiters      *)
(* nothing more than that.                                                   *)
FairSpec == Spec /\ \A t \in Thread : WF_vars(Work(t))

-----------------------------------------------------------------------------
(* Between locking its path's mutex and unlocking it. *)
Critical == {"locked", "checked", "opened", "unlock"}

(* file_system.h, "manages mutex for each file instance": two threads are     *)
(* never inside operations on the same path, although the mutex of a path     *)
(* is dropped from the table and another created for it while calls arrive.   *)
PathExclusion ==
  \A t, u \in Thread :
    /\ pc[t] \in Critical
    /\ pc[u] \in Critical
    /\ path[t] = path[u]
    => t = u

(* read_file never returns the emptied file that a concurrent write_file has  *)
(* opened and not closed yet.                                                 *)
NoTornRead == \A t \in Thread : value[t] # Truncated

(* What makes PathExclusion inductive. A thread past get_mutex holds the      *)
(* object that the table holds for its path: cleanup_mutexes takes no entry   *)
(* away from under it.                                                        *)
TableKeepsMutexes ==
  \A t \in Thread :
    IF pc[t] \in {"idle", "get_mutex"} THEN f_mutex[t] = Null
    ELSE f_mutex[t] # Null /\ f_mutex[t] = file_mutexes[path[t]]

(* No mutex object serves two paths. *)
OnePathPerMutex ==
  \A p, q \in Path : file_mutexes[p] = file_mutexes[q] /\ file_mutexes[p] # Null => p = q

(* A mutex is owned by the thread inside its critical section, and by no      *)
(* other: the objects that make_shared hands out again are unlocked.          *)
OwnersAreInside ==
  /\ \A t \in Thread : pc[t] \in Critical => owner[f_mutex[t]] = t
  /\ \A m \in Mutex : owner[m] # Null =>
       pc[owner[m]] \in Critical /\ f_mutex[owner[m]] = m

(* What makes NoTornRead inductive: a file is torn only while its writer is   *)
(* inside; and the checks an operation made still hold when it acts on them.  *)
TornOnlyByWriter ==
  /\ \A p \in Path : disk[p] = Truncated => \E t \in Thread : pc[t] = "opened" /\ path[t] = p
  /\ \A t \in Thread : pc[t] = "opened" =>
       op[t] = "write_file" /\ disk[path[t]] \in {Truncated, Null}
  /\ \A t \in Thread : pc[t] = "checked" =>
       op[t] # "write_file" /\ (op[t] = "create_directory" => ~exist(path[t]))

IInv ==
  /\ TypeOK
  /\ TableKeepsMutexes
  /\ OnePathPerMutex
  /\ OwnersAreInside
  /\ TornOnlyByWriter
  /\ NoTornRead

(* Threads that wait for mutexes do not all wait forever: whenever one waits, *)
(* some operation comes to its end.                                           *)
Progress == \A t \in Thread : pc[t] = "lock" ~> \E u \in Thread : pc[u] = "release"

-----------------------------------------------------------------------------
(* FileSystem implements AtomicFiles. A write takes effect when it opens its  *)
(* file: from there on the abstract disk holds the new content and the        *)
(* operation is done. Every other operation takes effect when it moves to     *)
(* "unlock".                                                                  *)
Writer(p) == CHOOSE t \in Thread : pc[t] = "opened" /\ path[t] = p

diskBar == [p \in Path |-> IF disk[p] = Truncated THEN content[Writer(p)] ELSE disk[p]]

pcBar ==
  [t \in Thread |->
     IF pc[t] = "idle" THEN "idle"
     ELSE IF pc[t] \in {"get_mutex", "lock", "locked", "checked"} THEN "called"
     ELSE "done"]

statusBar == [t \in Thread |-> IF pc[t] = "opened" THEN "success" ELSE status[t]]

Abstract == INSTANCE AtomicFiles WITH pc <- pcBar, disk <- diskBar, status <- statusBar

(* Every behaviour of the locked operations is one of operations that take    *)
(* effect at once: the locks and the check-then-act sequences inside them     *)
(* are invisible to the callers.                                              *)
Atomicity == Abstract!Spec
=============================================================================
