---------------------------- MODULE AtomicFiles ----------------------------
(***************************************************************************)
(* What the file layer promises its callers: the five operations of the    *)
(* FileSystem interface (src/include/file_system.h), each taking effect    *)
(* in one step between its call and its return.  A write replaces the      *)
(* whole content of a file at once; of two create_directory calls for one  *)
(* path, only one succeeds unless the directory is removed in between.     *)
(* Only delete_directory is not atomic: it takes the entries below its      *)
(* directory away one by one, and then the directory.                      *)
(*                                                                         *)
(* The operating system may refuse an access, so every operation may also  *)
(* fail without an effect.                                                 *)
(***************************************************************************)
CONSTANTS Thread, File, Directory, Under, Content, Null

Path == File \cup Directory
Dir == "dir"

VARIABLES pc, op, path, content, disk, status, value

vars == <<pc, op, path, content, disk, status, value>>

Operation == {"write_file", "read_file", "delete_file",
              "create_directory", "delete_directory"}
PathsOf(o) ==
  IF o \in {"write_file", "read_file", "delete_file"} THEN File ELSE Directory

exist(p) == disk[p] # Null
Reachable(p) == \A d \in Directory : p \in Under[d] => exist(d)
Empty(p) == p \in Directory => \A q \in Under[p] : ~exist(q)

Init ==
  /\ pc = [t \in Thread |-> "idle"]
  /\ op = [t \in Thread |-> "read_file"]
  /\ path \in [Thread -> File]
  /\ content \in [Thread -> Content]
  /\ disk \in [Path -> Content \cup {Null, Dir}]
  /\ \A f \in File : disk[f] # Dir
  /\ \A d \in Directory : disk[d] \in {Null, Dir}
  /\ \A p \in Path : exist(p) => Reachable(p)
  /\ status = [t \in Thread |-> Null]
  /\ value = [t \in Thread |-> Null]

Call(t, o, p, c) ==
  /\ pc[t] = "idle"
  /\ p \in PathsOf(o)
  /\ o # "write_file" => c = content[t]
  /\ pc' = [pc EXCEPT ![t] = "called"]
  /\ op' = [op EXCEPT ![t] = o]
  /\ path' = [path EXCEPT ![t] = p]
  /\ content' = [content EXCEPT ![t] = c]
  /\ status' = [status EXCEPT ![t] = Null]
  /\ value' = [value EXCEPT ![t] = Null]
  /\ UNCHANGED disk

Return(t) ==
  /\ pc[t] = "done"
  /\ pc' = [pc EXCEPT ![t] = "idle"]
  /\ UNCHANGED <<op, path, content, disk, status, value>>

(* The step in which t's operation takes effect with status s. *)
Effect(t, s) ==
  /\ pc[t] = "called"
  /\ pc' = [pc EXCEPT ![t] = "done"]
  /\ status' = [status EXCEPT ![t] = s]
  /\ UNCHANGED <<op, path, content>>

Write(t) ==
  /\ op[t] = "write_file"
  /\ Reachable(path[t])
  /\ disk' = [disk EXCEPT ![path[t]] = content[t]]
  /\ Effect(t, "success")
  /\ UNCHANGED value

Read(t) ==
  /\ op[t] = "read_file"
  /\ exist(path[t])
  /\ value' = [value EXCEPT ![t] = disk[path[t]]]
  /\ Effect(t, "success")
  /\ UNCHANGED disk

Create(t) ==
  /\ op[t] = "create_directory"
  /\ ~exist(path[t])
  /\ Reachable(path[t])
  /\ disk' = [disk EXCEPT ![path[t]] = Dir]
  /\ Effect(t, "success")
  /\ UNCHANGED value

Delete(t) ==
  /\ op[t] \in {"delete_file", "delete_directory"}
  /\ Empty(path[t])
  /\ disk' = [disk EXCEPT ![path[t]] = Null]
  /\ Effect(t, "success")
  /\ UNCHANGED value

RemoveBelow(t, q) ==
  /\ pc[t] = "called"
  /\ op[t] = "delete_directory"
  /\ q \in Under[path[t]] /\ exist(q) /\ Empty(q)
  /\ disk' = [disk EXCEPT ![q] = Null]
  /\ UNCHANGED <<pc, op, path, content, status, value>>

(* "conflict" says that the path was there, "not_found" that it was not      *)
(* (of write_file: that it could not be opened), "error" that the operating  *)
(* system refused.                                                           *)
Refuse(t) ==
  /\ \/ op[t] = "write_file" /\ Effect(t, "not_found")
     \/ op[t] = "create_directory" /\ exist(path[t]) /\ Effect(t, "conflict")
     \/ /\ op[t] \in {"read_file", "delete_file", "delete_directory"}
        /\ ~exist(path[t])
        /\ Effect(t, "not_found")
     \/ op[t] # "write_file" /\ Effect(t, "error")
  /\ UNCHANGED <<disk, value>>

Next ==
  \/ \E t \in Thread, o \in Operation, p \in Path, c \in Content : Call(t, o, p, c)
  \/ \E t \in Thread :
       \/ Write(t) \/ Read(t) \/ Create(t) \/ Delete(t) \/ Refuse(t) \/ Return(t)
       \/ \E q \in Path : RemoveBelow(t, q)

Spec == Init /\ [][Next]_vars
=============================================================================
