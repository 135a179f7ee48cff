---------------------------- MODULE MemeFactory ----------------------------
(***************************************************************************)
(* MemeHandlerFactory::create, which every request for memes runs on its   *)
(* worker thread without a lock (src/src/factory/meme_handler_factory.cc), *)
(* and what the modules it constructs do to the disk they share:           *)
(* MemeModule::create and the file layer (src/src/meme_module.cc,          *)
(* src/src/boost_file_system.cc).                                          *)
(*                                                                         *)
(* All locations here have the same root.  Each has a factory of its own,  *)
(* with its own table.  MemeStore has the rest of MemeModule, for one      *)
(* module.  A module, and a file system with its table of mutexes, is      *)
(* named by the number of the request that made it.                        *)
(***************************************************************************)
EXTENDS FiniteSets, Integers

CONSTANTS
  Thread,      \* the worker threads of the server
  Location,    \* the locations that are configured with this root
  Body,        \* the memes that are posted
  Id,          \* the ids that occur: 1..n
  MaxRequests, \* bound: requests the server receives
  Null,        \* no file
  Torn         \* a file that write_file has opened and not closed yet

ASSUME FactoryAssumption ==
  /\ MaxRequests \in Nat /\ IsFiniteSet(Id) /\ Id = 1..Cardinality(Id)
  /\ Cardinality(Id) >= MaxRequests
  /\ Null \notin Body /\ Torn \notin Body /\ Null # Torn

VARIABLES
  requests,       \* how many requests have arrived
  fs_,            \* of each factory: the file system it fetched last
  meme_modules_,  \* of each factory: the module in its table, 0 if there is none
  module_fs,      \* of each module: its file system, 0 if there is no such module
  id_count_,      \* of each module
  dirs, content,  \* the disk
  pc,             \* a worker's position,
  number,         \*   the number of its request,
  at, body,       \*   its location and its body, Null if it is not a POST,
  listed,         \*   the directories there were when its constructor began,
  module, id,     \*   its handler's module and the id of its meme
  given,          \* history: the ids that modules gave to requests
  stored,         \* history: the POSTs that were answered with 201
  settled         \* history: how many requests had arrived when a table was first filled

factory == <<fs_, meme_modules_>>
modules == <<module_fs, id_count_>>
disk == <<dirs, content>>
input == <<number, at, body>>
thread == <<pc, input, listed, module, id>>
history == <<given, stored, settled>>
vars == <<requests, factory, modules, disk, thread, history>>

Number == 0..MaxRequests

PC == {"idle", "find", "construct", "load", "assign", "lookup", "generate",
       "exist", "create_directory", "open", "close"}

Gift == [module : Number, id : Id, number : Number]
Stored == [id : Id, body : Body, number : Number, arrived : Number, module : Number]

TypeOK ==
  /\ requests \in Number
  /\ fs_ \in [Location -> Number] /\ meme_modules_ \in [Location -> Number]
  /\ module_fs \in [Number -> Number] /\ id_count_ \in [Number -> Id \cup {0}]
  /\ dirs \subseteq Id /\ content \in [Id -> Body \cup {Null, Torn}]
  /\ \A i \in Id : content[i] # Null => i \in dirs
  /\ pc \in [Thread -> PC]
  /\ number \in [Thread -> Number] /\ at \in [Thread -> Location]
  /\ body \in [Thread -> Body \cup {Null}]
  /\ listed \in [Thread -> SUBSET Id] /\ module \in [Thread -> Number]
  /\ id \in [Thread -> Id \cup {0}]
  /\ given \subseteq Gift
  /\ stored \subseteq Stored
  /\ settled \in [Location -> Number]

Goto(t, p, q) == pc[t] = p /\ pc' = [pc EXCEPT ![t] = q]

(* A worker is inside an operation on the path of i, and holds the mutex that *)
(* its module's file system has for that path.                                *)
Holds(t, p, f, i) == pc[t] = p /\ module_fs[module[t]] = f /\ id[t] = i

Free(t, p) == \A u \in Thread : ~Holds(u, p, module_fs[module[t]], id[t])

-----------------------------------------------------------------------------
(* MemeHandlerFactory::create. *)

(* A request arrives, and create fetches a file system: get_file_system of a  *)
(* local BoostFileSystem makes a new one each time.                           *)
create(t, l, b) ==
  /\ Goto(t, "idle", "find")
  /\ requests < MaxRequests
  /\ requests' = requests + 1
  /\ fs_' = [fs_ EXCEPT ![l] = requests']
  /\ number' = [number EXCEPT ![t] = requests']
  /\ at' = [at EXCEPT ![t] = l] /\ body' = [body EXCEPT ![t] = b]
  /\ UNCHANGED <<meme_modules_, modules, disk, listed, module, id, history>>

(* Mutant: the table is not looked at. *)
find_module_not_asked(t) ==
  /\ Goto(t, "find", "construct")
  /\ UNCHANGED <<requests, factory, modules, disk, input, listed, module, id, history>>

(* if (meme_modules_.find(root) == meme_modules_.end()) *)
find_module(t) ==
  /\ \/ meme_modules_[at[t]] = 0 /\ Goto(t, "find", "construct")
     \/ meme_modules_[at[t]] # 0 /\ Goto(t, "find", "lookup")
  /\ UNCHANGED <<requests, factory, modules, disk, input, listed, module, id, history>>

(* make_shared<MemeModule>(root, fs_), with whichever file system fs_ refers  *)
(* to by now, ...                                                             *)
construct_module(t) ==
  /\ Goto(t, "construct", "load")
  /\ module_fs' = [module_fs EXCEPT ![number[t]] = fs_[at[t]]]
  /\ listed' = [listed EXCEPT ![t] = dirs]
  /\ UNCHANGED <<requests, factory, id_count_, disk, input, module, id, history>>

Largest(S) == IF S = {} THEN 0 ELSE CHOOSE i \in S : \A j \in S : j <= i

(* ... whose constructor lists the directories: one that is made meanwhile    *)
(* may be listed or not.                                                      *)
load_ids(t) ==
  /\ Goto(t, "load", "assign")
  /\ \E D \in SUBSET dirs :
       listed[t] \subseteq D /\ id_count_' = [id_count_ EXCEPT ![number[t]] = Largest(D)]
  /\ listed' = [listed EXCEPT ![t] = {}]
  /\ UNCHANGED <<requests, factory, module_fs, disk, input, module, id, history>>

(* meme_modules_[root] = ... *)
assign_module(t) ==
  LET l == at[t] IN
  /\ Goto(t, "assign", "lookup")
  /\ settled' = [settled EXCEPT ![l] = IF meme_modules_[l] = 0 THEN requests ELSE @]
  /\ meme_modules_' = [meme_modules_ EXCEPT ![l] = number[t]]
  /\ UNCHANGED <<requests, fs_, modules, disk, input, listed, module, id, given, stored>>

(* new MemeHandler(location, root, meme_modules_[root]): the table is asked   *)
(* again.  A request that is not a POST is of no interest from here on.       *)
lookup_module(t) ==
  /\ module' = [module EXCEPT ![t] = IF body[t] = Null THEN 0 ELSE meme_modules_[at[t]]]
  /\ Goto(t, "lookup", IF body[t] = Null THEN "idle" ELSE "generate")
  /\ UNCHANGED <<requests, factory, modules, disk, input, listed, id, history>>

-----------------------------------------------------------------------------
(* MemeModule::create. *)

(* Mutant: the counter is read before it is locked: another worker of the     *)
(* module may have counted since, which is as if this one did not.            *)
generate_id_unlocked(t) ==
  LET m == module[t] IN
  /\ Goto(t, "generate", "exist")
  /\ id' = [id EXCEPT ![t] = id_count_[m] + 1]
  /\ \/ id_count_' = [id_count_ EXCEPT ![m] = @ + 1]
     \/ /\ \E u \in Thread \ {t} : pc[u] = "generate" /\ module[u] = m
        /\ UNCHANGED id_count_
  /\ given' = given \cup {[module |-> m, id |-> id'[t], number |-> number[t]]}
  /\ UNCHANGED <<requests, factory, module_fs, disk, input, listed, module, stored, settled>>

(* generate_id, under the module's id_mutex_. *)
generate_id(t) ==
  LET m == module[t] IN
  /\ Goto(t, "generate", "exist")
  /\ id_count_' = [id_count_ EXCEPT ![m] = @ + 1]
  /\ id' = [id EXCEPT ![t] = id_count_'[m]]
  /\ given' = given \cup {[module |-> m, id |-> id'[t], number |-> number[t]]}
  /\ UNCHANGED <<requests, factory, module_fs, disk, input, listed, module, stored, settled>>

Finish(t) == module' = [module EXCEPT ![t] = 0] /\ id' = [id EXCEPT ![t] = 0]

(* Mutant: the directory is not looked for. *)
exist_not_asked(t) ==
  /\ Free(t, "create_directory")
  /\ Goto(t, "exist", "create_directory") /\ UNCHANGED <<module, id>>
  /\ UNCHANGED <<requests, factory, modules, disk, input, listed, history>>

(* create_directory, under the mutex of the path in this module's file        *)
(* system: a directory that exists is a conflict, and the POST fails.         *)
exist(t) ==
  /\ Free(t, "create_directory")
  /\ \/ /\ id[t] \notin dirs
        /\ Goto(t, "exist", "create_directory") /\ UNCHANGED <<module, id>>
     \/ id[t] \in dirs /\ Goto(t, "exist", "idle") /\ Finish(t)
  /\ UNCHANGED <<requests, factory, modules, disk, input, listed, history>>

(* boost::filesystem::create_directory does not complain of a directory that  *)
(* was made since.                                                            *)
create_directory(t) ==
  /\ Goto(t, "create_directory", "open")
  /\ dirs' = dirs \cup {id[t]}
  /\ UNCHANGED <<requests, factory, modules, content, input, listed, module, id, history>>

create_directory_fails(t) ==
  /\ Goto(t, "create_directory", "idle") /\ Finish(t)
  /\ UNCHANGED <<requests, factory, modules, disk, input, listed, history>>

(* write_file, under the mutex of the content file in this module's file      *)
(* system.                                                                    *)
write_open(t) ==
  /\ Free(t, "close")
  /\ \/ /\ Goto(t, "open", "close")
        /\ content' = [content EXCEPT ![id[t]] = Torn]
        /\ UNCHANGED <<module, id>>
     \/ Goto(t, "open", "idle") /\ Finish(t) /\ UNCHANGED content
  /\ UNCHANGED <<requests, factory, modules, dirs, input, listed, history>>

(* The file is closed and the POST is answered with 201. *)
write_close(t) ==
  /\ Goto(t, "close", "idle") /\ Finish(t)
  /\ content' = [content EXCEPT ![id[t]] = body[t]]
  /\ stored' = stored \cup {[id |-> id[t], body |-> body[t], number |-> number[t],
                             arrived |-> requests, module |-> module[t]]}
  /\ UNCHANGED <<requests, factory, modules, dirs, input, listed, given, settled>>

-----------------------------------------------------------------------------
Init ==
  /\ requests = 0
  /\ fs_ = [l \in Location |-> 0] /\ meme_modules_ = [l \in Location |-> 0]
  /\ module_fs = [m \in Number |-> 0] /\ id_count_ = [m \in Number |-> 0]
  /\ dirs = {} /\ content = [i \in Id |-> Null]
  /\ pc = [t \in Thread |-> "idle"] /\ number = [t \in Thread |-> 0]
  /\ at \in {[t \in Thread |-> l] : l \in Location} /\ body = [t \in Thread |-> Null]
  /\ listed = [t \in Thread |-> {}]
  /\ module = [t \in Thread |-> 0] /\ id = [t \in Thread |-> 0]
  /\ given = {} /\ stored = {} /\ settled = [l \in Location |-> 0]

Work(t) ==
  \/ find_module(t) \/ construct_module(t) \/ load_ids(t) \/ assign_module(t) \/ lookup_module(t)
  \/ generate_id(t) \/ exist(t) \/ create_directory(t) \/ create_directory_fails(t)
  \/ write_open(t) \/ write_close(t)

Next ==
  \E t \in Thread :
    \/ \E l \in Location, b \in Body \cup {Null} : create(t, l, b)
    \/ Work(t)

Spec == Init /\ [][Next]_vars

-----------------------------------------------------------------------------
(* The race of create is over once a location has a module: a later request   *)
(* constructs none, and every module in use was made by a request that had    *)
(* arrived when the table was filled for the first time.                      *)
RaceIsAtTheStart ==
  \A l \in Location : meme_modules_[l] # 0 =>
    /\ meme_modules_[l] <= settled[l]
    /\ \A t \in Thread :
         at[t] = l /\ pc[t] \in {"construct", "load", "assign"} => number[t] <= settled[l]

(* An id is given twice only by two modules: what generate_id of one module   *)
(* gives, under its mutex, is unique, however its workers interleave.         *)
OneModuleOneId ==
  \A g, h \in given : g.module = h.module /\ g.id = h.id => g.number = h.number

(* Two modules on one root do not lose what was stored before: a meme whose   *)
(* POST was answered is overwritten only by a request that had arrived by     *)
(* then and serves it through another module.  It is the check for the        *)
(* directory that protects it from all later ones.                            *)
StoredIsKeptFromLater ==
  \A s \in stored :
    \/ content[s.id] = s.body
    \/ \E g \in given :
         /\ g.id = s.id /\ g.number # s.number
         /\ g.number <= s.arrived /\ g.module # s.module

-----------------------------------------------------------------------------
(* What makes those invariants inductive. *)

Creating == {"find", "construct", "load", "assign", "lookup"}
Posting == {"exist", "create_directory", "open", "close"}
Used == {g.number : g \in given}

(* Numbers are given in order, and no two workers serve the same request. *)
OneWorkerPerRequest ==
  /\ \A t \in Thread : pc[t] # "idle" => number[t] \in 1..requests
  /\ \A t, u \in Thread : pc[t] # "idle" /\ pc[u] # "idle" /\ t # u => number[t] # number[u]
  /\ \A t \in Thread : pc[t] \in Creating \cup {"generate"} => number[t] \notin Used
  /\ \A t \in Thread, s \in stored : pc[t] # "idle" => number[t] # s.number
  /\ Used \subseteq 1..requests
  /\ \A s \in stored : s.number \in Used

(* A table, once filled, is not emptied: no handler is made without a module. *)
TableIsFilled ==
  /\ \A t \in Thread : pc[t] = "lookup" => meme_modules_[at[t]] # 0
  /\ \A t \in Thread : pc[t] \in Posting \cup {"generate"} => module[t] # 0
  /\ \A l \in Location : settled[l] <= requests

(* Only a POST gets as far as an id. *)
PostsHaveBodies == \A t \in Thread : pc[t] \in Posting \cup {"generate"} => body[t] \in Body

(* Nobody uses a module before its constructor has counted its ids. *)
InUse(m) ==
  \/ \E l \in Location : meme_modules_[l] = m
  \/ \E t \in Thread : module[t] = m
  \/ \E g \in given : g.module = m
ConstructedBeforeUse ==
  /\ \A t \in Thread : pc[t] \in {"find", "construct", "load", "assign"} => ~InUse(number[t])
  /\ \A m \in Number : InUse(m) => m <= requests

(* The ids that modules have given are those they have counted, at most one   *)
(* for each request.                                                          *)
IdsAreCounted ==
  /\ \A g \in given : g.id <= id_count_[g.module]
  /\ \A m \in Number : id_count_[m] <= Cardinality(Used)
  /\ \A i \in dirs : i <= Cardinality(Used)

(* A worker past exist() has an id of its own module, and one past            *)
(* create_directory() its directory.                                          *)
IdsAreGiven ==
  /\ \A t \in Thread : pc[t] \in Posting =>
       [module |-> module[t], id |-> id[t], number |-> number[t]] \in given
  /\ \A t \in Thread : pc[t] \in {"open", "close"} => id[t] \in dirs
  /\ \A s \in stored : s.id \in dirs /\ [module |-> s.module, id |-> s.id, number |-> s.number] \in given

(* A worker that found no directory had arrived before the meme was stored. *)
LateComersConflict ==
  \A t \in Thread, s \in stored :
    pc[t] \in Posting \ {"exist"} /\ id[t] = s.id => number[t] <= s.arrived

FactoryInv ==
  /\ TypeOK
  /\ OneWorkerPerRequest
  /\ TableIsFilled
  /\ PostsHaveBodies
  /\ ConstructedBeforeUse
  /\ IdsAreCounted
  /\ IdsAreGiven
  /\ LateComersConflict
  /\ RaceIsAtTheStart
  /\ OneModuleOneId
  /\ StoredIsKeptFromLater

-----------------------------------------------------------------------------
(* What a comment says and the code does not do. *)

(* "get an unique id": no two POSTs are answered with the same id. *)
IdsAreUnique == \A r, s \in stored : r.id = s.id => r.number = s.number
=============================================================================
