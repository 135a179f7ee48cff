-------------------------- MODULE MemeFactoryProofs -------------------------
(***************************************************************************)
(* Proofs about MemeFactory, for any number of worker threads, locations   *)
(* and requests: the race of MemeHandlerFactory::create is over once a     *)
(* location has a module, a module does not give an id twice, and what was *)
(* stored is kept from all later requests.  Everything rests on the        *)
(* inductive invariant FactoryInv of MemeFactory.                          *)
(***************************************************************************)
EXTENDS MemeFactory, NumberLemmas

(* What get_all_ids finds last: a listed id that none exceeds, or 0. *)
LEMMA LargestIsIn ==
  ASSUME NEW D \in SUBSET Nat, NEW n \in Nat, \A i \in D : i <= n
  PROVE  Largest(D) \in D \cup {0} /\ \A i \in D : i <= Largest(D)
<1>1. CASE D = {}
  BY <1>1 DEF Largest
<1>2. CASE D # {}
  <2>1. \E i \in D : \A j \in D : j <= i
    BY <1>2, GreatestNumber
  <2>2. QED
    BY <1>2, <2>1 DEF Largest
<1>3. QED
  BY <1>1, <1>2

(* The variables of the other workers, and the types of all. *)
Others(t) ==
  \A u \in Thread \ {t} :
    /\ pc'[u] = pc[u] /\ number'[u] = number[u] /\ at'[u] = at[u]
    /\ module'[u] = module[u] /\ id'[u] = id[u] /\ body'[u] = body[u]

(* The bounds leave an id for every request. *)
LEMMA Bounds ==
  /\ MaxRequests \in Nat /\ Number = 0..MaxRequests
  /\ 0 \in Number /\ Id \subseteq Nat \ {0} /\ \A n \in 1..MaxRequests : n \in Id
<1>1. /\ MaxRequests \in Nat /\ IsFiniteSet(Id) /\ Id = 1..Cardinality(Id)
      /\ Cardinality(Id) >= MaxRequests
  BY FactoryAssumption
<1>2. Cardinality(Id) \in Nat
  BY <1>1, FS_CardinalityType
<1>3. QED
  BY <1>1, <1>2 DEF Number

(* The types, one by one. *)
LEMMA Types ==
  ASSUME FactoryInv
  PROVE  /\ requests \in Number /\ requests \in Nat
         /\ pc \in [Thread -> PC] /\ number \in [Thread -> Number]
         /\ at \in [Thread -> Location] /\ module \in [Thread -> Number]
         /\ body \in [Thread -> Body \cup {Null}] /\ id \in [Thread -> Id \cup {0}]
         /\ meme_modules_ \in [Location -> Number] /\ settled \in [Location -> Number]
         /\ id_count_ \in [Number -> Id \cup {0}]
         /\ dirs \subseteq Id /\ content \in [Id -> Body \cup {Null, Torn}]
         /\ given \subseteq Gift /\ stored \subseteq Stored
<1>1. TypeOK
  BY DEF FactoryInv
<1>2. requests \in Nat
  BY <1>1, Bounds DEF TypeOK
<1>3. QED
  BY <1>1, <1>2 DEF TypeOK

(* What has been counted: at most one id for each request that took one. *)
LEMMA UsedNumbers ==
  ASSUME FactoryInv
  PROVE  Used \in SUBSET (1..requests) /\ Cardinality(Used) \in Nat
<1>1. Used \in SUBSET (1..requests) /\ requests \in Nat
  BY Types DEF FactoryInv, OneWorkerPerRequest
<1>2. IsFiniteSet(1..requests)
  BY <1>1, FS_Interval
<1>3. IsFiniteSet(Used)
  BY <1>1, <1>2, FS_Subset
<1>4. QED
  BY <1>1, <1>3, FS_CardinalityType

(* A module's counter is a number. *)
LEMMA Counter ==
  ASSUME FactoryInv, NEW m \in Number
  PROVE  id_count_[m] \in Nat /\ id_count_[m] <= Cardinality(Used)
<1>1. id_count_[m] \in Id \cup {0}
  BY Types
<1>2. \A i \in Id : i \in Nat
  BY Bounds
<1>3. id_count_[m] \in Nat
  BY <1>1, <1>2
<1>4. QED
  BY <1>3 DEF FactoryInv, IdsAreCounted

(* A worker that has an id got it from its module. *)
LEMMA PostersId ==
  ASSUME FactoryInv, NEW t \in Thread, pc[t] \in Posting
  PROVE  id[t] \in Id /\ id[t] <= Cardinality(Used) /\ number[t] \in Used
<1> DEFINE g == [module |-> module[t], id |-> id[t], number |-> number[t]]
<1>1. g \in given /\ g \in Gift
  BY Types DEF FactoryInv, IdsAreGiven
<1>2. g.id = id[t] /\ g.module = module[t] /\ g.number = number[t] /\ module[t] \in Number
  BY Types
<1> HIDE DEF g
<1>3. id[t] \in Id /\ number[t] \in Used
  BY <1>1, <1>2 DEF Gift, Used
<1>4. id[t] <= id_count_[module[t]]
  BY <1>1, <1>2 DEF FactoryInv, IdsAreCounted
<1>5. id_count_[module[t]] \in Nat /\ id_count_[module[t]] <= Cardinality(Used)
  BY <1>2, Counter
<1>6. id[t] \in Nat /\ Cardinality(Used) \in Nat
  BY <1>3, Bounds, UsedNumbers
<1>7. QED
  BY <1>3, <1>4, <1>5, <1>6

(* A constructor counts no further than there are requests with an id. *)
LEMMA LoadedIds ==
  ASSUME FactoryInv, NEW D \in SUBSET dirs
  PROVE  Largest(D) \in Id \cup {0} /\ Largest(D) <= Cardinality(Used)
<1>1. D \in SUBSET Nat /\ D \subseteq Id
  BY Types, Bounds
<1>2. Cardinality(Used) \in Nat /\ \A i \in D : i <= Cardinality(Used)
  BY UsedNumbers DEF FactoryInv, IdsAreCounted
<1>3. Largest(D) \in D \cup {0}
  BY <1>1, <1>2, LargestIsIn
<1>4. CASE Largest(D) = 0
  BY <1>2, <1>4
<1>5. CASE Largest(D) \in D
  BY <1>1, <1>2, <1>5
<1>6. QED
  BY <1>3, <1>4, <1>5

(* generate_id has an id for each request that asks. *)
LEMMA NextId ==
  ASSUME FactoryInv, NEW t \in Thread, pc[t] = "generate"
  PROVE  /\ id_count_[module[t]] + 1 \in Id
         /\ Cardinality(Used) \in Nat
         /\ Cardinality(Used \cup {number[t]}) = Cardinality(Used) + 1
<1>1. /\ Used \in SUBSET (1..requests) /\ requests \in Nat
      /\ number[t] \in 1..requests /\ number[t] \notin Used
  BY Types, UsedNumbers DEF FactoryInv, OneWorkerPerRequest
<1>2. /\ Cardinality(Used) \in Nat
      /\ Cardinality(Used \cup {number[t]}) = Cardinality(Used) + 1
      /\ Cardinality(Used \cup {number[t]}) <= requests
  BY <1>1, AddNumber
<1>3. module[t] \in Number /\ requests \in Number
  BY Types
<1>4. id_count_[module[t]] \in Nat /\ id_count_[module[t]] <= Cardinality(Used)
  BY <1>3, Counter
<1>5. requests <= MaxRequests /\ MaxRequests \in Nat
  BY <1>3, Bounds
<1>6. id_count_[module[t]] + 1 \in 1..MaxRequests
  BY <1>1, <1>2, <1>4, <1>5
<1>7. QED
  BY <1>2, <1>6, Bounds

(* The worker t got the id of the stored meme from another module, before. *)
OvertakenBy(t, s) ==
  \E g \in given : /\ g.id = s.id /\ g.number # s.number
                   /\ g.number <= s.arrived /\ g.module # s.module

(* Who opens the content file of a stored meme comes from another module,
   and had found no directory before the meme was stored. *)
LEMMA Overwriter ==
  ASSUME FactoryInv, NEW t \in Thread, pc[t] \in {"open", "close"},
         NEW s \in stored, s.id = id[t]
  PROVE  OvertakenBy(t, s)
<1> DEFINE g == [module |-> module[t], id |-> id[t], number |-> number[t]]
           h == [module |-> s.module, id |-> s.id, number |-> s.number]
<1>1. g \in given /\ h \in given
  BY DEF FactoryInv, IdsAreGiven, Posting
<1>2. g.id = s.id /\ g.number # s.number /\ g.number <= s.arrived
  BY DEF FactoryInv, OneWorkerPerRequest, LateComersConflict, Posting
<1>3. g.module # s.module
  BY <1>1, <1>2 DEF FactoryInv, OneModuleOneId
<1>4. QED
  BY <1>1, <1>2, <1>3 DEF OvertakenBy

(* A request arrives with a number, and a file system, that nobody has. *)
LEMMA CreateInvariant ==
  ASSUME FactoryInv, NEW t \in Thread, NEW l \in Location, NEW b \in Body \cup {Null}, create(t, l, b)
  PROVE  FactoryInv'
<1>1. /\ pc[t] = "idle" /\ pc' = [pc EXCEPT ![t] = "find"]
      /\ requests < MaxRequests /\ requests' = requests + 1
      /\ fs_' = [fs_ EXCEPT ![l] = requests']
      /\ number' = [number EXCEPT ![t] = requests']
      /\ at' = [at EXCEPT ![t] = l] /\ body' = [body EXCEPT ![t] = b]
      /\ UNCHANGED <<meme_modules_, module_fs, id_count_, dirs, content, listed, module, id>>
      /\ UNCHANGED <<given, stored, settled>>
  BY DEF create, Goto, modules, disk, history
<1>2. TypeOK'
  <2>1. requests + 1 \in Number
    BY <1>1, Types, Bounds
  <2>2. QED
    BY <1>1, <2>1 DEF FactoryInv, TypeOK, PC
<1>3. Others(t) /\ pc'[t] = "find" /\ number'[t] = requests + 1 /\ at'[t] = l
  BY <1>1, Types DEF Others
<1>4. OneWorkerPerRequest'
  <2>1. Used' = Used /\ stored' = stored
    BY <1>1 DEF Used
  <2>2. Used \subseteq 1..requests' /\ requests + 1 \notin Used /\ requests + 1 \in 1..requests'
    BY <1>1, Types DEF FactoryInv, OneWorkerPerRequest
  <2>3. \A u \in Thread \ {t} : pc'[u] # "idle" =>
          number'[u] \in 1..requests' /\ number'[u] # requests + 1
    BY <1>1, <1>3, Types DEF FactoryInv, OneWorkerPerRequest, Others
  <2>4. QED
    BY <1>3, <2>1, <2>2, <2>3 DEF FactoryInv, OneWorkerPerRequest, Others, Creating
<1>5. TableIsFilled'
  <2>1. \A k \in Location : settled'[k] <= requests'
    BY <1>1, Types, Bounds DEF FactoryInv, TableIsFilled
  <2>2. QED
    BY <1>1, <1>3, <2>1 DEF FactoryInv, TableIsFilled, Others, Posting
<1>6. PostsHaveBodies'
  BY <1>1, <1>3, Types DEF FactoryInv, Others, PostsHaveBodies, Posting
<1>7. ConstructedBeforeUse'
  <2>1. \A m \in Number : InUse(m)' <=> InUse(m)
    BY <1>1 DEF InUse
  <2>2. \A m \in Number : InUse(m) => m <= requests' /\ m # requests + 1
    BY <1>1, Types, Bounds DEF FactoryInv, ConstructedBeforeUse
  <2>3. \A u \in Thread : number'[u] \in Number
    BY <1>2 DEF TypeOK
  <2>4. QED
    BY <1>3, <2>1, <2>2, <2>3 DEF FactoryInv, ConstructedBeforeUse, Others
<1>8. IdsAreCounted'
  BY <1>1, <1>3, Types DEF FactoryInv, Others, IdsAreCounted, Used
<1>9. IdsAreGiven'
  BY <1>1, <1>3, Types DEF FactoryInv, Others, IdsAreGiven, Posting
<1>10. LateComersConflict'
  BY <1>1, <1>3, Types DEF FactoryInv, Others, LateComersConflict, Posting
<1>11. RaceIsAtTheStart'
  BY <1>1, <1>3, Types DEF FactoryInv, Others, RaceIsAtTheStart
<1>12. OneModuleOneId'
  BY <1>1, <1>3, Types DEF FactoryInv, Others, OneModuleOneId
<1>13. StoredIsKeptFromLater'
  BY <1>1, <1>3, Types DEF FactoryInv, Others, StoredIsKeptFromLater
<1>14. QED
  BY <1>2, <1>4, <1>5, <1>6, <1>7, <1>8, <1>9, <1>10, <1>11, <1>12, <1>13 DEF FactoryInv

(* The unlocked find: whoever sees an empty table constructs a module. *)
LEMMA FindModuleInvariant ==
  ASSUME FactoryInv, NEW t \in Thread, find_module(t)
  PROVE  FactoryInv'
<1>1. /\ pc[t] = "find"
      /\ \/ meme_modules_[at[t]] = 0 /\ pc' = [pc EXCEPT ![t] = "construct"]
         \/ meme_modules_[at[t]] # 0 /\ pc' = [pc EXCEPT ![t] = "lookup"]
      /\ UNCHANGED <<requests, fs_, meme_modules_, module_fs, id_count_, dirs, content>>
      /\ UNCHANGED <<number, at, body, listed, module, id, given, stored, settled>>
  BY DEF find_module, Goto, factory, modules, disk, input, history
<1>2. TypeOK'
  BY <1>1 DEF FactoryInv, TypeOK, PC
<1>3. Others(t) /\ pc'[t] \in {"construct", "lookup"}
  BY <1>1, Types DEF Others
<1>4. OneWorkerPerRequest'
  <2>1. Used' = Used
    BY <1>1 DEF Used
  <2>2. QED
    BY <1>1, <1>3, <2>1 DEF FactoryInv, OneWorkerPerRequest, Others, Creating
<1>5. TableIsFilled'
  BY <1>1, <1>3, Types DEF FactoryInv, Others, TableIsFilled, Posting
<1>6. PostsHaveBodies'
  BY <1>1, <1>3, Types DEF FactoryInv, Others, PostsHaveBodies, Posting
<1>7. ConstructedBeforeUse'
  BY <1>1, <1>3, Types DEF FactoryInv, Others, ConstructedBeforeUse, InUse, OneWorkerPerRequest
<1>8. IdsAreCounted'
  BY <1>1, <1>3, Types DEF FactoryInv, Others, IdsAreCounted, Used
<1>9. IdsAreGiven'
  BY <1>1, <1>3, Types DEF FactoryInv, Others, IdsAreGiven, Posting
<1>10. LateComersConflict'
  BY <1>1, <1>3, Types DEF FactoryInv, Others, LateComersConflict, Posting
<1>11. RaceIsAtTheStart'
  BY <1>1, <1>3, Types DEF FactoryInv, Others, RaceIsAtTheStart
<1>12. OneModuleOneId'
  BY <1>1, <1>3, Types DEF FactoryInv, Others, OneModuleOneId
<1>13. StoredIsKeptFromLater'
  BY <1>1, <1>3, Types DEF FactoryInv, Others, StoredIsKeptFromLater
<1>14. QED
  BY <1>2, <1>4, <1>5, <1>6, <1>7, <1>8, <1>9, <1>10, <1>11, <1>12, <1>13 DEF FactoryInv

(* A module is constructed that nobody else can see yet. *)
LEMMA ConstructInvariant ==
  ASSUME FactoryInv, NEW t \in Thread, construct_module(t)
  PROVE  FactoryInv'
<1>1. /\ pc[t] = "construct" /\ pc' = [pc EXCEPT ![t] = "load"]
      /\ module_fs' = [module_fs EXCEPT ![number[t]] = fs_[at[t]]]
      /\ listed' = [listed EXCEPT ![t] = dirs]
      /\ UNCHANGED <<requests, fs_, meme_modules_, id_count_, dirs, content>>
      /\ UNCHANGED <<number, at, body, module, id, given, stored, settled>>
  BY DEF construct_module, Goto, factory, disk, input, history
<1>2. TypeOK'
  BY <1>1 DEF FactoryInv, TypeOK, PC
<1>3. Others(t) /\ pc'[t] = "load"
  BY <1>1, Types DEF Others
<1>4. OneWorkerPerRequest'
  BY <1>1, <1>3, Types DEF FactoryInv, Others, OneWorkerPerRequest, Creating, Used
<1>5. TableIsFilled'
  BY <1>1, <1>3, Types DEF FactoryInv, Others, TableIsFilled, Posting
<1>6. PostsHaveBodies'
  BY <1>1, <1>3, Types DEF FactoryInv, Others, PostsHaveBodies, Posting
<1>7. ConstructedBeforeUse'
  BY <1>1, <1>3, Types DEF FactoryInv, Others, ConstructedBeforeUse, InUse, OneWorkerPerRequest
<1>8. IdsAreCounted'
  BY <1>1, <1>3, Types DEF FactoryInv, Others, IdsAreCounted, Used
<1>9. IdsAreGiven'
  BY <1>1, <1>3, Types DEF FactoryInv, Others, IdsAreGiven, Posting
<1>10. LateComersConflict'
  BY <1>1, <1>3, Types DEF FactoryInv, Others, LateComersConflict, Posting
<1>11. RaceIsAtTheStart'
  BY <1>1, <1>3, Types DEF FactoryInv, Others, RaceIsAtTheStart
<1>12. OneModuleOneId'
  BY <1>1, <1>3, Types DEF FactoryInv, Others, OneModuleOneId
<1>13. StoredIsKeptFromLater'
  BY <1>1, <1>3, Types DEF FactoryInv, Others, StoredIsKeptFromLater
<1>14. QED
  BY <1>2, <1>4, <1>5, <1>6, <1>7, <1>8, <1>9, <1>10, <1>11, <1>12, <1>13 DEF FactoryInv

(* A module is published: the first one closes the race, others replace it. *)
LEMMA AssignInvariant ==
  ASSUME FactoryInv, NEW t \in Thread, assign_module(t)
  PROVE  FactoryInv'
<1>1. /\ pc[t] = "assign" /\ pc' = [pc EXCEPT ![t] = "lookup"]
      /\ settled' = [settled EXCEPT ![at[t]] = IF meme_modules_[at[t]] = 0 THEN requests ELSE @]
      /\ meme_modules_' = [meme_modules_ EXCEPT ![at[t]] = number[t]]
      /\ UNCHANGED <<requests, fs_, module_fs, id_count_, dirs, content>>
      /\ UNCHANGED <<number, at, body, listed, module, id, given, stored>>
  BY DEF assign_module, Goto, modules, disk, input
<1>2. TypeOK'
  BY <1>1 DEF FactoryInv, TypeOK, PC
<1>3. Others(t) /\ pc'[t] = "lookup"
  BY <1>1, Types DEF Others
<1>4. OneWorkerPerRequest'
  BY <1>1, <1>3, Types DEF FactoryInv, Others, OneWorkerPerRequest, Creating, Used
<1>5. TableIsFilled'
  <2>1. number[t] # 0 /\ number[t] \in Number
    BY <1>1, Types DEF FactoryInv, OneWorkerPerRequest
  <2>2. \A k \in Location : meme_modules_[k] # 0 => meme_modules_'[k] # 0
    BY <1>1, <2>1, Types
  <2>3. meme_modules_'[at[t]] # 0
    BY <1>1, <2>1, Types
  <2>4. \A k \in Location : settled'[k] <= requests'
    BY <1>1, Types, Bounds DEF FactoryInv, TableIsFilled
  <2>5. QED
    BY <1>1, <1>3, <2>2, <2>3, <2>4, Types DEF FactoryInv, TableIsFilled, Others, Posting
<1>6. PostsHaveBodies'
  BY <1>1, <1>3, Types DEF FactoryInv, Others, PostsHaveBodies, Posting
<1>7. ConstructedBeforeUse'
  BY <1>1, <1>3, Types DEF FactoryInv, Others, ConstructedBeforeUse, InUse, OneWorkerPerRequest
<1>8. IdsAreCounted'
  BY <1>1, <1>3, Types DEF FactoryInv, Others, IdsAreCounted, Used
<1>9. IdsAreGiven'
  BY <1>1, <1>3, Types DEF FactoryInv, Others, IdsAreGiven, Posting
<1>10. LateComersConflict'
  BY <1>1, <1>3, Types DEF FactoryInv, Others, LateComersConflict, Posting
<1>11. RaceIsAtTheStart'
  <2> DEFINE l == at[t]
  <2>1. number[t] <= requests /\ \A u \in Thread : pc[u] # "idle" => number[u] <= requests
    BY <1>1, Types DEF FactoryInv, OneWorkerPerRequest
  <2>2. l \in Location /\ meme_modules_'[l] = number[t]
        /\ \A k \in Location \ {l} : meme_modules_'[k] = meme_modules_[k] /\ settled'[k] = settled[k]
    BY <1>1, Types
  <2>3. \A u \in Thread : pc'[u] \in {"construct", "load", "assign"} =>
          u # t /\ pc[u] = pc'[u] /\ number'[u] = number[u] /\ at'[u] = at[u]
    BY <1>3 DEF Others
  <2>4. number[t] <= settled'[l] /\ \A u \in Thread :
          at'[u] = l /\ pc'[u] \in {"construct", "load", "assign"} => number'[u] <= settled'[l]
    <3>1. CASE meme_modules_[l] = 0
      BY <1>1, <2>1, <2>2, <2>3, <3>1, Types
    <3>2. CASE meme_modules_[l] # 0
      <4>1. settled'[l] = settled[l]
        BY <1>1, <3>2, Types
      <4>2. QED
        BY <1>1, <2>2, <2>3, <3>2, <4>1 DEF FactoryInv, RaceIsAtTheStart
    <3>3. QED
      BY <3>1, <3>2
  <2>5. QED
    BY <2>2, <2>3, <2>4 DEF FactoryInv, RaceIsAtTheStart
<1>12. OneModuleOneId'
  BY <1>1, <1>3, Types DEF FactoryInv, Others, OneModuleOneId
<1>13. StoredIsKeptFromLater'
  BY <1>1, <1>3, Types DEF FactoryInv, Others, StoredIsKeptFromLater
<1>14. QED
  BY <1>2, <1>4, <1>5, <1>6, <1>7, <1>8, <1>9, <1>10, <1>11, <1>12, <1>13 DEF FactoryInv

(* The second look at the table, which by now is not empty. *)
LEMMA LookupInvariant ==
  ASSUME FactoryInv, NEW t \in Thread, lookup_module(t)
  PROVE  FactoryInv'
<1>1. /\ pc[t] = "lookup"
      /\ \/ body[t] = Null /\ pc' = [pc EXCEPT ![t] = "idle"] /\ module' = [module EXCEPT ![t] = 0]
         \/ /\ body[t] # Null /\ pc' = [pc EXCEPT ![t] = "generate"]
            /\ module' = [module EXCEPT ![t] = meme_modules_[at[t]]]
      /\ UNCHANGED <<requests, fs_, meme_modules_, module_fs, id_count_, dirs, content>>
      /\ UNCHANGED <<number, at, body, listed, id, given, stored, settled>>
  BY DEF lookup_module, Goto, factory, modules, disk, input, history
<1>2. TypeOK'
  <2>1. 0 \in Number /\ meme_modules_[at[t]] \in Number
    BY Bounds, Types
  <2>2. QED
    BY <1>1, <2>1 DEF FactoryInv, TypeOK, PC
<1>3. Others(t) /\ pc'[t] \in {"idle", "generate"}
  BY <1>1, Types DEF Others
<1>4. OneWorkerPerRequest'
  BY <1>1, <1>3, Types DEF FactoryInv, Others, OneWorkerPerRequest, Creating, Used
<1>5. TableIsFilled'
  BY <1>1, <1>3, Types DEF FactoryInv, Others, TableIsFilled, Posting
<1>6. PostsHaveBodies'
  BY <1>1, <1>3, Types DEF FactoryInv, Others, PostsHaveBodies, Posting
<1>7. ConstructedBeforeUse'
  BY <1>1, <1>3, Types DEF FactoryInv, Others, ConstructedBeforeUse, InUse, OneWorkerPerRequest
<1>8. IdsAreCounted'
  BY <1>1, <1>3, Types DEF FactoryInv, Others, IdsAreCounted, Used
<1>9. IdsAreGiven'
  BY <1>1, <1>3, Types DEF FactoryInv, Others, IdsAreGiven, Posting
<1>10. LateComersConflict'
  BY <1>1, <1>3, Types DEF FactoryInv, Others, LateComersConflict, Posting
<1>11. RaceIsAtTheStart'
  BY <1>1, <1>3, Types DEF FactoryInv, Others, RaceIsAtTheStart
<1>12. OneModuleOneId'
  BY <1>1, <1>3, Types DEF FactoryInv, Others, OneModuleOneId
<1>13. StoredIsKeptFromLater'
  BY <1>1, <1>3, Types DEF FactoryInv, Others, StoredIsKeptFromLater
<1>14. QED
  BY <1>2, <1>4, <1>5, <1>6, <1>7, <1>8, <1>9, <1>10, <1>11, <1>12, <1>13 DEF FactoryInv

(* The constructor sets the counter of a module that is not in use. *)
LEMMA LoadInvariant ==
  ASSUME FactoryInv, NEW t \in Thread, load_ids(t)
  PROVE  FactoryInv'
<1>1. /\ pc[t] = "load" /\ pc' = [pc EXCEPT ![t] = "assign"]
      /\ \E D \in SUBSET dirs : id_count_' = [id_count_ EXCEPT ![number[t]] = Largest(D)]
      /\ listed' = [listed EXCEPT ![t] = {}]
      /\ UNCHANGED <<requests, fs_, meme_modules_, module_fs, dirs, content>>
      /\ UNCHANGED <<number, at, body, module, id, given, stored, settled>>
  BY DEF load_ids, Goto, factory, disk, input, history
<1>2. TypeOK'
  <2>1. PICK D \in SUBSET dirs : id_count_' = [id_count_ EXCEPT ![number[t]] = Largest(D)]
    BY <1>1
  <2>2. Largest(D) \in Id \cup {0}
    BY LoadedIds
  <2>3. QED
    BY <1>1, <2>1, <2>2 DEF FactoryInv, TypeOK, PC
<1>3. Others(t) /\ pc'[t] = "assign"
  BY <1>1, Types DEF Others
<1>4. OneWorkerPerRequest'
  BY <1>1, <1>3, Types DEF FactoryInv, Others, OneWorkerPerRequest, Creating, Used
<1>5. TableIsFilled'
  BY <1>1, <1>3, Types DEF FactoryInv, Others, TableIsFilled, Posting
<1>6. PostsHaveBodies'
  BY <1>1, <1>3, Types DEF FactoryInv, Others, PostsHaveBodies, Posting
<1>7. ConstructedBeforeUse'
  BY <1>1, <1>3, Types DEF FactoryInv, Others, ConstructedBeforeUse, InUse, OneWorkerPerRequest
<1>8. IdsAreCounted'
  <2>1. PICK D \in SUBSET dirs : id_count_' = [id_count_ EXCEPT ![number[t]] = Largest(D)]
    BY <1>1
  <2>2. Largest(D) <= Cardinality(Used) /\ number[t] \in Number /\ Used' = Used
    BY <1>1, LoadedIds, Types DEF Used
  <2>3. \A g \in given : g.module \in Number /\ g.module # number[t]
    BY <1>1, Types DEF FactoryInv, ConstructedBeforeUse, InUse, Gift
  <2>4. \A m \in Number \ {number[t]} : id_count_'[m] = id_count_[m]
    BY <2>1, Types
  <2>5. id_count_'[number[t]] = Largest(D)
    BY <2>1, <2>2, Types
  <2>6. QED
    BY <1>1, <2>2, <2>3, <2>4, <2>5 DEF FactoryInv, IdsAreCounted
<1>9. IdsAreGiven'
  BY <1>1, <1>3, Types DEF FactoryInv, Others, IdsAreGiven, Posting
<1>10. LateComersConflict'
  BY <1>1, <1>3, Types DEF FactoryInv, Others, LateComersConflict, Posting
<1>11. RaceIsAtTheStart'
  BY <1>1, <1>3, Types DEF FactoryInv, Others, RaceIsAtTheStart
<1>12. OneModuleOneId'
  BY <1>1, <1>3, Types DEF FactoryInv, Others, OneModuleOneId
<1>13. StoredIsKeptFromLater'
  BY <1>1, <1>3, Types DEF FactoryInv, Others, StoredIsKeptFromLater
<1>14. QED
  BY <1>2, <1>4, <1>5, <1>6, <1>7, <1>8, <1>9, <1>10, <1>11, <1>12, <1>13 DEF FactoryInv

(* generate_id counts under id_mutex_. *)
LEMMA GenerateInvariant ==
  ASSUME FactoryInv, NEW t \in Thread, generate_id(t)
  PROVE  FactoryInv'
<1>1. /\ pc[t] = "generate" /\ pc' = [pc EXCEPT ![t] = "exist"]
      /\ id_count_' = [id_count_ EXCEPT ![module[t]] = @ + 1]
      /\ id' = [id EXCEPT ![t] = id_count_'[module[t]]]
      /\ given' = given \cup {[module |-> module[t], id |-> id'[t], number |-> number[t]]}
      /\ UNCHANGED <<requests, fs_, meme_modules_, module_fs, dirs, content>>
      /\ UNCHANGED <<number, at, body, listed, module, stored, settled>>
  BY DEF generate_id, Goto, factory, disk, input
<1>2. TypeOK'
  <2>1. id_count_[module[t]] + 1 \in Id /\ module[t] \in Number
    BY <1>1, NextId, Types
  <2>2. [module |-> module[t], id |-> id'[t], number |-> number[t]] \in Gift
    BY <1>1, <2>1, Types DEF Gift
  <2>3. QED
    BY <1>1, <2>1, <2>2 DEF FactoryInv, TypeOK, PC
<1>3. Others(t) /\ pc'[t] = "exist" /\ id'[t] = id_count_[module[t]] + 1
  BY <1>1, Types DEF Others
<1>4. OneWorkerPerRequest'
  BY <1>1, <1>3, Types DEF FactoryInv, Others, OneWorkerPerRequest, Creating, Used
<1>5. TableIsFilled'
  BY <1>1, <1>3, Types DEF FactoryInv, Others, TableIsFilled, Posting
<1>6. PostsHaveBodies'
  BY <1>1, <1>3, Types DEF FactoryInv, Others, PostsHaveBodies, Posting
<1>7. ConstructedBeforeUse'
  BY <1>1, <1>3, Types DEF FactoryInv, Others, ConstructedBeforeUse, InUse, OneWorkerPerRequest
<1>8. IdsAreCounted'
  <2> DEFINE m == module[t]
             n == Cardinality(Used)
             e == [module |-> module[t], id |-> id'[t], number |-> number[t]]
  <2>1. given' = given \cup {e} /\ e.number = number[t] /\ e.id = id'[t] /\ e.module = m
    BY <1>1
  <2>2. id_count_' = [id_count_ EXCEPT ![m] = @ + 1] /\ id'[t] = id_count_[m] + 1 /\ dirs' = dirs
    BY <1>1, <1>3
  <2> HIDE DEF e
  <2>3. Used' = Used \cup {number[t]}
    BY <2>1 DEF Used
  <2>4. Cardinality(Used') = n + 1 /\ n \in Nat
    BY <1>1, <2>3, NextId
  <2>5. m \in Number
    BY Types
  <2>6. id_count_'[m] = id_count_[m] + 1 /\ \A k \in Number \ {m} : id_count_'[k] = id_count_[k]
    BY <2>2, <2>5, Types
  <2>7. \A k \in Number : id_count_[k] \in Nat /\ id_count_[k] <= n
    BY Counter
  <2>8. \A i \in dirs : i \in Nat /\ i <= n
    BY Types, Bounds DEF FactoryInv, IdsAreCounted
  <2>9. \A g \in given : g.module \in Number /\ g.id \in Nat /\ g.id <= id_count_[g.module]
    BY Types, Bounds DEF FactoryInv, IdsAreCounted, Gift
  <2> HIDE DEF m, n
  <2>10. \A k \in Number :
           /\ id_count_'[k] <= n + 1 /\ id_count_[k] <= id_count_'[k]
           /\ id_count_'[k] \in Nat
    BY <2>4, <2>6, <2>7
  <2>11. \A g \in given : g.id <= id_count_'[g.module]
    BY <2>7, <2>9, <2>10
  <2>12. e.id <= id_count_'[e.module]
    BY <2>1, <2>2, <2>5, <2>6, <2>7
  <2>13. \A i \in dirs' : i <= n + 1
    BY <2>2, <2>4, <2>8
  <2>14. QED
    BY <2>1, <2>4, <2>10, <2>11, <2>12, <2>13 DEF IdsAreCounted
<1>9. IdsAreGiven'
  BY <1>1, <1>3, Types DEF FactoryInv, Others, IdsAreGiven, Posting
<1>10. LateComersConflict'
  BY <1>1, <1>3, Types DEF FactoryInv, Others, LateComersConflict, Posting
<1>11. RaceIsAtTheStart'
  BY <1>1, <1>3, Types DEF FactoryInv, Others, RaceIsAtTheStart
<1>12. OneModuleOneId'
  <2> DEFINE e == [module |-> module[t], id |-> id'[t], number |-> number[t]]
  <2>1. given' = given \cup {e} /\ e.number = number[t] /\ e.id = id'[t] /\ e.module = module[t]
    BY <1>1
  <2> HIDE DEF e
  <2>2. id'[t] = id_count_[module[t]] + 1 /\ module[t] \in Number
    BY <1>3, Types
  <2>3. id_count_[module[t]] \in Nat
    BY <2>2, Counter
  <2>4. \A g \in given : g.module = module[t] => g.id <= id_count_[module[t]] /\ g.id \in Nat
    BY Types, Bounds DEF FactoryInv, IdsAreCounted, Gift
  <2>5. \A g \in given : ~(g.module = e.module /\ g.id = e.id)
    BY <2>1, <2>2, <2>3, <2>4
  <2>6. QED
    BY <2>1, <2>5 DEF FactoryInv, OneModuleOneId
<1>13. StoredIsKeptFromLater'
  BY <1>1, <1>3, Types DEF FactoryInv, Others, StoredIsKeptFromLater
<1>14. QED
  BY <1>2, <1>4, <1>5, <1>6, <1>7, <1>8, <1>9, <1>10, <1>11, <1>12, <1>13 DEF FactoryInv

(* The check for the directory stops whoever comes after it was made. *)
LEMMA ExistInvariant ==
  ASSUME FactoryInv, NEW t \in Thread, exist(t)
  PROVE  FactoryInv'
<1>1. /\ pc[t] = "exist"
      /\ \/ /\ id[t] \notin dirs /\ pc' = [pc EXCEPT ![t] = "create_directory"]
            /\ UNCHANGED <<module, id>>
         \/ /\ pc' = [pc EXCEPT ![t] = "idle"]
            /\ module' = [module EXCEPT ![t] = 0] /\ id' = [id EXCEPT ![t] = 0]
      /\ UNCHANGED <<requests, fs_, meme_modules_, module_fs, id_count_, dirs, content>>
      /\ UNCHANGED <<number, at, body, listed, given, stored, settled>>
  BY DEF exist, Goto, Finish, factory, modules, disk, input, history
<1>2. TypeOK'
  <2>1. 0 \in Number
    BY Bounds
  <2>2. QED
    BY <1>1, <2>1 DEF FactoryInv, TypeOK, PC
<1>3. Others(t) /\ pc'[t] \in {"idle", "create_directory"}
  BY <1>1, Types DEF Others
<1>4. OneWorkerPerRequest'
  BY <1>1, <1>3, Types DEF FactoryInv, Others, OneWorkerPerRequest, Creating, Used
<1>5. TableIsFilled'
  BY <1>1, <1>3, Types DEF FactoryInv, Others, TableIsFilled, Posting
<1>6. PostsHaveBodies'
  BY <1>1, <1>3, Types DEF FactoryInv, Others, PostsHaveBodies, Posting
<1>7. ConstructedBeforeUse'
  BY <1>1, <1>3, Types DEF FactoryInv, Others, ConstructedBeforeUse, InUse, OneWorkerPerRequest
<1>8. IdsAreCounted'
  BY <1>1, <1>3, Types DEF FactoryInv, Others, IdsAreCounted, Used
<1>9. IdsAreGiven'
  BY <1>1, <1>3, Types DEF FactoryInv, Others, IdsAreGiven, Posting
<1>10. LateComersConflict'
  <2>1. \A s \in stored : s.id \in dirs
    BY DEF FactoryInv, IdsAreGiven
  <2>2. pc'[t] \in Posting \ {"exist"} => id'[t] \notin dirs
    BY <1>1, Types DEF Posting
  <2>3. QED
    BY <1>1, <1>3, <2>1, <2>2 DEF FactoryInv, LateComersConflict, Others
<1>11. RaceIsAtTheStart'
  BY <1>1, <1>3, Types DEF FactoryInv, Others, RaceIsAtTheStart
<1>12. OneModuleOneId'
  BY <1>1, <1>3, Types DEF FactoryInv, Others, OneModuleOneId
<1>13. StoredIsKeptFromLater'
  BY <1>1, <1>3, Types DEF FactoryInv, Others, StoredIsKeptFromLater
<1>14. QED
  BY <1>2, <1>4, <1>5, <1>6, <1>7, <1>8, <1>9, <1>10, <1>11, <1>12, <1>13 DEF FactoryInv

(* The directory of an id that a module has counted. *)
LEMMA CreateDirectoryInvariant ==
  ASSUME FactoryInv, NEW t \in Thread, create_directory(t)
  PROVE  FactoryInv'
<1>1. /\ pc[t] = "create_directory" /\ pc' = [pc EXCEPT ![t] = "open"]
      /\ dirs' = dirs \cup {id[t]}
      /\ UNCHANGED <<requests, fs_, meme_modules_, module_fs, id_count_, content>>
      /\ UNCHANGED <<number, at, body, listed, module, id, given, stored, settled>>
  BY DEF create_directory, Goto, factory, modules, input, history
<1>2. TypeOK'
  <2>1. id[t] \in Id
    BY <1>1, PostersId DEF Posting
  <2>2. QED
    BY <1>1, <2>1 DEF FactoryInv, TypeOK, PC
<1>3. Others(t) /\ pc'[t] = "open"
  BY <1>1, Types DEF Others
<1>4. OneWorkerPerRequest'
  BY <1>1, <1>3, Types DEF FactoryInv, Others, OneWorkerPerRequest, Creating, Used
<1>5. TableIsFilled'
  BY <1>1, <1>3, Types DEF FactoryInv, Others, TableIsFilled, Posting
<1>6. PostsHaveBodies'
  BY <1>1, <1>3, Types DEF FactoryInv, Others, PostsHaveBodies, Posting
<1>7. ConstructedBeforeUse'
  BY <1>1, <1>3, Types DEF FactoryInv, Others, ConstructedBeforeUse, InUse, OneWorkerPerRequest
<1>8. IdsAreCounted'
  <2>1. id[t] <= Cardinality(Used) /\ Used' = Used
    BY <1>1, PostersId DEF Posting, Used
  <2>2. QED
    BY <1>1, <2>1 DEF FactoryInv, IdsAreCounted
<1>9. IdsAreGiven'
  BY <1>1, <1>3, Types DEF FactoryInv, Others, IdsAreGiven, Posting
<1>10. LateComersConflict'
  BY <1>1, <1>3, Types DEF FactoryInv, Others, LateComersConflict, Posting
<1>11. RaceIsAtTheStart'
  BY <1>1, <1>3, Types DEF FactoryInv, Others, RaceIsAtTheStart
<1>12. OneModuleOneId'
  BY <1>1, <1>3, Types DEF FactoryInv, Others, OneModuleOneId
<1>13. StoredIsKeptFromLater'
  BY <1>1, <1>3, Types DEF FactoryInv, Others, StoredIsKeptFromLater
<1>14. QED
  BY <1>2, <1>4, <1>5, <1>6, <1>7, <1>8, <1>9, <1>10, <1>11, <1>12, <1>13 DEF FactoryInv

(* A failure ends the POST and leaves the disk alone. *)
LEMMA CreateDirectoryFailsInvariant ==
  ASSUME FactoryInv, NEW t \in Thread, create_directory_fails(t)
  PROVE  FactoryInv'
<1>1. /\ pc[t] = "create_directory" /\ pc' = [pc EXCEPT ![t] = "idle"]
      /\ module' = [module EXCEPT ![t] = 0] /\ id' = [id EXCEPT ![t] = 0]
      /\ UNCHANGED <<requests, fs_, meme_modules_, module_fs, id_count_, dirs, content>>
      /\ UNCHANGED <<number, at, body, listed, given, stored, settled>>
  BY DEF create_directory_fails, Goto, Finish, factory, modules, disk, input, history
<1>2. TypeOK'
  <2>1. 0 \in Number
    BY Bounds
  <2>2. QED
    BY <1>1, <2>1 DEF FactoryInv, TypeOK, PC
<1>3. Others(t) /\ pc'[t] = "idle"
  BY <1>1, Types DEF Others
<1>4. OneWorkerPerRequest'
  BY <1>1, <1>3, Types DEF FactoryInv, Others, OneWorkerPerRequest, Creating, Used
<1>5. TableIsFilled'
  BY <1>1, <1>3, Types DEF FactoryInv, Others, TableIsFilled, Posting
<1>6. PostsHaveBodies'
  BY <1>1, <1>3, Types DEF FactoryInv, Others, PostsHaveBodies, Posting
<1>7. ConstructedBeforeUse'
  BY <1>1, <1>3, Types DEF FactoryInv, Others, ConstructedBeforeUse, InUse, OneWorkerPerRequest
<1>8. IdsAreCounted'
  BY <1>1, <1>3, Types DEF FactoryInv, Others, IdsAreCounted, Used
<1>9. IdsAreGiven'
  BY <1>1, <1>3, Types DEF FactoryInv, Others, IdsAreGiven, Posting
<1>10. LateComersConflict'
  BY <1>1, <1>3, Types DEF FactoryInv, Others, LateComersConflict, Posting
<1>11. RaceIsAtTheStart'
  BY <1>1, <1>3, Types DEF FactoryInv, Others, RaceIsAtTheStart
<1>12. OneModuleOneId'
  BY <1>1, <1>3, Types DEF FactoryInv, Others, OneModuleOneId
<1>13. StoredIsKeptFromLater'
  BY <1>1, <1>3, Types DEF FactoryInv, Others, StoredIsKeptFromLater
<1>14. QED
  BY <1>2, <1>4, <1>5, <1>6, <1>7, <1>8, <1>9, <1>10, <1>11, <1>12, <1>13 DEF FactoryInv

(* Opening the content file disturbs only what its worker may overtake, ... *)
LEMMA WriteOpenInvariant ==
  ASSUME FactoryInv, NEW t \in Thread, write_open(t)
  PROVE  FactoryInv'
<1>1. /\ pc[t] = "open"
      /\ \/ /\ pc' = [pc EXCEPT ![t] = "close"]
            /\ content' = [content EXCEPT ![id[t]] = Torn] /\ UNCHANGED <<module, id>>
         \/ /\ pc' = [pc EXCEPT ![t] = "idle"] /\ UNCHANGED content
            /\ module' = [module EXCEPT ![t] = 0] /\ id' = [id EXCEPT ![t] = 0]
      /\ UNCHANGED <<requests, fs_, meme_modules_, module_fs, id_count_, dirs>>
      /\ UNCHANGED <<number, at, body, listed, given, stored, settled>>
  BY DEF write_open, Goto, Finish, factory, modules, input, history
<1>2. TypeOK'
  <2>1. 0 \in Number /\ id[t] \in dirs
    BY <1>1, Bounds DEF FactoryInv, IdsAreGiven
  <2>2. QED
    BY <1>1, <2>1 DEF FactoryInv, TypeOK, PC
<1>3. Others(t) /\ pc'[t] \in {"idle", "close"}
  BY <1>1, Types DEF Others
<1>4. OneWorkerPerRequest'
  BY <1>1, <1>3, Types DEF FactoryInv, Others, OneWorkerPerRequest, Creating, Used
<1>5. TableIsFilled'
  BY <1>1, <1>3, Types DEF FactoryInv, Others, TableIsFilled, Posting
<1>6. PostsHaveBodies'
  BY <1>1, <1>3, Types DEF FactoryInv, Others, PostsHaveBodies, Posting
<1>7. ConstructedBeforeUse'
  BY <1>1, <1>3, Types DEF FactoryInv, Others, ConstructedBeforeUse, InUse, OneWorkerPerRequest
<1>8. IdsAreCounted'
  BY <1>1, <1>3, Types DEF FactoryInv, Others, IdsAreCounted, Used
<1>9. IdsAreGiven'
  BY <1>1, <1>3, Types DEF FactoryInv, Others, IdsAreGiven, Posting
<1>10. LateComersConflict'
  BY <1>1, <1>3, Types DEF FactoryInv, Others, LateComersConflict, Posting
<1>11. RaceIsAtTheStart'
  BY <1>1, <1>3, Types DEF FactoryInv, Others, RaceIsAtTheStart
<1>12. OneModuleOneId'
  BY <1>1, <1>3, Types DEF FactoryInv, Others, OneModuleOneId
<1>13. StoredIsKeptFromLater'
  <2>1. \A s \in stored : content'[s.id] # content[s.id] => OvertakenBy(t, s)
    <3>1. \A s \in stored : s.id \in Id
      BY Types DEF Stored
    <3>2. \A i \in Id : i # id[t] => content'[i] = content[i]
      BY <1>1, Types
    <3>3. QED
      BY <1>1, <3>1, <3>2, Overwriter
  <2>2. QED
    BY <1>1, <2>1 DEF FactoryInv, StoredIsKeptFromLater, OvertakenBy
<1>14. QED
  BY <1>2, <1>4, <1>5, <1>6, <1>7, <1>8, <1>9, <1>10, <1>11, <1>12, <1>13 DEF FactoryInv

(* ... and so does closing it, when the POST is answered. *)
LEMMA WriteCloseInvariant ==
  ASSUME FactoryInv, NEW t \in Thread, write_close(t)
  PROVE  FactoryInv'
<1>1. /\ pc[t] = "close" /\ pc' = [pc EXCEPT ![t] = "idle"]
      /\ module' = [module EXCEPT ![t] = 0] /\ id' = [id EXCEPT ![t] = 0]
      /\ content' = [content EXCEPT ![id[t]] = body[t]]
      /\ stored' = stored \cup {[id |-> id[t], body |-> body[t], number |-> number[t],
                                 arrived |-> requests, module |-> module[t]]}
      /\ UNCHANGED <<requests, fs_, meme_modules_, module_fs, id_count_, dirs>>
      /\ UNCHANGED <<number, at, body, listed, given, settled>>
  BY DEF write_close, Goto, Finish, factory, modules, input
<1>2. TypeOK'
  <2>1. 0 \in Number /\ id[t] \in dirs /\ id[t] \in Id /\ body[t] \in Body
    BY <1>1, Bounds, Types DEF FactoryInv, IdsAreGiven, PostsHaveBodies, Posting
  <2>2. [id |-> id[t], body |-> body[t], number |-> number[t], arrived |-> requests,
         module |-> module[t]] \in Stored
    BY <2>1, Types DEF Stored
  <2>3. QED
    BY <1>1, <2>1, <2>2 DEF FactoryInv, TypeOK, PC
<1>3. Others(t) /\ pc'[t] = "idle"
  BY <1>1, Types DEF Others
<1>4. OneWorkerPerRequest'
  <2> DEFINE e == [id |-> id[t], body |-> body[t], number |-> number[t], arrived |-> requests,
                   module |-> module[t]]
  <2>1. /\ stored' = stored \cup {e} /\ e.id = id[t] /\ e.number = number[t]
        /\ e.arrived = requests /\ e.body = body[t]
    BY <1>1
  <2> HIDE DEF e
  <2>2. Used' = Used /\ number[t] \in Used
    BY <1>1, PostersId DEF Used, Posting
  <2>3. \A u \in Thread \ {t} : pc'[u] # "idle" => number'[u] # number[t]
    BY <1>1, <1>3 DEF FactoryInv, OneWorkerPerRequest, Others
  <2>4. QED
    BY <1>1, <1>3, <2>1, <2>2, <2>3 DEF FactoryInv, OneWorkerPerRequest, Others, Creating
<1>5. TableIsFilled'
  BY <1>1, <1>3, Types DEF FactoryInv, Others, TableIsFilled, Posting
<1>6. PostsHaveBodies'
  BY <1>1, <1>3, Types DEF FactoryInv, Others, PostsHaveBodies, Posting
<1>7. ConstructedBeforeUse'
  BY <1>1, <1>3, Types DEF FactoryInv, Others, ConstructedBeforeUse, InUse, OneWorkerPerRequest
<1>8. IdsAreCounted'
  BY <1>1, <1>3, Types DEF FactoryInv, Others, IdsAreCounted, Used
<1>9. IdsAreGiven'
  BY <1>1, <1>3, Types DEF FactoryInv, Others, IdsAreGiven, Posting
<1>10. LateComersConflict'
  <2> DEFINE e == [id |-> id[t], body |-> body[t], number |-> number[t], arrived |-> requests,
                   module |-> module[t]]
  <2>1. /\ stored' = stored \cup {e} /\ e.id = id[t] /\ e.number = number[t]
        /\ e.arrived = requests /\ e.body = body[t]
    BY <1>1
  <2> HIDE DEF e
  <2>2. \A u \in Thread : pc[u] # "idle" => number[u] <= requests
    BY <1>1, Types DEF FactoryInv, OneWorkerPerRequest
  <2>3. QED
    BY <1>1, <1>3, <2>1, <2>2 DEF FactoryInv, LateComersConflict, Others, Posting
<1>11. RaceIsAtTheStart'
  BY <1>1, <1>3, Types DEF FactoryInv, Others, RaceIsAtTheStart
<1>12. OneModuleOneId'
  BY <1>1, <1>3, Types DEF FactoryInv, Others, OneModuleOneId
<1>13. StoredIsKeptFromLater'
  <2> DEFINE e == [id |-> id[t], body |-> body[t], number |-> number[t], arrived |-> requests,
                   module |-> module[t]]
  <2>1. /\ stored' = stored \cup {e} /\ e.id = id[t] /\ e.number = number[t]
        /\ e.arrived = requests /\ e.body = body[t]
    BY <1>1
  <2> HIDE DEF e
  <2>2. id[t] \in Id /\ content'[id[t]] = body[t]
    BY <1>1, Types, PostersId DEF Posting
  <2>3. \A s \in stored : content'[s.id] # content[s.id] => OvertakenBy(t, s)
    <3>1. \A s \in stored : s.id \in Id
      BY Types DEF Stored
    <3>2. \A i \in Id : i # id[t] => content'[i] = content[i]
      BY <1>1, Types
    <3>3. QED
      BY <1>1, <3>1, <3>2, Overwriter
  <2>4. given' = given
    BY <1>1
  <2>5. QED
    BY <2>1, <2>2, <2>3, <2>4 DEF FactoryInv, StoredIsKeptFromLater, OvertakenBy
<1>14. QED
  BY <1>2, <1>4, <1>5, <1>6, <1>7, <1>8, <1>9, <1>10, <1>11, <1>12, <1>13 DEF FactoryInv

(* The first start finds an empty root. *)
LEMMA InitInvariant == Init => FactoryInv
<1> SUFFICES ASSUME Init PROVE FactoryInv
  OBVIOUS
<1>1. 0 \in Number /\ Number = 0..MaxRequests /\ MaxRequests \in Nat
  BY Bounds
<1>2. TypeOK
  BY <1>1 DEF Init, TypeOK, PC
<1>3. /\ \A t \in Thread : pc[t] = "idle" /\ module[t] = 0
      /\ \A l \in Location : meme_modules_[l] = 0 /\ settled[l] = 0
      /\ \A m \in Number : id_count_[m] = 0
      /\ given = {} /\ stored = {} /\ dirs = {} /\ requests = 0
  BY DEF Init
<1>4. Used = {}
  BY <1>3 DEF Used
<1>5. OneWorkerPerRequest /\ PostsHaveBodies
  BY <1>3, <1>4 DEF OneWorkerPerRequest, PostsHaveBodies, Creating, Posting
<1>6. TableIsFilled /\ ConstructedBeforeUse
  BY <1>3 DEF TableIsFilled, ConstructedBeforeUse, InUse, Posting
<1>7. IdsAreCounted
  BY <1>3, <1>4, FS_EmptySet DEF IdsAreCounted
<1>8. IdsAreGiven /\ LateComersConflict
  BY <1>3 DEF IdsAreGiven, LateComersConflict, Posting
<1>9. RaceIsAtTheStart /\ OneModuleOneId /\ StoredIsKeptFromLater
  BY <1>3 DEF RaceIsAtTheStart, OneModuleOneId, StoredIsKeptFromLater
<1>10. QED
  BY <1>2, <1>5, <1>6, <1>7, <1>8, <1>9 DEF FactoryInv

(* What other components do changes nothing here. *)
LEMMA StutteringInvariant == FactoryInv /\ UNCHANGED vars => FactoryInv'
<1> SUFFICES ASSUME FactoryInv, UNCHANGED vars PROVE FactoryInv'
  OBVIOUS
<1>1. /\ UNCHANGED <<requests, fs_, meme_modules_, module_fs, id_count_, dirs, content>>
      /\ UNCHANGED <<pc, number, at, body, listed, module, id, given, stored, settled>>
  BY DEF vars, factory, modules, disk, thread, input, history
<1>2. TypeOK' /\ PostsHaveBodies' /\ TableIsFilled'
  BY <1>1 DEF FactoryInv, TypeOK, PostsHaveBodies, TableIsFilled
<1>3. OneWorkerPerRequest' /\ IdsAreCounted' /\ ConstructedBeforeUse'
  BY <1>1 DEF FactoryInv, OneWorkerPerRequest, IdsAreCounted, ConstructedBeforeUse, InUse, Used
<1>4. IdsAreGiven' /\ LateComersConflict'
  BY <1>1 DEF FactoryInv, IdsAreGiven, LateComersConflict
<1>5. RaceIsAtTheStart' /\ OneModuleOneId' /\ StoredIsKeptFromLater'
  BY <1>1 DEF FactoryInv, RaceIsAtTheStart, OneModuleOneId, StoredIsKeptFromLater
<1>6. QED
  BY <1>2, <1>3, <1>4, <1>5 DEF FactoryInv

(* The inductive invariant of the factories and the modules they construct.   *)
THEOREM Invariance == Spec => []FactoryInv
<1>1. Init => FactoryInv
  BY InitInvariant
<1>2. FactoryInv /\ [Next]_vars => FactoryInv'
  <2> SUFFICES ASSUME FactoryInv, [Next]_vars PROVE FactoryInv'
    OBVIOUS
  <2>1. CASE \E t \in Thread, l \in Location, b \in Body \cup {Null} : create(t, l, b)
    BY <2>1, CreateInvariant
  <2>2. CASE \E t \in Thread : find_module(t) \/ construct_module(t) \/ load_ids(t)
    BY <2>2, FindModuleInvariant, ConstructInvariant, LoadInvariant
  <2>3. CASE \E t \in Thread : assign_module(t) \/ lookup_module(t) \/ generate_id(t) \/ exist(t)
    BY <2>3, AssignInvariant, LookupInvariant, GenerateInvariant, ExistInvariant
  <2>4. CASE \E t \in Thread : create_directory(t) \/ create_directory_fails(t)
    BY <2>4, CreateDirectoryInvariant, CreateDirectoryFailsInvariant
  <2>5. CASE \E t \in Thread : write_open(t) \/ write_close(t)
    BY <2>5, WriteOpenInvariant, WriteCloseInvariant
  <2>6. CASE UNCHANGED vars
    BY <2>6, StutteringInvariant
  <2>7. QED
    BY <2>1, <2>2, <2>3, <2>4, <2>5, <2>6 DEF Next, Work
<1>3. QED
  BY <1>1, <1>2, PTL DEF Spec

(* Every variable keeps its type. *)
THEOREM TypeCorrect == Spec => []TypeOK
<1>1. FactoryInv => TypeOK
  BY DEF FactoryInv
<1>2. QED
  BY <1>1, Invariance, PTL

(* Once a location has a module, no later request constructs one, whichever   *)
(* of the first requests wins the race of MemeHandlerFactory::create.         *)
THEOREM RaceEnds == Spec => []RaceIsAtTheStart
<1>1. FactoryInv => RaceIsAtTheStart
  BY DEF FactoryInv
<1>2. QED
  BY <1>1, Invariance, PTL

(* One module never gives the same id to two requests. *)
THEOREM ModuleIds == Spec => []OneModuleOneId
<1>1. FactoryInv => OneModuleOneId
  BY DEF FactoryInv
<1>2. QED
  BY <1>1, Invariance, PTL

(* A stored meme is overwritten only by a request that had arrived before it  *)
(* was answered, through another module.                                      *)
THEOREM KeptFromLater == Spec => []StoredIsKeptFromLater
<1>1. FactoryInv => StoredIsKeptFromLater
  BY DEF FactoryInv
<1>2. QED
  BY <1>1, Invariance, PTL
=============================================================================
