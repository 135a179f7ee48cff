-------------------------- MODULE DispatcherProofs --------------------------
(***************************************************************************)
(* Theorems about Dispatcher, for any configuration and any targets: match *)
(* finds the longest location, the two maps that all worker threads read   *)
(* have the same locations, what the configuration names is served, and no *)
(* null handler is called if the configuration is in order.                *)
(***************************************************************************)
EXTENDS Dispatcher, NumberLemmas, SequenceTheorems

(* What the assumption says of a configuration. *)
LEMMA ConfigFacts ==
  ASSUME NEW c \in Config
  PROVE  /\ c.statements \in Seq(Statement)
         /\ \E n \in Nat : DOMAIN c.statements = 1..n
         /\ \A i \in DOMAIN c.statements : c.statements[i] \in Statement
<1> DEFINE s == c.statements
<1>1. s \in Seq(Statement)
  BY DispatcherAssumption
<1> HIDE DEF s
<1>2. (\E n \in Nat : DOMAIN s = 1..n) /\ \A i \in DOMAIN s : s[i] \in Statement
  BY <1>1
<1>3. QED
  BY <1>1, <1>2 DEF s

LEMMA StatementFacts ==
  ASSUME NEW s \in Statement
  PROVE  /\ s.path \in Text /\ s.path # <<>>
         /\ s.type \in Known \cup {"Unknown"} /\ s.block \in {Null} \cup Seq(Child)
BY DEF Statement

(* What is asked of a text, character by character. *)
LEMMA TextFacts ==
  ASSUME NEW p \in Text
  PROVE  /\ Len(p) \in Nat /\ (p # <<>> => Len(p) > 0)
         /\ \A i \in 1..Len(p) : p[i] \in Char \ {"NUL"}
         /\ \A n \in 0..Len(p) : /\ SubSeq(p, 1, n) \in Text /\ Len(SubSeq(p, 1, n)) = n
                                 /\ \A i \in 1..n : SubSeq(p, 1, n)[i] = p[i]
<1>1. /\ Len(p) \in Nat /\ (p # <<>> => Len(p) > 0)
      /\ \A i \in 1..Len(p) : p[i] \in Char \ {"NUL"}
  BY EmptySeq DEF Text
<1>2. ASSUME NEW n \in 0..Len(p)
      PROVE  /\ SubSeq(p, 1, n) \in Text /\ Len(SubSeq(p, 1, n)) = n
             /\ \A i \in 1..n : SubSeq(p, 1, n)[i] = p[i]
  <2>1. \A i \in 1..n : p[i] \in Char \ {"NUL"}
    BY <1>1
  <2>2. QED
    BY <1>1, <2>1, SubSeqProperties DEF Text
<1>3. QED
  BY <1>1, <1>2

LEMMA PrefixFacts ==
  ASSUME NEW p \in Text, NEW u \in Text
  PROVE  IsPrefix(p, u) <=> Len(p) <= Len(u) /\ \A i \in 1..Len(p) : p[i] = u[i]
<1>1. SubSeq(p, 1, Len(p)) = p
  BY SubSeqFull DEF Text
<1>2. CASE Len(p) <= Len(u)
  <2>1. /\ SubSeq(u, 1, Len(p)) \in Text /\ Len(SubSeq(u, 1, Len(p))) = Len(p)
        /\ \A i \in 1..Len(p) : SubSeq(u, 1, Len(p))[i] = u[i]
    BY <1>2, TextFacts
  <2>2. (\A i \in 1..Len(p) : p[i] = SubSeq(u, 1, Len(p))[i]) => p = SubSeq(u, 1, Len(p))
    BY <2>1, SeqEqual DEF Text
  <2>3. QED
    BY <1>1, <1>2, <2>1, <2>2 DEF IsPrefix
<1>3. CASE ~(Len(p) <= Len(u))
  BY <1>3 DEF IsPrefix
<1>4. QED
  BY <1>2, <1>3

(* removeTrailingSlashes keeps a first part of the path, up to slashes only,   *)
(* and of all such parts the shortest.                                         *)
LEMMA SlashesRemoved ==
  ASSUME NEW p \in Text
  PROVE  \E n \in 0..Len(p) :
           /\ removeTrailingSlashes(p) = SubSeq(p, 1, n)
           /\ p # <<>> => n > 0
           /\ \A m \in 1..Len(p) : (\A i \in m + 1..Len(p) : p[i] = "/") => n <= m
<1> DEFINE keeps == {n \in 0..Len(p) :
                       (n > 0 \/ Len(p) = 0) /\ \A i \in n + 1..Len(p) : p[i] = "/"}
           n == CHOOSE n \in keeps : \A m \in keeps : n <= m
<1>1. Len(p) \in Nat /\ (p # <<>> => Len(p) > 0)
  BY TextFacts
<1>2. Len(p) \in keeps /\ keeps \in SUBSET Nat
  BY <1>1
<1>3. \E k \in keeps : \A m \in keeps : k <= m
  <2> HIDE DEF keeps
  <2>1. QED
    BY <1>2, LeastNumber
<1>4. n \in keeps /\ \A m \in keeps : n <= m
  BY <1>3
<1>5. removeTrailingSlashes(p) = SubSeq(p, 1, n)
  BY DEF removeTrailingSlashes
<1> HIDE DEF n
<1>6. QED
  BY <1>1, <1>4, <1>5

LEMMA SlashesRemovedText ==
  ASSUME NEW p \in Text
  PROVE  removeTrailingSlashes(p) \in Text /\ (p # <<>> => removeTrailingSlashes(p) # <<>>)
<1>1. PICK n \in 0..Len(p) : removeTrailingSlashes(p) = SubSeq(p, 1, n) /\ (p # <<>> => n > 0)
  BY SlashesRemoved
<1>2. SubSeq(p, 1, n) \in Text /\ Len(SubSeq(p, 1, n)) = n
  BY TextFacts
<1>3. QED
  BY <1>1, <1>2, EmptySeq DEF Text

(* std::mismatch reaches the end of p if and only if p is a prefix of u, and   *)
(* it reads no further than the NUL at the end of u: p has none.               *)
LEMMA MismatchFacts ==
  ASSUME NEW p \in Text, NEW u \in Text
  PROVE  /\ mismatch(p, u) = Len(p) + 1 <=> IsPrefix(p, u)
         /\ mismatch(p, u) <= Len(p) => mismatch(p, u) <= Len(u) + 1
<1> DEFINE differs == {k \in 1..Len(p) + 1 : k = Len(p) + 1 \/ p[k] # CharAt(u, k)}
           m == mismatch(p, u)
<1>1. Len(p) \in Nat /\ Len(u) \in Nat /\ \A i \in 1..Len(p) : p[i] # "NUL"
  BY TextFacts
<1>2. Len(p) + 1 \in differs /\ differs \in SUBSET Nat
  BY <1>1
<1>3. PICK k \in differs : \A j \in differs : k <= j
  <2> HIDE DEF differs
  <2>1. QED
    BY <1>2, LeastNumber
<1>4. \A j \in 1..k - 1 : p[j] = CharAt(u, j)
  BY <1>1, <1>3
<1>5. /\ m \in 1..Len(p) + 1 /\ (m = Len(p) + 1 \/ p[m] # CharAt(u, m))
      /\ \A j \in 1..m - 1 : p[j] = CharAt(u, j)
  BY <1>3, <1>4 DEF mismatch
<1> HIDE DEF m
<1>6. ASSUME m = Len(p) + 1 PROVE IsPrefix(p, u)
  <2>1. \A j \in 1..Len(p) : j <= Len(u) /\ p[j] = u[j]
    BY <1>1, <1>5, <1>6 DEF CharAt
  <2>2. Len(p) <= Len(u)
    BY <1>1, <2>1
  <2>3. QED
    BY <2>1, <2>2, PrefixFacts
<1>7. ASSUME IsPrefix(p, u), m <= Len(p) PROVE FALSE
  BY <1>1, <1>5, <1>7, PrefixFacts DEF CharAt
<1>8. ASSUME m <= Len(p), ~(m <= Len(u) + 1) PROVE FALSE
  <2>1. Len(u) + 1 \in 1..m - 1 /\ Len(u) + 1 \in 1..Len(p)
    BY <1>1, <1>5, <1>8
  <2>2. QED
    BY <1>1, <1>5, <2>1 DEF CharAt
<1>9. QED
  BY <1>1, <1>5, <1>6, <1>7, <1>8 DEF m

(* The last of the valid statements with a key is one of them. *)
LEMMA MapOfFacts ==
  ASSUME NEW key, NEW valid \in SUBSET Nat, NEW n \in Nat, \A i \in valid : i <= n
  PROVE  /\ \A i \in valid : key[i] \in DOMAIN MapOf(key, valid)
         /\ \A p \in DOMAIN MapOf(key, valid) :
              MapOf(key, valid)[p] \in valid /\ key[MapOf(key, valid)[p]] = p
<1>1. DOMAIN MapOf(key, valid) = {key[i] : i \in valid}
  BY DEF MapOf
<1>2. ASSUME NEW p \in {key[i] : i \in valid}
      PROVE  MapOf(key, valid)[p] \in valid /\ key[MapOf(key, valid)[p]] = p
  <2> DEFINE same == {i \in valid : key[i] = p}
  <2>1. same # {} /\ same \in SUBSET Nat /\ \A i \in same : i <= n
    OBVIOUS
  <2>2. \E i \in same : \A j \in same : j <= i
    <3> HIDE DEF same
    <3>1. QED
      BY <2>1, GreatestNumber
  <2>3. \E i \in valid : key[i] = p /\ \A j \in valid : key[j] = p => j <= i
    BY <2>2
  <2>4. MapOf(key, valid)[p] = CHOOSE i \in valid : key[i] = p /\ \A j \in valid : key[j] = p => j <= i
    BY DEF MapOf
  <2>5. QED
    BY <2>3, <2>4
<1>3. QED
  BY <1>1, <1>2

(* The locations of the maps are the paths of statements, without slashes.     *)
Valid(c) == {i \in DOMAIN c : ValidLocation(c[i])}
ValidKnown(c) == {i \in Valid(c) : c[i].type \in Known}

LEMMA MapFacts ==
  ASSUME NEW c \in Config, NEW s, s = c.statements
  PROVE  /\ \A i \in Valid(s) : Keys(s)[i] \in DOMAIN getArguments(s)
         /\ \A p \in DOMAIN getArguments(s) :
              getArguments(s)[p] \in Valid(s) /\ Keys(s)[getArguments(s)[p]] = p
         /\ \A i \in ValidKnown(s) : Keys(s)[i] \in DOMAIN getFactories(s)
         /\ \A p \in DOMAIN getFactories(s) :
              getFactories(s)[p] \in ValidKnown(s) /\ Keys(s)[getFactories(s)[p]] = p
<1>1. PICK n \in Nat : DOMAIN s = 1..n
  BY ConfigFacts
<1>2. /\ Valid(s) \in SUBSET Nat /\ \A i \in Valid(s) : i <= n
      /\ ValidKnown(s) \in SUBSET Nat /\ \A i \in ValidKnown(s) : i <= n
  BY <1>1 DEF Valid, ValidKnown
<1>3. /\ getArguments(s) = MapOf(Keys(s), Valid(s))
      /\ getFactories(s) = MapOf(Keys(s), ValidKnown(s))
  <2>1. {i \in DOMAIN s : ValidLocation(s[i]) /\ s[i].type \in Known} = ValidKnown(s)
    BY DEF Valid, ValidKnown
  <2>2. QED
    BY <2>1 DEF getArguments, getFactories, Valid
<1>4. /\ \A i \in Valid(s) : Keys(s)[i] \in DOMAIN MapOf(Keys(s), Valid(s))
      /\ \A p \in DOMAIN MapOf(Keys(s), Valid(s)) :
           MapOf(Keys(s), Valid(s))[p] \in Valid(s) /\ Keys(s)[MapOf(Keys(s), Valid(s))[p]] = p
  BY <1>2, MapOfFacts
<1>5. /\ \A i \in ValidKnown(s) : Keys(s)[i] \in DOMAIN MapOf(Keys(s), ValidKnown(s))
      /\ \A p \in DOMAIN MapOf(Keys(s), ValidKnown(s)) :
           /\ MapOf(Keys(s), ValidKnown(s))[p] \in ValidKnown(s)
           /\ Keys(s)[MapOf(Keys(s), ValidKnown(s))[p]] = p
  BY <1>2, MapOfFacts
<1>6. QED
  BY <1>3, <1>4, <1>5

(* A part of a prefix is a prefix. *)
LEMMA PrefixOfPrefix ==
  ASSUME NEW p \in Text, NEW u \in Text, NEW m \in 1..Len(p), NEW n \in 1..m,
         IsPrefix(SubSeq(p, 1, m), u)
  PROVE  IsPrefix(SubSeq(p, 1, n), u)
<1>1. Len(p) \in Nat /\ Len(u) \in Nat /\ m \in 0..Len(p) /\ n \in 0..Len(p)
  BY TextFacts
<1>2. /\ SubSeq(p, 1, m) \in Text /\ Len(SubSeq(p, 1, m)) = m
      /\ \A i \in 1..m : SubSeq(p, 1, m)[i] = p[i]
      /\ SubSeq(p, 1, n) \in Text /\ Len(SubSeq(p, 1, n)) = n
      /\ \A i \in 1..n : SubSeq(p, 1, n)[i] = p[i]
  BY <1>1, TextFacts
<1>3. m <= Len(u) /\ \A i \in 1..m : p[i] = u[i]
  BY <1>2, PrefixFacts
<1>4. n <= Len(u) /\ \A i \in 1..n : SubSeq(p, 1, n)[i] = u[i]
  BY <1>1, <1>2, <1>3
<1>5. QED
  BY <1>2, <1>4, PrefixFacts


-----------------------------------------------------------------------------
(* What the types of the state say, for citing. *)
LEMMA UrlText == \A u \in Url \cup {<<>>} : u \in Text
<1>1. Url \subseteq Text
  BY DispatcherAssumption
<1>2. <<>> \in Text
  BY DEF Text
<1>3. QED
  BY <1>1, <1>2

LEMMA Types ==
  ASSUME DispatcherInv
  PROVE  /\ config \in Config /\ config.statements \in Seq(Statement)
         /\ url \in Url \cup {<<>>} /\ url \in Text
         /\ rest \subseteq DOMAIN factories /\ location \in DOMAIN factories \cup {<<>>}
<1>1. /\ config \in Config /\ url \in Url \cup {<<>>}
      /\ rest \subseteq DOMAIN factories /\ location \in DOMAIN factories \cup {<<>>}
  BY DEF DispatcherInv, TypeOK
<1>2. QED
  BY <1>1, ConfigFacts, UrlText

(* The locations are paths of statements without slashes, and not empty.       *)
LEMMA KeysAreText ==
  ASSUME NEW c \in Config, NEW i \in DOMAIN c.statements
  PROVE  Keys(c.statements)[i] \in Text /\ Keys(c.statements)[i] # <<>>
<1>1. c.statements[i].path \in Text /\ c.statements[i].path # <<>>
  BY ConfigFacts, StatementFacts
<1>2. QED
  BY <1>1, SlashesRemovedText DEF Keys

LEMMA LocationsAreText ==
  ASSUME NEW c \in Config,
         NEW p \in DOMAIN getArguments(c.statements) \cup DOMAIN getFactories(c.statements)
  PROVE  p \in Text /\ p # <<>>
<1> DEFINE s == c.statements
<1>1. \E i \in Valid(s) : Keys(s)[i] = p
  BY MapFacts DEF ValidKnown
<1>2. QED
  BY <1>1, KeysAreText DEF Valid

LEMMA LocationFacts ==
  ASSUME DispatcherInv
  PROVE  \A p \in DOMAIN factories : p \in Text /\ p # <<>>
<1>1. CASE factories = NoMap
  BY <1>1 DEF NoMap
<1>2. CASE factories = getFactories(config.statements)
  BY <1>2, Types, LocationsAreText
<1>3. QED
  BY <1>1, <1>2 DEF DispatcherInv, MapsAreTheConfigs

(* A location with a factory is that of a valid statement of a known type, and *)
(* its arguments are the block of a valid statement.                           *)
LEMMA FactoryFacts ==
  ASSUME DispatcherInv, NEW p \in DOMAIN factories
  PROVE  /\ p \in DOMAIN arguments
         /\ factories[p] \in ValidKnown(config.statements)
         /\ arguments[p] \in Valid(config.statements)
         /\ arguments = getArguments(config.statements)
         /\ factories = getFactories(config.statements)
<1> DEFINE s == config.statements
<1>1. arguments = getArguments(s) /\ factories = getFactories(s)
  BY DEF DispatcherInv, MapsAreTheConfigs, NoMap
<1>2. factories[p] \in ValidKnown(s) /\ Keys(s)[factories[p]] = p
  BY <1>1, Types, MapFacts
<1>3. p \in DOMAIN arguments
  BY <1>1, <1>2, Types, MapFacts DEF ValidKnown
<1>4. QED
  BY <1>1, <1>2, <1>3, Types, MapFacts

(* What create and handle_request return. *)
LEMMA RootText ==
  ASSUME NEW block \in Seq(Child), NEW r \in root_of(block)
  PROVE  r \in Text
<1>1. block # <<>> /\ r = removeTrailingSlashes(Head(block).value)
  BY DEF root_of
<1>2. Head(block) \in Child
  BY <1>1, HeadTailProperties
<1>3. Head(block).value \in Text
  BY <1>2 DEF Child
<1>4. QED
  BY <1>1, <1>3, SlashesRemovedText

LEMMA CreateFacts ==
  ASSUME NEW type \in Known, NEW block \in Seq(Child), NEW l \in Text, NEW u \in Text,
         NEW h \in create(type, block, l, u)
  PROVE  h.type \in Known /\ h.file \in Text
<1>1. CASE type = "StaticHandler"
  <2>1. PICK r \in root_of(block) : /\ SubSeq(u, 1, Len(l)) = l
                                    /\ h = [type |-> type, file |-> r \o SubSeq(u, Len(l) + 1, Len(u))]
    BY <1>1 DEF create
  <2>2. r \in Text
    BY RootText
  <2>3. SubSeq(u, Len(l) + 1, Len(u)) \in Text
    <3>1. /\ Len(l) + 1 \in Int /\ Len(u) \in Int
          /\ \A i \in Len(l) + 1..Len(u) : u[i] \in Char \ {"NUL"}
      BY TextFacts
    <3>2. QED
      BY <3>1, SubSeqProperties DEF Text
  <2>4. h.file \in Text
    BY <2>1, <2>2, <2>3, ConcatProperties DEF Text
  <2>5. QED
    BY <2>1, <2>4
<1>2. CASE type # "StaticHandler"
  <2>1. h = [type |-> type, file |-> <<>>]
    BY <1>2 DEF create
  <2>2. QED
    BY <2>1, UrlText
<1>3. QED
  BY <1>1, <1>2

LEMMA HandleFacts ==
  ASSUME NEW h, NEW m \in handle(h)
  PROVE  m.status \in Code \cup {"100"} /\ m.res.code \in Code
<1> DEFINE WithCodes(r) == r.status \in Code \cup {"100"} /\ r.res.code \in Code
<1>1. ASSUME NEW s \in Code \cup {"100"}, NEW r, r.code \in Code PROVE WithCodes(Returned(s, r))
  BY <1>1 DEF Returned
<1>2. ASSUME NEW c \in Code, NEW b PROVE Prepared(c, b).code \in Code
  BY DEF Prepared
<1>3. Fresh.code \in Code
  BY DEF Fresh, Code
<1> HIDE DEF WithCodes
<1>4. \A r \in StaticResults(h.file) : WithCodes(r)
  BY <1>1, <1>2, <1>3 DEF StaticResults, Code
<1>5. \A r \in StoreResults : WithCodes(r)
  BY <1>1, <1>2 DEF StoreResults, Code
<1>6. \A r \in CrudResults : WithCodes(r)
  BY <1>1, <1>2, <1>3, <1>5 DEF CrudResults, Code
<1>7. \A r \in MemeResults : WithCodes(r)
  BY <1>1, <1>3, <1>5 DEF MemeResults, Code
<1>8. \A r \in EchoResults \cup HealthResults : WithCodes(r)
  BY <1>1, <1>2 DEF EchoResults, HealthResults, Code
<1>9. \A r \in BlockResults : WithCodes(r)
  BY <1>1, <1>3 DEF BlockResults
<1>10. \A r \in FileNotFoundResults : WithCodes(r)
  <2>1. "404" \in Code
    BY DEF Code
  <2>2. Prepared("404", "").code \in Code
    BY <1>2, <2>1
  <2>3. WithCodes(Returned("404", Prepared("404", "")))
    BY <1>1, <2>1, <2>2
  <2>4. QED
    BY <2>3 DEF FileNotFoundResults
<1>11. WithCodes(m)
  BY <1>4, <1>6, <1>7, <1>8, <1>9, <1>10 DEF handle
<1>12. QED
  BY <1>11 DEF WithCodes

-----------------------------------------------------------------------------
LEMMA InitInv == Init => DispatcherInv
<1> SUFFICES ASSUME Init PROVE DispatcherInv
  OBVIOUS
<1>1. /\ phase = "start" /\ config \in Config /\ arguments = NoMap /\ factories = NoMap
      /\ url = <<>> /\ rest = {} /\ location = <<>> /\ handler = NoHandler
      /\ made = NothingMade /\ res = Fresh
  BY DEF Init
<1>2. DOMAIN factories = {} /\ DOMAIN arguments = {}
  BY <1>1 DEF NoMap
<1>3. TypeOK
  BY <1>1, <1>2, UrlText DEF TypeOK, NoHandler, NothingMade, Fresh, Code
<1>4. MapsAreTheConfigs /\ OneTargetAtATime /\ BestSoFar /\ MatchEnds /\ DispatchedHasLocation
  BY <1>1, <1>2 DEF MapsAreTheConfigs, OneTargetAtATime, BestSoFar, MatchEnds, DispatchedHasLocation
<1>5. QED
  BY <1>3, <1>4 DEF DispatcherInv

(* Nothing of the request has been read or matched before it is dispatched.    *)
LEMMA BetweenRequests ==
  ASSUME DispatcherInv, phase \in {"start", "refused", "configured", "serving"}
  PROVE  url = <<>> /\ rest = {} /\ location = <<>>
BY DEF DispatcherInv, OneTargetAtATime

(* No location is a prefix of no target. *)
LEMMA NoTarget ==
  ASSUME NEW p \in Text, p # <<>>
  PROVE  ~IsPrefix(p, <<>>)
<1>1. Len(p) > 0 /\ Len(p) \in Nat
  BY TextFacts
<1>2. QED
  BY <1>1 DEF IsPrefix

LEMMA KeepMain ==
  ASSUME DispatcherInv, main_refuses \/ main_starts \/ main_serves
  PROVE  DispatcherInv'
<1> USE DEF DispatcherInv
<1>1. CASE main_refuses \/ main_serves
  <2>1. /\ phase \in {"start", "configured"} /\ phase' \in {"refused", "serving"}
        /\ UNCHANGED <<config, arguments, factories, url, rest, location, handler, made, res>>
        /\ phase = "start" => phase' = "refused"
    BY <1>1 DEF main_refuses, main_serves, End, maps, request
  <2>2. TypeOK'
    BY <2>1 DEF TypeOK
  <2>3. MapsAreTheConfigs'
    BY <2>1 DEF MapsAreTheConfigs
  <2>4. (OneTargetAtATime /\ MatchEnds /\ DispatchedHasLocation)'
    BY <2>1 DEF OneTargetAtATime, MatchEnds, DispatchedHasLocation
  <2>5. BestSoFar'
    BY <2>1 DEF BestSoFar
  <2>6. QED
    BY <2>2, <2>3, <2>4, <2>5
<1>2. CASE main_starts
  <2>1. /\ phase = "start" /\ phase' = "configured"
        /\ arguments' = getArguments(config.statements)
        /\ factories' = getFactories(config.statements)
        /\ UNCHANGED <<config, url, rest, location, handler, made, res>>
    BY <1>2 DEF main_starts, request
  <2>2. url = <<>> /\ rest = {} /\ location = <<>>
    BY <2>1, BetweenRequests
  <2>3. \A p \in DOMAIN arguments' \cup DOMAIN factories' : p \in Text /\ p # <<>>
    BY <2>1, Types, LocationsAreText
  <2>4. TypeOK'
    BY <2>1, <2>2, <2>3 DEF TypeOK
  <2>5. MapsAreTheConfigs'
    BY <2>1 DEF MapsAreTheConfigs
  <2>6. (OneTargetAtATime /\ MatchEnds /\ DispatchedHasLocation)'
    BY <2>1, <2>2 DEF OneTargetAtATime, MatchEnds, DispatchedHasLocation
  <2>7. BestSoFar'
    BY <2>1, <2>2, <2>3, NoTarget DEF BestSoFar
  <2>8. QED
    BY <2>4, <2>5, <2>6, <2>7
<1>3. QED
  BY <1>1, <1>2

(* The loop of match starts with all locations before it, ... *)
LEMMA KeepDispatch ==
  ASSUME DispatcherInv, NEW u \in Url, dispatch(u)
  PROVE  DispatcherInv'
<1>1. /\ phase = "serving" /\ phase' = "matching" /\ url' = u /\ rest' = DOMAIN factories
      /\ UNCHANGED <<config, arguments, factories, location, handler, made, res>>
  BY DEF dispatch, maps
<1>2. location = <<>>
  BY <1>1, BetweenRequests
<1>3. TypeOK'
  BY <1>1 DEF DispatcherInv, TypeOK
<1>4. MapsAreTheConfigs'
  BY <1>1 DEF DispatcherInv, MapsAreTheConfigs
<1>5. (OneTargetAtATime /\ MatchEnds /\ DispatchedHasLocation)'
  BY <1>1 DEF OneTargetAtATime, MatchEnds, DispatchedHasLocation
<1>6. BestSoFar'
  BY <1>1, <1>2 DEF BestSoFar
<1>7. QED
  BY <1>3, <1>4, <1>5, <1>6 DEF DispatcherInv

(* ... moves one of them behind it, the best of which it keeps, ... *)
LEMMA KeepMatch ==
  ASSUME DispatcherInv, match
  PROVE  DispatcherInv'
<1>1. PICK p \in rest : /\ rest' = rest \ {p}
                        /\ location' = IF better(location, p, url) THEN p ELSE location
  BY DEF match
<1>2. /\ phase = "matching"
      /\ UNCHANGED <<phase, config, arguments, factories, url, handler, made, res>>
  BY DEF match, maps
<1>3. p \in DOMAIN factories /\ p \in Text /\ p # <<>>
  BY Types, LocationFacts
<1>4. TypeOK'
  BY <1>1, <1>2, <1>3 DEF DispatcherInv, TypeOK
<1>5. MapsAreTheConfigs'
  BY <1>2 DEF DispatcherInv, MapsAreTheConfigs
<1>6. (OneTargetAtATime /\ MatchEnds /\ DispatchedHasLocation)'
  BY <1>2 DEF OneTargetAtATime, MatchEnds, DispatchedHasLocation
<1>7. better(location, p, url) <=> IsPrefix(p, url) /\ Len(p) >= Len(location)
  BY <1>3, Types, MismatchFacts DEF better
<1>8. BestSoFar'
  <2> DEFINE seen == {q \in DOMAIN factories \ rest : IsPrefix(q, url)}
             later == {q \in DOMAIN factories \ (rest \ {p}) : IsPrefix(q, url)}
  <2>1. later = IF IsPrefix(p, url) THEN seen \cup {p} ELSE seen
    BY <1>3
  <2>2. \/ location = <<>> /\ seen = {}
        \/ location \in seen /\ \A q \in seen : Len(q) <= Len(location)
    BY DEF DispatcherInv, BestSoFar
  <2>3. BestSoFar' <=> \/ location' = <<>> /\ later = {}
                       \/ location' \in later /\ \A q \in later : Len(q) <= Len(location')
    BY <1>1, <1>2 DEF BestSoFar
  <2>4. Len(p) \in Nat /\ Len(<<>>) = 0 /\ \A q \in seen : Len(q) \in Nat
    BY <1>3, LocationFacts, TextFacts
  <2> HIDE DEF seen, later
  <2>5. CASE location = <<>> /\ seen = {}
    BY <1>1, <1>7, <2>1, <2>3, <2>4, <2>5
  <2>6. CASE location \in seen /\ \A q \in seen : Len(q) <= Len(location)
    BY <1>1, <1>7, <2>1, <2>3, <2>4, <2>6
  <2>7. QED
    BY <2>2, <2>5, <2>6
<1>9. QED
  BY <1>4, <1>5, <1>6, <1>8 DEF DispatcherInv

(* ... and ends when there are none before it. *)
LEMMA KeepMatched ==
  ASSUME DispatcherInv, matched
  PROVE  DispatcherInv'
<1>1. /\ phase = "matching" /\ rest = {}
      /\ UNCHANGED <<config, arguments, factories, url, rest, location, handler, made>>
      /\ \/ location = <<>> /\ phase' = "sent" /\ res' = Prepared("404", "404")
         \/ location # <<>> /\ phase' = "dispatched" /\ res' = res
  BY DEF matched, maps, request
<1>2. TypeOK'
  <2>1. res'.code \in Code
    BY <1>1 DEF DispatcherInv, TypeOK, Prepared, Code
  <2>2. QED
    BY <1>1, <2>1 DEF DispatcherInv, TypeOK
<1>3. MapsAreTheConfigs'
  BY <1>1 DEF DispatcherInv, MapsAreTheConfigs
<1>4. (OneTargetAtATime /\ MatchEnds /\ DispatchedHasLocation)'
  BY <1>1 DEF OneTargetAtATime, MatchEnds, DispatchedHasLocation
<1>5. BestSoFar'
  BY <1>1 DEF DispatcherInv, BestSoFar
<1>6. QED
  BY <1>2, <1>3, <1>4, <1>5 DEF DispatcherInv

(* create_handler: the handler is of a known type, for a text. *)
LEMMA KeepCreateHandler ==
  ASSUME DispatcherInv, create_handler
  PROVE  DispatcherInv'
<1> DEFINE s == config.statements
           handlers == create(s[factories[location]].type, s[arguments[location]].block,
                              location, url)
<1>1. /\ phase = "dispatched"
      /\ \/ handler' \in handlers /\ phase' = "created"
         \/ phase' = "null handler" /\ handler' = handler
      /\ UNCHANGED <<config, arguments, factories, url, rest, location, made, res>>
  BY DEF create_handler, End, maps
<1>2. location \in DOMAIN factories /\ location # <<>>
  BY <1>1, Types DEF DispatcherInv, DispatchedHasLocation
<1>3. s[factories[location]].type \in Known
  BY <1>2, FactoryFacts DEF ValidKnown
<1>4. s[arguments[location]].block \in Seq(Child)
  <2>1. arguments[location] \in DOMAIN s /\ ValidLocation(s[arguments[location]])
    BY <1>2, FactoryFacts DEF Valid
  <2>2. s[arguments[location]].block \in {Null} \cup Seq(Child)
    BY <2>1, Types, ConfigFacts, StatementFacts
  <2>3. QED
    BY <2>1, <2>2 DEF ValidLocation
<1>5. location \in Text /\ url \in Text
  BY <1>2, LocationFacts, Types
<1>6. \A h \in handlers : h.type \in Known /\ h.file \in Text
  BY <1>3, <1>4, <1>5, CreateFacts
<1> HIDE DEF handlers, s
<1>7. TypeOK'
  <2>1. /\ config \in Config /\ url \in Url \cup {<<>>}
        /\ <<>> \notin DOMAIN arguments \cup DOMAIN factories
        /\ rest \subseteq DOMAIN factories /\ location \in DOMAIN factories \cup {<<>>}
        /\ handler.type \in Known \cup {"none"} /\ handler.file \in Text
        /\ made.status \in Code \cup {"100", "none"} /\ {made.res.code, res.code} \subseteq Code
    BY DEF DispatcherInv, TypeOK
  <2>2. handler'.type \in Known \cup {"none"} /\ handler'.file \in Text
    BY <1>1, <1>6, <2>1
  <2>3. QED
    BY <1>1, <2>1, <2>2 DEF TypeOK
<1>8. MapsAreTheConfigs'
  BY <1>1 DEF DispatcherInv, MapsAreTheConfigs
<1>9. (OneTargetAtATime /\ MatchEnds /\ DispatchedHasLocation)'
  BY <1>1, <1>2 DEF DispatcherInv, OneTargetAtATime, MatchEnds, DispatchedHasLocation
<1>10. BestSoFar'
  BY <1>1 DEF DispatcherInv, BestSoFar
<1>11. QED
  BY <1>7, <1>8, <1>9, <1>10 DEF DispatcherInv

(* handle_request: what a handler returned, and what the switch made of it,    *)
(* has one of the status codes.                                                *)
LEMMA KeepHandleRequest ==
  ASSUME DispatcherInv, handle_request
  PROVE  DispatcherInv'
<1>1. /\ phase = "created" /\ phase' \in {"sent", "exception"}
      /\ \/ made' \in handle(handler) /\ res' = Switched(made')
         \/ made' = made /\ res' = res
      /\ UNCHANGED <<config, arguments, factories, url, rest, location, handler>>
  BY DEF handle_request, End, maps
<1>2. TypeOK'
  <2>1. made.status \in Code \cup {"100", "none"} /\ made.res.code \in Code /\ res.code \in Code
    BY DEF DispatcherInv, TypeOK
  <2>2. CASE made' \in handle(handler) /\ res' = Switched(made')
    <3>1. made'.status \in Code \cup {"100"} /\ made'.res.code \in Code
      BY <2>2, HandleFacts
    <3>2. Switched(made').code \in Code
      BY <3>1 DEF Switched, Code
    <3>3. QED
      BY <1>1, <2>2, <3>1, <3>2 DEF DispatcherInv, TypeOK
  <2>3. CASE made' = made /\ res' = res
    BY <1>1, <2>3 DEF DispatcherInv, TypeOK
  <2>4. QED
    BY <1>1, <2>2, <2>3
<1>3. MapsAreTheConfigs'
  BY <1>1 DEF DispatcherInv, MapsAreTheConfigs
<1>4. (OneTargetAtATime /\ MatchEnds /\ DispatchedHasLocation)'
  BY <1>1 DEF DispatcherInv, OneTargetAtATime, MatchEnds, DispatchedHasLocation
<1>5. BestSoFar'
  BY <1>1 DEF DispatcherInv, BestSoFar
<1>6. QED
  BY <1>2, <1>3, <1>4, <1>5 DEF DispatcherInv

LEMMA KeepNextRequest ==
  ASSUME DispatcherInv, next_request
  PROVE  DispatcherInv'
<1>1. /\ phase = "sent" /\ phase' = "serving" /\ url' = <<>> /\ location' = <<>>
      /\ handler' = NoHandler /\ made' = NothingMade /\ res' = Fresh
      /\ UNCHANGED <<config, arguments, factories, rest>>
  BY DEF next_request, maps
<1>2. TypeOK'
  <2>1. /\ NoHandler.type = "none" /\ NoHandler.file \in Text
        /\ NothingMade.status = "none" /\ NothingMade.res.code \in Code /\ Fresh.code \in Code
    BY UrlText DEF NoHandler, NothingMade, Fresh, Code
  <2>2. QED
    BY <1>1, <2>1 DEF DispatcherInv, TypeOK
<1>3. MapsAreTheConfigs'
  BY <1>1 DEF DispatcherInv, MapsAreTheConfigs
<1>4. rest = {}
  BY <1>1 DEF DispatcherInv, MatchEnds
<1>5. (OneTargetAtATime /\ MatchEnds /\ DispatchedHasLocation)'
  BY <1>1, <1>4 DEF OneTargetAtATime, MatchEnds, DispatchedHasLocation
<1>6. BestSoFar'
  BY <1>1, LocationFacts, NoTarget DEF BestSoFar
<1>7. QED
  BY <1>2, <1>3, <1>5, <1>6 DEF DispatcherInv

LEMMA NextInv == DispatcherInv /\ [Next]_vars => DispatcherInv'
<1> SUFFICES ASSUME DispatcherInv, [Next]_vars PROVE DispatcherInv'
  OBVIOUS
<1>1. CASE main_refuses \/ main_starts \/ main_serves
  BY <1>1, KeepMain
<1>2. CASE (\E u \in Url : dispatch(u)) \/ match \/ matched
  BY <1>2, KeepDispatch, KeepMatch, KeepMatched
<1>3. CASE create_handler \/ handle_request \/ next_request
  BY <1>3, KeepCreateHandler, KeepHandleRequest, KeepNextRequest
<1>4. CASE UNCHANGED vars
  <2>1. UNCHANGED <<phase, config, arguments, factories, url, rest, location, handler, made, res>>
    BY <1>4 DEF vars, maps, request
  <2>2. QED
    BY <2>1 DEF DispatcherInv, TypeOK, MapsAreTheConfigs, OneTargetAtATime, BestSoFar, MatchEnds,
                DispatchedHasLocation
<1>5. QED
  BY <1>1, <1>2, <1>3, <1>4 DEF Next

-----------------------------------------------------------------------------
(* From the start of main to any response: the maps are the configuration's,   *)
(* and match has the best of the locations that it has seen.                   *)
THEOREM Invariance == Spec => []DispatcherInv
BY InitInv, NextInv, PTL DEF Spec

(* Every variable keeps its type: only a location that has a factory, and no   *)
(* target without one, gets past the dispatcher.                               *)
THEOREM TypeCorrect == Spec => []TypeOK
<1>1. DispatcherInv => TypeOK
  BY DEF DispatcherInv
<1>2. QED
  BY <1>1, Invariance, PTL

(* match finds the longest location that is a prefix of the target, and the    *)
(* comparison, which is not told where the target ends, stops there.           *)
THEOREM Matching == Spec => []MatchIsLongest
<1>1. DispatcherInv => MatchIsLongest
  <2> SUFFICES ASSUME DispatcherInv, phase \in {"dispatched", "sent"} PROVE MatchIsLongest
    BY DEF MatchIsLongest
  <2> DEFINE prefixes == {p \in DOMAIN factories : IsPrefix(p, url)}
  <2>1. rest = {}
    BY DEF DispatcherInv, MatchEnds
  <2>2. \/ location = <<>> /\ prefixes = {}
        \/ location \in prefixes /\ \A p \in prefixes : Len(p) <= Len(location)
    BY <2>1 DEF DispatcherInv, BestSoFar
  <2>3. \A p \in DOMAIN factories : p \in Text /\ p # <<>>
    BY LocationFacts
  <2>4. \A p \in DOMAIN factories : mismatch(p, url) <= Len(p) => mismatch(p, url) <= Len(url) + 1
    BY <2>3, Types, MismatchFacts
  <2>5. /\ location = <<>> <=> prefixes = {}
        /\ location # <<>> => location \in prefixes /\ \A p \in prefixes : Len(p) <= Len(location)
    BY <2>2, <2>3
  <2>6. QED
    BY <2>4, <2>5 DEF MatchIsLongest
<1>2. QED
  BY <1>1, Invariance, PTL

(* create_handler looks a location up in both maps with operator[], which      *)
(* would insert, on all worker threads: it is in both.                         *)
THEOREM ArgumentsCover == Spec => []ArgumentsCoverFactories
<1>1. DispatcherInv => ArgumentsCoverFactories
  BY FactoryFacts DEF ArgumentsCoverFactories
<1>2. QED
  BY <1>1, Invariance, PTL

(* What the configuration names is served: match would have found the key of   *)
(* its path, because that is a part of what the target begins with.            *)
THEOREM Configured == Spec => []ConfiguredIsServed
<1>1. ASSUME DispatcherInv, MatchIsLongest, phase = "sent", location = <<>>,
             NEW i \in DOMAIN config.statements, ValidLocation(config.statements[i]),
             config.statements[i].type \in Known,
             NEW n \in 1..Len(config.statements[i].path),
             \A k \in n + 1..Len(config.statements[i].path) : config.statements[i].path[k] = "/"
      PROVE  ~IsPrefix(SubSeq(config.statements[i].path, 1, n), url)
  <2> DEFINE s == config.statements
             path == s[i].path
  <2>1. path \in Text /\ path # <<>>
    BY <1>1, Types, ConfigFacts, StatementFacts
  <2>2. factories = getFactories(s)
    BY <1>1 DEF DispatcherInv, MapsAreTheConfigs
  <2>3. i \in ValidKnown(s)
    BY <1>1 DEF ValidKnown, Valid
  <2>4. PICK n0 \in 0..Len(path) :
          removeTrailingSlashes(path) = SubSeq(path, 1, n0) /\ n0 > 0 /\ n0 <= n
    BY <1>1, <2>1, SlashesRemoved
  <2>5. Keys(s)[i] = SubSeq(path, 1, n0)
    BY <2>4 DEF Keys
  <2>6. SubSeq(path, 1, n0) \in DOMAIN factories
    <3>1. Keys(s)[i] \in DOMAIN getFactories(s)
      BY <1>1, <2>3, Types, MapFacts
    <3>2. QED
      BY <2>2, <2>5, <3>1
  <2>7. ~IsPrefix(SubSeq(path, 1, n0), url)
    BY <1>1, <2>6 DEF MatchIsLongest
  <2>8. n \in 1..Len(path) /\ n0 \in 1..n
    BY <2>1, <2>4, TextFacts
  <2>9. QED
    BY <1>1, <2>1, <2>7, <2>8, Types, PrefixOfPrefix
<1>2. DispatcherInv /\ MatchIsLongest => ConfiguredIsServed
  BY <1>1 DEF ConfiguredIsServed
<1>3. QED
  BY <1>2, Invariance, Matching, PTL

(* A handler is created for every target that is dispatched, if all statements *)
(* are in order: all types are known, so that both maps are made of the same   *)
(* statements, and the block has a root.                                       *)
LEMMA CreateGood ==
  ASSUME DispatcherInv, MatchIsLongest, phase = "dispatched", Good(config.statements)
  PROVE  create(config.statements[factories[location]].type,
                config.statements[arguments[location]].block, location, url) # {}
<1> DEFINE s == config.statements
           i == factories[location]
<1>1. location \in DOMAIN factories /\ IsPrefix(location, url)
  BY DEF MatchIsLongest, DispatcherInv, DispatchedHasLocation
<1>2. arguments = getArguments(s) /\ factories = getFactories(s) /\ i \in ValidKnown(s)
  BY <1>1, FactoryFacts
<1>3. arguments[location] = i
  <2>1. {k \in DOMAIN s : ValidLocation(s[k])} =
        {k \in DOMAIN s : ValidLocation(s[k]) /\ s[k].type \in Known}
    BY DEF Good
  <2>2. getArguments(s) = getFactories(s)
    BY <2>1 DEF getArguments, getFactories
  <2>3. QED
    BY <1>2, <2>2
<1>4. s[i].type \in Known /\ (s[i].type \in NeedsRoot => root_of(s[i].block) # {})
  <2>1. i \in DOMAIN s /\ ValidLocation(s[i]) /\ s[i].type \in Known
    BY <1>2 DEF ValidKnown, Valid
  <2>2. s[i].type \in NeedsRoot =>
          s[i].block # <<>> /\ s[i].block[1].two /\ s[i].block[1].root
    BY <2>1 DEF Good
  <2>3. ASSUME s[i].type \in NeedsRoot PROVE root_of(s[i].block) # {}
    <3>1. s[i].block \in Seq(Child)
      BY <2>1, Types, ConfigFacts, StatementFacts DEF ValidLocation
    <3>2. Head(s[i].block) = s[i].block[1]
      BY <3>1
    <3>3. QED
      BY <2>2, <2>3, <3>2 DEF root_of
  <2>4. QED
    BY <2>1, <2>3
<1>5. SubSeq(url, 1, Len(location)) = location
  <2>1. SubSeq(location, 1, Len(location)) = SubSeq(url, 1, Len(location))
    BY <1>1 DEF IsPrefix
  <2>2. location \in Text
    BY <1>1, LocationFacts
  <2>3. QED
    BY <2>1, <2>2, SubSeqFull DEF Text
<1>6. CASE s[i].type = "StaticHandler"
  <2>1. {r \in root_of(s[i].block) : SubSeq(url, 1, Len(location)) = location} # {}
    BY <1>4, <1>5, <1>6 DEF NeedsRoot
  <2>2. QED
    BY <1>3, <1>6, <2>1 DEF create
<1>7. CASE s[i].type \in NeedsRoot \ {"StaticHandler"}
  <2>1. root_of(s[i].block) # {}
    BY <1>4, <1>7
  <2>2. QED
    BY <1>3, <1>7, <2>1 DEF create, NeedsRoot
<1>8. CASE s[i].type \notin NeedsRoot
  BY <1>3, <1>8 DEF create, NeedsRoot
<1>9. QED
  BY <1>6, <1>7, <1>8

(* No null handler is called when the configuration is in order.               *)
THEOREM GoodServes == Spec => []GoodConfigServes
<1>1. Init => GoodConfigServes
  BY DEF Init, GoodConfigServes
<1>2. ASSUME DispatcherInv, MatchIsLongest, GoodConfigServes, [Next]_vars
      PROVE  GoodConfigServes'
  <2> SUFFICES ASSUME phase' = "null handler" PROVE ~Good(config.statements)'
    BY DEF GoodConfigServes
  <2>1. CASE create_handler
    <3>1. phase = "dispatched" /\ config' = config
      BY <2>1 DEF create_handler
    <3>2. create(config.statements[factories[location]].type,
                 config.statements[arguments[location]].block, location, url) = {}
      BY <2>1 DEF create_handler
    <3>3. QED
      BY <1>2, <3>1, <3>2, CreateGood
  <2>2. CASE UNCHANGED vars
    BY <1>2, <2>2 DEF vars, GoodConfigServes
  <2>3. CASE main_refuses \/ main_starts \/ main_serves \/ (\E u \in Url : dispatch(u))
    BY <2>3 DEF main_refuses, main_starts, main_serves, dispatch, End
  <2>4. CASE match \/ matched \/ handle_request \/ next_request
    BY <2>4 DEF match, matched, handle_request, next_request, End
  <2>5. QED
    BY <1>2, <2>1, <2>2, <2>3, <2>4 DEF Next
<1>3. QED
  BY <1>1, <1>2, Invariance, Matching, PTL DEF Spec
=============================================================================
