-------------------------- MODULE CrudTargetProofs --------------------------
(***************************************************************************)
(* Proofs about CrudTarget, for any targets, any files on the disk, any    *)
(* bodies, any width of int and any number of requests: stoi reads back    *)
(* what to_string has printed, the four parsers of targets agree, what is  *)
(* on the disk and what a GET answers are what the responses have said,    *)
(* and a listing names ids that files have had.                            *)
(* The first half is about texts and vectors: digits and numbers, slashes, *)
(* sorting.  In the second half the theorems about the responses ask for   *)
(* CanonicalTargets of the PUTs and the one about listings for             *)
(* NumberedNames of the files found; MCCrudTargetPut.cfg and               *)
(* MCCrudTargetForeign.cfg show what happens without.                      *)
(***************************************************************************)
EXTENDS CrudTarget, NumberLemmas, SequenceTheorems

(* Induction over the naturals, said with a set instead of an operator: the least *)
(* number outside the set would contradict the step. *)
LEMMA SetInduction ==
  ASSUME NEW T, \A n \in Nat : (\A m \in 0..(n - 1) : m \in T) => n \in T
  PROVE  \A n \in Nat : n \in T
<1> DEFINE Rest == {n \in Nat : n \notin T}
<1>1. SUFFICES ASSUME Rest # {} PROVE FALSE
  OBVIOUS
<1>2. PICK n \in Rest : \A k \in Rest : n <= k
  BY <1>1, LeastNumber
<1>3. \A m \in 0..(n - 1) : m \in T
  BY <1>2
<1>4. QED
  BY <1>2, <1>3

(* The ten digits are different characters, and none of them is a sign or a slash. *)
LEMMA DigitChars ==
  /\ DOMAIN DigitChar = 1..10
  /\ DigitChar[1] = "0" /\ DigitChar[2] = "1" /\ DigitChar[3] = "2" /\ DigitChar[4] = "3"
  /\ DigitChar[5] = "4" /\ DigitChar[6] = "5" /\ DigitChar[7] = "6" /\ DigitChar[8] = "7"
  /\ DigitChar[9] = "8" /\ DigitChar[10] = "9"
  BY DEF DigitChar

(* The digits differ from each other, and from a slash and a sign. *)
LEMMA DigitsDiffer ==
  /\ \A i, j \in 1..10 : DigitChar[i] = DigitChar[j] => i = j
  /\ \A i \in 1..10 : DigitChar[i] \notin {"/", "+", "-"}
<1>1. \A i \in 1..10 : \/ i = 1 \/ i = 2 \/ i = 3 \/ i = 4 \/ i = 5
                       \/ i = 6 \/ i = 7 \/ i = 8 \/ i = 9 \/ i = 10
  OBVIOUS
<1>2. \A i \in 1..10 : DigitChar[i] \notin {"/", "+", "-"}
  BY <1>1, DigitChars
<1>3. ASSUME NEW i \in 1..10, NEW j \in 1..10, DigitChar[i] = DigitChar[j]
      PROVE  i = j
  BY <1>1, <1>3, DigitChars
<1>4. QED
  BY <1>2, <1>3

(* The value of a digit is where it stands among them. *)
LEMMA DigitFacts ==
  ASSUME NEW d \in 0..9
  PROVE  /\ DigitChar[d + 1] \in ToSet(DigitChar)
         /\ DigitValue(DigitChar[d + 1]) = d
<1>1. d + 1 \in 1..10
  OBVIOUS
<1>2. DigitChar[d + 1] \in ToSet(DigitChar)
  BY <1>1, DigitChars DEF ToSet
<1>3. (CHOOSE k \in 1..10 : DigitChar[k] = DigitChar[d + 1]) = d + 1
  BY <1>1, DigitsDiffer
<1>4. DigitValue(DigitChar[d + 1]) = (d + 1) - 1
  BY <1>3, Zenon DEF DigitValue
<1>5. QED
  BY <1>2, <1>4

-----------------------------------------------------------------------------
(* Numbers and their digits. *)
Digit == ToSet(DigitChar)

(* Every digit has a value below ten, and the value has the digit. *)
LEMMA DigitIsNumber ==
  ASSUME NEW c \in Digit
  PROVE  DigitValue(c) \in 0..9 /\ c = DigitChar[DigitValue(c) + 1]
<1>1. PICK i \in 1..10 : c = DigitChar[i]
  BY DigitChars DEF Digit, ToSet
<1>2. i - 1 \in 0..9 /\ (i - 1) + 1 = i
  OBVIOUS
<1>3. DigitValue(DigitChar[(i - 1) + 1]) = i - 1
  BY <1>2, DigitFacts
<1>4. QED
  BY <1>1, <1>2, <1>3

(* The loop over the digits of a text reads a number. *)
LEMMA NumbersExist ==
  ASSUME NEW s \in Seq(Digit)
  PROVE  \E v \in [0..Len(s) -> Nat] :
           v = [k \in 0..Len(s) |-> IF k = 0 THEN 0 ELSE 10 * v[k - 1] + DigitValue(s[k])]
<1> DEFINE Reads(v, n) == \A k \in 0..n : v[k] = IF k = 0 THEN 0 ELSE 10 * v[k - 1] + DigitValue(s[k])
<1> DEFINE T == {n \in Nat : n <= Len(s) => \E v \in [0..n -> Nat] : Reads(v, n)}
<1>1. Len(s) \in Nat /\ \A k \in 1..Len(s) : DigitValue(s[k]) \in Nat
  <2>1. Len(s) \in Nat /\ \A k \in 1..Len(s) : s[k] \in Digit
    BY ElementOfSeq, LenProperties
  <2>2. QED
    BY <2>1, DigitIsNumber
<1>2. ASSUME NEW n \in Nat, \A m \in 0..(n - 1) : m \in T
      PROVE  n \in T
  <2>1. CASE n > Len(s)
    BY <2>1, <1>1
  <2>2. CASE n = 0
    <3>1. [k \in 0..n |-> 0] \in [0..n -> Nat] /\ Reads([k \in 0..n |-> 0], n)
      BY <2>2
    <3>2. QED
      BY <3>1
  <2>3. CASE n # 0 /\ n <= Len(s)
    <3>1. PICK v \in [0..(n - 1) -> Nat] : Reads(v, n - 1)
      <4>1. n - 1 \in 0..(n - 1) /\ n - 1 <= Len(s)
        BY <2>3, <1>1
      <4>2. n - 1 \in T
        BY <4>1, <1>2
      <4>3. QED
        BY <4>1, <4>2
    <3> DEFINE w == [k \in 0..n |-> IF k < n THEN v[k] ELSE 10 * v[n - 1] + DigitValue(s[n])]
    <3>2. w \in [0..n -> Nat]
      BY <1>1, <2>3
    <3>3. Reads(w, n)
      BY <2>3, <3>1
    <3>4. QED
      BY <3>2, <3>3
  <2>4. QED
    BY <1>1, <2>1, <2>2, <2>3
<1>3. Len(s) \in T
  <2> HIDE DEF T
  <2>1. \A n \in Nat : n \in T
    BY <1>2, SetInduction
  <2>2. QED
    BY <1>1, <2>1
<1>4. PICK v \in [0..Len(s) -> Nat] : Reads(v, Len(s))
  BY <1>1, <1>3
<1>5. v = [k \in 0..Len(s) |-> v[k]]
  OBVIOUS
<1>6. v = [k \in 0..Len(s) |-> IF k = 0 THEN 0 ELSE 10 * v[k - 1] + DigitValue(s[k])]
  BY <1>4, <1>5
<1>7. QED
  BY <1>6

(* The loop over the digits of a text, digit by digit. *)
LEMMA NumbersRead ==
  ASSUME NEW s \in Seq(Digit)
  PROVE  /\ Numbers(s)[0] = 0
         /\ \A k \in 0..Len(s) : Numbers(s)[k] \in Nat
         /\ \A k \in 1..Len(s) : Numbers(s)[k] = 10 * Numbers(s)[k - 1] + DigitValue(s[k])
<1> DEFINE F(v) == [k \in 0..Len(s) |-> IF k = 0 THEN 0 ELSE 10 * v[k - 1] + DigitValue(s[k])]
<1>1. Numbers(s) = CHOOSE v : v = F(v)
  BY DEF Numbers
<1>2. \E v : v = F(v)
  BY NumbersExist
<1>3. Numbers(s) = F(Numbers(s))
  <2> HIDE DEF F
  <2>1. QED
    BY <1>1, <1>2, Zenon
<1>4. Len(s) \in Nat /\ \A k \in 1..Len(s) : DigitValue(s[k]) \in Nat
  <2>1. Len(s) \in Nat /\ \A k \in 1..Len(s) : s[k] \in Digit
    BY ElementOfSeq, LenProperties
  <2>2. QED
    BY <2>1, DigitIsNumber
<1>5. \A k \in 0..Len(s) : Numbers(s)[k] = IF k = 0 THEN 0 ELSE 10 * Numbers(s)[k - 1] + DigitValue(s[k])
  BY <1>3
<1>6. Numbers(s)[0] = 0
  BY <1>4, <1>5
<1>7. \A k \in 1..Len(s) : Numbers(s)[k] = 10 * Numbers(s)[k - 1] + DigitValue(s[k])
  BY <1>4, <1>5
<1>8. \A k \in 0..Len(s) : Numbers(s)[k] \in Nat
  <2> DEFINE T == {n \in Nat : n <= Len(s) => Numbers(s)[n] \in Nat}
  <2>1. ASSUME NEW n \in Nat, \A m \in 0..(n - 1) : m \in T
        PROVE  n \in T
    <3>1. CASE n = 0 \/ n > Len(s)
      BY <3>1, <1>4, <1>6
    <3>2. CASE n # 0 /\ n <= Len(s)
      <4>1. n - 1 \in T /\ n - 1 <= Len(s) /\ n \in 1..Len(s)
        BY <3>2, <2>1, <1>4
      <4>2. QED
        BY <4>1, <1>4, <1>7
    <3>3. QED
      BY <3>1, <3>2, <1>4
  <2>2. \A n \in Nat : n \in T
    <3> HIDE DEF T
    <3>1. QED
      BY <2>1, SetInduction
  <2>3. QED
    BY <2>2, <1>4
<1>9. QED
  BY <1>6, <1>7, <1>8

(* What a text says does not depend on what comes after it. *)
LEMMA NumbersOfPrefix ==
  ASSUME NEW s \in Seq(Digit), NEW c \in Digit
  PROVE  \A k \in 0..Len(s) : Numbers(Append(s, c))[k] = Numbers(s)[k]
<1> DEFINE t == Append(s, c)
<1>1. /\ t \in Seq(Digit) /\ Len(t) = Len(s) + 1 /\ Len(s) \in Nat
      /\ \A k \in 1..Len(s) : t[k] = s[k]
  BY AppendProperties, LenProperties
<1> HIDE DEF t
<1> DEFINE T == {n \in Nat : n <= Len(s) => Numbers(t)[n] = Numbers(s)[n]}
<1>2. ASSUME NEW n \in Nat, \A m \in 0..(n - 1) : m \in T
      PROVE  n \in T
  <2>1. CASE n = 0 \/ n > Len(s)
    BY <2>1, <1>1, NumbersRead
  <2>2. CASE n # 0 /\ n <= Len(s)
    <3>1. n - 1 \in T /\ n - 1 <= Len(s) /\ n \in 1..Len(s) /\ n \in 1..Len(t)
      BY <2>2, <1>2, <1>1
    <3>2. /\ Numbers(s)[n] = 10 * Numbers(s)[n - 1] + DigitValue(s[n])
          /\ Numbers(t)[n] = 10 * Numbers(t)[n - 1] + DigitValue(t[n])
      BY <3>1, <1>1, NumbersRead
    <3>3. QED
      BY <3>1, <3>2, <1>1
  <2>3. QED
    BY <2>1, <2>2, <1>1
<1>3. \A n \in Nat : n \in T
  <2> HIDE DEF T
  <2>1. QED
    BY <1>2, SetInduction
<1>4. QED
  BY <1>3, <1>1 DEF t

(* The number of one digit, and of a text with a digit more. *)
LEMMA NumberOfDigits ==
  /\ \A c \in Digit : Number(<<c>>) = DigitValue(c)
  /\ \A s \in Seq(Digit), c \in Digit : Number(Append(s, c)) = 10 * Number(s) + DigitValue(c)
<1>1. ASSUME NEW c \in Digit PROVE Number(<<c>>) = DigitValue(c)
  <2> DEFINE t == <<c>>
  <2>1. t \in Seq(Digit) /\ Len(t) = 1 /\ t[1] = c
    OBVIOUS
  <2>2. Numbers(t)[0] = 0 /\ Numbers(t)[1] = 10 * Numbers(t)[1 - 1] + DigitValue(t[1])
    <3> HIDE DEF t
    <3>1. 1 \in 1..Len(t)
      BY <2>1
    <3>2. QED
      BY <2>1, <3>1, NumbersRead
  <2>3. DigitValue(c) \in Int
    BY DigitIsNumber
  <2>4. QED
    BY <2>1, <2>2, <2>3 DEF Number
<1>2. ASSUME NEW s \in Seq(Digit), NEW c \in Digit
      PROVE  Number(Append(s, c)) = 10 * Number(s) + DigitValue(c)
  <2> DEFINE t == Append(s, c)
  <2>1. /\ t \in Seq(Digit) /\ Len(t) = Len(s) + 1 /\ Len(s) \in Nat /\ t[Len(t)] = c
    BY AppendProperties, LenProperties
  <2>2. Numbers(t)[Len(s)] = Numbers(s)[Len(s)]
    BY <2>1, NumbersOfPrefix
  <2>3. Numbers(t)[Len(t)] = 10 * Numbers(t)[Len(t) - 1] + DigitValue(t[Len(t)])
    <3> HIDE DEF t
    <3>1. Len(t) \in 1..Len(t)
      BY <2>1
    <3>2. QED
      BY <2>1, <3>1, NumbersRead
  <2>4. QED
    BY <2>1, <2>2, <2>3 DEF Number
<1>3. QED
  BY <1>1, <1>2

(* to_string of a number that is not negative: its digits exist, because the    *)
(* number without its last digit is less.                                      *)
LEMMA DigitsExist ==
  \E f : f = [n \in Nat |-> IF n < 10 THEN <<DigitChar[n + 1]>>
                            ELSE Append(f[n \div 10], DigitChar[(n % 10) + 1])]
<1> DEFINE Step(f, m) == IF m < 10 THEN <<DigitChar[m + 1]>>
                         ELSE Append(f[m \div 10], DigitChar[(m % 10) + 1])
<1> DEFINE Writes(f, n) == \A m \in 0..n : f[m] = Step(f, m)
<1> DEFINE Upto(n) == {f \in [0..n -> Seq(Digit)] : Writes(f, n)}
<1>1. ASSUME NEW m \in Nat
      PROVE  /\ m \div 10 \in 0..m /\ m % 10 \in 0..9
             /\ m >= 10 => m \div 10 \in 0..(m - 1)
             /\ m < 10 => DigitChar[m + 1] \in Digit
             /\ DigitChar[(m % 10) + 1] \in Digit
  <2>1. m \div 10 \in 0..m /\ m % 10 \in 0..9 /\ (m >= 10 => m \div 10 \in 0..(m - 1))
    OBVIOUS
  <2>2. m < 10 => m \in 0..9
    OBVIOUS
  <2>3. QED
    BY <2>1, <2>2, DigitFacts DEF Digit
<1>2. ASSUME NEW n \in Nat, NEW f \in Upto(n), NEW k \in Nat, NEW g \in Upto(k)
      PROVE  \A m \in Nat : m <= n /\ m <= k => f[m] = g[m]
  <2> DEFINE T == {m \in Nat : m <= n /\ m <= k => f[m] = g[m]}
  <2>1. ASSUME NEW m \in Nat, \A j \in 0..(m - 1) : j \in T
        PROVE  m \in T
    <3>1. SUFFICES ASSUME m <= n, m <= k PROVE f[m] = g[m]
      OBVIOUS
    <3>2. f[m] = Step(f, m) /\ g[m] = Step(g, m)
      <4>1. m \in 0..n /\ m \in 0..k
        BY <3>1
      <4>2. QED
        BY <4>1
    <3>3. CASE m < 10
      BY <3>2, <3>3
    <3>4. CASE m >= 10
      <4>1. m \div 10 \in T /\ m \div 10 <= n /\ m \div 10 <= k
        BY <3>1, <3>4, <2>1, <1>1
      <4>2. f[m \div 10] = g[m \div 10]
        BY <4>1
      <4>3. QED
        BY <3>2, <3>4, <4>2
    <3>5. QED
      BY <3>3, <3>4
  <2>2. \A m \in Nat : m \in T
    <3> HIDE DEF T
    <3>1. QED
      BY <2>1, SetInduction
  <2>3. QED
    BY <2>2
<1>3. ASSUME NEW n \in Nat PROVE Upto(n) # {}
  <2> DEFINE T == {m \in Nat : Upto(m) # {}}
  <2>1. ASSUME NEW m \in Nat, \A j \in 0..(m - 1) : j \in T
        PROVE  m \in T
    <3>1. CASE m = 0
      <4> DEFINE w == [j \in 0..0 |-> <<DigitChar[j + 1]>>]
      <4>1. DigitChar[0 + 1] \in Digit
        BY <1>1
      <4>2. w \in [0..0 -> Seq(Digit)] /\ Writes(w, 0)
        BY <4>1
      <4>3. QED
        BY <3>1, <4>2
    <3>2. CASE m # 0
      <4>1. m - 1 \in T
        BY <3>2, <2>1
      <4>2. PICK f \in Upto(m - 1) : TRUE
        BY <4>1
      <4>3. f \in [0..(m - 1) -> Seq(Digit)] /\ Writes(f, m - 1)
        BY <4>2
      <4> DEFINE w == [j \in 0..m |-> IF j < m THEN f[j] ELSE Step(f, m)]
      <4>4. Step(f, m) \in Seq(Digit)
        <5>1. CASE m < 10
          BY <5>1, <1>1
        <5>2. CASE m >= 10
          <6>1. f[m \div 10] \in Seq(Digit)
            BY <5>2, <1>1, <4>3
          <6>2. Append(f[m \div 10], DigitChar[(m % 10) + 1]) \in Seq(Digit)
            BY <6>1, <1>1, AppendProperties
          <6>3. QED
            BY <6>2, <5>2
        <5>3. QED
          BY <5>1, <5>2
      <4>5. w \in [0..m -> Seq(Digit)]
        BY <4>3, <4>4
      <4>6. ASSUME NEW j \in 0..m PROVE w[j] = Step(w, j)
        <5>1. j >= 10 => j \div 10 \in 0..(m - 1) /\ w[j \div 10] = f[j \div 10]
          BY <1>1
        <5>2. Step(w, j) = Step(f, j)
          BY <5>1
        <5>3. w[j] = Step(f, j)
          <6>1. CASE j = m
            BY <6>1
          <6>2. CASE j < m
            <7>1. j \in 0..(m - 1) /\ w[j] = f[j]
              BY <6>2
            <7>2. QED
              BY <7>1, <4>3
          <6>3. QED
            BY <6>1, <6>2
        <5>4. QED
          BY <5>2, <5>3
      <4>7. w \in Upto(m)
        BY <4>5, <4>6
      <4>8. QED
        BY <4>7
    <3>3. QED
      BY <3>1, <3>2
  <2>2. \A m \in Nat : m \in T
    <3> HIDE DEF T
    <3>1. QED
      BY <2>1, SetInduction
  <2>3. QED
    BY <2>2
<1> DEFINE g == [n \in Nat |-> CHOOSE f : f \in Upto(n)]
<1> DEFINE d == [n \in Nat |-> g[n][n]]
<1>4. \A n \in Nat : g[n] \in Upto(n)
  BY <1>3
<1>5. ASSUME NEW n \in Nat PROVE d[n] = Step(d, n)
  <2>1. g[n][n] = Step(g[n], n)
    <3> HIDE DEF g
    <3>1. g[n] \in Upto(n)
      BY <1>4
    <3>2. Writes(g[n], n) /\ n \in 0..n
      BY <3>1
    <3> HIDE DEF Step
    <3>3. QED
      BY <3>2
  <2>2. CASE n < 10
    BY <2>1, <2>2
  <2>3. CASE n >= 10
    <3>1. n \div 10 \in Nat /\ n \div 10 <= n
      BY <1>1
    <3>2. g[n] \in Upto(n) /\ g[n \div 10] \in Upto(n \div 10)
      BY <1>4, <3>1
    <3>3. g[n][n \div 10] = g[n \div 10][n \div 10]
      <4> HIDE DEF g, Upto
      <4>1. QED
        BY <3>1, <3>2, <1>2
    <3>4. d[n \div 10] = g[n][n \div 10]
      BY <3>1, <3>3
    <3>5. Step(g[n], n) = Append(g[n][n \div 10], DigitChar[(n % 10) + 1])
      BY <2>3
    <3>6. Step(d, n) = Append(d[n \div 10], DigitChar[(n % 10) + 1])
      BY <2>3
    <3>7. d[n] = g[n][n]
      OBVIOUS
    <3> HIDE DEF d, g
    <3>8. QED
      BY <2>1, <3>4, <3>5, <3>6, <3>7
  <2>4. QED
    BY <2>2, <2>3
<1>6. d = [n \in Nat |-> Step(d, n)]
  <2>1. d = [n \in Nat |-> d[n]]
    OBVIOUS
  <2> HIDE DEF d
  <2>2. QED
    BY <2>1, <1>5
<1>7. QED
  BY <1>6

(* The recursive function Digits is what its equation says. *)
LEMMA DigitsAre ==
  \A n \in Nat : Digits[n] = IF n < 10 THEN <<DigitChar[n + 1]>>
                             ELSE Append(Digits[n \div 10], DigitChar[(n % 10) + 1])
<1> DEFINE F(f) == [n \in Nat |-> IF n < 10 THEN <<DigitChar[n + 1]>>
                                  ELSE Append(f[n \div 10], DigitChar[(n % 10) + 1])]
<1>1. Digits = CHOOSE f : f = F(f)
  BY DEF Digits
<1>2. \E f : f = F(f)
  BY DigitsExist
<1>3. Digits = F(Digits)
  <2> HIDE DEF F
  <2>1. QED
    BY <1>1, <1>2, Zenon
<1>4. QED
  BY <1>3

(* Reading the digits of a number gives that number. *)
LEMMA DigitsAreRead ==
  \A n \in Nat : Digits[n] \in Seq(Digit) /\ Digits[n] # <<>> /\ Number(Digits[n]) = n
<1> DEFINE T == {n \in Nat : Digits[n] \in Seq(Digit) /\ Digits[n] # <<>> /\ Number(Digits[n]) = n}
<1>1. ASSUME NEW n \in Nat, \A m \in 0..(n - 1) : m \in T
      PROVE  n \in T
  <2>1. CASE n < 10
    <3>1. n \in 0..9
      BY <2>1
    <3> DEFINE c == DigitChar[n + 1]
    <3>2. c \in Digit /\ DigitValue(c) = n
      BY <3>1, DigitFacts DEF Digit
    <3>3. Digits[n] = <<c>>
      BY <2>1, DigitsAre
    <3> HIDE DEF c
    <3>4. Number(<<c>>) = n /\ <<c>> \in Seq(Digit) /\ <<c>> # <<>>
      BY <3>2, NumberOfDigits
    <3>5. QED
      BY <3>3, <3>4
  <2>2. CASE n >= 10
    <3> DEFINE c == DigitChar[(n % 10) + 1]
    <3> DEFINE m == n \div 10
    <3>1. n % 10 \in 0..9 /\ m \in 0..(n - 1) /\ 10 * m + (n % 10) = n
      BY <2>2
    <3>2. c \in Digit /\ DigitValue(c) = n % 10
      BY <3>1, DigitFacts DEF Digit
    <3>3. Digits[n] = Append(Digits[m], c)
      <4>1. ~(n < 10)
        BY <2>2
      <4>2. QED
        BY <4>1, DigitsAre, Zenon
    <3>4. Digits[m] \in Seq(Digit) /\ Number(Digits[m]) = m
      BY <3>1, <1>1
    <3> HIDE DEF c, m
    <3>5. Append(Digits[m], c) \in Seq(Digit) /\ Append(Digits[m], c) # <<>>
      BY <3>2, <3>4, AppendProperties
    <3>6. Number(Append(Digits[m], c)) = 10 * m + (n % 10)
      BY <3>2, <3>4, NumberOfDigits
    <3>7. QED
      BY <3>1, <3>3, <3>5, <3>6
  <2>3. QED
    BY <2>1, <2>2
<1>2. \A n \in Nat : n \in T
  <2> HIDE DEF T
  <2>1. QED
    BY <1>1, SetInduction
<1>3. QED
  BY <1>2

(* The greatest of some positions in a text, or 0. *)
LEMMA GreatestPosition ==
  ASSUME NEW n \in Nat, NEW D \in SUBSET (1..n)
  PROVE  /\ Max({0} \cup D) \in {0} \cup D
         /\ \A k \in D : k <= Max({0} \cup D)
         /\ Max({0} \cup D) \in 0..n
<1> DEFINE S == {0} \cup D
<1>1. S \in SUBSET Nat /\ S # {} /\ \A i \in S : i <= n
  OBVIOUS
<1>2. \E i \in S : \A j \in S : i >= j
  <2>1. PICK i \in S : \A j \in S : j <= i
    BY <1>1, GreatestNumber
  <2>2. QED
    BY <1>1, <2>1
<1>3. Max(S) \in S /\ \A j \in S : Max(S) >= j
  <2> HIDE DEF S
  <2>1. QED
    BY <1>2, Zenon DEF Max
<1> DEFINE M == Max(S)
<1> HIDE DEF M
<1>4. M \in S /\ \A j \in S : M >= j
  BY <1>3 DEF M
<1>5. M \in {0} \cup D /\ M \in 0..n /\ \A k \in D : k <= M
  BY <1>1, <1>4
<1>6. QED
  BY <1>5 DEF M

Reads(s, sign, last) ==
  /\ sign = IF s # <<>> /\ s[1] \in {"+", "-"} THEN 1 ELSE 0
  /\ last = Max({0} \cup {n \in DOMAIN s : \A k \in (sign + 1)..n : s[k] \in Digit})

(* stoi with its parts named. *)
LEMMA StoiIs ==
  ASSUME NEW s, NEW sign, NEW last, Reads(s, sign, last), NEW number,
         number = Number(SubSeq(s, sign + 1, last))
  PROVE  stoi(s) = IF last <= sign THEN NotNumber
                   ELSE IF (IF s[1] = "-" THEN -number ELSE number) \in Int32
                        THEN IF s[1] = "-" THEN -number ELSE number ELSE TooLarge
  BY Zenon DEF stoi, Reads, Digit

(* stoi reads a text of digits, with or without a minus before it, to its end. *)
LEMMA StoiOfDigits ==
  ASSUME NEW d \in Seq(Digit), d # <<>>
  PROVE  /\ stoi(d) = IF Number(d) \in Int32 THEN Number(d) ELSE TooLarge
         /\ stoi(<<"-">> \o d) = IF -Number(d) \in Int32 THEN -Number(d) ELSE TooLarge
         /\ Number(d) \in Nat
<1> DEFINE n == Len(d)
<1>1. n \in Nat /\ n > 0 /\ DOMAIN d = 1..n /\ \A k \in 1..n : d[k] \in Digit
  BY ElementOfSeq, LenProperties, EmptySeq
<1>2. Number(d) \in Nat
  BY <1>1, NumbersRead DEF Number
<1>3. \A k \in 1..n : d[k] \notin {"/", "+", "-"}
  BY <1>1, DigitIsNumber, DigitsDiffer
<1>4. stoi(d) = IF Number(d) \in Int32 THEN Number(d) ELSE TooLarge
  <2> DEFINE D == {m \in DOMAIN d : \A k \in (0 + 1)..m : d[k] \in Digit}
  <2>1. D = 1..n
    BY <1>1
  <2>2. Max({0} \cup D) = n
    <3>1. Max({0} \cup D) \in 0..n /\ n <= Max({0} \cup D)
      <4> HIDE DEF D, n
      <4>1. n \in 1..n
        BY <1>1
      <4>2. QED
        BY <1>1, <2>1, <4>1, GreatestPosition
    <3>2. QED
      BY <3>1, <1>1
  <2>3. Reads(d, 0, n)
    <3> HIDE DEF n
    <3>1. 0 = IF d # <<>> /\ d[1] \in {"+", "-"} THEN 1 ELSE 0
      BY <1>1, <1>3
    <3>2. QED
      BY <3>1, <2>2, Zenon DEF Reads
  <2>4. SubSeq(d, 0 + 1, n) = d
    BY SubSeqFull
  <2>5. d[1] # "-"
    BY <1>1, <1>3
  <2> HIDE DEF n
  <2>6. stoi(d) = IF n <= 0 THEN NotNumber
                  ELSE IF (IF d[1] = "-" THEN -Number(d) ELSE Number(d)) \in Int32
                       THEN IF d[1] = "-" THEN -Number(d) ELSE Number(d) ELSE TooLarge
    BY <2>3, <2>4, StoiIs
  <2>7. QED
    BY <1>1, <2>5, <2>6
<1>5. stoi(<<"-">> \o d) = IF -Number(d) \in Int32 THEN -Number(d) ELSE TooLarge
  <2> DEFINE s == <<"-">> \o d
  <2> DEFINE Sign == Digit \cup {"-"}
  <2>1. /\ s \in Seq(Sign) /\ Len(s) = n + 1 /\ s[1] = "-" /\ DOMAIN s = 1..(n + 1)
        /\ \A k \in 2..(n + 1) : s[k] = d[k - 1]
    <3>1. <<"-">> \in Seq(Sign) /\ d \in Seq(Sign) /\ Len(<<"-">>) = 1 /\ <<"-">>[1] = "-"
      BY SeqMonotonic
    <3>2. QED
      BY <1>1, <3>1, ConcatProperties, LenProperties
  <2>2. s # <<>>
    BY <1>1, <2>1, EmptySeq
  <2> HIDE DEF s, n
  <2> DEFINE D == {m \in DOMAIN s : \A k \in (1 + 1)..m : s[k] \in Digit}
  <2>3. D = 1..(n + 1)
    BY <1>1, <2>1
  <2>4. Max({0} \cup D) = n + 1
    <3>1. Max({0} \cup D) \in 0..(n + 1) /\ n + 1 <= Max({0} \cup D)
      <4>1. n + 1 \in Nat /\ n + 1 \in 1..(n + 1)
        BY <1>1
      <4> HIDE DEF D
      <4>2. QED
        BY <2>3, <4>1, GreatestPosition
    <3>2. QED
      BY <3>1, <1>1
  <2>5. Reads(s, 1, n + 1)
    BY <2>1, <2>2, <2>4 DEF Reads
  <2>6. SubSeq(s, 1 + 1, n + 1) = d
    <3>1. \A i \in 2..(n + 1) : s[i] \in Digit
      BY <1>1, <2>1
    <3>2. /\ SubSeq(s, 2, n + 1) \in Seq(Digit) /\ Len(SubSeq(s, 2, n + 1)) = n
          /\ \A i \in 1..n : SubSeq(s, 2, n + 1)[i] = s[i + 1]
      BY <1>1, <3>1, SubSeqProperties
    <3>3. \A i \in 1..n : SubSeq(s, 2, n + 1)[i] = d[i]
      BY <1>1, <2>1, <3>2
    <3>4. QED
      BY <3>2, <3>3, SeqEqual DEF n
  <2>7. stoi(s) = IF n + 1 <= 1 THEN NotNumber
                  ELSE IF (IF s[1] = "-" THEN -Number(d) ELSE Number(d)) \in Int32
                       THEN IF s[1] = "-" THEN -Number(d) ELSE Number(d) ELSE TooLarge
    BY <2>5, <2>6, StoiIs
  <2>8. QED
    BY <1>1, <2>1, <2>7 DEF s
<1>6. QED
  BY <1>2, <1>4, <1>5

(* What to_string writes, stoi reads. *)
LEMMA NumberIsRead ==
  ASSUME NEW i \in Int32
  PROVE  stoi(to_string(i)) = i
<1>1. i \in Int
  BY TargetAssumption DEF Int32
<1>2. CASE i >= 0
  <2>1. i \in Nat /\ to_string(i) = Digits[i]
    BY <1>1, <1>2 DEF to_string
  <2>2. Digits[i] \in Seq(Digit) /\ Digits[i] # <<>> /\ Number(Digits[i]) = i
    BY <2>1, DigitsAreRead
  <2>3. QED
    BY <2>1, <2>2, StoiOfDigits
<1>3. CASE i < 0
  <2>1. -i \in Nat /\ to_string(i) = <<"-">> \o Digits[-i]
    BY <1>1, <1>3 DEF to_string
  <2>2. Digits[-i] \in Seq(Digit) /\ Digits[-i] # <<>> /\ Number(Digits[-i]) = -i
    BY <2>1, DigitsAreRead
  <2>3. stoi(<<"-">> \o Digits[-i]) = IF -(-i) \in Int32 THEN -(-i) ELSE TooLarge
    BY <2>2, StoiOfDigits
  <2>4. QED
    BY <1>1, <2>1, <2>3
<1>4. QED
  BY <1>1, <1>2, <1>3

-----------------------------------------------------------------------------
(* Targets and where their slashes are. *)
Character == STRING \cup Digit \cup {"-"}
Text == Seq(Character)

(* A text has a length, and a character at each of its positions. *)
LEMMA TextLength ==
  ASSUME NEW s \in Text
  PROVE  Len(s) \in Nat /\ DOMAIN s = 1..Len(s) /\ \A k \in 1..Len(s) : s[k] \in Character
  BY ElementOfSeq, LenProperties DEF Text

(* find_last_of("/") gives the last position that has a slash. *)
LEMMA LastSlashIs ==
  ASSUME NEW s \in Text
  PROVE  /\ LastSlash(s) \in 0..Len(s)
         /\ LastSlash(s) # 0 => s[LastSlash(s)] = "/"
         /\ \A k \in 1..Len(s) : s[k] = "/" => k <= LastSlash(s)
<1> DEFINE D == {k \in DOMAIN s : s[k] = "/"}
<1>1. Len(s) \in Nat /\ DOMAIN s = 1..Len(s)
  BY TextLength
<1>2. D \in SUBSET (1..Len(s)) /\ LastSlash(s) = Max({0} \cup D)
  BY <1>1 DEF LastSlash
<1>3. /\ LastSlash(s) \in {0} \cup D /\ LastSlash(s) \in 0..Len(s)
      /\ \A k \in D : k <= LastSlash(s)
  <2> HIDE DEF D
  <2>1. QED
    BY <1>1, <1>2, GreatestPosition
<1>4. QED
  BY <1>1, <1>3

(* Pieces of a text. *)
LEMMA Pieces ==
  ASSUME NEW s \in Text, NEW m \in 1..(Len(s) + 1), NEW n \in 0..Len(s)
  PROVE  /\ SubSeq(s, m, n) \in Text
         /\ Len(SubSeq(s, m, n)) = IF m <= n THEN n - m + 1 ELSE 0
         /\ \A i \in 1..(n - m + 1) : SubSeq(s, m, n)[i] = s[m + i - 1]
<1>1. /\ m \in Int /\ n \in Int
      /\ \A i \in m..n : s[i] \in Character
  BY TextLength
<1>2. QED
  BY <1>1, SubSeqProperties DEF Text

(* What follows a position of a text, ... *)
LEMMA AfterIs ==
  ASSUME NEW s \in Text, NEW k \in 0..Len(s)
  PROVE  /\ After(s, k) \in Text
         /\ Len(After(s, k)) = Len(s) - k
         /\ \A i \in 1..(Len(s) - k) : After(s, k)[i] = s[k + i]
<1>1. Len(s) \in Nat /\ k + 1 \in 1..(Len(s) + 1) /\ Len(s) \in 0..Len(s)
  BY TextLength
<1>2. /\ After(s, k) \in Text
      /\ Len(After(s, k)) = IF k + 1 <= Len(s) THEN Len(s) - (k + 1) + 1 ELSE 0
      /\ \A i \in 1..(Len(s) - (k + 1) + 1) : After(s, k)[i] = s[(k + 1) + i - 1]
  BY <1>1, Pieces DEF After
<1>3. QED
  BY <1>1, <1>2

(* ... and what precedes one. *)
LEMMA BeforeIs ==
  ASSUME NEW s \in Text, NEW k \in 1..Len(s)
  PROVE  /\ Before(s, k) \in Text
         /\ Len(Before(s, k)) = k - 1
         /\ \A i \in 1..(k - 1) : Before(s, k)[i] = s[i]
<1>1. Len(s) \in Nat /\ 1 \in 1..(Len(s) + 1) /\ k - 1 \in 0..Len(s)
  BY TextLength
<1>2. /\ Before(s, k) \in Text
      /\ Len(Before(s, k)) = IF 1 <= k - 1 THEN (k - 1) - 1 + 1 ELSE 0
      /\ \A i \in 1..((k - 1) - 1 + 1) : Before(s, k)[i] = s[1 + i - 1]
  BY <1>1, Pieces DEF Before
<1>3. QED
  BY <1>1, <1>2

(* What follows the last slash has none. *)
LEMMA LastIsSegment ==
  ASSUME NEW s \in Text
  PROVE  After(s, LastSlash(s)) \in Text /\ Segment(After(s, LastSlash(s)))
<1> DEFINE a == After(s, LastSlash(s))
<1>1. Len(s) \in Nat /\ LastSlash(s) \in 0..Len(s)
  BY TextLength, LastSlashIs
<1>2. a \in Text /\ DOMAIN a = 1..(Len(s) - LastSlash(s))
      /\ \A i \in 1..(Len(s) - LastSlash(s)) : a[i] = s[LastSlash(s) + i]
  BY <1>1, AfterIs, TextLength
<1>3. ASSUME NEW i \in DOMAIN a PROVE a[i] # "/"
  <2>1. LastSlash(s) + i \in 1..Len(s) /\ LastSlash(s) + i > LastSlash(s) /\ a[i] = s[LastSlash(s) + i]
    BY <1>1, <1>2
  <2>2. QED
    BY <1>1, <2>1, LastSlashIs
<1>4. "/" \notin ToSet(a)
  BY <1>3 DEF ToSet
<1>5. QED
  BY <1>2, <1>4 DEF Segment

(* The directory of an entity, seen from the whole text. *)
LEMMA DirectoryIs ==
  ASSUME NEW s \in Text, NEW k \in 1..Len(s), NEW m \in 0..(k - 1)
  PROVE  After(Before(s, k), m) = SubSeq(s, m + 1, k - 1)
<1> DEFINE r == Before(s, k)
<1>1. Len(s) \in Nat
  BY TextLength
<1>2. r \in Text /\ Len(r) = k - 1 /\ \A i \in 1..(k - 1) : r[i] = s[i]
  BY BeforeIs
<1> HIDE DEF r
<1>3. /\ After(r, m) \in Text /\ Len(After(r, m)) = (k - 1) - m
      /\ \A i \in 1..((k - 1) - m) : After(r, m)[i] = r[m + i]
  BY <1>2, AfterIs
<1>4. m + 1 \in 1..(Len(s) + 1) /\ k - 1 \in 0..Len(s)
  BY <1>1
<1>5. /\ SubSeq(s, m + 1, k - 1) \in Text
      /\ Len(SubSeq(s, m + 1, k - 1)) = IF m + 1 <= k - 1 THEN (k - 1) - (m + 1) + 1 ELSE 0
      /\ \A i \in 1..((k - 1) - (m + 1) + 1) : SubSeq(s, m + 1, k - 1)[i] = s[(m + 1) + i - 1]
  BY <1>4, Pieces
<1>6. Len(SubSeq(s, m + 1, k - 1)) = (k - 1) - m
  BY <1>1, <1>5
<1>7. ASSUME NEW i \in 1..Len(After(r, m))
      PROVE  After(r, m)[i] = SubSeq(s, m + 1, k - 1)[i]
  <2>1. /\ i \in 1..((k - 1) - m) /\ i \in 1..((k - 1) - (m + 1) + 1)
        /\ m + i \in 1..(k - 1) /\ (m + 1) + i - 1 = m + i
    BY <1>1, <1>3
  <2>2. QED
    BY <2>1, <1>2, <1>3, <1>5
<1>8. After(r, m) = SubSeq(s, m + 1, k - 1)
  BY <1>3, <1>5, <1>6, <1>7, SeqEqual DEF Text
<1>9. QED
  BY <1>8 DEF r

(* A target is a text that starts with a slash. *)
LEMMA TargetIsText ==
  ASSUME NEW t \in Target
  PROVE  t \in Text /\ Len(t) > 1 /\ t[1] = "/" /\ LastSlash(t) \in 1..Len(t) /\ Len(t) \in Nat
<1>1. t \in Seq(STRING) /\ Len(t) > 1 /\ t[1] = "/"
  BY TargetAssumption
<1>2. t \in Text
  BY <1>1, SeqMonotonic DEF Text, Character
<1>3. Len(t) \in Nat /\ LastSlash(t) \in 0..Len(t) /\ 1 <= LastSlash(t)
  BY <1>1, <1>2, TextLength, LastSlashIs
<1>4. QED
  BY <1>1, <1>2, <1>3

(* The directory that an entity's target names has no slash. *)
LEMMA EntityIs ==
  ASSUME NEW t \in Target
  PROVE  /\ Entity(t) = <<Entity(t)[1], Entity(t)[2]>>
         /\ Entity(t)[2] = After(t, LastSlash(t))
         /\ Segment(Entity(t)[1]) /\ Segment(Entity(t)[2])
<1>1. t \in Text /\ LastSlash(t) \in 1..Len(t)
  BY TargetIsText
<1>2. Before(t, LastSlash(t)) \in Text
  BY <1>1, BeforeIs
<1>3. QED
  BY <1>1, <1>2, LastIsSegment DEF Entity

(* GET opens the file that its target names. *)
LEMMA RetrieveIsEntity ==
  ASSUME NEW t \in Target
  PROVE  retrieve_path(t) = Entity(t)
<1> DEFINE l == LastSlash(t)
<1> DEFINE r == Before(t, l)
<1>1. t \in Text /\ l \in 1..Len(t) /\ t[1] = "/" /\ Len(t) \in Nat
  BY TargetIsText
<1>2. r \in Text /\ Len(r) = l - 1 /\ \A i \in 1..(l - 1) : r[i] = t[i]
  BY <1>1, BeforeIs
<1>3. /\ LastSlash(r) \in 0..(l - 1)
      /\ l > 1 => LastSlash(r) > 0
  <2>1. LastSlash(r) \in 0..(l - 1)
    BY <1>2, LastSlashIs
  <2>2. ASSUME l > 1 PROVE 1 <= LastSlash(r)
    <3>1. 1 \in 1..(l - 1) /\ r[1] = "/" /\ 1 \in 1..Len(r)
      BY <1>1, <1>2, <2>2
    <3> HIDE DEF r, l
    <3>2. QED
      BY <1>2, <3>1, LastSlashIs
  <2>3. QED
    BY <2>1, <2>2
<1>4. After(r, LastSlash(r)) = SubSeq(t, LastSlash(r) + 1, l - 1)
  BY <1>1, <1>3, DirectoryIs
<1>5. l = 1 => SubSeq(t, LastSlash(r) + 1, l - 1) = <<>>
  <2>1. ASSUME l = 1 PROVE LastSlash(r) + 1 \in Int /\ l - 1 \in Int /\ l - 1 < LastSlash(r) + 1
    BY <1>3, <2>1
  <2>2. QED
    BY <2>1, SubSeqEmpty
<1>6. retrieve_path(t) = <<IF l > 1 /\ LastSlash(r) > 0 THEN SubSeq(t, LastSlash(r) + 1, l - 1) ELSE <<>>,
                           After(t, l)>>
  BY DEF retrieve_path
<1>7. Entity(t) = <<After(r, LastSlash(r)), After(t, l)>>
  BY DEF Entity
<1> HIDE DEF l, r
<1>8. CASE l = 1
  BY <1>4, <1>5, <1>6, <1>7, <1>8
<1>9. CASE l > 1
  BY <1>3, <1>4, <1>6, <1>7, <1>9
<1>10. QED
  BY <1>1, <1>8, <1>9

(* DELETE removes the file that its target names, if that has a directory. *)
LEMMA DeletionIsEntity ==
  ASSUME NEW t \in Target, deletion_path(t)[1] # <<>>
  PROVE  deletion_path(t) = Entity(t)
<1> DEFINE l == LastSlash(t)
<1> DEFINE r == Before(t, l)
<1> DEFINE e == LastSlash(IF l = 1 THEN t ELSE r)
<1>1. t \in Text /\ l \in 1..Len(t) /\ t[1] = "/" /\ Len(t) \in Nat
  BY TargetIsText
<1>2. deletion_path(t) = <<SubSeq(t, e + 1, l - 1), After(t, l)>>
  BY DEF deletion_path
<1>3. l # 1
  <2>1. SUFFICES ASSUME l = 1 PROVE FALSE
    OBVIOUS
  <2>2. e = 1 /\ l = 1
    BY <2>1
  <2>3. SubSeq(t, e + 1, l - 1) = <<>>
    <3> HIDE DEF e, l
    <3>1. e + 1 \in Int /\ l - 1 \in Int /\ l - 1 < e + 1
      BY <2>2
    <3>2. QED
      BY <3>1, SubSeqEmpty
  <2>4. QED
    BY <1>2, <2>3
<1>4. e = LastSlash(r)
  BY <1>3
<1>5. r \in Text /\ Len(r) = l - 1
  BY <1>1, BeforeIs
<1>6. LastSlash(r) \in 0..(l - 1)
  BY <1>5, LastSlashIs
<1>7. After(r, LastSlash(r)) = SubSeq(t, LastSlash(r) + 1, l - 1)
  BY <1>1, <1>6, DirectoryIs
<1>8. Entity(t) = <<After(r, LastSlash(r)), After(t, l)>>
  BY DEF Entity
<1> HIDE DEF l, r, e
<1>9. QED
  BY <1>2, <1>4, <1>7, <1>8

(* PUT writes the file that its target names, if the target ends with the id as *)
(* to_string writes it.                                                        *)
LEMMA PutIsEntity ==
  ASSUME NEW t \in Target, NEW i, After(t, LastSlash(t)) = to_string(i),
         target_dir(t, i) # <<>>
  PROVE  <<target_dir(t, i), to_string(i)>> = Entity(t)
<1> DEFINE l == LastSlash(t)
<1> DEFINE r == Before(t, l)
<1>1. t \in Text /\ l \in 1..Len(t) /\ Len(t) \in Nat
  BY TargetIsText
<1>2. Len(to_string(i)) = Len(t) - l
  <2>1. l \in 0..Len(t)
    BY <1>1
  <2>2. QED
    BY <1>1, <2>1, AfterIs
<1>3. Len(t) - Len(to_string(i)) - 1 = l - 1
  BY <1>1, <1>2
<1>4. SubSeq(t, 1, Len(t) - Len(to_string(i)) - 1) = r
  BY <1>3 DEF Before
<1>5. target_dir(t, i) = IF LastSlash(r) = 0 THEN <<>> ELSE After(r, LastSlash(r))
  BY <1>4 DEF target_dir
<1>6. Entity(t) = <<After(r, LastSlash(r)), After(t, l)>>
  BY DEF Entity
<1> HIDE DEF l, r
<1>7. QED
  BY <1>5, <1>6 DEF l

-----------------------------------------------------------------------------
(* The vectors of ids. *)

(* A set of ints has a least and a greatest element. *)
LEMMA IntsAreBounded ==
  ASSUME NEW D \in SUBSET Int32, D # {}
  PROVE  /\ \E x \in D : \A y \in D : x <= y
         /\ \E x \in D : \A y \in D : y <= x
<1> DEFINE b == MaxInt + 1
<1> DEFINE T == {x + b : x \in D}
<1>1. b \in Nat /\ \A x \in D : x \in Int /\ x + b \in 0..(2 * b)
  BY TargetAssumption DEF Int32
<1> HIDE DEF b
<1>2. T \in SUBSET Nat /\ T # {} /\ 2 * b \in Nat /\ \A z \in T : z <= 2 * b
  BY <1>1
<1>3. PICK z \in T : \A y \in T : z <= y
  <2> HIDE DEF T
  <2>1. QED
    BY <1>2, LeastNumber
<1>4. PICK w \in T : \A y \in T : y <= w
  <2> HIDE DEF T
  <2>1. QED
    BY <1>2, GreatestNumber
<1>5. PICK x \in D : z = x + b
  BY <1>3
<1>6. PICK y \in D : w = y + b
  BY <1>4
<1>7. \A v \in D : v + b \in T /\ z <= v + b /\ v + b <= w
  BY <1>3, <1>4
<1>8. \A v \in D : x <= v /\ v <= y
  BY <1>1, <1>5, <1>6, <1>7
<1>9. QED
  BY <1>8

(* The positions of the ids that are not above a number. *)
NotAbove(s, v) == {k \in DOMAIN s : s[k] <= v}

(* std::sort gives a sorted vector with the same ids. *)
LEMMA SortedIs ==
  ASSUME NEW s \in Seq(Int32)
  PROVE  /\ Sorted(s) \in Seq(Int32) /\ Len(Sorted(s)) = Len(s)
         /\ ToSet(Sorted(s)) = ToSet(s)
         /\ \A n \in 2..Len(s) : Sorted(s)[n - 1] <= Sorted(s)[n]
<1> DEFINE Reaching(n) == {v \in ToSet(s) : Cardinality(NotAbove(s, v)) >= n}
<1>1. /\ Len(s) \in Nat /\ DOMAIN s = 1..Len(s) /\ \A k \in 1..Len(s) : s[k] \in Int32
  BY ElementOfSeq, LenProperties
<1>2. ToSet(s) \subseteq Int32 /\ Int32 \subseteq Int /\ \A k \in 1..Len(s) : s[k] \in Int
  BY <1>1, TargetAssumption DEF ToSet, Int32
<1>3. IsFiniteSet(1..Len(s)) /\ Cardinality(1..Len(s)) = Len(s)
  <2>1. 1 \in Int /\ Len(s) \in Int /\ (1 > Len(s) => Len(s) = 0)
    BY <1>1
  <2>2. QED
    BY <2>1, FS_Interval
<1>4. ASSUME NEW v PROVE IsFiniteSet(NotAbove(s, v)) /\ Cardinality(NotAbove(s, v)) \in 0..Len(s)
  <2>1. NotAbove(s, v) \in SUBSET (1..Len(s))
    BY <1>1 DEF NotAbove
  <2>2. QED
    BY <1>1, <1>3, <2>1, FS_Subset, FS_CardinalityType
<1>5. ASSUME NEW v \in Int, NEW w \in Int, v <= w
      PROVE  Cardinality(NotAbove(s, v)) <= Cardinality(NotAbove(s, w))
  <2>1. NotAbove(s, v) \in SUBSET NotAbove(s, w)
    BY <1>1, <1>2, <1>5 DEF NotAbove
  <2>2. QED
    BY <1>4, <2>1, FS_Subset
<1>6. ASSUME NEW v \in ToSet(s), NEW w \in Int, w < v
      PROVE  Cardinality(NotAbove(s, w)) < Cardinality(NotAbove(s, v))
  <2>1. PICK k \in 1..Len(s) : s[k] = v
    BY <1>1 DEF ToSet
  <2>2. NotAbove(s, w) \in SUBSET NotAbove(s, v) /\ k \in NotAbove(s, v) /\ k \notin NotAbove(s, w)
    BY <1>1, <1>2, <1>6, <2>1 DEF NotAbove
  <2>3. Cardinality(NotAbove(s, w)) # Cardinality(NotAbove(s, v))
    BY <1>4, <2>2, FS_Subset
  <2>4. v \in Int /\ w <= v
    <3>1. v \in Int
      BY <1>2
    <3>2. QED
      BY <3>1, <1>6
  <2>5. Cardinality(NotAbove(s, w)) <= Cardinality(NotAbove(s, v))
    BY <1>5, <2>4
  <2>6. Cardinality(NotAbove(s, w)) \in Int /\ Cardinality(NotAbove(s, v)) \in Int
    BY <1>4
  <2>7. QED
    BY <2>3, <2>5, <2>6
<1>7. ASSUME NEW n \in 1..Len(s)
      PROVE  /\ Sorted(s)[n] \in Reaching(n)
             /\ \A v \in Reaching(n) : Sorted(s)[n] <= v
  <2>1. ToSet(s) \in SUBSET Int32 /\ ToSet(s) # {}
    BY <1>1, <1>2 DEF ToSet
  <2>2. PICK m \in ToSet(s) : \A v \in ToSet(s) : v <= m
    BY <2>1, IntsAreBounded
  <2>3. NotAbove(s, m) = 1..Len(s)
    BY <1>1, <2>2 DEF NotAbove, ToSet
  <2>4. m \in Reaching(n)
    BY <1>1, <1>3, <2>3
  <2>5. \E x \in Reaching(n) : \A y \in Reaching(n) : x <= y
    <3>1. Reaching(n) \in SUBSET Int32 /\ Reaching(n) # {}
      BY <1>2, <2>4
    <3> HIDE DEF Reaching
    <3>2. QED
      BY <3>1, IntsAreBounded
  <2>6. Sorted(s)[n] = Min(Reaching(n))
    BY <1>1 DEF Sorted, NotAbove
  <2> HIDE DEF Reaching
  <2>7. Min(Reaching(n)) \in Reaching(n) /\ \A y \in Reaching(n) : Min(Reaching(n)) <= y
    BY <2>5, Zenon DEF Min
  <2>8. QED
    BY <2>6, <2>7
<1>8. /\ Sorted(s) \in Seq(Int32) /\ Len(Sorted(s)) = Len(s)
      /\ DOMAIN Sorted(s) = 1..Len(s)
  <2>1. \A n \in 1..Len(s) : Sorted(s)[n] \in Int32
    BY <1>2, <1>7
  <2>2. Sorted(s) = [n \in 1..Len(s) |-> Sorted(s)[n]]
    BY <1>1 DEF Sorted
  <2>3. QED
    BY <1>1, <2>1, <2>2
<1>9. ASSUME NEW n \in 2..Len(s) PROVE Sorted(s)[n - 1] <= Sorted(s)[n]
  <2>1. n \in 1..Len(s) /\ n - 1 \in 1..Len(s)
    BY <1>1
  <2>2. Sorted(s)[n] \in Reaching(n - 1)
    BY <1>4, <1>7, <2>1
  <2>3. QED
    BY <1>7, <2>1, <2>2
<1>10. ASSUME NEW v \in ToSet(s) PROVE v \in ToSet(Sorted(s))
  <2> DEFINE n == Cardinality(NotAbove(s, v))
  <2>1. PICK k \in 1..Len(s) : s[k] = v
    BY <1>1 DEF ToSet
  <2>2. k \in NotAbove(s, v)
    BY <1>1, <1>2, <2>1 DEF NotAbove
  <2>3. n # 0
    BY <1>4, <2>2, FS_EmptySet
  <2>4. n \in 1..Len(s)
    BY <1>1, <1>4, <2>3
  <2>5. v \in Reaching(n)
    BY <1>4
  <2>6. /\ Sorted(s)[n] \in ToSet(s) /\ Sorted(s)[n] <= v
        /\ Cardinality(NotAbove(s, Sorted(s)[n])) >= n
    BY <1>7, <2>4, <2>5
  <2>7. ~(Sorted(s)[n] < v)
    <3>1. SUFFICES ASSUME Sorted(s)[n] < v PROVE FALSE
      OBVIOUS
    <3>2. Cardinality(NotAbove(s, Sorted(s)[n])) < n
      BY <1>2, <1>6, <2>6, <3>1
    <3>3. QED
      BY <1>4, <2>6, <3>2
  <2>8. Sorted(s)[n] = v
    <3>1. v \in Int /\ Sorted(s)[n] \in Int
      BY <1>2, <2>6
    <3> HIDE DEF n
    <3>2. QED
      BY <2>6, <2>7, <3>1
  <2>9. QED
    BY <1>8, <2>4, <2>8 DEF ToSet
<1>11. ASSUME NEW v \in ToSet(Sorted(s)) PROVE v \in ToSet(s)
  BY <1>7, <1>8 DEF ToSet
<1>12. QED
  BY <1>8, <1>9, <1>10, <1>11

(* What is left when an id is erased. *)
LEMMA RemovedIs ==
  ASSUME NEW s \in Seq(Int32), NEW e,
         \A k \in 2..Len(s) : s[k - 1] <= s[k]
  PROVE  /\ RemoveFirst(s, e) \in Seq(Int32)
         /\ ToSet(RemoveFirst(s, e)) \subseteq ToSet(s)
         /\ \A k \in 2..Len(RemoveFirst(s, e)) : RemoveFirst(s, e)[k - 1] <= RemoveFirst(s, e)[k]
<1> DEFINE D == {i \in 1..Len(s) : s[i] = e}
<1>1. Len(s) \in Nat /\ DOMAIN s = 1..Len(s) /\ \A k \in 1..Len(s) : s[k] \in Int32 /\ s[k] \in Int
  <2>1. Len(s) \in Nat /\ DOMAIN s = 1..Len(s) /\ \A k \in 1..Len(s) : s[k] \in Int32
    BY ElementOfSeq, LenProperties
  <2>2. \A i \in Int32 : i \in Int
    BY TargetAssumption DEF Int32
  <2>3. QED
    BY <2>1, <2>2
<1>2. CASE D = {}
  <2>1. RemoveFirst(s, e) = s
    BY <1>2 DEF RemoveFirst
  <2>2. QED
    BY <2>1
<1>3. CASE D # {}
  <2>1. PICK m \in D : m = Min(D)
    <3>1. D \in SUBSET Nat
      BY <1>1
    <3>2. \E x \in D : \A y \in D : x <= y
      <4> HIDE DEF D
      <4>1. QED
        BY <1>3, <3>1, LeastNumber
    <3>3. Min(D) \in D
      <4> HIDE DEF D
      <4>1. QED
        BY <3>2, Zenon DEF Min
    <3>4. QED
      BY <3>3
  <2>2. SelectInSeq(s, LAMBDA v : v = e) = m
    BY <1>3, <2>1 DEF SelectInSeq
  <2>3. RemoveFirst(s, e) = RemoveAt(s, m)
    BY <1>3, <2>2 DEF RemoveFirst
  <2> DEFINE r == RemoveAt(s, m)
  <2>4. m \in 1..Len(s)
    BY <2>1
  <2>5. /\ SubSeq(s, 1, m - 1) \in Seq(Int32) /\ Len(SubSeq(s, 1, m - 1)) = m - 1
        /\ \A i \in 1..(m - 1) : SubSeq(s, 1, m - 1)[i] = s[i]
    <3>1. 1 \in Int /\ m - 1 \in Int /\ \A i \in 1..(m - 1) : s[i] \in Int32
      BY <1>1, <2>4
    <3>2. /\ SubSeq(s, 1, m - 1) \in Seq(Int32)
          /\ Len(SubSeq(s, 1, m - 1)) = IF 1 <= m - 1 THEN (m - 1) - 1 + 1 ELSE 0
          /\ \A i \in 1..((m - 1) - 1 + 1) : SubSeq(s, 1, m - 1)[i] = s[1 + i - 1]
      BY <3>1, SubSeqProperties
    <3>3. /\ (m - 1) - 1 + 1 = m - 1 /\ (~(1 <= m - 1) => m - 1 = 0)
          /\ \A i \in 1..(m - 1) : 1 + i - 1 = i
      BY <2>4, <1>1
    <3>4. QED
      BY <3>2, <3>3
  <2>6. /\ SubSeq(s, m + 1, Len(s)) \in Seq(Int32) /\ Len(SubSeq(s, m + 1, Len(s))) = Len(s) - m
        /\ \A i \in 1..(Len(s) - m) : SubSeq(s, m + 1, Len(s))[i] = s[m + i]
    <3>1. m + 1 \in Int /\ Len(s) \in Int /\ \A i \in (m + 1)..Len(s) : s[i] \in Int32
      BY <1>1, <2>4
    <3>2. /\ SubSeq(s, m + 1, Len(s)) \in Seq(Int32)
          /\ Len(SubSeq(s, m + 1, Len(s))) = IF m + 1 <= Len(s) THEN Len(s) - (m + 1) + 1 ELSE 0
          /\ \A i \in 1..(Len(s) - (m + 1) + 1) : SubSeq(s, m + 1, Len(s))[i] = s[(m + 1) + i - 1]
      BY <3>1, SubSeqProperties
    <3>3. /\ Len(s) - (m + 1) + 1 = Len(s) - m /\ (~(m + 1 <= Len(s)) => Len(s) - m = 0)
          /\ \A i \in 1..(Len(s) - m) : (m + 1) + i - 1 = m + i
      <4>1. m \in Int /\ Len(s) \in Int /\ m <= Len(s)
        BY <2>4, <1>1
      <4>2. Len(s) - (m + 1) + 1 = Len(s) - m /\ (~(m + 1 <= Len(s)) => Len(s) - m = 0)
        BY <4>1
      <4>3. ASSUME NEW i \in 1..(Len(s) - m) PROVE (m + 1) + i - 1 = m + i
        BY <4>1
      <4>4. QED
        BY <4>2, <4>3
    <3>4. QED
      BY <3>2, <3>3
  <2>7. /\ r \in Seq(Int32) /\ Len(r) = Len(s) - 1 /\ DOMAIN r = 1..(Len(s) - 1)
        /\ \A i \in 1..(Len(s) - 1) : r[i] = IF i < m THEN s[i] ELSE s[i + 1]
    <3> DEFINE a == SubSeq(s, 1, m - 1)
    <3> DEFINE b == SubSeq(s, m + 1, Len(s))
    <3>1. r = a \o b
      BY DEF RemoveAt
    <3>2. a \in Seq(Int32) /\ Len(a) = m - 1 /\ b \in Seq(Int32) /\ Len(b) = Len(s) - m
      BY <2>5, <2>6
    <3> HIDE DEF a, b
    <3>3. /\ a \o b \in Seq(Int32) /\ Len(a \o b) = Len(a) + Len(b)
          /\ \A i \in 1..(Len(a) + Len(b)) :
               (a \o b)[i] = IF i <= Len(a) THEN a[i] ELSE b[i - Len(a)]
      BY <3>2, ConcatProperties
    <3>4. Len(a) + Len(b) = Len(s) - 1
      BY <1>1, <2>4, <3>2
    <3>5. ASSUME NEW i \in 1..(Len(s) - 1)
          PROVE  (a \o b)[i] = IF i < m THEN s[i] ELSE s[i + 1]
      <4>1. (a \o b)[i] = IF i <= m - 1 THEN a[i] ELSE b[i - (m - 1)]
        BY <3>2, <3>3, <3>4
      <4>2. i \in Int /\ m \in Int /\ Len(s) \in Int
        BY <1>1, <2>4
      <4>3. CASE i < m
        <5>1. i \in 1..(m - 1) /\ i <= m - 1
          BY <4>2, <4>3
        <5>2. a[i] = s[i]
          BY <5>1, <2>5 DEF a
        <5>3. QED
          BY <4>1, <4>3, <5>1, <5>2
      <4>4. CASE ~(i < m)
        <5>1. i - (m - 1) \in 1..(Len(s) - m) /\ m + (i - (m - 1)) = i + 1 /\ ~(i <= m - 1)
          BY <4>2, <4>4
        <5>2. b[i - (m - 1)] = s[i + 1]
          BY <2>6, <5>1 DEF b
        <5>3. QED
          BY <4>1, <4>4, <5>1, <5>2
      <4>5. QED
        BY <4>3, <4>4
    <3>6. QED
      BY <1>1, <3>1, <3>3, <3>4, <3>5, LenProperties
  <2> HIDE DEF r
  <2>8. ToSet(r) \subseteq ToSet(s)
    <3>1. ASSUME NEW i \in 1..(Len(s) - 1) PROVE \E k \in 1..Len(s) : r[i] = s[k]
      <4>1. i \in 1..Len(s) /\ i + 1 \in 1..Len(s)
        BY <1>1
      <4>2. r[i] = s[i] \/ r[i] = s[i + 1]
        BY <2>7
      <4>3. QED
        BY <4>1, <4>2
    <3>2. DOMAIN r = 1..(Len(s) - 1) /\ DOMAIN s = 1..Len(s)
      BY <1>1, <2>7
    <3>3. QED
      BY <3>1, <3>2, Zenon DEF ToSet
  <2>9. ASSUME NEW k \in 2..Len(r) PROVE r[k - 1] <= r[k]
    <3>1. k \in 1..(Len(s) - 1) /\ k - 1 \in 1..(Len(s) - 1) /\ k \in 2..Len(s) /\ k + 1 \in 2..Len(s)
          /\ k \in 1..Len(s) /\ k - 1 \in 1..Len(s) /\ k + 1 \in 1..Len(s)
      BY <1>1, <2>7
    <3>2. s[k - 1] <= s[k] /\ s[k] <= s[k + 1]
      <4>1. (k + 1) - 1 = k
        BY <3>1
      <4>2. s[(k + 1) - 1] <= s[k + 1]
        BY <3>1
      <4>3. QED
        BY <3>1, <4>1, <4>2
    <3>3. s[k - 1] \in Int /\ s[k] \in Int /\ s[k + 1] \in Int
      BY <1>1, <3>1
    <3>4. r[k] = (IF k < m THEN s[k] ELSE s[k + 1]) /\ r[k - 1] = (IF k - 1 < m THEN s[k - 1] ELSE s[k])
      <4>1. (k - 1) + 1 = k
        BY <3>1
      <4>2. QED
        BY <2>7, <3>1, <4>1
    <3>5. QED
      BY <2>4, <3>1, <3>2, <3>3, <3>4
  <2>10. QED
    BY <2>3, <2>7, <2>8, <2>9 DEF r
<1>4. QED
  BY <1>2, <1>3

(* The vector after a push_back and a sort. *)
LEMMA PushedIs ==
  ASSUME NEW s \in Seq(Int32), NEW t \in Seq(Int32)
  PROVE  /\ Sorted(s \o t) \in Seq(Int32)
         /\ ToSet(Sorted(s \o t)) = ToSet(s) \cup ToSet(t)
         /\ \A k \in 2..Len(Sorted(s \o t)) : Sorted(s \o t)[k - 1] <= Sorted(s \o t)[k]
<1>1. /\ s \o t \in Seq(Int32) /\ Len(s \o t) = Len(s) + Len(t)
      /\ \A i \in 1..(Len(s) + Len(t)) : (s \o t)[i] = IF i <= Len(s) THEN s[i] ELSE t[i - Len(s)]
  BY ConcatProperties
<1>2. Len(s) \in Nat /\ Len(t) \in Nat /\ DOMAIN s = 1..Len(s) /\ DOMAIN t = 1..Len(t)
      /\ DOMAIN (s \o t) = 1..(Len(s) + Len(t))
  BY <1>1, LenProperties
<1>3. ToSet(s \o t) \subseteq ToSet(s) \cup ToSet(t)
  <2>1. ASSUME NEW i \in 1..(Len(s) + Len(t)) PROVE (s \o t)[i] \in ToSet(s) \cup ToSet(t)
    <3>1. CASE i <= Len(s)
      BY <1>1, <1>2, <3>1 DEF ToSet
    <3>2. CASE i > Len(s)
      <4>1. i - Len(s) \in 1..Len(t) /\ ~(i <= Len(s))
        BY <1>2, <3>2
      <4>2. (s \o t)[i] = t[i - Len(s)]
        BY <1>1, <4>1
      <4>3. QED
        BY <1>2, <4>1, <4>2 DEF ToSet
    <3>3. QED
      BY <1>2, <3>1, <3>2
  <2>2. QED
    BY <1>2, <2>1 DEF ToSet
<1>4. ToSet(s) \subseteq ToSet(s \o t)
  BY <1>1, <1>2 DEF ToSet
<1>5. ToSet(t) \subseteq ToSet(s \o t)
  <2>1. ASSUME NEW i \in 1..Len(t) PROVE t[i] = (s \o t)[Len(s) + i] /\ Len(s) + i \in 1..(Len(s) + Len(t))
    <3>1. Len(s) + i \in 1..(Len(s) + Len(t)) /\ ~(Len(s) + i <= Len(s)) /\ (Len(s) + i) - Len(s) = i
      BY <1>2
    <3>2. (s \o t)[Len(s) + i] = t[(Len(s) + i) - Len(s)]
      BY <1>1, <3>1
    <3>3. QED
      BY <3>1, <3>2
  <2>2. QED
    BY <1>2, <2>1 DEF ToSet
<1>6. QED
  BY <1>1, <1>3, <1>4, <1>5, SortedIs

(* The order in which a scan meets the files. *)
LEMMA ScanOrder ==
  ASSUME NEW S, IsFiniteSet(S)
  PROVE  /\ SetToSeq(S) \in Seq(S)
         /\ \A x \in S : \E k \in DOMAIN SetToSeq(S) : SetToSeq(S)[k] = x
<1> DEFINE n == Cardinality(S)
<1>1. n \in Nat /\ ExistsBijection(1..n, S)
  BY FS_CardinalityType
<1>2. IsFiniteSet(1..n) /\ Cardinality(1..n) = n
  <2>1. 1 \in Int /\ n \in Int /\ (1 > n => n = 0)
    BY <1>1
  <2> HIDE DEF n
  <2>2. QED
    BY <1>1, <2>1, FS_Interval
<1>3. \E f \in [1..n -> S] : IsInjective(f)
  BY <1>1 DEF ExistsBijection, Bijection, Injection
<1>4. SetToSeq(S) \in [1..n -> S] /\ IsInjective(SetToSeq(S))
  BY <1>3, Zenon DEF SetToSeq
<1>5. SetToSeq(S) \in Injection(1..n, S)
  BY <1>4 DEF Injection
<1>6. SetToSeq(S) \in Surjection(1..n, S)
  <2>1. Cardinality(1..n) = Cardinality(S)
    BY <1>2
  <2> HIDE DEF n
  <2>2. QED
    BY <1>5, <2>1, FS_Injection
<1>7. SetToSeq(S) \in Seq(S)
  <2> HIDE DEF n
  <2>1. QED
    BY <1>1, <1>4
<1>8. QED
  BY <1>6, <1>7 DEF Surjection

(* An int is an integer, and the int that the program counts with is one. *)
LEMMA IntIsInt ==
  /\ \A i \in Int32 : i \in Int
  /\ MaxInt \in Nat /\ \A i \in 0..MaxInt : i \in Int32
  BY TargetAssumption DEF Int32

(* What stoi returns is an int, or says why there is none. *)
LEMMA StoiIsInt ==
  ASSUME NEW s, IsId(stoi(s))
  PROVE  stoi(s) \in Int32
<1> DEFINE sign == IF s # <<>> /\ s[1] \in {"+", "-"} THEN 1 ELSE 0
<1> DEFINE last == Max({0} \cup {n \in DOMAIN s : \A k \in (sign + 1)..n : s[k] \in Digit})
<1> DEFINE number == Number(SubSeq(s, sign + 1, last))
<1>1. Reads(s, sign, last)
  BY Zenon DEF Reads
<1>2. number = Number(SubSeq(s, sign + 1, last))
  OBVIOUS
<1> HIDE DEF sign, last, number
<1>3. stoi(s) = IF last <= sign THEN NotNumber
                ELSE IF (IF s[1] = "-" THEN -number ELSE number) \in Int32
                     THEN IF s[1] = "-" THEN -number ELSE number ELSE TooLarge
  BY <1>1, <1>2, StoiIs
<1>4. QED
  BY <1>3, Zenon DEF IsId

(* An int is neither of the exceptions that stoi throws. *)
LEMMA IntIsId ==
  ASSUME NEW i \in Int32
  PROVE  IsId(i)
  BY IntIsInt, TargetAssumption DEF IsId

(* A printed number has no slash. *)
LEMMA NumberIsSegment ==
  ASSUME NEW i \in Int32
  PROVE  Segment(to_string(i))
<1>1. \A c \in Digit : c # "/"
  BY DigitIsNumber, DigitsDiffer
<1>2. ASSUME NEW n \in Nat
      PROVE  /\ Digits[n] \in Seq(Digit)
             /\ \A k \in DOMAIN Digits[n] : Digits[n][k] # "/"
  <2>1. Digits[n] \in Seq(Digit)
    BY DigitsAreRead
  <2>2. DOMAIN Digits[n] = 1..Len(Digits[n]) /\ \A k \in 1..Len(Digits[n]) : Digits[n][k] \in Digit
    BY <2>1, ElementOfSeq, LenProperties
  <2>3. QED
    BY <1>1, <2>1, <2>2
<1>3. i \in Int
  BY IntIsInt
<1>4. CASE i >= 0
  <2>1. i \in Nat /\ to_string(i) = Digits[i]
    BY <1>3, <1>4 DEF to_string
  <2>2. QED
    BY <1>2, <2>1 DEF Segment, ToSet
<1>5. CASE i < 0
  <2>1. -i \in Nat /\ to_string(i) = <<"-">> \o Digits[-i]
    BY <1>3, <1>5 DEF to_string
  <2> DEFINE d == Digits[-i]
  <2> DEFINE m == <<"-">>
  <2>2. /\ d \in Seq(Character) /\ m \in Seq(Character) /\ Len(m) = 1 /\ m[1] = "-"
        /\ \A k \in 1..Len(d) : d[k] # "/"
    <3>1. d \in Seq(Digit) /\ \A k \in DOMAIN d : d[k] # "/"
      BY <1>2, <2>1
    <3>2. d \in Seq(Character) /\ DOMAIN d = 1..Len(d)
      BY <3>1, SeqMonotonic, LenProperties DEF Character
    <3>3. "-" \in Character
      BY DEF Character
    <3>4. QED
      BY <3>1, <3>2, <3>3
  <2> HIDE DEF d, m
  <2>3. /\ m \o d \in Seq(Character) /\ Len(m \o d) = Len(m) + Len(d)
        /\ \A k \in 1..(Len(m) + Len(d)) : (m \o d)[k] = IF k <= Len(m) THEN m[k] ELSE d[k - Len(m)]
    BY <2>2, ConcatProperties
  <2>4. Len(d) \in Nat /\ DOMAIN (m \o d) = 1..(1 + Len(d))
    BY <2>2, <2>3, LenProperties
  <2>5. ASSUME NEW k \in 1..(1 + Len(d)) PROVE (m \o d)[k] # "/"
    <3>1. (m \o d)[k] = IF k <= 1 THEN m[k] ELSE d[k - 1]
      BY <2>2, <2>3
    <3>2. CASE k = 1
      BY <2>2, <3>1, <3>2
    <3>3. CASE k # 1
      <4>1. k - 1 \in 1..Len(d) /\ ~(k <= 1)
        BY <2>4, <3>3
      <4>2. QED
        BY <2>2, <3>1, <4>1
    <3>4. QED
      BY <3>2, <3>3
  <2>6. "/" \notin ToSet(m \o d)
    BY <2>4, <2>5 DEF ToSet
  <2>7. QED
    BY <2>1, <2>6 DEF Segment, d, m
<1>6. QED
  BY <1>3, <1>4, <1>5

-----------------------------------------------------------------------------
(* The scan and the operations on the map. *)

(* The directory iterator gives each file once, under an id that is an int. *)
LEMMA PushedIds ==
  ASSUME TypeOK, NEW id \in [Unnumbered -> Uninitialized], NEW d,
         \A f \in DOMAIN disk : stoi(f[2]) # TooLarge
  PROVE  /\ pushed(d, id) \in Seq(Int32)
         /\ \A f \in DOMAIN disk \ Unnumbered : f[1] = d => stoi(f[2]) \in ToSet(pushed(d, id))
         /\ \A i \in ToSet(pushed(d, id)) :
              \/ \E f \in DOMAIN disk \ Unnumbered : f[1] = d /\ i = stoi(f[2])
              \/ Unnumbered # {}
<1> DEFINE fs == SetToSeq(Files(d))
<1> DEFINE idOf(f) == IF f \in Unnumbered THEN id[f] ELSE stoi(f[2])
<1>1. IsFiniteSet(Files(d))
  <2>1. Files(d) \in SUBSET DOMAIN disk
    BY DEF Files
  <2>2. QED
    BY <2>1, FS_Subset DEF TypeOK
<1>2. fs \in Seq(Files(d)) /\ \A f \in Files(d) : \E k \in DOMAIN fs : fs[k] = f
  BY <1>1, ScanOrder
<1> HIDE DEF fs
<1>3. Len(fs) \in Nat /\ DOMAIN fs = 1..Len(fs) /\ \A k \in 1..Len(fs) : fs[k] \in Files(d)
  BY <1>2, ElementOfSeq, LenProperties
<1>4. ASSUME NEW f \in DOMAIN disk PROVE idOf(f) \in Int32
  <2>1. CASE f \in Unnumbered
    <3>1. id[f] \in Uninitialized
      BY <2>1
    <3>2. MaxInt \in Nat /\ id[f] \in -MaxInt..MaxInt
      BY <3>1, TargetAssumption
    <3>3. id[f] \in Int32
      BY <3>2 DEF Int32
    <3>4. QED
      BY <2>1, <3>3
  <2>2. CASE f \notin Unnumbered
    <3>1. IsId(stoi(f[2]))
      BY <2>2 DEF Unnumbered, IsId
    <3>2. QED
      BY <2>2, <3>1, StoiIsInt
  <2>3. QED
    BY <2>1, <2>2
<1>5. pushed(d, id) = [k \in 1..Len(fs) |-> idOf(fs[k])]
  BY <1>3, Zenon DEF pushed, fs
<1> DEFINE p == pushed(d, id)
<1>6. DOMAIN p = 1..Len(fs) /\ \A k \in 1..Len(fs) : p[k] = idOf(fs[k])
  <2> HIDE DEF idOf
  <2>1. QED
    BY <1>5
<1>7. p \in Seq(Int32)
  <2>1. \A k \in 1..Len(fs) : fs[k] \in DOMAIN disk
    BY <1>3 DEF Files
  <2>2. \A k \in 1..Len(fs) : idOf(fs[k]) \in Int32
    <3> HIDE DEF idOf
    <3>1. QED
      BY <1>4, <2>1
  <2>3. p \in [1..Len(fs) -> Int32]
    <3> HIDE DEF idOf
    <3>1. QED
      BY <1>5, <2>2
  <2>4. QED
    BY <1>3, <2>3
<1>8. ASSUME NEW f \in DOMAIN disk \ Unnumbered, f[1] = d PROVE stoi(f[2]) \in ToSet(p)
  <2>1. f \in Files(d)
    BY <1>8 DEF Files
  <2>2. PICK k \in 1..Len(fs) : fs[k] = f
    BY <1>2, <1>3, <2>1
  <2>3. p[k] = stoi(f[2])
    BY <1>6, <2>2
  <2> HIDE DEF p
  <2>4. QED
    BY <1>6, <2>3 DEF ToSet
<1>9. ASSUME NEW i \in ToSet(p), Unnumbered = {}
      PROVE  \E f \in DOMAIN disk \ Unnumbered : f[1] = d /\ i = stoi(f[2])
  <2>1. PICK k \in 1..Len(fs) : i = p[k]
    <3> HIDE DEF p
    <3>1. QED
      BY <1>6 DEF ToSet
  <2>2. fs[k] \in DOMAIN disk /\ fs[k][1] = d
    BY <1>3 DEF Files
  <2>3. i = stoi(fs[k][2])
    BY <1>6, <1>9, <2>1
  <2>4. QED
    BY <1>9, <2>2, <2>3
<1>10. QED
  BY <1>7, <1>8, <1>9

(* A new vector has no ids. *)
LEMMA EmptyVector == <<>> \in Seq(Int32) /\ ToSet(<<>>) = {}
  BY DEF ToSet

(* What a handler gets: every file whose name is a number is in the map. *)
Scanned(ids) ==
  /\ MapOK(ids)
  /\ \A f \in DOMAIN disk \ Unnumbered : f[1] \in DOMAIN ids /\ stoi(f[2]) \in ToSet(ids[f[1]])

(* The scan puts the id of every file into the map, and, if every file has one, *)
(* puts nothing else into it. *)
LEMMA ScanIs ==
  ASSUME TypeOK, NEW id \in [Unnumbered -> Uninitialized],
         \A f \in DOMAIN disk : stoi(f[2]) # TooLarge
  PROVE  /\ Scanned(initialize_entity_map(id))
         /\ Unnumbered = {} =>
              \A d \in DOMAIN initialize_entity_map(id) : \A i \in ToSet(initialize_entity_map(id)[d]) :
                 \/ d \in DOMAIN entity_ids /\ i \in ToSet(entity_ids[d])
                 \/ \E f \in DOMAIN disk : f[1] = d /\ i = stoi(f[2])
<1> DEFINE ids == initialize_entity_map(id)
<1> DEFINE D == DOMAIN entity_ids \cup {f[1] : f \in DOMAIN disk}
<1>1. /\ ids = [d \in D |-> Sorted(ids_of(entity_ids, d) \o pushed(d, id))]
      /\ DOMAIN ids = D
      /\ \A d \in D : ids[d] = Sorted(ids_of(entity_ids, d) \o pushed(d, id))
  BY DEF initialize_entity_map
<1> HIDE DEF ids
<1>2. ASSUME NEW d
      PROVE  /\ ids_of(entity_ids, d) \in Seq(Int32)
             /\ ToSet(ids_of(entity_ids, d)) = IF d \in DOMAIN entity_ids THEN ToSet(entity_ids[d]) ELSE {}
  <2>1. CASE d \in DOMAIN entity_ids
    <3>1. ids_of(entity_ids, d) = entity_ids[d]
      BY <2>1 DEF ids_of
    <3>2. entity_ids \in [DOMAIN entity_ids -> Seq(Int32)]
      BY DEF TypeOK, MapOK
    <3>3. QED
      BY <2>1, <3>1, <3>2
  <2>2. CASE d \notin DOMAIN entity_ids
    <3>1. ids_of(entity_ids, d) = <<>>
      BY <2>2 DEF ids_of
    <3>2. QED
      BY <2>2, <3>1, EmptyVector
  <2>3. QED
    BY <2>1, <2>2
<1>3. ASSUME NEW d \in D
      PROVE  /\ ids[d] \in Seq(Int32)
             /\ ToSet(ids[d]) = ToSet(ids_of(entity_ids, d)) \cup ToSet(pushed(d, id))
             /\ \A k \in 2..Len(ids[d]) : ids[d][k - 1] <= ids[d][k]
  <2>1. pushed(d, id) \in Seq(Int32)
    BY PushedIds
  <2>2. QED
    BY <1>1, <1>2, <2>1, PushedIs
<1>4. MapOK(ids)
  <2>1. ids \in [D -> Seq(Int32)]
    BY <1>1, <1>3
  <2>2. QED
    BY <1>1, <1>3, <2>1 DEF MapOK
<1>5. ASSUME NEW f \in DOMAIN disk \ Unnumbered
      PROVE  f[1] \in DOMAIN ids /\ stoi(f[2]) \in ToSet(ids[f[1]])
  <2>1. f[1] \in D
    OBVIOUS
  <2>2. stoi(f[2]) \in ToSet(pushed(f[1], id))
    BY PushedIds
  <2>3. QED
    BY <1>1, <1>3, <2>1, <2>2
<1>6. ASSUME Unnumbered = {}, NEW d \in DOMAIN ids, NEW i \in ToSet(ids[d])
      PROVE  \/ d \in DOMAIN entity_ids /\ i \in ToSet(entity_ids[d])
             \/ \E f \in DOMAIN disk : f[1] = d /\ i = stoi(f[2])
  <2>1. i \in ToSet(ids_of(entity_ids, d)) \/ i \in ToSet(pushed(d, id))
    BY <1>1, <1>3
  <2>2. CASE i \in ToSet(ids_of(entity_ids, d))
    BY <1>2, <2>2
  <2>3. CASE i \in ToSet(pushed(d, id))
    <3>1. \/ \E f \in DOMAIN disk \ Unnumbered : f[1] = d /\ i = stoi(f[2])
          \/ Unnumbered # {}
      BY <2>3, PushedIds
    <3>2. QED
      BY <1>6, <3>1
  <2>4. QED
    BY <2>1, <2>2, <2>3
<1>7. QED
  BY <1>4, <1>5, <1>6 DEF Scanned, ids

-----------------------------------------------------------------------------
(* Requests, and the map that their handlers change. *)

(* A request has a target, and a POST or a PUT a body. *)
LEMMA RequestIs ==
  ASSUME NEW r \in Requests
  PROVE  /\ r.method \in Method /\ r.target \in Target
         /\ r.method \in {"post", "put"} => r.body \in Content
         /\ r.method = "put" => r.target \in PutTarget
<1> DEFINE t0 == CHOOSE t \in Target : TRUE
<1>1. t0 \in Target /\ PutTarget \subseteq Target
  BY TargetAssumption
<1>2. CASE r \in [method : {"post"}, target : Target, body : Content]
  BY <1>2 DEF Method
<1>3. CASE r \in [method : {"put"}, target : PutTarget, body : Content]
  BY <1>1, <1>3 DEF Method
<1>4. CASE r \in [method : {"get", "delete"}, target : Target, body : {Null}]
  BY <1>4 DEF Method
<1>5. CASE r \in [method : {"other"}, target : {t0}, body : {Null}]
  <2> HIDE DEF t0
  <2>1. QED
    BY <1>1, <1>5 DEF Method
<1>6. QED
  BY <1>2, <1>3, <1>4, <1>5, Zenon DEF Requests

(* A printed number is a text. *)
LEMMA PrintedIs ==
  ASSUME NEW i \in Int32
  PROVE  to_string(i) \in Text
<1>1. \A n \in Nat : Digits[n] \in Text
  BY DigitsAreRead, SeqMonotonic DEF Text, Character
<1>2. <<"-">> \in Text
  BY DEF Text, Character
<1>3. i \in Int
  BY IntIsInt
<1>4. CASE i >= 0
  BY <1>1, <1>3, <1>4 DEF to_string
<1>5. CASE i < 0
  <2>1. -i \in Nat /\ to_string(i) = <<"-">> \o Digits[-i]
    BY <1>3, <1>5 DEF to_string
  <2>2. QED
    BY <1>1, <1>2, <2>1, ConcatProperties DEF Text
<1>6. QED
  BY <1>3, <1>4, <1>5

(* The directory of a PUT has no slash. *)
LEMMA PutDirectoryIs ==
  ASSUME NEW t \in Target, NEW i \in Int32
  PROVE  Segment(target_dir(t, i))
<1> DEFINE n == Len(t) - Len(to_string(i)) - 1
<1> DEFINE u == SubSeq(t, 1, n)
<1>1. t \in Text /\ Len(t) \in Nat /\ Len(to_string(i)) \in Nat
  BY TargetIsText, PrintedIs, TextLength
<1>2. u \in Text
  <2>1. CASE n >= 1
    <3>1. 1 \in 1..(Len(t) + 1) /\ n \in 0..Len(t)
      BY <1>1, <2>1
    <3>2. QED
      BY <1>1, <3>1, Pieces
  <2>2. CASE n < 1
    <3>1. n \in Int
      BY <1>1
    <3>2. u = <<>>
      BY <2>2, <3>1, SubSeqEmpty
    <3>3. <<>> \in Text
      BY EmptySeq DEF Text
    <3>4. QED
      BY <3>2, <3>3
  <2>3. QED
    BY <1>1, <2>1, <2>2
<1>3. Segment(After(u, LastSlash(u)))
  BY <1>2, LastIsSegment
<1>4. Segment(<<>>)
  BY EmptyVector DEF Segment
<1>5. target_dir(t, i) = IF LastSlash(u) = 0 THEN <<>> ELSE After(u, LastSlash(u))
  BY DEF target_dir
<1> HIDE DEF u
<1>6. QED
  BY <1>3, <1>4, <1>5

(* An id that is free is positive. *)
LEMMA AvailableIs ==
  ASSUME NEW ids, MapOK(ids), NEW d, get_available_id(ids, d) <= MaxInt
  PROVE  get_available_id(ids, d) \in Int32
<1>1. CASE d \notin DOMAIN ids
  <2>1. get_available_id(ids, d) = 1
    BY <1>1 DEF get_available_id
  <2>2. QED
    BY <2>1, TargetAssumption DEF Int32
<1>2. CASE d \in DOMAIN ids
  <2> DEFINE D == {n \in DOMAIN ids[d] : \A k \in 1..n : ids[d][k] = k}
  <2>1. ids[d] \in Seq(Int32)
    BY <1>2 DEF MapOK
  <2>2. Len(ids[d]) \in Nat /\ D \in SUBSET (1..Len(ids[d]))
    BY <2>1, LenProperties
  <2>3. get_available_id(ids, d) = Max({0} \cup D) + 1
    BY <1>2, Zenon DEF get_available_id
  <2> HIDE DEF D
  <2>4. Max({0} \cup D) \in 0..Len(ids[d])
    BY <2>2, GreatestPosition
  <2>5. get_available_id(ids, d) \in 1..MaxInt
    BY <2>2, <2>3, <2>4, TargetAssumption
  <2>6. QED
    BY <2>5, TargetAssumption DEF Int32
<1>3. QED
  BY <1>1, <1>2

(* Adding an id keeps the map, and puts no other id into it. *)
LEMMA AddedIs ==
  ASSUME NEW ids, MapOK(ids), NEW d, NEW i \in Int32
  PROVE  /\ MapOK(add_id_to_entity(ids, d, i))
         /\ \A e \in DOMAIN add_id_to_entity(ids, d, i) : \A j \in ToSet(add_id_to_entity(ids, d, i)[e]) :
              (e \in DOMAIN ids /\ j \in ToSet(ids[e])) \/ (e = d /\ j = i)
<1> DEFINE new == add_id_to_entity(ids, d, i)
<1>1. ids \in [DOMAIN ids -> Seq(Int32)]
  BY DEF MapOK
<1>2. <<i>> \in Seq(Int32) /\ Len(<<i>>) = 1 /\ ToSet(<<i>>) = {i}
  BY DEF ToSet
<1>3. CASE d \notin DOMAIN ids
  <2>1. new = Put(ids, d, <<i>>)
    BY <1>3 DEF add_id_to_entity
  <2>2. /\ DOMAIN new = DOMAIN ids \cup {d} /\ new[d] = <<i>>
        /\ \A e \in DOMAIN ids : new[e] = ids[e]
        /\ new = [e \in DOMAIN new |-> new[e]]
    <3> DEFINE p == Put(ids, d, <<i>>)
    <3>1. /\ DOMAIN p = DOMAIN ids \cup {d} /\ p[d] = <<i>>
          /\ \A e \in DOMAIN ids : e # d => p[e] = ids[e]
          /\ p = [e \in DOMAIN p |-> p[e]]
      BY DEF Put
    <3> HIDE DEF p
    <3>2. new = p
      BY <2>1 DEF p
    <3> HIDE DEF new
    <3>3. QED
      BY <1>3, <3>1, <3>2
  <2> HIDE DEF new
  <2>3. new \in [DOMAIN new -> Seq(Int32)]
    BY <1>1, <1>2, <2>2
  <2>4. \A e \in DOMAIN new : \A k \in 2..Len(new[e]) : new[e][k - 1] <= new[e][k]
    BY <1>2, <2>2 DEF MapOK
  <2>5. MapOK(new)
    BY <2>3, <2>4 DEF MapOK
  <2>6. QED
    BY <1>2, <2>2, <2>5 DEF new
<1>4. CASE d \in DOMAIN ids /\ entity_exists(ids, d, i)
  <2>1. new = ids
    BY <1>4 DEF add_id_to_entity
  <2>2. QED
    BY <2>1
<1>5. CASE d \in DOMAIN ids /\ ~entity_exists(ids, d, i)
  <2> DEFINE v == Sorted(Append(ids[d], i))
  <2>1. new = [ids EXCEPT ![d] = v]
    BY <1>5 DEF add_id_to_entity
  <2>2. ids[d] \in Seq(Int32)
    BY <1>1, <1>5
  <2>3. Append(ids[d], i) = ids[d] \o <<i>>
    BY <2>2
  <2>4. /\ v \in Seq(Int32) /\ ToSet(v) = ToSet(ids[d]) \cup {i}
        /\ \A k \in 2..Len(v) : v[k - 1] <= v[k]
    BY <1>2, <2>2, <2>3, PushedIs
  <2> HIDE DEF v, new
  <2>5. DOMAIN new = DOMAIN ids /\ new[d] = v /\ \A e \in DOMAIN ids : e # d => new[e] = ids[e]
    BY <1>1, <1>5, <2>1
  <2>6. new \in [DOMAIN new -> Seq(Int32)]
    BY <1>1, <1>5, <2>1, <2>4, <2>5
  <2>7. MapOK(new)
    BY <2>4, <2>5, <2>6 DEF MapOK
  <2>8. QED
    BY <1>5, <2>4, <2>5, <2>7 DEF new
<1>6. QED
  BY <1>3, <1>4, <1>5

(* Erasing an id keeps the map, and puts no id into it. *)
LEMMA ErasedIs ==
  ASSUME NEW ids, MapOK(ids), NEW d \in DOMAIN ids, NEW i
  PROVE  /\ MapOK(remove_id_from_entity(ids, d, i))
         /\ \A e \in DOMAIN remove_id_from_entity(ids, d, i) :
              e \in DOMAIN ids /\ ToSet(remove_id_from_entity(ids, d, i)[e]) \subseteq ToSet(ids[e])
<1> DEFINE new == remove_id_from_entity(ids, d, i)
<1> DEFINE v == RemoveFirst(ids[d], i)
<1>1. ids \in [DOMAIN ids -> Seq(Int32)]
  BY DEF MapOK
<1>2. new = [ids EXCEPT ![d] = v]
  BY DEF remove_id_from_entity
<1>3. ids[d] \in Seq(Int32) /\ \A k \in 2..Len(ids[d]) : ids[d][k - 1] <= ids[d][k]
  BY <1>1 DEF MapOK
<1>4. /\ v \in Seq(Int32) /\ ToSet(v) \subseteq ToSet(ids[d])
      /\ \A k \in 2..Len(v) : v[k - 1] <= v[k]
  BY <1>3, RemovedIs
<1> HIDE DEF v, new
<1>5. DOMAIN new = DOMAIN ids /\ new[d] = v /\ \A e \in DOMAIN ids : e # d => new[e] = ids[e]
  BY <1>1, <1>2
<1>6. new \in [DOMAIN new -> Seq(Int32)]
  BY <1>1, <1>2, <1>4, <1>5
<1>7. MapOK(new)
  BY <1>4, <1>5, <1>6 DEF MapOK
<1>8. QED
  BY <1>4, <1>5, <1>7 DEF new

(* The one way in which get_available_id returns an id that an entity has: it     *)
(* counts up from 1 as long as the vector does (crud_handler.cc:57), and stops too *)
(* early at a copy of the id before, which a rescan has pushed again, or at an id  *)
(* below 1 that comes first, which a PUT has named.                               *)
THEOREM AvailableUnlessCopied ==
  ASSUME NEW ids, MapOK(ids), NEW d \in DOMAIN ids,
         get_available_id(ids, d) \in ToSet(ids[d])
  PROVE  LET s == ids[d]
             n == get_available_id(ids, d)
         IN  /\ n \in DOMAIN s
             /\ IF n = 1 THEN s[1] < 1 ELSE s[n] = n - 1 /\ s[n - 1] = n - 1
<1> DEFINE s == ids[d]
<1> DEFINE n == Len(s)
<1> DEFINE D == {m \in DOMAIN s : \A k \in 1..m : s[k] = k}
<1> DEFINE M == Max({0} \cup D)
<1>1. s \in Seq(Int32)
  BY DEF MapOK
<1>2. n \in Nat /\ DOMAIN s = 1..n /\ \A k \in 1..n : s[k] \in Int
  <2>1. n \in Nat /\ DOMAIN s = 1..n /\ \A k \in 1..n : s[k] \in Int32
    BY <1>1, ElementOfSeq, LenProperties
  <2>2. QED
    BY <2>1, IntIsInt
<1>3. \A k \in 2..n : s[k - 1] <= s[k]
  BY DEF MapOK
<1>4. get_available_id(ids, d) = M + 1
  BY Zenon DEF get_available_id
<1>5. PICK p \in DOMAIN s : s[p] = M + 1
  BY <1>4 DEF ToSet
<1> HIDE DEF s, n
<1>6. D \in SUBSET (1..n)
  BY <1>2
<1>7. M \in {0} \cup D /\ M \in 0..n /\ \A k \in D : k <= M
  <2> HIDE DEF D
  <2>1. QED
    BY <1>2, <1>6, GreatestPosition
<1>8. \A k \in 1..M : s[k] = k
  <2>1. CASE M = 0
    BY <2>1
  <2>2. CASE M \in D
    <3> HIDE DEF M
    <3>1. QED
      BY <2>2
  <2>3. QED
    BY <1>7, <2>1, <2>2
<1>9. s[M + 1] # M + 1 \/ M + 1 \notin 1..n
  <2>1. SUFFICES ASSUME s[M + 1] = M + 1, M + 1 \in 1..n PROVE FALSE
    OBVIOUS
  <2>2. M \in Int
    BY <1>7
  <2> HIDE DEF M
  <2>3. \A k \in 1..(M + 1) : s[k] = k
    BY <1>8, <2>1, <2>2
  <2>4. M + 1 \in D
    BY <1>2, <2>1, <2>3
  <2> HIDE DEF D
  <2>5. M + 1 <= M
    BY <1>7, <2>4
  <2>6. QED
    BY <2>2, <2>5
<1> HIDE DEF M, D
<1>10. M \in Nat /\ p \in 1..n /\ M + 1 <= p
  <2>1. M \in Nat /\ p \in 1..n
    BY <1>2, <1>5, <1>7
  <2>2. CASE p <= M
    BY <1>5, <1>8, <2>1, <2>2
  <2>3. QED
    BY <2>1, <2>2
<1>11. \A k \in Nat : k \in (M + 1)..n => s[M + 1] <= s[k]
  <2> DEFINE T == {k \in Nat : k \in (M + 1)..n => s[M + 1] <= s[k]}
  <2>1. ASSUME NEW k \in Nat, \A m \in 0..(k - 1) : m \in T
        PROVE  k \in T
    <3>1. CASE k \in (M + 2)..n
      <4>1. k - 1 \in 0..(k - 1) /\ k - 1 \in (M + 1)..n /\ k \in 2..n
        BY <1>2, <1>10, <3>1
      <4>2. s[M + 1] <= s[k - 1]
        BY <2>1, <4>1
      <4>3. /\ s[k - 1] <= s[k] /\ s[k - 1] \in Int /\ s[k] \in Int
            /\ s[M + 1] \in Int
        BY <1>2, <1>3, <1>10, <3>1, <4>1
      <4>4. s[M + 1] <= s[k]
        BY <4>2, <4>3
      <4>5. QED
        BY <4>4
    <3>2. CASE k \notin (M + 2)..n
      <4>1. k \in (M + 1)..n => k = M + 1
        BY <1>2, <1>10, <3>2
      <4>2. M + 1 \in 1..n => s[M + 1] \in Int
        BY <1>2
      <4>3. QED
        BY <1>2, <1>10, <4>1, <4>2
    <3>3. QED
      BY <3>1, <3>2
  <2> HIDE DEF T
  <2>2. \A k \in Nat : k \in T
    BY <2>1, SetInduction
  <2>3. QED
    BY <2>2 DEF T
<1>12. M + 1 \in 1..n /\ s[M + 1] \in Int /\ s[M + 1] < M + 1
  <2>1. M + 1 \in 1..n /\ s[M + 1] \in Int
    BY <1>2, <1>10
  <2>2. s[M + 1] <= M + 1
    BY <1>2, <1>5, <1>10, <1>11
  <2>3. QED
    BY <1>9, <1>10, <2>1, <2>2
<1>13. M + 1 # 1 => s[M + 1] = (M + 1) - 1 /\ s[(M + 1) - 1] = (M + 1) - 1
  <2>1. SUFFICES ASSUME M >= 1
                 PROVE  s[M + 1] = (M + 1) - 1 /\ s[(M + 1) - 1] = (M + 1) - 1
    BY <1>10
  <2>2. s[M] = M /\ (M + 1) - 1 = M
    BY <1>8, <1>10, <2>1
  <2>3. s[M] <= s[M + 1]
    BY <1>2, <1>3, <1>10, <1>12, <2>1, <2>2
  <2>4. QED
    BY <1>10, <1>12, <2>2, <2>3
<1>14. /\ M + 1 \in DOMAIN s
       /\ IF M + 1 = 1 THEN s[1] < 1
          ELSE s[M + 1] = (M + 1) - 1 /\ s[(M + 1) - 1] = (M + 1) - 1
  BY <1>2, <1>12, <1>13
<1>15. QED
  BY <1>4, <1>14 DEF s

-----------------------------------------------------------------------------
(* The disk and what the responses say of it. *)

(* Setting one value of a function keeps the others, and their type. *)
LEMMA PutKeeps ==
  ASSUME NEW S, NEW f, f \in [DOMAIN f -> S], NEW x, NEW v \in S
  PROVE  /\ Put(f, x, v) \in [DOMAIN Put(f, x, v) -> S]
         /\ DOMAIN Put(f, x, v) = DOMAIN f \cup {x}
  BY DEF Put

(* So does leaving some of them out. *)
LEMMA RestrictKeeps ==
  ASSUME NEW S, NEW f, f \in [DOMAIN f -> S], NEW X \in SUBSET DOMAIN f
  PROVE  /\ Restrict(f, X) \in [DOMAIN Restrict(f, X) -> S]
         /\ DOMAIN Restrict(f, X) = X
  BY DEF Restrict

(* The files whose names stoi reads. *)
Known(files) == {f \in DOMAIN files : IsId(stoi(f[2]))}

(* DiskIsStored, in the words of the lemmas below. *)
LEMMA DiskIsStoredIs == DiskIsStored <=> stored = Restrict(disk, Known(disk))
  BY DEF DiskIsStored, Known

(* Writing a file whose name is a number, and storing its entity, ... *)
LEMMA StoredIsWritten ==
  ASSUME NEW files, NEW f, NEW c, IsId(stoi(f[2]))
  PROVE  Put(Restrict(files, Known(files)), f, c) = Restrict(Put(files, f, c), Known(Put(files, f, c)))
<1> DEFINE new == Put(files, f, c)
<1>1. DOMAIN new = DOMAIN files \cup {f}
  BY DEF Put
<1>2. \A g \in DOMAIN files \cup {f} : new[g] = IF g = f THEN c ELSE files[g]
  BY DEF Put
<1>3. DOMAIN Restrict(files, Known(files)) = Known(files)
  BY DEF Restrict
<1>4. Known(new) = Known(files) \cup {f}
  <2> HIDE DEF new
  <2>1. QED
    BY <1>1 DEF Known
<1>5. Put(Restrict(files, Known(files)), f, c) =
        [g \in Known(files) \cup {f} |-> IF g = f THEN c ELSE Restrict(files, Known(files))[g]]
  BY <1>3, Zenon DEF Put
<1>6. \A g \in Known(files) : Restrict(files, Known(files))[g] = files[g]
  BY DEF Restrict
<1>7. Known(files) \subseteq DOMAIN files
  BY DEF Known
<1>8. Restrict(new, Known(new)) = [g \in Known(files) \cup {f} |-> new[g]]
  <2> HIDE DEF new
  <2>1. QED
    BY <1>4 DEF Restrict
<1> HIDE DEF new
<1>9. \A g \in Known(files) \cup {f} :
        new[g] = IF g = f THEN c ELSE Restrict(files, Known(files))[g]
  BY <1>2, <1>6, <1>7
<1>10. QED
  BY <1>5, <1>8, <1>9 DEF new

(* ... or removing both, keeps the two equal. *)
LEMMA StoredIsRemoved ==
  ASSUME NEW files, NEW f
  PROVE  LET new == Restrict(files, DOMAIN files \ {f})
             was == Restrict(files, Known(files))
         IN Restrict(was, DOMAIN was \ {f}) = Restrict(new, Known(new))
<1> DEFINE new == Restrict(files, DOMAIN files \ {f})
<1> DEFINE was == Restrict(files, Known(files))
<1>1. /\ DOMAIN new = DOMAIN files \ {f} /\ \A g \in DOMAIN files \ {f} : new[g] = files[g]
      /\ DOMAIN was = Known(files) /\ \A g \in Known(files) : was[g] = files[g]
  BY DEF Restrict
<1> HIDE DEF new, was
<1>2. Known(new) = Known(files) \ {f}
  BY <1>1 DEF Known
<1>3. \A g \in Known(files) \ {f} : new[g] = was[g]
  BY <1>1 DEF Known
<1>4. Restrict(was, DOMAIN was \ {f}) = Restrict(new, Known(new))
  BY <1>1, <1>2, <1>3 DEF Restrict
<1>5. QED
  BY <1>4 DEF new, was

(* What writing an entity's file does to the disk. *)
LEMMA WriteKeeps ==
  ASSUME TypeOK, NEW d, NEW i \in Int32, NEW c \in Content,
         d # <<>>, Segment(d), Write(d, i, c)
  PROVE  /\ disk' \in [DOMAIN disk' -> Content] /\ IsFiniteSet(DOMAIN disk')
         /\ DOMAIN disk' = DOMAIN disk \cup {<<d, to_string(i)>>}
         /\ \A f \in DOMAIN disk' : /\ f = <<f[1], f[2]>> /\ f[1] \in dirs'
                                    /\ f[1] # <<>> /\ Segment(f[1]) /\ Segment(f[2])
         /\ \A n \in named' : n = <<n[1], n[2]>> /\ n[2] \in Int32
<1> DEFINE file == <<d, to_string(i)>>
<1>1. disk \in [DOMAIN disk -> Content] /\ IsFiniteSet(DOMAIN disk)
  BY DEF TypeOK
<1>2. disk' = Put(disk, file, c)
  BY DEF Write
<1>3. Segment(file[2]) /\ file[1] = d /\ file = <<file[1], file[2]>>
  BY NumberIsSegment
<1> HIDE DEF file
<1>4. disk' \in [DOMAIN disk' -> Content] /\ DOMAIN disk' = DOMAIN disk \cup {file}
  <2> DEFINE p == Put(disk, file, c)
  <2>1. p \in [DOMAIN p -> Content] /\ DOMAIN p = DOMAIN disk \cup {file}
    BY <1>1 DEF Put
  <2> HIDE DEF p
  <2>2. disk' = p
    BY <1>2 DEF p
  <2>3. QED
    BY <2>1, <2>2
<1>5. IsFiniteSet(DOMAIN disk')
  BY <1>1, <1>4, FS_AddElement
<1>6. ASSUME NEW f \in DOMAIN disk'
      PROVE  /\ f = <<f[1], f[2]>> /\ f[1] \in dirs'
             /\ f[1] # <<>> /\ Segment(f[1]) /\ Segment(f[2])
  <2>1. dirs' = dirs \cup {d}
    BY DEF Write
  <2>2. CASE f \in DOMAIN disk
    BY <2>1, <2>2 DEF TypeOK
  <2>3. CASE f = file
    BY <1>3, <2>1, <2>3
  <2>4. QED
    BY <1>4, <2>2, <2>3
<1>7. ASSUME NEW n \in named' PROVE n = <<n[1], n[2]>> /\ n[2] \in Int32
  <2>1. n \in named \/ n = <<d, i>>
    BY DEF Write
  <2>2. CASE n \in named
    BY <2>2 DEF TypeOK
  <2>3. CASE n = <<d, i>>
    BY <2>3
  <2>4. QED
    BY <2>1, <2>2, <2>3
<1>8. QED
  BY <1>4, <1>5, <1>6, <1>7 DEF file

-----------------------------------------------------------------------------
(* Type correctness. *)

(* What a response leaves as it was, its step may keep as it is. *)
LEMMA KeepsTypes ==
  ASSUME TypeOK, NEW ids, MapOK(ids), entity_ids' = ids, requests' \in 0..MaxRequests,
         res' # Null => res'.method \in Method /\ res'.target \in Target /\ res'.code \in {200, 201, 400},
         UNCHANGED <<dirs, disk, stored, named>>
  PROVE  TypeOK'
  BY DEF TypeOK, MapOK

(* A response has the types of a response. *)
LEMMA ResponseIs ==
  ASSUME NEW r \in Requests, NEW code \in {200, 201, 400}, NEW id, NEW ids, NEW body,
         Respond(r, code, id, ids, body)
  PROVE  /\ res'.method = r.method /\ res'.target = r.target /\ res'.code = code
         /\ res'.ids = ids /\ res'.body = body
         /\ res'.method \in Method /\ res'.target \in Target /\ res'.code \in {200, 201, 400}
  BY RequestIs DEF Respond

(* A 400, ... *)
LEMMA RefusalKeepsTypes ==
  ASSUME TypeOK, NEW ids, MapOK(ids), NEW r \in Requests, requests' \in 0..MaxRequests,
         bad_response(r, ids)
  PROVE  TypeOK'
<1>1. Respond(r, 400, Null, <<>>, Null) /\ entity_ids' = ids
  BY DEF bad_response
<1>2. res'.method \in Method /\ res'.target \in Target /\ res'.code \in {200, 201, 400}
  BY <1>1, ResponseIs
<1>3. QED
  BY <1>1, <1>2, KeepsTypes DEF bad_response

(* ... the end of the process, ... *)
LEMMA TerminateKeepsTypes ==
  ASSUME TypeOK, requests' \in 0..MaxRequests, Terminate
  PROVE  TypeOK'
<1>1. MapOK(<<>>)
  BY EmptyVector DEF MapOK
<1>2. QED
  BY <1>1, KeepsTypes DEF Terminate

(* ... a POST, ... *)
LEMMA CreationKeepsTypes ==
  ASSUME TypeOK, NEW ids, MapOK(ids), NEW r \in Requests, requests' \in 0..MaxRequests,
         r.method = "post", handle_creation(r, ids)
  PROVE  TypeOK'
<1> DEFINE d == After(r.target, LastSlash(r.target))
<1> DEFINE id == get_available_id(ids, d)
<1>1. CASE bad_response(r, ids)
  BY <1>1, RefusalKeepsTypes
<1>2. CASE /\ d # <<>> /\ id <= MaxInt
           /\ Write(d, id, r.body)
           /\ entity_ids' = add_id_to_entity(ids, d, id)
           /\ stored' = Put(stored, <<d, to_string(id)>>, r.body)
           /\ Respond(r, 201, id, <<>>, Null)
  <2>1. r.target \in Target /\ r.body \in Content
    BY RequestIs
  <2>2. Segment(d)
    BY <2>1, TargetIsText, LastIsSegment
  <2>3. id \in Int32
    BY <1>2, AvailableIs
  <2>4. MapOK(entity_ids)'
    <3>1. MapOK(add_id_to_entity(ids, d, id))
      BY <2>3, AddedIs
    <3>2. QED
      BY <1>2, <3>1 DEF MapOK
  <2>5. stored' \in [DOMAIN stored' -> Content]
    <3>1. stored \in [DOMAIN stored -> Content]
      BY DEF TypeOK
    <3> HIDE DEF d, id
    <3>2. QED
      BY <1>2, <2>1, <3>1, PutKeeps
  <2>6. res'.method \in Method /\ res'.target \in Target /\ res'.code \in {200, 201, 400}
    BY <1>2, ResponseIs
  <2>7. /\ disk' \in [DOMAIN disk' -> Content] /\ IsFiniteSet(DOMAIN disk')
        /\ \A f \in DOMAIN disk' : /\ f = <<f[1], f[2]>> /\ f[1] \in dirs'
                                   /\ f[1] # <<>> /\ Segment(f[1]) /\ Segment(f[2])
        /\ \A n \in named' : n = <<n[1], n[2]>> /\ n[2] \in Int32
    <3> HIDE DEF d, id
    <3>1. QED
      BY <1>2, <2>1, <2>2, <2>3, WriteKeeps
  <2>8. QED
    BY <2>4, <2>5, <2>6, <2>7 DEF TypeOK
<1>3. QED
  BY <1>1, <1>2, Zenon DEF handle_creation

(* ... a PUT, ... *)
LEMMA UpdateKeepsTypes ==
  ASSUME TypeOK, NEW ids, MapOK(ids), NEW r \in Requests, requests' \in 0..MaxRequests,
         r.method = "put", handle_update(r, ids)
  PROVE  TypeOK'
<1> DEFINE id == stoi(After(r.target, LastSlash(r.target)))
<1> DEFINE d == target_dir(r.target, id)
<1>1. CASE bad_response(r, ids)
  BY <1>1, RefusalKeepsTypes
<1>2. CASE Terminate
  BY <1>2, TerminateKeepsTypes
<1>3. CASE /\ IsId(id) /\ d # <<>>
           /\ Write(d, id, r.body)
           /\ \/ /\ <<d, to_string(id)>> \in DOMAIN disk
                 /\ entity_ids' = ids
                 /\ Respond(r, 200, id, <<>>, Null)
              \/ /\ <<d, to_string(id)>> \notin DOMAIN disk
                 /\ entity_ids' = add_id_to_entity(ids, d, id)
                 /\ Respond(r, 201, id, <<>>, Null)
           /\ stored' = Put(stored, Entity(r.target), r.body)
  <2>1. r.target \in Target /\ r.body \in Content
    BY RequestIs
  <2>2. id \in Int32
    BY <1>3, StoiIsInt
  <2>3. Segment(d)
    <3> HIDE DEF id
    <3>1. QED
      BY <2>1, <2>2, PutDirectoryIs
  <2>4. MapOK(entity_ids)'
    <3>1. MapOK(add_id_to_entity(ids, d, id))
      BY <2>2, AddedIs
    <3> HIDE DEF d, id
    <3>2. QED
      BY <1>3, <3>1 DEF MapOK
  <2>5. stored' \in [DOMAIN stored' -> Content]
    <3>1. stored \in [DOMAIN stored -> Content]
      BY DEF TypeOK
    <3> HIDE DEF d, id
    <3>2. QED
      BY <1>3, <2>1, <3>1, PutKeeps
  <2>6. res'.method \in Method /\ res'.target \in Target /\ res'.code \in {200, 201, 400}
    <3> HIDE DEF d, id
    <3>1. Respond(r, 200, id, <<>>, Null) \/ Respond(r, 201, id, <<>>, Null)
      BY <1>3
    <3>2. QED
      BY <3>1, ResponseIs
  <2>7. /\ disk' \in [DOMAIN disk' -> Content] /\ IsFiniteSet(DOMAIN disk')
        /\ \A f \in DOMAIN disk' : /\ f = <<f[1], f[2]>> /\ f[1] \in dirs'
                                   /\ f[1] # <<>> /\ Segment(f[1]) /\ Segment(f[2])
        /\ \A n \in named' : n = <<n[1], n[2]>> /\ n[2] \in Int32
    <3> HIDE DEF d, id
    <3>1. QED
      BY <1>3, <2>1, <2>2, <2>3, WriteKeeps
  <2>8. QED
    BY <2>4, <2>5, <2>6, <2>7 DEF TypeOK
<1>4. QED
  BY <1>1, <1>2, <1>3, Zenon DEF handle_update

(* ... a DELETE ... *)
LEMMA DeletionKeepsTypes ==
  ASSUME TypeOK, NEW ids, MapOK(ids), NEW r \in Requests, requests' \in 0..MaxRequests,
         handle_deletion(r, ids)
  PROVE  TypeOK'
<1> DEFINE file == deletion_path(r.target)
<1> DEFINE id == stoi(file[2])
<1>1. CASE bad_response(r, ids)
  BY <1>1, RefusalKeepsTypes
<1>2. CASE /\ file \in DOMAIN disk /\ entity_exists(ids, file[1], id)
           /\ entity_ids' = remove_id_from_entity(ids, file[1], id)
           /\ disk' = Restrict(disk, DOMAIN disk \ {file})
           /\ stored' = Restrict(stored, DOMAIN stored \ {Entity(r.target)})
           /\ Respond(r, 200, id, <<>>, Null)
           /\ UNCHANGED <<dirs, named>>
  <2>1. MapOK(entity_ids)'
    <3>1. file[1] \in DOMAIN ids
      BY <1>2 DEF entity_exists
    <3>2. MapOK(remove_id_from_entity(ids, file[1], id))
      BY <3>1, ErasedIs
    <3> HIDE DEF file, id
    <3>3. QED
      BY <1>2, <3>2 DEF MapOK
  <2> HIDE DEF file, id
  <2>2. disk \in [DOMAIN disk -> Content] /\ stored \in [DOMAIN stored -> Content]
    BY DEF TypeOK
  <2>3. disk' \in [DOMAIN disk' -> Content] /\ DOMAIN disk' = DOMAIN disk \ {file}
    BY <1>2, <2>2, RestrictKeeps
  <2>4. stored' \in [DOMAIN stored' -> Content]
    BY <1>2, <2>2, RestrictKeeps
  <2>5. res'.method \in Method /\ res'.target \in Target /\ res'.code \in {200, 201, 400}
    BY <1>2, ResponseIs
  <2>6. IsFiniteSet(DOMAIN disk')
    BY <2>3, FS_Subset DEF TypeOK
  <2>7. dirs' = dirs /\ named' = named
    BY <1>2
  <2>8. ASSUME NEW f \in DOMAIN disk'
        PROVE  /\ f = <<f[1], f[2]>> /\ f[1] \in dirs'
               /\ f[1] # <<>> /\ Segment(f[1]) /\ Segment(f[2])
    <3>1. f \in DOMAIN disk
      BY <2>3
    <3>2. QED
      BY <2>7, <3>1 DEF TypeOK
  <2>9. \A n \in named' : n = <<n[1], n[2]>> /\ n[2] \in Int32
    BY <2>7 DEF TypeOK
  <2>10. QED
    BY <2>1, <2>3, <2>4, <2>5, <2>6, <2>8, <2>9 DEF TypeOK
<1>3. QED
  BY <1>1, <1>2, Zenon DEF handle_deletion

(* ... and a GET keep the types, ... *)
LEMMA GetKeepsTypes ==
  ASSUME TypeOK, NEW ids, MapOK(ids), NEW r \in Requests, requests' \in 0..MaxRequests,
         handle_get(r, ids)
  PROVE  TypeOK'
<1>1. CASE Terminate
  BY <1>1, TerminateKeepsTypes
<1>2. CASE list_entities(r, ids)
  <2>1. CASE bad_response(r, ids)
    BY <2>1, RefusalKeepsTypes
  <2>2. ASSUME NEW list, Respond(r, 200, Null, list, Null), entity_ids' = ids,
               UNCHANGED <<dirs, disk, stored, named>>
        PROVE  TypeOK'
    <3>1. res'.method \in Method /\ res'.target \in Target /\ res'.code \in {200, 201, 400}
      BY <2>2, ResponseIs
    <3>2. QED
      BY <2>2, <3>1, KeepsTypes
  <2>3. QED
    BY <1>2, <2>1, <2>2, Zenon DEF list_entities
<1>3. CASE retrieve_entity(r, ids)
  <2>1. CASE bad_response(r, ids)
    BY <2>1, RefusalKeepsTypes
  <2>2. ASSUME NEW body, Respond(r, 200, Null, <<>>, body), entity_ids' = ids,
               UNCHANGED <<dirs, disk, stored, named>>
        PROVE  TypeOK'
    <3>1. res'.method \in Method /\ res'.target \in Target /\ res'.code \in {200, 201, 400}
      BY <2>2, ResponseIs
    <3>2. QED
      BY <2>2, <3>1, KeepsTypes
  <2>3. CASE /\ entity_ids' = ids
             /\ Respond(r, 200, Null, <<>>, disk[retrieve_path(r.target)])
             /\ UNCHANGED <<dirs, disk, stored, named>>
    <3>1. PICK body : body = disk[retrieve_path(r.target)]
      OBVIOUS
    <3>2. Respond(r, 200, Null, <<>>, body)
      BY <2>3, <3>1
    <3>3. QED
      BY <2>2, <2>3, <3>2
  <2>4. QED
    BY <1>3, <2>1, <2>3, Zenon DEF retrieve_entity
<1>4. QED
  BY <1>1, <1>2, <1>3, Zenon DEF handle_get

(* ... and so does every request. *)
LEMMA RequestKeepsTypes ==
  ASSUME TypeOK, NEW ids, MapOK(ids), NEW r \in Requests, requests' \in 0..MaxRequests,
         handle_request(r, ids)
  PROVE  TypeOK'
<1>1. CASE r.method = "post" /\ handle_creation(r, ids)
  BY <1>1, CreationKeepsTypes
<1>2. CASE handle_get(r, ids)
  BY <1>2, GetKeepsTypes
<1>3. CASE r.method = "put" /\ handle_update(r, ids)
  BY <1>3, UpdateKeepsTypes
<1>4. CASE handle_deletion(r, ids)
  BY <1>4, DeletionKeepsTypes
<1>5. CASE bad_response(r, ids)
  BY <1>5, RefusalKeepsTypes
<1>6. QED
  BY <1>1, <1>2, <1>3, <1>4, <1>5, Zenon DEF handle_request

(* A request ends the process, or a handler serves it with the scanned map. *)
LEMMA CreateIs ==
  ASSUME TypeOK, NEW r \in Requests, create(r)
  PROVE  /\ requests' \in 0..MaxRequests
         /\ \/ Terminate
            \/ \E ids : /\ Scanned(ids) /\ handle_request(r, ids)
                        /\ Unnumbered = {} =>
                             \A d \in DOMAIN ids : \A i \in ToSet(ids[d]) :
                               \/ d \in DOMAIN entity_ids /\ i \in ToSet(entity_ids[d])
                               \/ \E f \in DOMAIN disk : f[1] = d /\ i = stoi(f[2])
<1>1. requests' \in 0..MaxRequests
  BY TargetAssumption DEF create, TypeOK
<1>2. CASE Terminate
  BY <1>1, <1>2
<1>3. ASSUME \A f \in DOMAIN disk : stoi(f[2]) # TooLarge,
             NEW id \in [Unnumbered -> Uninitialized], handle_request(r, initialize_entity_map(id))
      PROVE  \E ids : /\ Scanned(ids) /\ handle_request(r, ids)
                      /\ Unnumbered = {} =>
                           \A d \in DOMAIN ids : \A i \in ToSet(ids[d]) :
                             \/ d \in DOMAIN entity_ids /\ i \in ToSet(entity_ids[d])
                             \/ \E f \in DOMAIN disk : f[1] = d /\ i = stoi(f[2])
  <2>1. PICK ids : ids = initialize_entity_map(id)
    OBVIOUS
  <2>2. handle_request(r, ids)
    BY <1>3, <2>1
  <2>3. /\ Scanned(ids)
        /\ Unnumbered = {} =>
             \A d \in DOMAIN ids : \A i \in ToSet(ids[d]) :
               \/ d \in DOMAIN entity_ids /\ i \in ToSet(entity_ids[d])
               \/ \E f \in DOMAIN disk : f[1] = d /\ i = stoi(f[2])
    BY <1>3, <2>1, ScanIs
  <2>4. QED
    BY <2>2, <2>3
<1>4. QED
  BY <1>1, <1>2, <1>3, Zenon DEF create

(* The types hold on the disk that the start finds, ... *)
LEMMA InitTypes == Init => TypeOK
<1>1. SUFFICES ASSUME Init PROVE TypeOK
  OBVIOUS
<1>2. PICK found \in Found : dirs = {f[1] : f \in found} /\ disk \in [found -> Content]
  BY <1>1 DEF Init
<1>3. /\ IsFiniteSet(found)
      /\ \A f \in found : /\ f = <<f[1], f[2]>> /\ f[1] # <<>>
                          /\ "/" \notin ToSet(f[1]) /\ "/" \notin ToSet(f[2])
  BY TargetAssumption
<1>4. /\ disk \in [DOMAIN disk -> Content] /\ IsFiniteSet(DOMAIN disk)
      /\ \A f \in DOMAIN disk : /\ f = <<f[1], f[2]>> /\ f[1] \in dirs
                                /\ f[1] # <<>> /\ Segment(f[1]) /\ Segment(f[2])
  BY <1>2, <1>3 DEF Segment
<1>5. stored \in [DOMAIN stored -> Content] /\ DOMAIN stored = Known(disk)
  <2>1. stored = Restrict(disk, Known(disk)) /\ Known(disk) \in SUBSET DOMAIN disk
    BY <1>1 DEF Init, Known
  <2>2. QED
    BY <1>4, <2>1, RestrictKeeps
<1>6. \A n \in named : n = <<n[1], n[2]>> /\ n[2] \in Int32
  <2>1. \A f \in DOMAIN stored : stoi(f[2]) \in Int32
    BY <1>5, StoiIsInt DEF Known
  <2>2. named = {<<f[1], stoi(f[2])>> : f \in DOMAIN stored}
    BY <1>1 DEF Init
  <2>3. QED
    BY <2>1, <2>2
<1>7. MapOK(entity_ids)
  BY <1>1, EmptyVector DEF Init, MapOK
<1>8. requests \in 0..MaxRequests /\ res = Null
  BY <1>1, TargetAssumption DEF Init
<1>9. QED
  BY <1>4, <1>5, <1>6, <1>7, <1>8 DEF TypeOK

(* ... and every step keeps them. *)
LEMMA NextTypes == TypeOK /\ [Next]_vars => TypeOK'
<1>1. SUFFICES ASSUME TypeOK, [Next]_vars PROVE TypeOK'
  OBVIOUS
<1>2. CASE UNCHANGED vars
  BY <1>1, <1>2 DEF vars, TypeOK, MapOK
<1>3. ASSUME NEW r \in Requests, create(r) PROVE TypeOK'
  <2>1. requests' \in 0..MaxRequests
    BY <1>1, <1>3, CreateIs
  <2>2. CASE Terminate
    BY <1>1, <2>1, <2>2, TerminateKeepsTypes
  <2>3. ASSUME NEW ids, Scanned(ids), handle_request(r, ids) PROVE TypeOK'
    <3>1. MapOK(ids)
      BY <2>3 DEF Scanned
    <3>2. QED
      BY <1>1, <1>3, <2>1, <2>3, <3>1, RequestKeepsTypes
  <2>4. QED
    BY <1>1, <1>3, <2>2, <2>3, CreateIs
<1>4. QED
  BY <1>1, <1>2, <1>3 DEF Next

(* The types hold in every state: the vectors of entity_ids_ stay sorted ints   *)
(* whatever the scan pushes, and what the handlers cut out of a target never     *)
(* gives a file a directory or a name with a slash (initialize_entity_map,       *)
(* add_id_to_entity, handle_creation and handle_update).                        *)
THEOREM TypeCorrect == Spec => []TypeOK
<1>1. QED
  BY InitTypes, NextTypes, PTL DEF Spec

-----------------------------------------------------------------------------
(* What is on the disk is what the responses say. *)

(* A POST writes and acknowledges the same entity. *)
LEMMA CreationKeepsStored ==
  ASSUME DiskIsStored, NEW ids, MapOK(ids), NEW r \in Requests, handle_creation(r, ids)
  PROVE  DiskIsStored'
<1> DEFINE d == After(r.target, LastSlash(r.target))
<1> DEFINE id == get_available_id(ids, d)
<1>1. CASE bad_response(r, ids)
  BY <1>1 DEF bad_response, DiskIsStored
<1>2. CASE /\ id <= MaxInt
           /\ Write(d, id, r.body)
           /\ stored' = Put(stored, <<d, to_string(id)>>, r.body)
  <2> DEFINE file == <<d, to_string(id)>>
  <2>1. id \in Int32
    BY <1>2, AvailableIs
  <2>2. IsId(stoi(file[2]))
    <3> HIDE DEF id
    <3>1. QED
      BY <2>1, NumberIsRead, IntIsId
  <2> HIDE DEF file
  <2>3. disk' = Put(disk, file, r.body) /\ stored' = Put(stored, file, r.body)
    BY <1>2 DEF Write, file
  <2>4. stored = Restrict(disk, Known(disk))
    BY DiskIsStoredIs
  <2>5. stored' = Restrict(disk', Known(disk'))
    BY <2>2, <2>3, <2>4, StoredIsWritten
  <2>6. QED
    BY <2>5 DEF DiskIsStored, Known
<1>3. QED
  BY <1>1, <1>2, Zenon DEF handle_creation

(* So does a PUT whose id is written as to_string writes it. *)
LEMMA UpdateKeepsStored ==
  ASSUME CanonicalTargets(PutTarget), DiskIsStored,
         NEW ids, NEW r \in Requests, r.method = "put", handle_update(r, ids)
  PROVE  DiskIsStored'
<1> DEFINE name == After(r.target, LastSlash(r.target))
<1> DEFINE id == stoi(name)
<1> DEFINE d == target_dir(r.target, id)
<1>1. CASE bad_response(r, ids)
  BY <1>1 DEF bad_response, DiskIsStored
<1>2. CASE Terminate
  BY <1>2 DEF Terminate, DiskIsStored
<1>3. CASE /\ IsId(id) /\ d # <<>>
           /\ Write(d, id, r.body)
           /\ stored' = Put(stored, Entity(r.target), r.body)
  <2> DEFINE file == <<d, to_string(id)>>
  <2>1. r.target \in Target /\ r.target \in PutTarget
    BY RequestIs
  <2>2. name = to_string(id)
    BY <1>3, <2>1, Zenon DEF CanonicalTargets
  <2>3. IsId(stoi(file[2]))
    BY <1>3, <2>2
  <2>4. file = Entity(r.target)
    <3> HIDE DEF id
    <3>1. QED
      BY <1>3, <2>1, <2>2, PutIsEntity
  <2>5. disk' = Put(disk, file, r.body)
    <3> HIDE DEF id
    <3>1. QED
      BY <1>3 DEF Write
  <2>6. stored' = Put(stored, file, r.body)
    BY <1>3, <2>4
  <2> HIDE DEF file
  <2>7. stored = Restrict(disk, Known(disk))
    BY DiskIsStoredIs
  <2>8. stored' = Restrict(disk', Known(disk'))
    BY <2>3, <2>5, <2>6, <2>7, StoredIsWritten
  <2>9. QED
    BY <2>8 DEF DiskIsStored, Known
<1>4. QED
  BY <1>1, <1>2, <1>3, Zenon DEF handle_update

(* A DELETE removes the file of the entity that it acknowledges. *)
LEMMA DeletionKeepsStored ==
  ASSUME TypeOK, DiskIsStored, NEW ids, NEW r \in Requests, handle_deletion(r, ids)
  PROVE  DiskIsStored'
<1> DEFINE file == deletion_path(r.target)
<1>1. CASE bad_response(r, ids)
  BY <1>1 DEF bad_response, DiskIsStored
<1>2. CASE /\ file \in DOMAIN disk
           /\ disk' = Restrict(disk, DOMAIN disk \ {file})
           /\ stored' = Restrict(stored, DOMAIN stored \ {Entity(r.target)})
  <2>1. file = Entity(r.target)
    <3>1. r.target \in Target
      BY RequestIs
    <3>2. file[1] # <<>>
      BY <1>2 DEF TypeOK
    <3>3. QED
      BY <3>1, <3>2, DeletionIsEntity
  <2> HIDE DEF file
  <2>2. stored = Restrict(disk, Known(disk))
    BY DiskIsStoredIs
  <2> DEFINE new == Restrict(disk, DOMAIN disk \ {file})
  <2> DEFINE was == Restrict(disk, Known(disk))
  <2>3. Restrict(was, DOMAIN was \ {file}) = Restrict(new, Known(new))
    BY StoredIsRemoved
  <2>4. disk' = new /\ stored' = Restrict(was, DOMAIN was \ {file})
    BY <1>2, <2>1, <2>2
  <2> HIDE DEF new, was
  <2>5. stored' = Restrict(disk', Known(disk'))
    BY <2>3, <2>4
  <2>6. QED
    BY <2>5 DEF DiskIsStored, Known
<1>3. QED
  BY <1>1, <1>2, Zenon DEF handle_deletion

(* A GET changes nothing. *)
LEMMA GetKeepsDisk ==
  ASSUME NEW ids, NEW r, handle_get(r, ids)
  PROVE  UNCHANGED <<disk, stored, named>>
  BY DEF handle_get, list_entities, retrieve_entity, bad_response, Terminate

(* No step makes the disk and the responses differ. *)
LEMMA StoredIsInvariant ==
  ASSUME CanonicalTargets(PutTarget), TypeOK, DiskIsStored, [Next]_vars
  PROVE  DiskIsStored'
<1>1. CASE UNCHANGED vars
  BY <1>1 DEF vars, DiskIsStored
<1>2. ASSUME NEW r \in Requests, create(r) PROVE DiskIsStored'
  <2>1. CASE Terminate
    BY <2>1 DEF Terminate, DiskIsStored
  <2>2. ASSUME NEW ids, Scanned(ids), handle_request(r, ids) PROVE DiskIsStored'
    <3>1. CASE handle_creation(r, ids)
      <4>1. MapOK(ids)
        BY <2>2 DEF Scanned
      <4>2. QED
        BY <1>2, <3>1, <4>1, CreationKeepsStored
    <3>2. CASE handle_get(r, ids)
      <4>1. UNCHANGED <<disk, stored, named>>
        BY <3>2, GetKeepsDisk
      <4>2. QED
        BY <4>1 DEF DiskIsStored
    <3>3. CASE r.method = "put" /\ handle_update(r, ids)
      BY <1>2, <3>3, UpdateKeepsStored
    <3>4. CASE handle_deletion(r, ids)
      BY <1>2, <3>4, DeletionKeepsStored
    <3>5. CASE bad_response(r, ids)
      BY <3>5 DEF bad_response, DiskIsStored
    <3>6. QED
      BY <2>2, <3>1, <3>2, <3>3, <3>4, <3>5, Zenon DEF handle_request
  <2>3. QED
    BY <1>2, <2>1, <2>2, CreateIs
<1>3. QED
  BY <1>1, <1>2 DEF Next

(* If every id that a PUT names is written as to_string writes it, every entity *)
(* that is acknowledged is on the disk under its own name, and nothing else is:  *)
(* POST, PUT and DELETE write and remove the file that their target names, and   *)
(* no other (the paths at crud_handler.cc:145, 204 and 408).                     *)
THEOREM DiskIsWhatResponsesSay ==
  ASSUME CanonicalTargets(PutTarget)
  PROVE  Spec => []DiskIsStored
<1>1. Init => DiskIsStored
  BY DEF Init, DiskIsStored
<1>2. TypeOK /\ DiskIsStored /\ [Next]_vars => DiskIsStored'
  BY StoredIsInvariant
<1>3. QED
  BY <1>1, <1>2, TypeCorrect, PTL DEF Spec

(* The map has the id of every file whose name stoi reads. *)
LEMMA ScannedFile ==
  ASSUME NEW ids, Scanned(ids), NEW f \in DOMAIN disk, IsId(stoi(f[2]))
  PROVE  entity_exists(ids, f[1], stoi(f[2]))
<1>1. f \in DOMAIN disk \ Unnumbered
  BY DEF Unnumbered, IsId
<1>2. f[1] \in DOMAIN ids /\ stoi(f[2]) \in ToSet(ids[f[1]])
  BY <1>1 DEF Scanned
<1>3. ids[f[1]] \in Seq(Int32)
  BY <1>2 DEF Scanned, MapOK
<1>4. PICK k \in 1..Len(ids[f[1]]) : ids[f[1]][k] = stoi(f[2])
  BY <1>2, <1>3, LenProperties DEF ToSet
<1>5. QED
  BY <1>2, <1>4 DEF entity_exists, Contains

(* A GET finds what its target names, if a response has said that it is there. *)
LEMMA GetAnswers ==
  ASSUME DiskIsStored, NEW ids, Scanned(ids), NEW r \in Requests, handle_get(r, ids)
  PROVE  GetIsLastWrite'
<1> DEFINE name == After(r.target, LastSlash(r.target))
<1> DEFINE e == Entity(r.target)
<1>1. r.target \in Target
  BY RequestIs
<1>2. e[2] = name /\ retrieve_path(r.target) = e
  BY <1>1, EntityIs, RetrieveIsEntity
<1>3. stored' = stored
  BY GetKeepsDisk
<1>4. CASE Terminate
  BY <1>4, Zenon DEF Terminate, GetIsLastWrite
<1>5. CASE stoi(name) = NotNumber /\ list_entities(r, ids)
  <2>1. res'.target = r.target
    <3>1. CASE bad_response(r, ids)
      BY <3>1 DEF bad_response, Respond
    <3>2. QED
      BY <1>5, <3>1 DEF list_entities, Respond
  <2>2. ~IsId(stoi(name))
    BY <1>5 DEF IsId
  <2>3. QED
    BY <2>1, <2>2 DEF GetIsLastWrite
<1>6. CASE IsId(stoi(name)) /\ retrieve_entity(r, ids)
  <2> DEFINE found == entity_exists(ids, e[1], stoi(e[2])) /\ e \in DOMAIN disk
  <2>1. found <=> e \in DOMAIN disk
    <3> HIDE DEF e
    <3>1. QED
      BY <1>2, <1>6, ScannedFile
  <2>2. /\ DOMAIN stored = {f \in DOMAIN disk : IsId(stoi(f[2]))}
        /\ \A f \in DOMAIN stored : stored[f] = disk[f]
    BY DEF DiskIsStored, Restrict
  <2>3. e \in DOMAIN disk <=> e \in DOMAIN stored
    <3> HIDE DEF e
    <3>1. QED
      BY <1>2, <1>6, <2>2
  <2>4. \/ ~found /\ bad_response(r, ids)
        \/ found /\ Respond(r, 200, Null, <<>>, disk[e])
    <3> HIDE DEF e
    <3>1. QED
      BY <1>2, <1>6, Zenon DEF retrieve_entity
  <2>5. /\ res'.target = r.target
        /\ IF e \in DOMAIN stored THEN res'.code = 200 /\ res'.body = stored[e] ELSE res'.code = 400
    <3> HIDE DEF e
    <3>1. CASE ~found /\ bad_response(r, ids)
      BY <2>1, <2>3, <3>1 DEF bad_response, Respond
    <3>2. CASE found /\ Respond(r, 200, Null, <<>>, disk[e])
      BY <2>1, <2>2, <2>3, <3>2 DEF Respond
    <3>3. QED
      BY <2>4, <3>1, <3>2
  <2>6. QED
    BY <1>3, <2>5 DEF GetIsLastWrite
<1>7. QED
  BY <1>4, <1>5, <1>6, Zenon DEF handle_get

(* GetIsLastWrite is about GETs only. *)
LEMMA OnlyGetAnswers ==
  ASSUME res' = Null \/ res'.method # "get"
  PROVE  GetIsLastWrite'
  BY DEF GetIsLastWrite

(* The response names the method of the request that it answers. *)
LEMMA ResponseOf ==
  ASSUME NEW ids, NEW r \in Requests,
         \/ handle_creation(r, ids) \/ handle_update(r, ids)
         \/ handle_deletion(r, ids) \/ bad_response(r, ids)
  PROVE  res' = Null \/ res'.method = r.method
<1>1. ASSUME NEW code, NEW id, NEW list, NEW body, Respond(r, code, id, list, body)
      PROVE  res'.method = r.method
  BY <1>1 DEF Respond
<1>2. CASE bad_response(r, ids)
  BY <1>1, <1>2 DEF bad_response
<1>3. CASE handle_creation(r, ids)
  BY <1>1, <1>2, <1>3, Zenon DEF handle_creation
<1>4. CASE handle_update(r, ids)
  BY <1>1, <1>2, <1>4, Zenon DEF handle_update, Terminate
<1>5. CASE handle_deletion(r, ids)
  BY <1>1, <1>2, <1>5, Zenon DEF handle_deletion
<1>6. QED
  BY <1>2, <1>3, <1>4, <1>5

(* The answer to a GET is right after every step. *)
LEMMA GetIsInvariant ==
  ASSUME TypeOK, DiskIsStored, GetIsLastWrite, [Next]_vars
  PROVE  GetIsLastWrite'
<1>1. CASE UNCHANGED vars
  BY <1>1 DEF vars, GetIsLastWrite
<1>2. ASSUME NEW r \in Requests, create(r) PROVE GetIsLastWrite'
  <2>1. CASE Terminate
    BY <2>1, OnlyGetAnswers DEF Terminate
  <2>2. ASSUME NEW ids, Scanned(ids), handle_request(r, ids) PROVE GetIsLastWrite'
    <3>1. CASE r.method = "get" /\ handle_get(r, ids)
      BY <1>2, <2>2, <3>1, GetAnswers
    <3>2. CASE r.method # "get" /\ (\/ handle_creation(r, ids) \/ handle_update(r, ids)
                                    \/ handle_deletion(r, ids) \/ bad_response(r, ids))
      BY <1>2, <3>2, ResponseOf, OnlyGetAnswers
    <3>3. QED
      BY <2>2, <3>1, <3>2 DEF handle_request
  <2>3. QED
    BY <1>2, <2>1, <2>2, CreateIs
<1>3. QED
  BY <1>1, <1>2 DEF Next

(* If every id that a PUT names is written as to_string writes it, a GET answers *)
(* with what the last acknowledged POST or PUT has stored under the entity that   *)
(* its target names, and with 400 if there is none: the four parsers of targets   *)
(* agree (crud_handler.cc:115, 190, 318, 394), and the scan that precedes the GET *)
(* has put the id of every file into the map, also after a restart has emptied it.*)
THEOREM GetSeesLastWrite ==
  ASSUME CanonicalTargets(PutTarget)
  PROVE  Spec => []GetIsLastWrite
<1>1. Init => GetIsLastWrite
  BY DEF Init, GetIsLastWrite
<1>2. TypeOK /\ DiskIsStored /\ GetIsLastWrite /\ [Next]_vars => GetIsLastWrite'
  BY GetIsInvariant
<1>3. Spec => []DiskIsStored
  BY DiskIsWhatResponsesSay
<1>4. QED
  BY <1>1, <1>2, <1>3, TypeCorrect, PTL DEF Spec

-----------------------------------------------------------------------------
(* What a listing names. *)

(* Every id in the map, and every number in the name of a file, has been given  *)
(* to a file of the directory.                                                  *)
MapIsNamed(ids) == \A d \in DOMAIN ids : \A i \in ToSet(ids[d]) : <<d, i>> \in named
NamedInv ==
  /\ Unnumbered = {}
  /\ \A f \in DOMAIN disk : IsId(stoi(f[2])) => <<f[1], stoi(f[2])>> \in named
  /\ MapIsNamed(entity_ids)
  /\ ListedWasNamed

(* A file that a handler writes has a number for a name. *)
LEMMA WriteKeepsNamed ==
  ASSUME Unnumbered = {}, \A f \in DOMAIN disk : IsId(stoi(f[2])) => <<f[1], stoi(f[2])>> \in named,
         NEW d, NEW i \in Int32, NEW c, Write(d, i, c)
  PROVE  /\ Unnumbered' = {}
         /\ \A f \in DOMAIN disk' : IsId(stoi(f[2])) => <<f[1], stoi(f[2])>> \in named'
         /\ named' = named \cup {<<d, i>>}
<1> DEFINE file == <<d, to_string(i)>>
<1>1. stoi(file[2]) = i /\ IsId(i) /\ file[1] = d
  BY NumberIsRead, IntIsId
<1>2. DOMAIN disk' = DOMAIN disk \cup {file}
  BY DEF Write, Put
<1>3. named' = named \cup {<<d, i>>}
  BY DEF Write
<1> HIDE DEF file
<1>4. \A f \in DOMAIN disk' : stoi(f[2]) # NotNumber
  BY <1>1, <1>2 DEF Unnumbered, IsId
<1>5. Unnumbered' = {}
  BY <1>4 DEF Unnumbered
<1>6. \A f \in DOMAIN disk' : IsId(stoi(f[2])) => <<f[1], stoi(f[2])>> \in named'
  BY <1>1, <1>2, <1>3
<1>7. QED
  BY <1>3, <1>5, <1>6

(* Putting the id of that file into the map keeps the map named. *)
LEMMA AddingKeepsNamed ==
  ASSUME NEW ids, MapOK(ids), MapIsNamed(ids), NEW d, NEW i \in Int32,
         named' = named \cup {<<d, i>>}, entity_ids' = add_id_to_entity(ids, d, i)
  PROVE  MapIsNamed(entity_ids)'
<1>1. \A e \in DOMAIN add_id_to_entity(ids, d, i) : \A j \in ToSet(add_id_to_entity(ids, d, i)[e]) :
        (e \in DOMAIN ids /\ j \in ToSet(ids[e])) \/ (e = d /\ j = i)
  BY AddedIs
<1>2. ASSUME NEW e \in DOMAIN entity_ids', NEW j \in ToSet(entity_ids'[e])
      PROVE  <<e, j>> \in named'
  <2>1. (e \in DOMAIN ids /\ j \in ToSet(ids[e])) \/ (e = d /\ j = i)
    BY <1>1
  <2>2. QED
    BY <2>1 DEF MapIsNamed
<1>3. QED
  BY <1>2 DEF MapIsNamed

(* A response that lists nothing. *)
LEMMA NothingListed ==
  ASSUME res' = Null \/ res'.code # 200 \/ res'.ids = <<>> \/ res'.method # "get"
  PROVE  ListedWasNamed'
  BY DEF ListedWasNamed

(* A step that neither writes nor removes a file, ... *)
LEMMA QuietKeepsNamed ==
  ASSUME NamedInv, MapIsNamed(entity_ids)', ListedWasNamed', UNCHANGED <<disk, named>>
  PROVE  NamedInv'
  BY DEF NamedInv, Unnumbered

(* ... such as a 400 ... *)
LEMMA RefusalKeepsNamed ==
  ASSUME NamedInv, NEW ids, MapIsNamed(ids), NEW r, bad_response(r, ids)
  PROVE  NamedInv'
<1>1. MapIsNamed(entity_ids)'
  BY DEF bad_response, MapIsNamed
<1>2. ListedWasNamed'
  BY NothingListed DEF bad_response, Respond
<1>3. QED
  BY <1>1, <1>2, QuietKeepsNamed DEF bad_response

(* ... or the end of the process, ... *)
LEMMA TerminateKeepsNamed ==
  ASSUME NamedInv, Terminate
  PROVE  NamedInv'
<1>1. MapIsNamed(entity_ids)'
  BY DEF Terminate, MapIsNamed
<1>2. ListedWasNamed'
  BY NothingListed DEF Terminate
<1>3. QED
  BY <1>1, <1>2, QuietKeepsNamed DEF Terminate

(* ... a POST, ... *)
LEMMA CreationKeepsNamed ==
  ASSUME NamedInv, NEW ids, MapOK(ids), MapIsNamed(ids), NEW r \in Requests,
         handle_creation(r, ids)
  PROVE  NamedInv'
<1> DEFINE d == After(r.target, LastSlash(r.target))
<1> DEFINE id == get_available_id(ids, d)
<1>1. CASE bad_response(r, ids)
  BY <1>1, RefusalKeepsNamed
<1>2. CASE /\ id <= MaxInt
           /\ Write(d, id, r.body)
           /\ entity_ids' = add_id_to_entity(ids, d, id)
           /\ Respond(r, 201, id, <<>>, Null)
  <2>1. id \in Int32
    BY <1>2, AvailableIs
  <2> HIDE DEF d, id
  <2>2. /\ Unnumbered' = {}
        /\ \A f \in DOMAIN disk' : IsId(stoi(f[2])) => <<f[1], stoi(f[2])>> \in named'
        /\ named' = named \cup {<<d, id>>}
    BY <1>2, <2>1, WriteKeepsNamed DEF NamedInv
  <2>3. MapIsNamed(entity_ids)'
    BY <1>2, <2>1, <2>2, AddingKeepsNamed
  <2>4. ListedWasNamed'
    BY <1>2, NothingListed DEF Respond
  <2>5. QED
    BY <2>2, <2>3, <2>4 DEF NamedInv
<1>3. QED
  BY <1>1, <1>2, Zenon DEF handle_creation

(* ... a PUT, ... *)
LEMMA UpdateKeepsNamed ==
  ASSUME NamedInv, NEW ids, MapOK(ids), MapIsNamed(ids), NEW r \in Requests,
         handle_update(r, ids)
  PROVE  NamedInv'
<1> DEFINE id == stoi(After(r.target, LastSlash(r.target)))
<1> DEFINE d == target_dir(r.target, id)
<1>1. CASE bad_response(r, ids)
  BY <1>1, RefusalKeepsNamed
<1>2. CASE Terminate
  BY <1>2, TerminateKeepsNamed
<1>3. CASE /\ IsId(id) /\ Write(d, id, r.body)
           /\ \/ /\ entity_ids' = ids
                 /\ Respond(r, 200, id, <<>>, Null)
              \/ /\ entity_ids' = add_id_to_entity(ids, d, id)
                 /\ Respond(r, 201, id, <<>>, Null)
  <2>1. id \in Int32
    BY <1>3, StoiIsInt
  <2> HIDE DEF d, id
  <2>2. /\ Unnumbered' = {}
        /\ \A f \in DOMAIN disk' : IsId(stoi(f[2])) => <<f[1], stoi(f[2])>> \in named'
        /\ named' = named \cup {<<d, id>>}
    BY <1>3, <2>1, WriteKeepsNamed DEF NamedInv
  <2>3. MapIsNamed(entity_ids)'
    <3>1. CASE entity_ids' = ids
      BY <2>2, <3>1 DEF MapIsNamed
    <3>2. CASE entity_ids' = add_id_to_entity(ids, d, id)
      BY <2>1, <2>2, <3>2, AddingKeepsNamed
    <3>3. QED
      BY <1>3, <3>1, <3>2
  <2>4. ListedWasNamed'
    BY <1>3, NothingListed DEF Respond
  <2>5. QED
    BY <2>2, <2>3, <2>4 DEF NamedInv
<1>4. QED
  BY <1>1, <1>2, <1>3, Zenon DEF handle_update

(* ... a DELETE ... *)
LEMMA DeletionKeepsNamed ==
  ASSUME NamedInv, NEW ids, MapOK(ids), MapIsNamed(ids), NEW r \in Requests,
         handle_deletion(r, ids)
  PROVE  NamedInv'
<1> DEFINE file == deletion_path(r.target)
<1> DEFINE id == stoi(file[2])
<1>1. CASE bad_response(r, ids)
  BY <1>1, RefusalKeepsNamed
<1>2. CASE /\ entity_exists(ids, file[1], id)
           /\ entity_ids' = remove_id_from_entity(ids, file[1], id)
           /\ disk' = Restrict(disk, DOMAIN disk \ {file})
           /\ Respond(r, 200, id, <<>>, Null)
           /\ named' = named
  <2> HIDE DEF file, id
  <2>1. \A e \in DOMAIN remove_id_from_entity(ids, file[1], id) :
          e \in DOMAIN ids /\ ToSet(remove_id_from_entity(ids, file[1], id)[e]) \subseteq ToSet(ids[e])
    BY <1>2, ErasedIs DEF entity_exists
  <2>2. MapIsNamed(entity_ids)'
    BY <1>2, <2>1 DEF MapIsNamed
  <2>3. DOMAIN disk' \subseteq DOMAIN disk
    BY <1>2 DEF Restrict
  <2>4. /\ Unnumbered' = {}
        /\ \A f \in DOMAIN disk' : IsId(stoi(f[2])) => <<f[1], stoi(f[2])>> \in named'
    BY <1>2, <2>3 DEF NamedInv, Unnumbered
  <2>5. ListedWasNamed'
    BY <1>2, NothingListed DEF Respond
  <2>6. QED
    BY <2>2, <2>4, <2>5 DEF NamedInv
<1>3. QED
  BY <1>1, <1>2, Zenon DEF handle_deletion

(* ... and a GET keep what is named: a listing is what the map has. *)
LEMMA GetKeepsNamed ==
  ASSUME NamedInv, NEW ids, MapIsNamed(ids), NEW r \in Requests, handle_get(r, ids)
  PROVE  NamedInv'
<1> DEFINE d == After(r.target, LastSlash(r.target))
<1>1. UNCHANGED <<disk, named>>
  BY GetKeepsDisk
<1>2. CASE Terminate
  BY <1>2, TerminateKeepsNamed
<1>3. CASE bad_response(r, ids)
  BY <1>3, RefusalKeepsNamed
<1>4. CASE entity_ids' = ids /\ d \in DOMAIN ids /\ Respond(r, 200, Null, ids[d], Null)
  <2>1. MapIsNamed(entity_ids)'
    BY <1>1, <1>4 DEF MapIsNamed
  <2>2. res'.ids = ids[d] /\ res'.target = r.target
    BY <1>4 DEF Respond
  <2>3. ListedWasNamed'
    BY <1>1, <1>4, <2>2 DEF ListedWasNamed, MapIsNamed
  <2>4. QED
    BY <1>1, <2>1, <2>3, QuietKeepsNamed
<1>5. CASE entity_ids' = ids /\ Respond(r, 200, Null, <<>>, disk[retrieve_path(r.target)])
  <2>1. MapIsNamed(entity_ids)'
    BY <1>1, <1>5 DEF MapIsNamed
  <2>2. ListedWasNamed'
    BY <1>5, NothingListed DEF Respond
  <2>3. QED
    BY <1>1, <2>1, <2>2, QuietKeepsNamed
<1>6. QED
  BY <1>2, <1>3, <1>4, <1>5, Zenon DEF handle_get, list_entities, retrieve_entity

(* NamedInv is inductive: what the scan adds are the numbers in the names of files. *)
LEMMA NamedIsInvariant ==
  ASSUME TypeOK, NamedInv, [Next]_vars
  PROVE  NamedInv'
<1>1. CASE UNCHANGED vars
  BY <1>1 DEF vars, NamedInv, Unnumbered, MapIsNamed, ListedWasNamed
<1>2. ASSUME NEW r \in Requests, create(r) PROVE NamedInv'
  <2>1. CASE Terminate
    BY <2>1, TerminateKeepsNamed
  <2>2. ASSUME NEW ids, Scanned(ids), handle_request(r, ids),
               \A d \in DOMAIN ids : \A i \in ToSet(ids[d]) :
                 \/ d \in DOMAIN entity_ids /\ i \in ToSet(entity_ids[d])
                 \/ \E f \in DOMAIN disk : f[1] = d /\ i = stoi(f[2])
        PROVE  NamedInv'
    <3>1. MapOK(ids)
      BY <2>2 DEF Scanned
    <3>2. ASSUME NEW d \in DOMAIN ids, NEW i \in ToSet(ids[d]) PROVE <<d, i>> \in named
      <4>1. CASE d \in DOMAIN entity_ids /\ i \in ToSet(entity_ids[d])
        BY <4>1 DEF NamedInv, MapIsNamed
      <4>2. CASE \E f \in DOMAIN disk : f[1] = d /\ i = stoi(f[2])
        <5>1. PICK f \in DOMAIN disk : f[1] = d /\ i = stoi(f[2])
          BY <4>2
        <5>2. ids[d] \in Seq(Int32)
          BY <3>1 DEF MapOK
        <5>3. i \in Int32
          BY <5>2, ElementOfSeq, LenProperties DEF ToSet
        <5>4. QED
          BY <5>1, <5>3, IntIsId DEF NamedInv
      <4>3. QED
        BY <2>2, <4>1, <4>2
    <3>3. MapIsNamed(ids)
      BY <3>2 DEF MapIsNamed
    <3>4. CASE handle_creation(r, ids)
      BY <1>2, <3>1, <3>3, <3>4, CreationKeepsNamed
    <3>5. CASE handle_get(r, ids)
      BY <1>2, <3>3, <3>5, GetKeepsNamed
    <3>6. CASE handle_update(r, ids)
      BY <1>2, <3>1, <3>3, <3>6, UpdateKeepsNamed
    <3>7. CASE handle_deletion(r, ids)
      BY <1>2, <3>1, <3>3, <3>7, DeletionKeepsNamed
    <3>8. CASE bad_response(r, ids)
      BY <3>3, <3>8, RefusalKeepsNamed
    <3>9. QED
      BY <2>2, <3>4, <3>5, <3>6, <3>7, <3>8, Zenon DEF handle_request
  <2>3. Unnumbered = {}
    BY DEF NamedInv
  <2>4. QED
    BY <1>2, <2>1, <2>2, <2>3, CreateIs
<1>3. QED
  BY <1>1, <1>2 DEF Next

(* It holds on a disk whose files all have numbers for names. *)
LEMMA InitNamed ==
  ASSUME NumberedNames(Found), Init
  PROVE  NamedInv
<1>1. PICK found \in Found : disk \in [found -> Content]
  BY DEF Init
<1>2. \A f \in DOMAIN disk : stoi(f[2]) # NotNumber
  BY <1>1 DEF NumberedNames
<1>3. \A f \in DOMAIN disk : IsId(stoi(f[2])) => <<f[1], stoi(f[2])>> \in named
  <2>1. DOMAIN stored = Known(disk)
    BY DEF Init, Restrict, Known
  <2>2. QED
    BY <2>1 DEF Init, Known
<1>4. QED
  BY <1>2, <1>3 DEF NamedInv, Unnumbered, MapIsNamed, ListedWasNamed, Init

(* If stoi reads the name of every file that the start finds, a listing names    *)
(* only ids that a file of its directory has or has had: the handlers give files *)
(* no other names than numbers, and the scan, which adds to the map and never     *)
(* clears it, pushes what the names say (crud_handler_factory.cc:50).            *)
THEOREM ListingsAreNamed ==
  ASSUME NumberedNames(Found)
  PROVE  Spec => []ListedWasNamed
<1>1. Init => NamedInv
  BY InitNamed
<1>2. TypeOK /\ NamedInv /\ [Next]_vars => NamedInv'
  BY NamedIsInvariant
<1>3. NamedInv => ListedWasNamed
  BY DEF NamedInv
<1>4. QED
  BY <1>1, <1>2, <1>3, TypeCorrect, PTL DEF Spec
=============================================================================
