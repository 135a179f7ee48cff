-------------------------- MODULE MemeStoreProofs ---------------------------
(***************************************************************************)
(* Theorems about MemeStore, for any number of workers, ids, requests,     *)
(* interrupts and ratings: what was posted is kept and found and shown     *)
(* whole, a viewer is counted, the files hold what the tables hold, and no *)
(* rounding takes a mean out of the range of its ratings.  All rest on the *)
(* inductive invariant MemeInv of MemeStore.                               *)
(***************************************************************************)
EXTENDS MemeStore, NumberLemmas

(* Division rounds down. *)
LEMMA Division ==
  ASSUME NEW a \in Int, NEW b \in Nat, b > 0
  PROVE  /\ a \div b \in Int /\ b * (a \div b) <= a /\ a < b * (a \div b) + b
         /\ a % b = a - b * (a \div b)
OBVIOUS

(* The quotients that round to an integer are at most half a step away. *)
LEMMA Rounded ==
  ASSUME NEW a \in Int, NEW b \in Nat, b > 0
  PROVE  /\ Round(a, b) \in Int
         /\ 2 * (b * Round(a, b)) - 2 * a <= b /\ 2 * a - 2 * (b * Round(a, b)) <= b
         /\ 2 * (b * Round(a, b)) - 2 * a = b \/ 2 * a - 2 * (b * Round(a, b)) = b
              => Round(a, b) % 2 = 0
<1> DEFINE q == a \div b
           rest == a % b
<1>1. q \in Int /\ b * q <= a /\ a < b * q + b /\ rest = a - b * q
  BY Division
<1>2. Round(a, b) = IF 2 * rest < b \/ (2 * rest = b /\ q % 2 = 0) THEN q ELSE q + 1
  BY DEF Round
<1> HIDE DEF q, rest
<1>3. PICK p \in Int : p = b * q
  BY <1>1
<1>4. p <= a /\ a < p + b /\ rest = a - p
  BY <1>1, <1>3
<1>5. CASE 2 * rest < b \/ (2 * rest = b /\ q % 2 = 0)
  <2>1. Round(a, b) = q
    BY <1>2, <1>5
  <2>2. 2 * p - 2 * a <= b /\ 2 * a - 2 * p <= b
    BY <1>3, <1>4, <1>5
  <2>3. 2 * p - 2 * a = b \/ 2 * a - 2 * p = b => q % 2 = 0
    BY <1>3, <1>4, <1>5
  <2>4. QED
    BY <1>1, <1>3, <2>1, <2>2, <2>3
<1>6. CASE ~(2 * rest < b \/ (2 * rest = b /\ q % 2 = 0))
  <2>1. Round(a, b) = q + 1
    BY <1>2, <1>6
  <2>2. b * (q + 1) = p + b /\ q + 1 \in Int
    BY <1>1, <1>3
  <2>3. 2 * (p + b) - 2 * a <= b /\ 2 * a - 2 * (p + b) <= b
    BY <1>3, <1>4, <1>6
  <2>4. 2 * (p + b) - 2 * a = b \/ 2 * a - 2 * (p + b) = b => (q + 1) % 2 = 0
    <3>1. SUFFICES ASSUME 2 * (p + b) - 2 * a = b \/ 2 * a - 2 * (p + b) = b
                   PROVE  (q + 1) % 2 = 0
      OBVIOUS
    <3>2. 2 * rest = b
      BY <1>3, <1>4, <3>1
    <3>3. q % 2 # 0
      BY <1>6, <3>2
    <3>4. QED
      BY <1>1, <3>3
  <2>5. QED
    BY <2>1, <2>2, <2>3, <2>4
<1>7. QED
  BY <1>5, <1>6

(* Rounding does not pass an integer. *)
LEMMA RoundedBetween ==
  ASSUME NEW a \in Int, NEW b \in Nat, b > 0, NEW q \in Int
  PROVE  /\ b * q <= a => q <= Round(a, b)
         /\ a <= b * q => Round(a, b) <= q
<1> DEFINE k == Round(a, b)
<1>1. k \in Int /\ 2 * (b * k) - 2 * a <= b /\ 2 * a - 2 * (b * k) <= b
  BY Rounded
<1> HIDE DEF k
<1>2. PICK x \in Int : x = b * k
  BY <1>1
<1>3. PICK y \in Int : y = b * q
  OBVIOUS
<1>4. 2 * x - 2 * a <= b /\ 2 * a - 2 * x <= b
  BY <1>1, <1>2
<1>5. y <= a => q <= k
  <2>1. SUFFICES ASSUME y <= a, k + 1 <= q PROVE FALSE
    BY <1>1
  <2>2. b * (k + 1) <= b * q /\ b * (k + 1) = x + b
    BY <1>1, <1>2, <2>1
  <2>3. x + b <= y
    BY <1>3, <2>2
  <2>4. QED
    BY <1>2, <1>3, <1>4, <2>1, <2>3
<1>6. a <= y => k <= q
  <2>1. SUFFICES ASSUME a <= y, q + 1 <= k PROVE FALSE
    BY <1>1
  <2>2. b * (q + 1) <= b * k /\ b * (q + 1) = y + b
    BY <1>1, <1>3, <2>1
  <2>3. y + b <= x
    BY <1>2, <2>2
  <2>4. QED
    BY <1>2, <1>3, <1>4, <2>1, <2>3
<1>7. QED
  BY <1>3, <1>5, <1>6 DEF k

-----------------------------------------------------------------------------
(* Floats. *)

LEMMA FloatTypes ==
  Float \subseteq Int /\ Unit \in Float /\ Unit \in Nat \ {0} /\ TextUnit \in Nat \ {0}
BY MemeAssumption

LEMMA DistanceIs ==
  ASSUME NEW m \in Int, NEW n \in Int
  PROVE  /\ Distance(m, n) \in Nat
         /\ m <= n => Distance(m, n) = n - m
         /\ n <= m => Distance(m, n) = m - n
BY DEF Distance

(* There is a nearest float, and it is as the division chooses it. *)
LEMMA FloatIs ==
  ASSUME NEW a \in Int, NEW b \in Nat \ {0}
  PROVE  /\ float(a, b) \in Float
         /\ \A g \in Float : Distance(b * float(a, b), a) <= Distance(b * g, a)
<1> DEFINE D(f) == Distance(b * f, a)
           T == {D(f) : f \in Float}
           Best(f) == \A g \in Float : \/ D(f) < D(g)
                                       \/ D(f) = D(g) /\ (g \in Even => f \in Even)
           q == <<a, b>>
<1>1. \A f \in Float : D(f) \in Nat
  <2>1. SUFFICES ASSUME NEW f \in Float PROVE D(f) \in Nat
    OBVIOUS
  <2>2. b * f \in Int
    BY FloatTypes
  <2>3. QED
    BY <2>2, DistanceIs
<1>2. float(a, b) = CHOOSE f \in Float : Best(f)
  <2>1. q \in Int \X (Nat \ {0}) /\ q[1] = a /\ q[2] = b
    OBVIOUS
  <2> HIDE DEF q
  <2>2. nearest[q] = CHOOSE f \in Float : \A g \in Float : Nearer(f, g, q[1], q[2])
    BY <2>1 DEF nearest
  <2>3. nearest[q] = CHOOSE f \in Float : \A g \in Float : Nearer(f, g, a, b)
    BY <2>1, <2>2
  <2>4. QED
    <3>1. float(a, b) = nearest[q]
      BY DEF float, q
    <3>2. nearest[q] = CHOOSE f \in Float : Best(f)
      BY <2>3, Zenon DEF Nearer
    <3>3. QED
      BY <3>1, <3>2
<1> HIDE DEF D
<1>3. PICK m \in T : \A n \in T : m <= n
  <2>1. T \in SUBSET Nat /\ T # {}
    BY <1>1, FloatTypes
  <2> HIDE DEF T
  <2>2. QED
    BY <2>1, LeastNumber
<1>4. \E f \in Float : D(f) = m /\ \A g \in Float : D(g) = m => (g \in Even => f \in Even)
  <2>1. CASE \E f \in Float : D(f) = m /\ f \in Even
    BY <2>1
  <2>2. CASE ~\E f \in Float : D(f) = m /\ f \in Even
    BY <1>3, <2>2
  <2>3. QED
    BY <2>1, <2>2
<1>5. \E f \in Float : Best(f)
  <2>1. PICK f \in Float : D(f) = m /\ \A g \in Float : D(g) = m => (g \in Even => f \in Even)
    BY <1>4
  <2>2. ASSUME NEW g \in Float
        PROVE  \/ D(f) < D(g)
               \/ D(f) = D(g) /\ (g \in Even => f \in Even)
    <3>1. D(g) \in Nat /\ D(f) \in Nat /\ m <= D(g)
      BY <1>1, <1>3
    <3>2. CASE D(g) = m
      BY <2>1, <3>2
    <3>3. CASE D(g) # m
      <4>1. m \in Nat /\ D(f) = m /\ m <= D(g) /\ D(g) # m /\ D(g) \in Nat
        BY <1>1, <2>1, <3>1, <3>3
      <4>2. D(f) < D(g)
        BY <4>1
      <4>3. QED
        BY <4>2, Zenon
    <3>4. QED
      BY <3>2, <3>3
  <2>3. QED
    BY <2>2
<1> HIDE DEF Best
<1>6. float(a, b) \in Float /\ Best(float(a, b))
  BY <1>2, <1>5, Zenon
<1>7. ASSUME NEW g \in Float PROVE D(float(a, b)) <= D(g)
  <2>1. D(float(a, b)) < D(g) \/ D(float(a, b)) = D(g)
    BY <1>6 DEF Best
  <2>2. D(float(a, b)) \in Nat /\ D(g) \in Nat
    BY <1>1, <1>6
  <2>3. QED
    BY <2>1, <2>2
<1>8. QED
  BY <1>6, <1>7 DEF D

(* Rounding does not pass a float. *)
LEMMA FloatAbove ==
  ASSUME NEW a \in Int, NEW b \in Nat \ {0}, NEW q \in Float, b * q <= a
  PROVE  q <= float(a, b)
<1> DEFINE f == float(a, b)
<1>1. f \in Float /\ Distance(b * f, a) <= Distance(b * q, a)
  BY FloatIs
<1> HIDE DEF f
<1>2. f \in Int /\ q \in Int
  BY <1>1, FloatTypes
<1>3. PICK x \in Int : x = b * f
  BY <1>2
<1>4. PICK y \in Int : y = b * q
  BY <1>2
<1>5. SUFFICES ASSUME f + 1 <= q PROVE FALSE
  BY <1>2 DEF f
<1>6. b * (f + 1) <= b * q /\ b * (f + 1) = x + b
  BY <1>2, <1>3, <1>5
<1>7. x + b <= y /\ y <= a
  BY <1>4, <1>6
<1>8. Distance(x, a) = a - x /\ Distance(y, a) = a - y
  <2>1. x <= a
    BY <1>3, <1>4, <1>7
  <2>2. QED
    BY <1>3, <1>4, <1>7, <2>1, DistanceIs
<1>9. QED
  BY <1>1, <1>3, <1>4, <1>7, <1>8

LEMMA FloatBelow ==
  ASSUME NEW a \in Int, NEW b \in Nat \ {0}, NEW q \in Float, a <= b * q
  PROVE  float(a, b) <= q
<1> DEFINE f == float(a, b)
<1>1. f \in Float /\ Distance(b * f, a) <= Distance(b * q, a)
  BY FloatIs
<1> HIDE DEF f
<1>2. f \in Int /\ q \in Int
  BY <1>1, FloatTypes
<1>3. PICK x \in Int : x = b * f
  BY <1>2
<1>4. PICK y \in Int : y = b * q
  BY <1>2
<1>5. SUFFICES ASSUME q + 1 <= f PROVE FALSE
  BY <1>2 DEF f
<1>6. b * (q + 1) <= b * f /\ b * (q + 1) = y + b
  BY <1>2, <1>4, <1>5
<1>7. y + b <= x /\ a <= y
  BY <1>3, <1>4, <1>6
<1>8. Distance(x, a) = x - a /\ Distance(y, a) = y - a
  <2>1. a <= x
    BY <1>3, <1>4, <1>7
  <2>2. QED
    BY <1>3, <1>4, <1>7, <2>1, DistanceIs
<1>9. QED
  BY <1>1, <1>3, <1>4, <1>7, <1>8

(* A float is its own nearest one. *)
LEMMA FloatExact ==
  ASSUME NEW f \in Float
  PROVE  float(f, 1) = f
<1>1. f \in Int /\ 1 * f = f
  BY FloatTypes
<1>2. float(f, 1) \in Float /\ f <= float(f, 1) /\ float(f, 1) <= f
  BY <1>1, FloatIs, FloatAbove, FloatBelow
<1>3. PICK g \in Int : g = float(f, 1)
  BY <1>2, FloatTypes
<1>4. QED
  BY <1>1, <1>2, <1>3

(* An int that meets a float is a float, and the same one if there is one. *)
LEMMA OfInt ==
  ASSUME NEW n \in Int
  PROVE  /\ of_int(n) \in Float
         /\ n * Unit \in Float => of_int(n) = n * Unit
         /\ n > 0 => of_int(n) \in Nat \ {0}
<1>1. n * Unit \in Int /\ 1 \in Nat \ {0}
  BY FloatTypes
<1>2. of_int(n) \in Float
  BY <1>1, FloatIs DEF of_int
<1>3. n * Unit \in Float => of_int(n) = n * Unit
  BY FloatExact DEF of_int
<1>4. ASSUME n > 0 PROVE of_int(n) \in Nat \ {0}
  <2>1. PICK u \in Nat \ {0} : u = Unit
    BY FloatTypes
  <2>2. 1 * u <= n * u
    BY <1>4, <2>1
  <2>3. Unit \in Float /\ 1 * Unit <= n * Unit
    BY <2>1, <2>2, FloatTypes
  <2>4. Unit <= of_int(n)
    BY <1>1, <2>3, FloatAbove DEF of_int
  <2>5. of_int(n) \in Int
    BY <1>2, FloatTypes
  <2>6. QED
    BY <2>4, <2>5, FloatTypes
<1>5. QED
  BY <1>2, <1>3, <1>4

(* The floats that the new mean is computed from. *)
LEMMA MeanIsFloatToo ==
  ASSUME NEW m \in Float, NEW n \in Nat \ {0}, NEW x \in Float
  PROVE  /\ times(m, of_int(n)) \in Float
         /\ plus(times(m, of_int(n)), x) \in Float
         /\ over(plus(times(m, of_int(n)), x), of_int(n + 1)) \in Float
<1> DEFINE p == times(m, of_int(n))
           s == plus(p, x)
           d == of_int(n + 1)
<1>1. of_int(n) \in Float /\ n + 1 \in Int /\ n + 1 > 0
  BY OfInt
<1>2. d \in Nat \ {0}
  BY <1>1, OfInt
<1>3. m * of_int(n) \in Int
  <2>1. PICK k \in Int : k = of_int(n)
    BY <1>1, FloatTypes
  <2>2. m * k \in Int
    BY FloatTypes
  <2>3. QED
    BY <2>1, <2>2
<1>4. p \in Float
  BY <1>3, FloatTypes, FloatIs DEF times
<1> HIDE DEF p, d
<1>5. p + x \in Int /\ 1 \in Nat \ {0}
  BY <1>4, FloatTypes
<1>6. s \in Float
  BY <1>5, FloatIs DEF plus
<1> HIDE DEF s
<1>7. s * Unit \in Int
  BY <1>6, FloatTypes
<1>8. over(s, d) \in Float
  BY <1>2, <1>7, FloatIs DEF over
<1>9. QED
  BY <1>4, <1>6, <1>8 DEF p, s, d

(* The mean of a rating and of a mean of n others is not below a rating l     *)
(* that both are not below, if floats hold what n and n + 1 times l are.      *)
LEMMA MeanAbove ==
  ASSUME NEW m \in Float, NEW n \in Nat \ {0}, NEW x \in Float, NEW l \in Int,
         l * Unit <= m, l * Unit <= x,
         n * Unit \in Float, (n + 1) * Unit \in Float,
         l * Unit \in Float, n * l * Unit \in Float, (n + 1) * l * Unit \in Float
  PROVE  l * Unit <= over(plus(times(m, of_int(n)), x), of_int(n + 1))
<1> DEFINE p == times(m, of_int(n))
           s == plus(p, x)
<1>1. PICK u \in Nat \ {0} : u = Unit
  BY FloatTypes
<1>2. of_int(n) = n * u /\ of_int(n + 1) = (n + 1) * u
  BY <1>1, OfInt
<1>3. PICK L \in Int : L = l * u
  OBVIOUS
<1>4. PICK N \in Int : N = n * u
  OBVIOUS
<1>5. PICK M \in Int : M = (n + 1) * u
  OBVIOUS
<1>6. N \in Nat \ {0} /\ M \in Nat \ {0}
  BY <1>4, <1>5
<1>7. m \in Int /\ x \in Int /\ p \in Float /\ s \in Float
  BY FloatTypes, MeanIsFloatToo
<1>8. n * l * u \in Float /\ (n + 1) * l * u \in Float /\ L \in Float
  BY <1>1, <1>3
<1>9. n * l * u <= p
  <2>1. p = float(m * N, u)
    BY <1>1, <1>2, <1>4 DEF times
  <2>2. L * N <= m * N
    BY <1>1, <1>3, <1>6, <1>7
  <2>3. u * (n * l * u) = L * N
    BY <1>3, <1>4
  <2>4. m * N \in Int
    BY <1>7
  <2>5. QED
    BY <1>8, <2>1, <2>2, <2>3, <2>4, FloatAbove
<1> HIDE DEF p
<1>10. (n + 1) * l * u <= s
  <2>1. (n + 1) * l * u = n * l * u + L /\ n * l * u \in Int
    BY <1>3
  <2>2. p \in Int
    BY <1>7, FloatTypes
  <2>3. p + x \in Int /\ 1 * ((n + 1) * l * u) <= p + x
    BY <1>1, <1>3, <1>7, <1>9, <2>1, <2>2
  <2>4. QED
    BY <1>8, <2>3, FloatAbove DEF plus
<1> HIDE DEF s
<1>11. l * Unit <= over(s, of_int(n + 1))
  <2>1. over(s, of_int(n + 1)) = float(s * u, M)
    BY <1>1, <1>2, <1>5 DEF over
  <2>2. s \in Int
    BY <1>7, FloatTypes
  <2>3. PICK k \in Int : k = (n + 1) * l * u
    OBVIOUS
  <2>4. k * u <= s * u /\ M * L = k * u /\ s * u \in Int
    BY <1>3, <1>5, <1>10, <2>2, <2>3
  <2>5. L <= float(s * u, M)
    BY <1>6, <1>8, <2>4, FloatAbove
  <2>6. QED
    BY <1>1, <1>3, <2>1, <2>5
<1>12. QED
  BY <1>11 DEF p, s

(* Nor above one that both are not above. *)
LEMMA MeanBelow ==
  ASSUME NEW m \in Float, NEW n \in Nat \ {0}, NEW x \in Float, NEW l \in Int,
         m <= l * Unit, x <= l * Unit,
         n * Unit \in Float, (n + 1) * Unit \in Float,
         l * Unit \in Float, n * l * Unit \in Float, (n + 1) * l * Unit \in Float
  PROVE  over(plus(times(m, of_int(n)), x), of_int(n + 1)) <= l * Unit
<1> DEFINE p == times(m, of_int(n))
           s == plus(p, x)
<1>1. PICK u \in Nat \ {0} : u = Unit
  BY FloatTypes
<1>2. of_int(n) = n * u /\ of_int(n + 1) = (n + 1) * u
  BY <1>1, OfInt
<1>3. PICK L \in Int : L = l * u
  OBVIOUS
<1>4. PICK N \in Int : N = n * u
  OBVIOUS
<1>5. PICK M \in Int : M = (n + 1) * u
  OBVIOUS
<1>6. N \in Nat \ {0} /\ M \in Nat \ {0}
  BY <1>4, <1>5
<1>7. m \in Int /\ x \in Int /\ p \in Float /\ s \in Float
  BY FloatTypes, MeanIsFloatToo
<1>8. n * l * u \in Float /\ (n + 1) * l * u \in Float /\ L \in Float
  BY <1>1, <1>3
<1>9. p <= n * l * u
  <2>1. p = float(m * N, u)
    BY <1>1, <1>2, <1>4 DEF times
  <2>2. m * N <= L * N
    BY <1>1, <1>3, <1>6, <1>7
  <2>3. u * (n * l * u) = L * N
    BY <1>3, <1>4
  <2>4. m * N \in Int
    BY <1>7
  <2>5. QED
    BY <1>8, <2>1, <2>2, <2>3, <2>4, FloatBelow
<1> HIDE DEF p
<1>10. s <= (n + 1) * l * u
  <2>1. (n + 1) * l * u = n * l * u + L /\ n * l * u \in Int
    BY <1>3
  <2>2. p \in Int
    BY <1>7, FloatTypes
  <2>3. p + x \in Int /\ p + x <= 1 * ((n + 1) * l * u)
    BY <1>1, <1>3, <1>7, <1>9, <2>1, <2>2
  <2>4. QED
    BY <1>8, <2>3, FloatBelow DEF plus
<1> HIDE DEF s
<1>11. over(s, of_int(n + 1)) <= l * Unit
  <2>1. over(s, of_int(n + 1)) = float(s * u, M)
    BY <1>1, <1>2, <1>5 DEF over
  <2>2. s \in Int
    BY <1>7, FloatTypes
  <2>3. PICK k \in Int : k = (n + 1) * l * u
    OBVIOUS
  <2>4. s * u <= k * u /\ M * L = k * u /\ s * u \in Int
    BY <1>3, <1>5, <1>10, <2>2, <2>3
  <2>5. float(s * u, M) <= L
    BY <1>6, <1>8, <2>4, FloatBelow
  <2>6. QED
    BY <1>1, <1>3, <2>1, <2>5
<1>12. QED
  BY <1>11 DEF p, s

(* What can be held exactly n + 1 times can be held n times. *)
LEMMA ExactFacts ==
  ASSUME NEW n \in Nat \ {0}
  PROVE  /\ Exact(n + 1) => Exact(n)
         /\ Exact(n) => /\ n * Unit \in Float
                        /\ \A r \in Rating : r * Unit \in Float /\ n * r * Unit \in Float
<1>1. 1..n \subseteq 1..(n + 1) /\ n \in 1..n /\ 1 \in 1..n
  OBVIOUS
<1>2. Exact(n + 1) => Exact(n)
  BY <1>1 DEF Exact
<1>3. ASSUME Exact(n) PROVE n * Unit \in Float
  BY <1>1, <1>3 DEF Exact
<1>4. ASSUME Exact(n), NEW r \in Rating PROVE r * Unit \in Float /\ n * r * Unit \in Float
  <2>1. 1 * r * Unit \in Float /\ n * r * Unit \in Float
    BY <1>1, <1>4 DEF Exact
  <2>2. r \in Int
    BY MemeAssumption
  <2>3. 1 * r = r
    BY <2>2
  <2>4. QED
    BY <2>1, <2>3
<1>5. QED
  BY <1>2, <1>3, <1>4

(* A new rating leaves the mean in the range of the ratings. *)
LEMMA NewMean ==
  ASSUME NEW m \in Float, NEW n \in Nat \ {0}, NEW r \in Rating,
         Exact(n + 1), InRange(m)
  PROVE  InRange(over(plus(times(m, of_int(n)), of_int(r)), of_int(n + 1)))
<1> DEFINE mean == over(plus(times(m, of_int(n)), of_int(r)), of_int(n + 1))
<1>1. n + 1 \in Nat \ {0} /\ r \in Int
  BY MemeAssumption
<1>2. Exact(n)
  BY ExactFacts
<1>3. /\ n * Unit \in Float /\ (n + 1) * Unit \in Float
      /\ \A q \in Rating : /\ q \in Int /\ q * Unit \in Float
                           /\ n * q * Unit \in Float /\ (n + 1) * q * Unit \in Float
  BY <1>1, <1>2, ExactFacts, MemeAssumption
<1>4. of_int(r) \in Float /\ of_int(r) = r * Unit
  BY <1>1, <1>3, OfInt
<1>5. PICK x \in Float : x = of_int(r) /\ x = r * Unit
  BY <1>4
<1>6. m \in Int /\ x \in Int
  BY FloatTypes
<1>7. \E q \in Rating : q * Unit <= mean
  <2>1. PICK l \in Rating : l * Unit <= m
    BY DEF InRange
  <2>2. PICK q \in Rating : q * Unit <= m /\ q * Unit <= x
    <3>1. PICK L \in Int : L = l * Unit
      BY <1>3, FloatTypes
    <3>2. CASE L <= x
      BY <2>1, <3>1, <3>2
    <3>3. CASE x <= L
      <4>1. x <= m
        BY <1>6, <2>1, <3>1, <3>3
      <4>2. QED
        BY <1>5, <1>6, <4>1
    <3>4. QED
      BY <1>6, <3>1, <3>2, <3>3
  <2>3. q * Unit <= over(plus(times(m, of_int(n)), x), of_int(n + 1))
    BY <1>3, <2>2, MeanAbove
  <2>4. QED
    BY <1>5, <2>3
<1>8. \E q \in Rating : mean <= q * Unit
  <2>1. PICK l \in Rating : m <= l * Unit
    BY DEF InRange
  <2>2. PICK q \in Rating : m <= q * Unit /\ x <= q * Unit
    <3>1. PICK L \in Int : L = l * Unit
      BY <1>3, FloatTypes
    <3>2. CASE x <= L
      BY <2>1, <3>1, <3>2
    <3>3. CASE L <= x
      <4>1. m <= x
        BY <1>6, <2>1, <3>1, <3>3
      <4>2. QED
        BY <1>5, <1>6, <4>1
    <3>4. QED
      BY <1>6, <3>1, <3>2, <3>3
  <2>3. over(plus(times(m, of_int(n)), x), of_int(n + 1)) <= q * Unit
    BY <1>3, <2>2, MeanBelow
  <2>4. QED
    BY <1>5, <2>3
<1>9. QED
  BY <1>7, <1>8 DEF InRange

LEMMA NewRating ==
  ASSUME NEW old \in RatingEntry \cup {Null}, old # Null => old.mean \in Float,
         old # Null /\ Exact(old.count) => InRange(old.mean), NEW r \in Rating
  PROVE  /\ new_rating(old, r) \in RatingEntry /\ new_rating(old, r) # Null
         /\ new_rating(old, r).mean \in Float
         /\ Exact(new_rating(old, r).count) => InRange(new_rating(old, r).mean)
<1>1. r \in Int /\ Null \notin RatingEntry
  BY MemeAssumption
<1>2. CASE old = Null
  <2>1. PICK x \in Float : x = of_int(r)
    BY <1>1, OfInt
  <2>2. new_rating(old, r) = [count |-> 1, mean |-> x]
    BY <1>2, <2>1 DEF new_rating
  <2>3. ASSUME Exact(1) PROVE InRange(x)
    <3>1. r * Unit \in Float
      BY <2>3, ExactFacts
    <3>2. x = r * Unit /\ x \in Int
      BY <1>1, <2>1, <3>1, OfInt, FloatTypes
    <3>3. QED
      BY <3>2 DEF InRange
  <2>4. [count |-> 1, mean |-> x] \in RatingEntry
    BY FloatTypes DEF RatingEntry
  <2>5. QED
    BY <1>1, <2>2, <2>3, <2>4
<1>3. CASE old # Null
  <2>1. PICK m \in Float : m = old.mean
    BY <1>3
  <2>2. PICK n \in Nat \ {0} : n = old.count
    BY <1>3 DEF RatingEntry
  <2>3. PICK x \in Float : x = of_int(r)
    BY <1>1, OfInt
  <2>4. PICK mean \in Float : mean = over(plus(times(m, of_int(n)), x), of_int(n + 1))
    BY MeanIsFloatToo
  <2>5. new_rating(old, r) = [count |-> n + 1, mean |-> mean]
    BY <1>3, <2>1, <2>2, <2>3, <2>4 DEF new_rating
  <2>6. ASSUME Exact(n + 1) PROVE InRange(mean)
    <3>1. InRange(m)
      BY <1>3, <2>1, <2>2, <2>6, ExactFacts
    <3>2. QED
      BY <2>3, <2>4, <2>6, <3>1, NewMean
  <2>7. [count |-> n + 1, mean |-> mean] \in RatingEntry
    BY FloatTypes DEF RatingEntry
  <2>8. QED
    BY <1>1, <2>5, <2>6, <2>7
<1>4. QED
  BY <1>2, <1>3

-----------------------------------------------------------------------------
(* The way through the file. *)

(* A rating is a number of steps that a file can hold. *)
LEMMA RatingSteps ==
  ASSUME NEW r \in Rating
  PROVE  \E k \in Int : r * Unit = TextUnit * k
<1> DEFINE u == Unit \div TextUnit
<1>1. TextUnit \in Nat /\ TextUnit > 0 /\ Unit \in Nat /\ Unit % TextUnit = 0 /\ r \in Int
  BY MemeAssumption
<1>2. u \in Int /\ Unit = TextUnit * u
  BY <1>1, Division
<1> HIDE DEF u
<1>3. r * (TextUnit * u) = TextUnit * (r * u) /\ r * u \in Int
  BY <1>1, <1>2
<1>4. QED
  BY <1>2, <1>3

(* Writing a mean leaves it in the range of the ratings. *)
LEMMA WrittenInRange ==
  ASSUME NEW m \in Int, InRange(m)
  PROVE  InRange(Round(m, TextUnit) * TextUnit)
<1>1. PICK q \in Int : q = Round(m, TextUnit)
  BY FloatTypes, Rounded
<1>2. PICK u \in Nat \ {0} : u = TextUnit
  BY FloatTypes
<1>3. q * u \in Int /\ q * u = u * q
  OBVIOUS
<1>4. ASSUME NEW r \in Rating, r * Unit <= m PROVE r * Unit <= q * u
  <2>1. PICK k \in Int : r * Unit = u * k
    BY <1>2, RatingSteps
  <2>2. k <= q
    BY <1>1, <1>2, <1>4, <2>1, RoundedBetween
  <2>3. u * k <= u * q
    BY <2>2
  <2>4. QED
    BY <1>3, <2>1, <2>3
<1>5. ASSUME NEW r \in Rating, m <= r * Unit PROVE q * u <= r * Unit
  <2>1. PICK k \in Int : r * Unit = u * k
    BY <1>2, RatingSteps
  <2>2. q <= k
    BY <1>1, <1>2, <1>5, <2>1, RoundedBetween
  <2>3. u * q <= u * k
    BY <2>2
  <2>4. QED
    BY <1>3, <2>1, <2>3
<1>6. InRange(q * u)
  BY <1>4, <1>5 DEF InRange
<1>7. QED
  BY <1>1, <1>2, <1>6

(* Reading it again does too. *)
LEMMA ReadInRange ==
  ASSUME NEW m \in Int, InRange(m), \A r \in Rating : r * Unit \in Float
  PROVE  InRange(float(m, 1))
<1>1. PICK g \in Int : g = float(m, 1)
  <2>1. PICK g \in Float : g = float(m, 1)
    BY FloatIs
  <2>2. QED
    BY <2>1, FloatTypes
<1>2. PICK l \in Rating : l * Unit <= m
  BY DEF InRange
<1>3. PICK h \in Rating : m <= h * Unit
  BY DEF InRange
<1>4. /\ l * Unit \in Float /\ h * Unit \in Float /\ l * Unit \in Int /\ h * Unit \in Int
  BY FloatTypes
<1>5. 1 * (l * Unit) <= m /\ m <= 1 * (h * Unit)
  BY <1>2, <1>3, <1>4
<1>6. l * Unit <= g /\ g <= h * Unit
  BY <1>1, <1>4, <1>5, FloatAbove, FloatBelow
<1>7. QED
  BY <1>1, <1>6 DEF InRange

(* The float that is read from the text of a float is written with the same   *)
(* text: it is no farther from it than the float that was written.            *)
LEMMA WrittenTwice ==
  ASSUME NEW f \in Float
  PROVE  Round(float(Round(f, TextUnit) * TextUnit, 1), TextUnit) = Round(f, TextUnit)
<1>1. PICK u \in Nat \ {0} : u = TextUnit
  BY FloatTypes
<1>2. f \in Int /\ u > 0
  BY FloatTypes
<1>3. PICK q \in Int :
        /\ q = Round(f, u)
        /\ 2 * (u * q) - 2 * f <= u /\ 2 * f - 2 * (u * q) <= u
        /\ 2 * (u * q) - 2 * f = u \/ 2 * f - 2 * (u * q) = u => q % 2 = 0
  BY <1>2, Rounded
<1>4. PICK t \in Int : t = q * u /\ t = u * q
  OBVIOUS
<1>5. PICK g \in Float : g = float(t, 1) /\ Distance(1 * g, t) <= Distance(1 * f, t)
  BY FloatIs
<1>6. g \in Int /\ 1 * g = g /\ 1 * f = f
  BY <1>2, FloatTypes
<1>7. Distance(g, t) <= Distance(f, t)
  BY <1>5, <1>6
<1>8. /\ 2 * t - 2 * g <= u /\ 2 * g - 2 * t <= u
      /\ 2 * t - 2 * g = u \/ 2 * g - 2 * t = u => q % 2 = 0
  <2>1. 2 * t - 2 * f <= u /\ 2 * f - 2 * t <= u
    BY <1>3, <1>4
  <2>2. 2 * t - 2 * f = u \/ 2 * f - 2 * t = u => q % 2 = 0
    BY <1>3, <1>4
  <2>3. PICK d \in Nat : d = Distance(g, t) /\ (d = t - g \/ d = g - t) /\ t - g <= d /\ g - t <= d
    <3>1. CASE g <= t
      <4>1. Distance(g, t) = t - g
        BY <1>6, <3>1, DistanceIs
      <4>2. QED
        BY <1>6, <3>1, <4>1
    <3>2. CASE t <= g
      <4>1. Distance(g, t) = g - t
        BY <1>6, <3>2, DistanceIs
      <4>2. QED
        BY <1>6, <3>2, <4>1
    <3>3. QED
      BY <1>6, <3>1, <3>2
  <2>4. PICK e \in Nat : e = Distance(f, t) /\ (e = t - f \/ e = f - t)
    <3>1. CASE f <= t
      BY <1>2, <3>1, DistanceIs
    <3>2. CASE t <= f
      BY <1>2, <3>2, DistanceIs
    <3>3. QED
      BY <1>2, <3>1, <3>2
  <2>5. d <= e /\ 2 * e <= u /\ (2 * e = u => q % 2 = 0)
    BY <1>2, <1>7, <2>1, <2>2, <2>3, <2>4
  <2>6. 2 * t - 2 * g = u \/ 2 * g - 2 * t = u => 2 * e = u
    BY <1>6, <2>3, <2>5
  <2>7. 2 * t - 2 * g <= u /\ 2 * g - 2 * t <= u
    BY <1>6, <2>3, <2>5
  <2>8. QED
    BY <2>5, <2>6, <2>7
<1>9. PICK k \in Int :
        /\ k = Round(g, u)
        /\ 2 * (u * k) - 2 * g <= u /\ 2 * g - 2 * (u * k) <= u
        /\ 2 * (u * k) - 2 * g = u \/ 2 * g - 2 * (u * k) = u => k % 2 = 0
  BY <1>2, <1>6, Rounded
<1>10. PICK s \in Int : s = u * k
  OBVIOUS
<1>11. ~(q + 1 <= k)
  <2>1. SUFFICES ASSUME q + 1 <= k PROVE FALSE
    OBVIOUS
  <2>2. u * (q + 1) <= u * k /\ u * (q + 1) = t + u
    BY <1>4, <2>1
  <2>3. t + u <= s
    BY <1>10, <2>2
  <2>4. 2 * s - 2 * g = u /\ 2 * g - 2 * t = u /\ s = t + u
    BY <1>6, <1>8, <1>9, <1>10, <2>3
  <2>5. u * (k - (q + 1)) = 0
    <3>1. u * (k - (q + 1)) = u * k - u * (q + 1)
      OBVIOUS
    <3>2. QED
      BY <1>10, <2>2, <2>4, <3>1
  <2>6. k = q + 1
    <3>1. PICK z \in Int : z = k - (q + 1)
      OBVIOUS
    <3>2. u * z = 0 /\ z >= 0
      BY <2>1, <2>5, <3>1
    <3>3. ~(z >= 1)
      <4>1. SUFFICES ASSUME z >= 1 PROVE FALSE
        OBVIOUS
      <4>2. u * 1 <= u * z
        BY <4>1
      <4>3. QED
        BY <3>2, <4>2
    <3>4. QED
      BY <3>1, <3>2, <3>3
  <2>7. q % 2 = 0 /\ k % 2 = 0
    BY <1>8, <1>9, <1>10, <2>4
  <2>8. QED
    BY <2>6, <2>7
<1>12. ~(k + 1 <= q)
  <2>1. SUFFICES ASSUME k + 1 <= q PROVE FALSE
    OBVIOUS
  <2>2. u * (k + 1) <= u * q /\ u * (k + 1) = s + u
    BY <1>10, <2>1
  <2>3. s + u <= t
    BY <1>4, <2>2
  <2>4. 2 * g - 2 * s = u /\ 2 * t - 2 * g = u /\ t = s + u
    <3>1. 2 * g - 2 * s <= u /\ 2 * t - 2 * g <= u
      BY <1>8, <1>9, <1>10
    <3>2. QED
      BY <1>6, <2>3, <3>1
  <2>5. u * (q - (k + 1)) = 0
    <3>1. u * (q - (k + 1)) = u * q - u * (k + 1)
      OBVIOUS
    <3>2. QED
      BY <1>4, <2>2, <2>4, <3>1
  <2>6. q = k + 1
    <3>1. PICK z \in Int : z = q - (k + 1)
      OBVIOUS
    <3>2. u * z = 0 /\ z >= 0
      BY <2>1, <2>5, <3>1
    <3>3. ~(z >= 1)
      <4>1. SUFFICES ASSUME z >= 1 PROVE FALSE
        OBVIOUS
      <4>2. u * 1 <= u * z
        BY <4>1
      <4>3. QED
        BY <3>2, <4>2
    <3>4. QED
      BY <3>1, <3>2, <3>3
  <2>7. q % 2 = 0 /\ k % 2 = 0
    BY <1>8, <1>9, <1>10, <2>4
  <2>8. QED
    BY <2>6, <2>7
<1>13. k = q
  BY <1>11, <1>12
<1>14. QED
  BY <1>1, <1>3, <1>4, <1>5, <1>9, <1>13

(* What to_string writes of a mean, ... *)
LEMMA Written ==
  ASSUME NEW r \in RatingEntry, r.mean \in Float, Exact(r.count) => InRange(r.mean)
  PROVE  /\ to_string(r) \in RatingEntry
         /\ \E f \in Float : to_string(r).mean = Round(f, TextUnit) * TextUnit
         /\ Exact(to_string(r).count) => InRange(to_string(r).mean)
<1> DEFINE m == Round(r.mean, TextUnit) * TextUnit
<1>1. r.mean \in Int /\ r = [count |-> r.count, mean |-> r.mean] /\ r.count \in Nat \ {0}
  BY DEF RatingEntry
<1>2. m \in Int
  <2>1. PICK q \in Int : q = Round(r.mean, TextUnit)
    BY <1>1, FloatTypes, Rounded
  <2>2. QED
    BY <2>1, FloatTypes
<1>3. Exact(r.count) => InRange(m)
  BY <1>1, WrittenInRange
<1>4. to_string(r) = [r EXCEPT !.mean = m]
  BY DEF to_string
<1>5. \E f \in Float : m = Round(f, TextUnit) * TextUnit
  OBVIOUS
<1> HIDE DEF m
<1>6. to_string(r) \in RatingEntry /\ to_string(r).mean = m /\ to_string(r).count = r.count
  BY <1>1, <1>2, <1>4 DEF RatingEntry
<1>7. QED
  BY <1>3, <1>5, <1>6

(* ... and what stof makes of it. *)
LEMMA Read ==
  ASSUME NEW r \in RatingEntry, NEW f \in Float, r.mean = Round(f, TextUnit) * TextUnit,
         Exact(r.count) => InRange(r.mean)
  PROVE  /\ stof(r) \in RatingEntry /\ stof(r).mean \in Float
         /\ Exact(stof(r).count) => InRange(stof(r).mean)
         /\ to_string(stof(r)) = r
<1>1. r.mean \in Int /\ r = [count |-> r.count, mean |-> r.mean] /\ r.count \in Nat \ {0}
  BY DEF RatingEntry
<1>2. PICK g \in Float : g = float(r.mean, 1)
  BY <1>1, FloatIs
<1>3. stof(r) = [r EXCEPT !.mean = g]
  BY <1>2 DEF stof
<1>4. /\ stof(r) \in RatingEntry /\ stof(r).mean = g /\ stof(r).count = r.count
      /\ stof(r) = [count |-> r.count, mean |-> g]
  BY <1>1, <1>3, FloatTypes DEF RatingEntry
<1>5. ASSUME Exact(r.count) PROVE InRange(g)
  BY <1>1, <1>2, <1>5, ExactFacts, ReadInRange
<1>6. Round(g, TextUnit) * TextUnit = r.mean
  BY <1>2, WrittenTwice
<1>7. to_string(stof(r)) = [stof(r) EXCEPT !.mean = r.mean]
  BY <1>4, <1>6 DEF to_string
<1>8. [stof(r) EXCEPT !.mean = r.mean] = r
  BY <1>1, <1>4
<1>9. QED
  BY <1>4, <1>5, <1>7, <1>8

-----------------------------------------------------------------------------
(* What the assumption says of the special values. *)
LEMMA Special ==
  /\ Null # Torn /\ Null # Empty /\ Torn # Empty /\ Null \notin Thread
  /\ Null \notin Body /\ Torn \notin Body /\ Empty \notin Body
  /\ Null \notin Int /\ Torn \notin Int /\ Empty \notin Int
  /\ Null \notin RatingEntry /\ Torn \notin RatingEntry /\ Empty \notin RatingEntry
<1>1. /\ {Null, Torn, Empty} \cap (Body \cup Int) = {}
      /\ \A v \in {Null, Torn, Empty} : v \notin RatingEntry
      /\ Null # Torn /\ Null # Empty /\ Torn # Empty /\ Null \notin Thread
  BY MemeAssumption
<1>2. QED
  BY <1>1

(* The ids are the first numbers. *)
LEMMA Ids == \E n \in Nat : Id = 1..n
<1>1. IsFiniteSet(Id) /\ Id = 1..Cardinality(Id)
  BY MemeAssumption
<1>2. Cardinality(Id) \in Nat
  BY <1>1, FS_CardinalityType
<1>3. QED
  BY <1>1, <1>2

LEMMA IdsAreNumbers ==
  /\ Id \subseteq Int /\ 0 \notin Id
  /\ \A i \in Id \cup {0} : \A j \in 1..i : j \in Id
<1>1. PICK n \in Nat : Id = 1..n
  BY Ids
<1>2. QED
  BY <1>1

(* What the kind of a request says of the rest of it. *)
LEMMA RequestFacts ==
  ASSUME NEW r \in Requests
  PROVE  /\ r.kind \in {"post", "get", "info", "list", "random", "other", "comment"}
         /\ r.id \in Id \cup {Null} /\ (r.kind \in {"get", "info"} => r.id \in Id)
         /\ r.kind = "post" => r.body \in Body \cup {Malformed}
         /\ r.kind = "comment" => r.rating \in Rating
BY DEF Requests

LEMMA NoRequestIsOne == NoRequest \in Requests
BY DEF NoRequest, Requests

(* The types of the variables, for citing. *)
LEMMA Types ==
  ASSUME MemeInv
  PROVE  /\ loaded \in BOOLEAN /\ id_count \in Id \cup {0}
         /\ view_counts \in [Id -> Int \cup {Null}]
         /\ ratings \in [Id -> RatingEntry \cup {Null}]
         /\ views_mutex \in Thread \cup {Null} /\ ratings_mutex \in Thread \cup {Null}
         /\ dirs \subseteq Id /\ comment_dirs \subseteq dirs /\ blank \subseteq comment_dirs
         /\ content \in [Id -> Body \cup {Null, Torn, Empty}]
         /\ views \in [Id -> Int \cup {Null, Torn, Empty}]
         /\ rated \in [Id -> RatingEntry \cup {Null, Torn, Empty}]
         /\ comments \in [Id -> Nat]
         /\ pc \in [Thread -> PC] /\ req \in [Thread -> Requests]
         /\ id \in [Thread -> Id \cup {Null}] /\ res \in [Thread -> Response \cup {Null}]
         /\ mine \in [Thread -> Int \cup {Null}] /\ owed \in [Thread -> BOOLEAN]
         /\ posted \in [Id -> Body \cup {Null}] /\ offered \in [Id -> Body \cup {Null}]
         /\ stale \subseteq MetaFile
BY DEF MemeInv, TypeOK

-----------------------------------------------------------------------------
(* Steps that do not concern a part of the invariant. *)

(* The other threads stand still. *)
Others(t) ==
  \A u \in Thread \ {t} :
    /\ pc'[u] = pc[u] /\ req'[u] = req[u] /\ id'[u] = id[u]
    /\ res'[u] = res[u] /\ mine'[u] = mine[u] /\ owed'[u] = owed[u]

(* Directories are only made. *)
Grown == loaded' = loaded /\ dirs \subseteq dirs' /\ comment_dirs \subseteq comment_dirs'

LEMMA ThreadsStep ==
  ASSUME ThreadsInv, NEW t \in Thread, Others(t), Grown, Established(t)',
         pc'[t] \notin {"idle", "create"} => loaded
  PROVE  ThreadsInv'
<1>1. \A u \in Thread : Established(u)'
  <2> SUFFICES ASSUME NEW u \in Thread, u # t PROVE Established(u)'
    OBVIOUS
  <2>1. Established(u)
    BY DEF ThreadsInv
  <2>2. pc'[u] = pc[u] /\ req'[u] = req[u] /\ id'[u] = id[u] /\ res'[u] = res[u]
    BY DEF Others
  <2>3. QED
    BY <2>1, <2>2 DEF Established, Grown
<1>2. HandledIsLoaded'
  BY DEF HandledIsLoaded, ThreadsInv, Others, Grown
<1>3. QED
  BY <1>1, <1>2 DEF ThreadsInv

LEMMA PostsStep ==
  ASSUME PostsInv, NEW t \in Thread, Others(t), Grown, UNCHANGED <<content, posted, offered>>,
         pc'[t] \in Posting => pc[t] \in Posting /\ req'[t] = req[t] /\ id'[t] = id[t]
  PROVE  PostsInv'
<1>1. OnePostPerDirectory'
  <2>1. \A u \in Thread :
          pc'[u] \in Posting => pc[u] \in Posting /\ req'[u] = req[u] /\ id'[u] = id[u]
    BY DEF Others
  <2>2. QED
    BY <2>1 DEF OnePostPerDirectory, PostsInv
<1>2. ContentIsThere' /\ ContentIsOffered' /\ PostedIsKept'
  BY DEF PostsInv, ContentIsThere, ContentIsOffered, PostedIsKept, Grown
<1>3. QED
  BY <1>1, <1>2 DEF PostsInv

LEMMA ViewsStep ==
  ASSUME ViewsInv, NEW t \in Thread, Others(t), Grown,
         UNCHANGED <<views, view_counts, views_mutex>>,
         \A i \in Id : <<"views", i>> \in stale => <<"views", i>> \in stale',
         pc'[t] \notin Viewing \cup {"read"}, pc[t] \notin Viewing
  PROVE  ViewsInv'
<1>1. \A u \in Thread : pc'[u] \in Viewing \cup {"read"} =>
        pc'[u] = pc[u] /\ id'[u] = id[u] /\ mine'[u] = mine[u]
  BY DEF Others
<1>2. \A u \in Thread : pc[u] \in Viewing => pc'[u] = pc[u] /\ id'[u] = id[u]
  BY DEF Others
<1>3. ViewsAreOwned' /\ ViewIsCounted'
  BY <1>1 DEF ViewsInv, ViewsAreOwned, ViewIsCounted
<1>4. TornViewsAreOwned'
  <2>1. TornViewsAreOwned
    BY DEF ViewsInv
  <2>2. \A u \in Thread : pc[u] = "views opened" => pc'[u] = pc[u] /\ id'[u] = id[u]
    BY <1>2 DEF Viewing
  <2>3. QED
    BY <2>1, <2>2 DEF TornViewsAreOwned
<1>5. ViewsAreSavedOrOwned'
  BY <1>2 DEF ViewsInv, ViewsAreSavedOrOwned, Grown
<1>6. ViewedIsThere'
  BY DEF ViewsInv, ViewedIsThere, Grown
<1>7. QED
  BY <1>3, <1>4, <1>5, <1>6 DEF ViewsInv

LEMMA RatingsStep ==
  ASSUME RatingsInv, NEW t \in Thread, Others(t), Grown,
         UNCHANGED <<ratings, rated, ratings_mutex>>,
         \A i \in Id : <<"ratings", i>> \in stale => <<"ratings", i>> \in stale',
         pc'[t] \notin Rated, pc[t] \notin Rated
  PROVE  RatingsInv'
<1>1. \A u \in Thread : pc'[u] \in Rated => pc'[u] = pc[u] /\ id'[u] = id[u]
  BY DEF Others
<1>2. \A u \in Thread : pc[u] \in Rated => pc'[u] = pc[u] /\ id'[u] = id[u]
  BY DEF Others
<1>3. RatingsAreOwned'
  BY <1>1 DEF RatingsInv, RatingsAreOwned
<1>4. TornRatingsAreOwned'
  BY <1>2 DEF RatingsInv, TornRatingsAreOwned, Rated
<1>5. RatingsAreSavedOrOwned'
  BY <1>2 DEF RatingsInv, RatingsAreSavedOrOwned, Grown
<1>6. RatedIsThere'
  BY DEF RatingsInv, RatedIsThere, Grown
<1>7. RatedIsGood' /\ MeanIsFloat' /\ MeanIsInRange'
  BY DEF RatingsInv, RatedIsGood, MeanIsFloat, MeanIsInRange
<1>8. QED
  BY <1>3, <1>4, <1>5, <1>6, <1>7 DEF RatingsInv

(* What an answer must be. *)
GoodAnswer(t, r) ==
  /\ owed[t] => r.code # "missing"
  /\ r.content # Null =>
       /\ r.id \in dirs /\ r.content = offered[r.id]
       /\ mine[t] # Null /\ r.views >= mine[t]

(* t goes on without an answer, or begins, or gives a good one. *)
Answering(t) ==
  \/ /\ res'[t] = Null /\ owed'[t] = owed[t] /\ pc[t] # "idle"
     /\ req'[t] = req[t] /\ (owed[t] => id'[t] = id[t])
  \/ res'[t] = Null /\ (owed'[t] => req'[t].kind = "get" /\ id'[t] \in Id /\ posted'[id'[t]] # Null)
  \/ pc'[t] = "idle" /\ owed'[t] = owed[t] /\ mine'[t] = mine[t] /\ GoodAnswer(t, res'[t])

(* The answers that were given stay good. *)
LEMMA AnswersStep ==
  ASSUME AnswersInv, NEW t \in Thread, Others(t), Grown,
         \A i \in dirs : offered'[i] = offered[i],
         \A i \in Id : posted[i] # Null => posted'[i] # Null,
         Answering(t)
  PROVE  AnswersInv'
<1>1. \A u \in Thread \ {t} :
        /\ pc'[u] = pc[u] /\ req'[u] = req[u] /\ id'[u] = id[u]
        /\ res'[u] = res[u] /\ mine'[u] = mine[u] /\ owed'[u] = owed[u]
  BY DEF Others
<1>2. OwedIsPosted'
  <2>1. owed'[t] /\ pc'[t] # "idle" => req'[t].kind = "get" /\ id'[t] \in Id /\ posted'[id'[t]] # Null
    BY DEF Answering, AnswersInv, OwedIsPosted
  <2>2. QED
    BY <1>1, <2>1 DEF AnswersInv, OwedIsPosted
<1>3. PostedIsFound'
  BY <1>1 DEF AnswersInv, PostedIsFound, GoodAnswer, Answering
<1>4. \A u \in Thread \ {t} : u \in Shown' => u \in Shown
  BY <1>1 DEF Shown
<1>5. t \in Shown' =>
        /\ res'[t].id \in dirs /\ res'[t].content = offered[res'[t].id]
        /\ mine'[t] = mine[t] /\ mine[t] # Null /\ res'[t].views >= mine[t]
  BY DEF Shown, GoodAnswer, Answering
<1>6. ShownIsThere'
  BY <1>1, <1>4, <1>5 DEF AnswersInv, ShownIsThere, Shown, Grown
<1>7. ServedIsPosted'
  BY <1>1, <1>4, <1>5 DEF AnswersInv, ShownIsThere, ServedIsPosted, Shown
<1>8. OwnViewIsCounted'
  BY <1>1, <1>4, <1>5 DEF AnswersInv, OwnViewIsCounted, Shown
<1>9. QED
  BY <1>2, <1>3, <1>6, <1>7, <1>8 DEF AnswersInv

(* A step that touches neither tables nor files, but for comments. *)
LEMMA QuietStep ==
  ASSUME MemeInv, NEW t \in Thread, Others(t),
         UNCHANGED <<loaded, view_counts, ratings, locks, dirs, content, views, rated>>,
         UNCHANGED <<posted, offered, stale>>, comment_dirs \subseteq comment_dirs',
         TypeOK', Established(t)', pc'[t] \notin {"idle", "create"} => loaded,
         pc'[t] \notin Posting \cup Viewing \cup {"read"} \cup Rated,
         pc[t] \notin Viewing \cup Rated, Answering(t)
  PROVE  MemeInv'
<1>1. Grown /\ UNCHANGED <<views_mutex, ratings_mutex>>
  BY DEF Grown, locks
<1>2. ThreadsInv'
  BY <1>1, ThreadsStep DEF MemeInv
<1>3. PostsInv'
  BY <1>1, PostsStep DEF MemeInv
<1>4. AnswersInv'
  BY <1>1, AnswersStep DEF MemeInv
<1>5. ViewsInv'
  BY <1>1, ViewsStep DEF MemeInv
<1>6. RatingsInv'
  BY <1>1, RatingsStep DEF MemeInv
<1>7. QED
  BY <1>2, <1>3, <1>4, <1>5, <1>6 DEF MemeInv

LEMMA KeepReceive ==
  ASSUME MemeInv, NEW t \in Thread, NEW r \in Requests, receive(t, r)
  PROVE  MemeInv'
<1>1. /\ pc' = [pc EXCEPT ![t] = "create"] /\ req' = [req EXCEPT ![t] = r]
      /\ res' = [res EXCEPT ![t] = Null] /\ id' = [id EXCEPT ![t] = r.id]
      /\ mine' = [mine EXCEPT ![t] = Null] /\ pc[t] = "idle"
      /\ owed' = [owed EXCEPT ![t] = r.kind = "get" /\ r.body = Null /\ posted[r.id] # Null]
      /\ UNCHANGED <<memory, locks, files, posted, offered, stale>>
  BY DEF receive, Goto
<1>2. r.id \in Id \cup {Null} /\ (r.kind \in {"get", "info"} => r.id \in Id)
  BY RequestFacts
<1>3. TypeOK'
  <2>1. /\ pc' \in [Thread -> PC] /\ req' \in [Thread -> Requests]
        /\ id' \in [Thread -> Id \cup {Null}] /\ res' \in [Thread -> Response \cup {Null}]
        /\ mine' \in [Thread -> Int \cup {Null}]
    BY <1>1, <1>2, Types DEF PC
  <2>2. owed' \in [Thread -> BOOLEAN]
    BY <1>1, Types, Zenon
  <2>3. QED
    BY <1>1, <2>1, <2>2, Types DEF TypeOK, memory, locks, files
<1>4. Others(t)
  BY <1>1 DEF Others
<1>5. /\ pc'[t] = "create" /\ req'[t] = r /\ res'[t] = Null /\ id'[t] = r.id
      /\ owed'[t] = (r.kind = "get" /\ r.body = Null /\ posted[r.id] # Null)
  BY <1>1, Types
<1>6. Established(t)'
  BY <1>2, <1>5 DEF Established, Posting, Viewing, Rated
<1>7. Answering(t)
  BY <1>1, <1>2, <1>5 DEF Answering
<1>8. QED
  BY <1>1, <1>3, <1>4, <1>5, <1>6, <1>7, QuietStep
     DEF memory, files, Posting, Viewing, Rated

(* A request is answered, and nothing else happens. *)
LEMMA KeepAnswer ==
  ASSUME MemeInv, NEW t \in Thread, NEW r \in Response, Answer(t, r), GoodAnswer(t, r),
         pc[t] \notin Viewing \cup Rated
  PROVE  MemeInv'
<1>1. /\ pc' = [pc EXCEPT ![t] = "idle"] /\ req' = [req EXCEPT ![t] = NoRequest]
      /\ res' = [res EXCEPT ![t] = r] /\ id' = [id EXCEPT ![t] = Null]
      /\ mine' = mine /\ owed' = owed
      /\ UNCHANGED <<memory, locks, files, posted, offered, stale>>
  BY DEF Answer, Respond, Goto, history
<1>2. TypeOK'
  BY <1>1, Types, NoRequestIsOne DEF TypeOK, PC, memory, locks, files
<1>3. Others(t)
  BY <1>1 DEF Others
<1>4. pc'[t] = "idle" /\ res'[t] = r
  BY <1>1, Types
<1>5. Established(t)'
  BY <1>4 DEF Established, Posting, Viewing, Rated
<1>6. Answering(t)
  BY <1>1, <1>4 DEF Answering
<1>7. QED
  BY <1>1, <1>2, <1>3, <1>4, <1>5, <1>6, QuietStep
     DEF memory, files, Posting, Viewing, Rated

LEMMA KeepFailed ==
  ASSUME MemeInv, NEW t \in Thread, NEW c \in Code, Failed(t, c),
         pc[t] \notin Viewing \cup Rated, c = "missing" => ~owed[t]
  PROVE  MemeInv'
<1>1. Message(c) \in Response
  BY DEF Message, Response
<1>2. GoodAnswer(t, Message(c))
  BY DEF Message, GoodAnswer
<1>3. QED
  BY <1>1, <1>2, KeepAnswer DEF Failed

-----------------------------------------------------------------------------
(* Going on without an answer. *)

(* t goes to l: req, id and mine stay. *)
LEMMA Goes ==
  ASSUME MemeInv, NEW t \in Thread, NEW l \in PC \ {"idle", "create"}, Goto(t, l),
         UNCHANGED <<req, res, id, mine, owed>>, pc[t] # "idle"
  PROVE  /\ Others(t) /\ pc' \in [Thread -> PC] /\ pc'[t] = l
         /\ res[t] = Null /\ Answering(t)
<1>1. pc' = [pc EXCEPT ![t] = l]
  BY DEF Goto
<1>2. res[t] = Null
  BY DEF MemeInv, ThreadsInv, Established
<1>3. Others(t)
  BY <1>1 DEF Others
<1>4. Answering(t)
  BY <1>2 DEF Answering
<1>5. QED
  BY <1>1, <1>2, <1>3, <1>4, Types

LEMMA KeepCreateHandler ==
  ASSUME MemeInv, NEW t \in Thread, create_handler(t)
  PROVE  MemeInv'
<1>1. /\ pc[t] = "create" /\ loaded /\ Goto(t, "handle")
      /\ UNCHANGED <<memory, locks, files, req, id, res, mine, posted, offered, stale, owed>>
  BY DEF create_handler, history
<1>2. Others(t) /\ pc' \in [Thread -> PC] /\ pc'[t] = "handle" /\ Answering(t)
  BY <1>1, Goes DEF PC
<1>3. TypeOK'
  BY <1>1, <1>2, Types DEF TypeOK, memory, locks, files
<1>4. Established(t)'
  BY <1>1, <1>2 DEF Established, Posting, Viewing, Rated, MemeInv, ThreadsInv
<1>5. QED
  BY <1>1, <1>2, <1>3, <1>4, QuietStep DEF memory, files, Posting, Viewing, Rated

LEMMA KeepGenerateId ==
  ASSUME MemeInv, NEW t \in Thread, generate_id(t)
  PROVE  MemeInv'
<1>1. /\ pc[t] = "handle" /\ req[t].kind = "post" /\ req[t].body # Malformed
      /\ id_count + 1 \in Id /\ id_count' = id_count + 1
      /\ id' = [id EXCEPT ![t] = id_count + 1] /\ pc' = [pc EXCEPT ![t] = "mkdir"]
      /\ UNCHANGED <<loaded, view_counts, ratings, locks, files, req, res, mine,
                     posted, offered, stale, owed>>
  BY DEF generate_id, At, Goto, history
<1>2. TypeOK'
  BY <1>1, Types DEF TypeOK, PC, locks, files
<1>3. /\ pc'[t] = "mkdir" /\ id'[t] \in Id /\ req'[t] = req[t]
      /\ req[t].body \in Body /\ res'[t] = Null
  BY <1>1, Types, RequestFacts DEF MemeInv, ThreadsInv, Established
<1>4. Others(t)
  BY <1>1 DEF Others
<1>5. Established(t)'
  BY <1>3 DEF Established, Posting, Viewing, Rated
<1>6. Answering(t)
  <2>1. ~owed[t]
    BY <1>1 DEF MemeInv, AnswersInv, OwedIsPosted
  <2>2. QED
    BY <1>1, <1>3, <2>1 DEF Answering
<1>7. loaded
  BY <1>1 DEF MemeInv, ThreadsInv, HandledIsLoaded
<1>8. QED
  BY <1>1, <1>2, <1>3, <1>4, <1>5, <1>6, <1>7, QuietStep
     DEF files, Posting, Viewing, Rated

LEMMA KeepRandomId ==
  ASSUME MemeInv, NEW t \in Thread, random_id(t)
  PROVE  MemeInv'
<1>1. pc[t] = "handle" /\ req[t].kind = "random"
  BY DEF random_id, At
<1>2. CASE Failed(t, "bad request")
  BY <1>1, <1>2, KeepFailed DEF Code, Viewing, Rated
<1>3. CASE /\ \E i \in 1..id_count : id' = [id EXCEPT ![t] = i]
           /\ UNCHANGED <<memory, locks, files, pc, req, res, mine, history>>
  <2>1. PICK i \in 1..id_count : id' = [id EXCEPT ![t] = i]
    BY <1>3
  <2>2. i \in Id
    BY Types, IdsAreNumbers
  <2>3. UNCHANGED <<memory, locks, files, pc, req, res, mine, posted, offered, stale, owed>>
    BY <1>3 DEF history
  <2>4. TypeOK'
    BY <2>1, <2>2, <2>3, Types DEF TypeOK, memory, locks, files
  <2>5. Others(t)
    BY <2>1, <2>3 DEF Others
  <2>6. res'[t] = Null
    BY <1>1, <2>3 DEF MemeInv, ThreadsInv, Established
  <2>7. Established(t)'
    BY <1>1, <2>3, <2>6 DEF Established, Posting, Viewing, Rated
  <2>8. Answering(t)
    <3>1. ~owed[t]
      BY <1>1 DEF MemeInv, AnswersInv, OwedIsPosted
    <3>2. QED
      BY <2>3, <2>6, <3>1 DEF Answering
  <2>9. loaded
    BY <1>1 DEF MemeInv, ThreadsInv, HandledIsLoaded
  <2>10. QED
    BY <1>1, <2>3, <2>4, <2>5, <2>6, <2>7, <2>8, <2>9, QuietStep
       DEF memory, files, Posting, Viewing, Rated
<1>4. QED
  BY <1>2, <1>3 DEF random_id

(* A meme that is owed is there. *)
LEMMA OwedIsThere ==
  ASSUME MemeInv, NEW t \in Thread, owed[t], pc[t] # "idle"
  PROVE  id[t] \in dirs /\ content[id[t]] \in Body
<1>1. id[t] \in Id /\ posted[id[t]] # Null
  BY DEF MemeInv, AnswersInv, OwedIsPosted
<1>2. content[id[t]] = posted[id[t]]
  BY <1>1 DEF MemeInv, PostsInv, PostedIsKept
<1>3. QED
  BY <1>1, <1>2, Types DEF MemeInv, PostsInv, ContentIsThere

LEMMA KeepGet ==
  ASSUME MemeInv, NEW t \in Thread, get(t)
  PROVE  MemeInv'
<1>1. pc[t] = "handle"
  BY DEF get
<1>2. CASE id[t] \notin dirs /\ Failed(t, "missing")
  BY <1>1, <1>2, KeepFailed, OwedIsThere DEF Code, Viewing, Rated
<1>3. CASE /\ id[t] \in dirs /\ Goto(t, "view")
           /\ UNCHANGED <<memory, locks, files, req, id, res, mine, history>>
  <2>1. UNCHANGED <<memory, locks, files, req, id, res, mine, posted, offered, stale, owed>>
    BY <1>3 DEF history
  <2>2. /\ Others(t) /\ pc' \in [Thread -> PC] /\ pc'[t] = "view"
        /\ res[t] = Null /\ Answering(t)
    BY <1>1, <1>3, <2>1, Goes DEF PC
  <2>3. TypeOK'
    BY <2>1, <2>2, Types DEF TypeOK, memory, locks, files
  <2>4. Established(t)'
    BY <1>3, <2>1, <2>2 DEF Established, Posting, Viewing, Rated, files
  <2>5. loaded
    BY <1>1 DEF MemeInv, ThreadsInv, HandledIsLoaded
  <2>6. QED
    BY <1>1, <2>1, <2>2, <2>3, <2>4, <2>5, QuietStep DEF memory, files, Posting, Viewing, Rated
<1>4. QED
  BY <1>2, <1>3 DEF get

-----------------------------------------------------------------------------
(* The rest of a POST. *)

(* A step that concerns the content of memes only. *)
LEMMA PostingStep ==
  ASSUME MemeInv, NEW t \in Thread, Others(t), loaded,
         UNCHANGED <<memory, locks, comment_dirs, views, rated, stale>>, dirs \subseteq dirs',
         TypeOK', Established(t)', PostsInv', AnswersInv',
         pc'[t] \notin Viewing \cup {"read"} \cup Rated, pc[t] \notin Viewing \cup Rated
  PROVE  MemeInv'
<1>1. Grown /\ UNCHANGED <<view_counts, ratings, views_mutex, ratings_mutex>>
  BY DEF Grown, locks, memory
<1>2. ThreadsInv'
  BY <1>1, ThreadsStep DEF MemeInv
<1>3. ViewsInv'
  BY <1>1, ViewsStep DEF MemeInv
<1>4. RatingsInv'
  BY <1>1, RatingsStep DEF MemeInv
<1>5. QED
  BY <1>2, <1>3, <1>4 DEF MemeInv

LEMMA KeepCreateDirectory ==
  ASSUME MemeInv, NEW t \in Thread, create_directory(t)
  PROVE  MemeInv'
<1>1. pc[t] = "mkdir"
  BY DEF create_directory
<1>2. CASE Failed(t, "refused")
  BY <1>1, <1>2, KeepFailed DEF Code, Viewing, Rated
<1>3. CASE ~Failed(t, "refused")
  <2>1. /\ id[t] \notin dirs /\ dirs' = dirs \cup {id[t]}
        /\ offered' = [offered EXCEPT ![id[t]] = req[t].body] /\ Goto(t, "content")
        /\ UNCHANGED <<memory, locks, content, views, rated, comment_dirs, comments, blank,
                       req, id, res, mine, posted, stale, owed>>
    BY <1>3 DEF create_directory
  <2>2. /\ Others(t) /\ pc' \in [Thread -> PC] /\ pc'[t] = "content"
        /\ res[t] = Null /\ Answering(t)
    BY <1>1, <2>1, Goes DEF PC
  <2>3. id[t] \in Id /\ req[t].body \in Body /\ loaded
    BY <1>1 DEF MemeInv, ThreadsInv, Established, HandledIsLoaded
  <2>4. TypeOK'
    BY <2>1, <2>2, <2>3, Types DEF TypeOK, memory, locks
  <2>5. content[id[t]] = Null /\ posted[id[t]] = Null
    <3>1. content[id[t]] = Null
      BY <2>1, <2>3 DEF MemeInv, PostsInv, ContentIsThere
    <3>2. QED
      BY <2>3, <3>1 DEF MemeInv, PostsInv, PostedIsKept
  <2>6. \A i \in dirs : offered'[i] = offered[i]
    BY <2>1, Types
  <2>7. offered'[id[t]] = req[t].body
    BY <2>1, <2>3, Types
  <2>8. OnePostPerDirectory'
    <3>1. \A u \in Thread \ {t} : pc'[u] \in Posting =>
            /\ pc[u] \in Posting /\ id[u] \in dirs /\ posted[id[u]] = Null
            /\ offered[id[u]] = req[u].body
      BY <2>2 DEF Others, MemeInv, ThreadsInv, Established, PostsInv, OnePostPerDirectory
    <3>2. \A u \in Thread : pc'[u] \in Posting => posted'[id'[u]] = Null /\ offered'[id'[u]] = req'[u].body
      BY <2>1, <2>5, <2>6, <2>7, <3>1
    <3>3. \A u, v \in Thread :
            pc'[u] \in Posting /\ pc'[v] \in Posting /\ id'[u] = id'[v] => u = v
      BY <2>1, <2>2, <3>1 DEF MemeInv, PostsInv, OnePostPerDirectory
    <3>4. QED
      BY <3>2, <3>3 DEF OnePostPerDirectory
  <2>9. ContentIsThere' /\ PostedIsKept'
    BY <2>1 DEF MemeInv, PostsInv, ContentIsThere, PostedIsKept
  <2>10. ContentIsOffered'
    <3>1. \A i \in Id : content[i] \in Body => i \in dirs
      BY Special DEF MemeInv, PostsInv, ContentIsThere
    <3>2. QED
      BY <2>1, <2>6, <3>1 DEF MemeInv, PostsInv, ContentIsOffered
  <2>11. AnswersInv'
    BY <2>1, <2>2, <2>6, AnswersStep DEF MemeInv, Grown, memory
  <2>12. Established(t)'
    BY <2>1, <2>2, <2>3 DEF Established, Posting, Viewing, Rated
  <2>13. QED
    BY <1>1, <2>1, <2>2, <2>3, <2>4, <2>8, <2>9, <2>10, <2>11, <2>12, PostingStep
       DEF PostsInv, Viewing, Rated
<1>4. QED
  BY <1>2, <1>3

LEMMA KeepWriteContent ==
  ASSUME MemeInv, NEW t \in Thread, write_content(t)
  PROVE  MemeInv'
<1>1. pc[t] = "content"
  BY DEF write_content
<1>2. CASE Failed(t, "refused")
  BY <1>1, <1>2, KeepFailed DEF Code, Viewing, Rated
<1>3. CASE ~Failed(t, "refused")
  <2>1. /\ content' = [content EXCEPT ![id[t]] = Torn] /\ Goto(t, "content opened")
        /\ UNCHANGED <<memory, locks, dirs, views, rated, comment_dirs, comments, blank,
                       req, id, res, mine, posted, offered, stale, owed>>
    BY <1>3 DEF write_content, history
  <2>2. /\ Others(t) /\ pc' \in [Thread -> PC] /\ pc'[t] = "content opened"
        /\ res[t] = Null /\ Answering(t)
    BY <1>1, <2>1, Goes DEF PC
  <2>3. id[t] \in Id /\ id[t] \in dirs /\ req[t].body \in Body /\ loaded
    BY <1>1 DEF MemeInv, ThreadsInv, Established, HandledIsLoaded, Posting
  <2>4. TypeOK'
    BY <2>1, <2>2, Types DEF TypeOK, memory, locks
  <2>5. OnePostPerDirectory'
    <3>1. \A u \in Thread : pc'[u] \in Posting => pc[u] \in Posting
      BY <1>1, <2>2 DEF Others, Posting
    <3>2. QED
      BY <2>1, <3>1 DEF MemeInv, PostsInv, OnePostPerDirectory
  <2>6. ContentIsThere' /\ ContentIsOffered'
    BY <2>1, <2>3, Special, Types DEF MemeInv, PostsInv, ContentIsThere, ContentIsOffered
  <2>7. PostedIsKept'
    <3>1. posted[id[t]] = Null
      BY <1>1 DEF MemeInv, PostsInv, OnePostPerDirectory, Posting
    <3>2. QED
      BY <2>1, <3>1, Types DEF MemeInv, PostsInv, PostedIsKept
  <2>8. AnswersInv'
    BY <2>1, <2>2, AnswersStep DEF MemeInv, Grown, memory
  <2>9. Established(t)'
    BY <2>1, <2>2, <2>3 DEF Established, Posting, Viewing, Rated
  <2>10. QED
    BY <1>1, <2>1, <2>2, <2>3, <2>4, <2>5, <2>6, <2>7, <2>8, <2>9, PostingStep
       DEF PostsInv, Viewing, Rated
<1>4. QED
  BY <1>2, <1>3

LEMMA KeepMemeCreated ==
  ASSUME MemeInv, NEW t \in Thread, meme_created(t)
  PROVE  MemeInv'
<1>1. /\ pc[t] = "content opened"
      /\ content' = [content EXCEPT ![id[t]] = req[t].body]
      /\ posted' = [posted EXCEPT ![id[t]] = req[t].body]
      /\ pc' = [pc EXCEPT ![t] = "idle"] /\ req' = [req EXCEPT ![t] = NoRequest]
      /\ res' = [res EXCEPT ![t] = Message("created")] /\ id' = [id EXCEPT ![t] = Null]
      /\ UNCHANGED <<memory, locks, dirs, views, rated, comment_dirs, comments, blank,
                     mine, offered, stale, owed>>
  BY DEF meme_created, Respond, Goto
<1>2. id[t] \in Id /\ id[t] \in dirs /\ req[t].body \in Body /\ loaded
  BY <1>1 DEF MemeInv, ThreadsInv, Established, HandledIsLoaded, Posting
<1>3. Message("created") \in Response
  BY DEF Message, Response, Code
<1>4. TypeOK'
  BY <1>1, <1>2, <1>3, Types, NoRequestIsOne DEF TypeOK, PC, memory, locks
<1>5. /\ Others(t) /\ pc'[t] = "idle" /\ res'[t] = Message("created")
  BY <1>1, Types DEF Others
<1>6. OnePostPerDirectory'
  <2>1. \A u \in Thread : pc'[u] \in Posting =>
          u # t /\ pc[u] \in Posting /\ id'[u] = id[u] /\ req'[u] = req[u]
    BY <1>5 DEF Others, Posting
  <2>2. \A u \in Thread : pc'[u] \in Posting => id'[u] # id[t] /\ id'[u] \in Id
    BY <1>1, <2>1, Types DEF MemeInv, PostsInv, OnePostPerDirectory, Posting, ThreadsInv, Established
  <2>3. \A u \in Thread : pc'[u] \in Posting => posted'[id'[u]] = posted[id[u]]
    BY <1>1, <2>1, <2>2, Types
  <2>4. QED
    BY <1>1, <2>1, <2>3 DEF MemeInv, PostsInv, OnePostPerDirectory
<1>7. ContentIsThere' /\ PostedIsKept'
  BY <1>1, <1>2, Types DEF MemeInv, PostsInv, ContentIsThere, PostedIsKept
<1>8. ContentIsOffered'
  <2>1. offered[id[t]] = req[t].body
    BY <1>1 DEF MemeInv, PostsInv, OnePostPerDirectory, Posting
  <2>2. QED
    BY <1>1, <2>1, Types DEF MemeInv, PostsInv, ContentIsOffered
<1>9. AnswersInv'
  <2>1. \A i \in Id : posted[i] # Null => posted'[i] # Null
    BY <1>1, <1>2, Special, Types
  <2>2. GoodAnswer(t, Message("created"))
    BY DEF GoodAnswer, Message
  <2>3. Answering(t)
    BY <1>1, <1>5, <2>2 DEF Answering
  <2>4. QED
    BY <1>1, <1>5, <2>1, <2>3, AnswersStep DEF MemeInv, Grown, memory
<1>10. Established(t)'
  BY <1>5 DEF Established, Posting, Viewing, Rated
<1>11. QED
  BY <1>1, <1>2, <1>4, <1>5, <1>6, <1>7, <1>8, <1>9, <1>10, PostingStep
     DEF PostsInv, Viewing, Rated

-----------------------------------------------------------------------------
(* The rest of a GET. *)

(* A step that concerns the view counts only. *)
LEMMA ViewingStep ==
  ASSUME MemeInv, NEW t \in Thread, NEW l \in PC \ {"idle", "create"}, Others(t), pc'[t] = l,
         UNCHANGED <<loaded, ratings, ratings_mutex, dirs, comment_dirs, content, rated>>,
         UNCHANGED <<posted, offered>>, loaded, Answering(t), TypeOK', Established(t)',
         \A i \in Id : <<"ratings", i>> \in stale => <<"ratings", i>> \in stale',
         ViewsInv', l \notin Posting \cup Rated, pc[t] \notin Posting \cup Rated
  PROVE  MemeInv'
<1>1. Grown
  BY DEF Grown
<1>2. ThreadsInv'
  BY <1>1, ThreadsStep DEF MemeInv
<1>3. PostsInv'
  BY <1>1, PostsStep DEF MemeInv
<1>4. AnswersInv'
  BY <1>1, AnswersStep DEF MemeInv
<1>5. RatingsInv'
  BY <1>1, RatingsStep DEF MemeInv
<1>6. QED
  BY <1>2, <1>3, <1>4, <1>5 DEF MemeInv

LEMMA KeepIncrementViewCount ==
  ASSUME MemeInv, NEW t \in Thread, increment_view_count(t)
  PROVE  MemeInv'
<1> DEFINE count == IF view_counts[id[t]] = Null THEN 1 ELSE view_counts[id[t]] + 1
<1>1. /\ pc[t] = "view" /\ views_mutex = Null /\ views_mutex' = t
      /\ view_counts' = [view_counts EXCEPT ![id[t]] = count]
      /\ mine' = [mine EXCEPT ![t] = count] /\ pc' = [pc EXCEPT ![t] = "views"]
      /\ UNCHANGED <<loaded, id_count, ratings, ratings_mutex, files, req, id, res,
                     posted, offered, stale, owed>>
  BY DEF increment_view_count, Goto, history
<1>2. id[t] \in Id /\ id[t] \in dirs /\ loaded /\ res[t] = Null
  BY <1>1, Types DEF MemeInv, ThreadsInv, Established, HandledIsLoaded
<1>3. /\ count \in Int
      /\ view_counts[id[t]] \in Int => view_counts[id[t]] <= count
  BY <1>2, Types, Special
<1> HIDE DEF count
<1>4. TypeOK'
  BY <1>1, <1>2, <1>3, Types DEF TypeOK, PC, files
<1>5. /\ Others(t) /\ pc'[t] = "views" /\ mine'[t] = count /\ view_counts'[id[t]] = count
      /\ res'[t] = Null
  BY <1>1, <1>2, Types DEF Others
<1>6. \A u \in Thread : pc[u] \notin Viewing
  BY <1>1, Special DEF MemeInv, ViewsInv, ViewsAreOwned
<1>7. ViewsAreOwned'
  BY <1>1, <1>5, <1>6 DEF Others, ViewsAreOwned
<1>8. ViewIsCounted'
  <2>1. \A u \in Thread \ {t} : pc'[u] \in Viewing \cup {"read"} =>
          mine[u] \in Int /\ view_counts[id[u]] \in Int /\ mine[u] <= view_counts[id[u]]
                /\ id[u] \in Id
    BY <1>5, Types DEF Others, MemeInv, ViewsInv, ViewIsCounted, ThreadsInv, Established
  <2>2. \A i \in Id : view_counts[i] \in Int =>
          view_counts'[i] \in Int /\ view_counts[i] <= view_counts'[i]
    BY <1>1, <1>3, Types
  <2>3. ASSUME NEW u \in Thread \ {t}, pc'[u] \in Viewing \cup {"read"}
        PROVE  /\ mine'[u] \in Int /\ view_counts'[id'[u]] \in Int
               /\ mine'[u] <= view_counts'[id'[u]]
    <3>1. id'[u] = id[u] /\ mine'[u] = mine[u]
      BY <1>5 DEF Others
    <3>2. QED
      BY <2>1, <2>2, <2>3, <3>1
  <2>4. mine'[t] \in Int /\ view_counts'[id'[t]] \in Int /\ mine'[t] <= view_counts'[id'[t]]
    BY <1>1, <1>3, <1>5
  <2>5. QED
    BY <2>3, <2>4 DEF ViewIsCounted
<1>9. TornViewsAreOwned'
  <2>1. \A i \in Id : views[i] # Torn
    BY <1>6 DEF MemeInv, ViewsInv, TornViewsAreOwned, Viewing
  <2>2. QED
    BY <1>1, <2>1 DEF TornViewsAreOwned, files
<1>10. ViewsAreSavedOrOwned'
  <2>1. \A i \in Id \ {id[t]} : <<"views", i>> \in stale \/ views[i] = view_counts[i]
    BY <1>2, <1>6 DEF MemeInv, ViewsInv, ViewsAreSavedOrOwned
  <2>2. \A i \in Id \ {id[t]} : <<"views", i>> \in stale' \/ views'[i] = view_counts'[i]
    BY <1>1, <2>1, Types DEF files
  <2>3. pc'[t] \in Viewing /\ id'[t] = id[t]
    BY <1>1, <1>5 DEF Viewing
  <2>4. QED
    BY <2>2, <2>3 DEF ViewsAreSavedOrOwned
<1>11. ViewedIsThere'
  BY <1>1, <1>2, Types DEF MemeInv, ViewsInv, ViewedIsThere, files
<1>12. Established(t)' /\ Answering(t)
  BY <1>1, <1>2, <1>5 DEF Established, Answering, Posting, Viewing, Rated, files
<1>13. QED
  BY <1>1, <1>2, <1>4, <1>5, <1>7, <1>8, <1>9, <1>10, <1>11, <1>12, ViewingStep
     DEF ViewsInv, files, Posting, Rated, PC

LEMMA KeepWriteViews ==
  ASSUME MemeInv, NEW t \in Thread, write_views(t)
  PROVE  MemeInv'
<1>1. /\ pc[t] = "views"
      /\ UNCHANGED <<memory, ratings_mutex, dirs, content, rated, comment_dirs, comments, blank,
                     req, id, res, mine, posted, offered, owed>>
  BY DEF write_views
<1>2. id[t] \in Id /\ id[t] \in dirs /\ loaded
  BY <1>1, Types DEF MemeInv, ThreadsInv, Established, HandledIsLoaded, Viewing
<1>3. \A u \in Thread : pc[u] \in Viewing => u = t
  BY <1>1, Types DEF MemeInv, ViewsInv, ViewsAreOwned, Viewing
<1>4. \A u \in Thread : pc[u] # "views opened"
  BY <1>1, <1>3 DEF Viewing
<1>5. \A i \in Id : views[i] # Torn
  BY <1>4 DEF MemeInv, ViewsInv, TornViewsAreOwned
<1>6. CASE /\ views' = [views EXCEPT ![id[t]] = Torn] /\ Goto(t, "views opened")
           /\ UNCHANGED <<views_mutex, stale>>
  <2>1. /\ Others(t) /\ pc' \in [Thread -> PC] /\ pc'[t] = "views opened"
        /\ res[t] = Null /\ Answering(t)
    BY <1>1, <1>6, Goes DEF PC
  <2>2. TypeOK'
    BY <1>1, <1>6, <2>1, Types DEF TypeOK, memory
  <2>3. \A u \in Thread : pc'[u] \in Viewing \cup {"read"} => pc[u] \in Viewing \cup {"read"}
    BY <1>1, <2>1 DEF Others, Viewing
  <2>4. \A u \in Thread : pc'[u] \in Viewing => pc[u] \in Viewing
    BY <1>1, <2>1 DEF Others, Viewing
  <2>5. ViewsAreOwned' /\ ViewIsCounted'
    BY <1>1, <1>6, <2>3, <2>4 DEF MemeInv, ViewsInv, ViewsAreOwned, ViewIsCounted, memory
  <2>6. TornViewsAreOwned'
    BY <1>1, <1>5, <1>6, <2>1, Types DEF TornViewsAreOwned
  <2>7. ViewsAreSavedOrOwned'
    <3>1. \A i \in Id \ {id[t]} : <<"views", i>> \in stale \/ views[i] = view_counts[i]
      BY <1>2, <1>3 DEF MemeInv, ViewsInv, ViewsAreSavedOrOwned
    <3>2. \A i \in Id \ {id[t]} : <<"views", i>> \in stale' \/ views'[i] = view_counts'[i]
      BY <1>1, <1>6, <3>1, Types DEF memory
    <3>3. pc'[t] \in Viewing /\ id'[t] = id[t]
      BY <1>1, <2>1 DEF Viewing
    <3>4. QED
      BY <3>2, <3>3 DEF ViewsAreSavedOrOwned
  <2>8. ViewedIsThere'
    BY <1>1, <1>2, <1>6, Types DEF MemeInv, ViewsInv, ViewedIsThere, memory
  <2>9. Established(t)'
    BY <1>1, <1>2, <2>1 DEF Established, Posting, Viewing, Rated
  <2>10. QED
    BY <1>1, <1>2, <1>6, <2>1, <2>2, <2>5, <2>6, <2>7, <2>8, <2>9, ViewingStep
       DEF ViewsInv, memory, Posting, Rated, PC
<1>7. CASE /\ views_mutex' = Null /\ stale' = stale \cup {<<"views", id[t]>>}
           /\ Goto(t, "read") /\ UNCHANGED views
  <2>1. /\ Others(t) /\ pc' \in [Thread -> PC] /\ pc'[t] = "read"
        /\ res[t] = Null /\ Answering(t)
    BY <1>1, <1>7, Goes DEF PC
  <2>2. TypeOK'
    <3>1. stale' \subseteq MetaFile
      BY <1>2, <1>7, Types DEF MetaFile
    <3>2. QED
      BY <1>1, <1>7, <2>1, <3>1, Types DEF TypeOK, memory
  <2>3. \A u \in Thread : pc'[u] \notin Viewing
    BY <1>3, <2>1 DEF Others, Viewing
  <2>4. \A u \in Thread : pc'[u] \in Viewing \cup {"read"} => pc[u] \in Viewing \cup {"read"}
    BY <1>1, <2>1 DEF Others, Viewing
  <2>5. ViewsAreOwned' /\ ViewIsCounted'
    BY <1>1, <2>3, <2>4 DEF MemeInv, ViewsInv, ViewsAreOwned, ViewIsCounted, memory
  <2>6. TornViewsAreOwned'
    BY <1>5, <1>7 DEF TornViewsAreOwned
  <2>7. ViewsAreSavedOrOwned'
    <3>1. \A i \in Id \ {id[t]} : <<"views", i>> \in stale \/ views[i] = view_counts[i]
      BY <1>2, <1>3 DEF MemeInv, ViewsInv, ViewsAreSavedOrOwned
    <3>2. QED
      BY <1>1, <1>7, <3>1 DEF ViewsAreSavedOrOwned, memory
  <2>8. ViewedIsThere'
    BY <1>1, <1>7 DEF MemeInv, ViewsInv, ViewedIsThere, memory
  <2>9. Established(t)'
    BY <1>1, <1>2, <2>1 DEF Established, Posting, Viewing, Rated
  <2>10. QED
    BY <1>1, <1>2, <1>7, <2>1, <2>2, <2>5, <2>6, <2>7, <2>8, <2>9, ViewingStep
       DEF ViewsInv, memory, Posting, Viewing, Rated, PC
<1>8. QED
  BY <1>6, <1>7 DEF write_views

LEMMA KeepCloseViews ==
  ASSUME MemeInv, NEW t \in Thread, close_views(t)
  PROVE  MemeInv'
<1>1. /\ pc[t] = "views opened" /\ views' = [views EXCEPT ![id[t]] = mine[t]]
      /\ views_mutex' = Null /\ stale' = stale \ {<<"views", id[t]>>} /\ Goto(t, "read")
      /\ UNCHANGED <<memory, ratings_mutex, dirs, content, rated, comment_dirs, comments, blank,
                     req, id, res, mine, posted, offered, owed>>
  BY DEF close_views
<1>2. id[t] \in Id /\ id[t] \in dirs /\ loaded
  BY <1>1, Types DEF MemeInv, ThreadsInv, Established, HandledIsLoaded, Viewing
<1>3. \A u \in Thread : pc[u] \in Viewing => u = t
  BY <1>1, Types DEF MemeInv, ViewsInv, ViewsAreOwned, Viewing
<1>4. mine[t] \in Int /\ view_counts[id[t]] = mine[t]
  BY <1>1 DEF MemeInv, ViewsInv, ViewsAreOwned, ViewIsCounted, Viewing
<1>5. /\ Others(t) /\ pc' \in [Thread -> PC] /\ pc'[t] = "read"
      /\ res[t] = Null /\ Answering(t)
  BY <1>1, Goes DEF PC
<1>6. TypeOK'
  BY <1>1, <1>4, <1>5, Types DEF TypeOK, memory
<1>7. \A u \in Thread : pc'[u] \notin Viewing
  BY <1>3, <1>5 DEF Others, Viewing
<1>8. \A u \in Thread : pc'[u] \in Viewing \cup {"read"} => pc[u] \in Viewing \cup {"read"}
  BY <1>1, <1>5 DEF Others, Viewing
<1>9. ViewsAreOwned' /\ ViewIsCounted'
  BY <1>1, <1>7, <1>8 DEF MemeInv, ViewsInv, ViewsAreOwned, ViewIsCounted, memory
<1>10. TornViewsAreOwned'
  <2>1. \A i \in Id \ {id[t]} : views[i] # Torn
    BY <1>3 DEF MemeInv, ViewsInv, TornViewsAreOwned, Viewing
  <2>2. \A i \in Id : views'[i] # Torn
    BY <1>1, <1>4, <2>1, Special, Types
  <2>3. QED
    BY <2>2 DEF TornViewsAreOwned
<1>11. ViewsAreSavedOrOwned'
  <2>1. \A i \in Id \ {id[t]} : <<"views", i>> \in stale \/ views[i] = view_counts[i]
    BY <1>2, <1>3 DEF MemeInv, ViewsInv, ViewsAreSavedOrOwned
  <2>2. \A i \in Id : <<"views", i>> \in stale' \/ views'[i] = view_counts'[i]
    BY <1>1, <1>4, <2>1, Types DEF memory
  <2>3. QED
    BY <2>2 DEF ViewsAreSavedOrOwned
<1>12. ViewedIsThere'
  BY <1>1, <1>2, Types DEF MemeInv, ViewsInv, ViewedIsThere, memory
<1>13. Established(t)'
  BY <1>1, <1>2, <1>5 DEF Established, Posting, Viewing, Rated
<1>14. QED
  BY <1>1, <1>2, <1>5, <1>6, <1>9, <1>10, <1>11, <1>12, <1>13, ViewingStep
     DEF ViewsInv, memory, Posting, Viewing, Rated, PC

LEMMA KeepGetContent ==
  ASSUME MemeInv, NEW t \in Thread, get_content(t)
  PROVE  MemeInv'
<1>1. pc[t] = "read"
  BY DEF get_content
<1>2. CASE Failed(t, "refused")
  BY <1>1, <1>2, KeepFailed DEF Code, Viewing, Rated
<1>3. CASE content[id[t]] \notin Body /\ Failed(t, "missing")
  BY <1>1, <1>3, KeepFailed, OwedIsThere DEF Code, Viewing, Rated
<1>4. CASE content[id[t]] \in Body /\ Answer(t, Details(t, content[id[t]]))
  <2>1. id[t] \in Id /\ id[t] \in dirs
    BY <1>1, Types DEF MemeInv, ThreadsInv, Established
  <2>2. mine[t] \in Int /\ view_counts[id[t]] \in Int /\ mine[t] <= view_counts[id[t]]
    BY <1>1 DEF MemeInv, ViewsInv, ViewIsCounted
  <2>3. get_view_count(id[t]) = view_counts[id[t]] /\ get_rating(id[t]) \in Int
    BY <2>1, <2>2, Types, Special DEF get_view_count, get_rating, RatingEntry
  <2>4. Details(t, content[id[t]]) \in Response
    BY <1>4, <2>1, <2>2, <2>3 DEF Details, Response, Code
  <2>5. GoodAnswer(t, Details(t, content[id[t]]))
    <3>1. content[id[t]] = offered[id[t]]
      BY <1>4, <2>1 DEF MemeInv, PostsInv, ContentIsOffered
    <3>2. QED
      BY <2>1, <2>2, <2>3, <3>1, Special DEF GoodAnswer, Details
  <2>6. QED
    BY <1>1, <1>4, <2>4, <2>5, KeepAnswer DEF Viewing, Rated
<1>5. QED
  BY <1>2, <1>3, <1>4 DEF get_content

-----------------------------------------------------------------------------
(* POST a comment. *)

(* A step that concerns the ratings only. *)
LEMMA RatingStep ==
  ASSUME MemeInv, NEW t \in Thread, NEW l \in PC \ {"idle", "create"}, Others(t), pc'[t] = l,
         UNCHANGED <<loaded, view_counts, views_mutex, dirs, comment_dirs, content, views>>,
         UNCHANGED <<posted, offered>>, loaded, Answering(t), TypeOK', Established(t)',
         \A i \in Id : <<"views", i>> \in stale => <<"views", i>> \in stale',
         RatingsInv', l \notin Posting \cup Viewing \cup {"read"}, pc[t] \notin Posting \cup Viewing
  PROVE  MemeInv'
<1>1. Grown
  BY DEF Grown
<1>2. ThreadsInv'
  BY <1>1, ThreadsStep DEF MemeInv
<1>3. PostsInv'
  BY <1>1, PostsStep DEF MemeInv
<1>4. AnswersInv'
  BY <1>1, AnswersStep DEF MemeInv
<1>5. ViewsInv'
  BY <1>1, ViewsStep DEF MemeInv
<1>6. QED
  BY <1>2, <1>3, <1>4, <1>5 DEF MemeInv

LEMMA KeepBadComment ==
  ASSUME MemeInv, NEW t \in Thread, bad_comment(t)
  PROVE  MemeInv'
  BY KeepFailed DEF bad_comment, At, Code, Viewing, Rated

LEMMA KeepAddRating ==
  ASSUME MemeInv, NEW t \in Thread, add_rating(t)
  PROVE  MemeInv'
<1> DEFINE new == new_rating(ratings[id[t]], req[t].rating)
<1>1. /\ pc[t] = "handle" /\ req[t].kind = "comment" /\ id[t] # Null
      /\ ratings_mutex = Null /\ ratings_mutex' = t
      /\ ratings' = [ratings EXCEPT ![id[t]] = new] /\ Goto(t, "ratings")
      /\ UNCHANGED <<loaded, id_count, view_counts, views_mutex, files, req, id, res, mine,
                     posted, offered, stale, owed>>
  BY DEF add_rating, At, history
<1>2. id[t] \in Id /\ loaded /\ req[t].rating \in Rating
  BY <1>1, Types, RequestFacts DEF MemeInv, ThreadsInv, HandledIsLoaded
<1>3. /\ new \in RatingEntry /\ new # Null /\ new.mean \in Float
      /\ Exact(new.count) => InRange(new.mean)
  <2>1. ratings[id[t]] \in RatingEntry \cup {Null}
    BY <1>2, Types
  <2>2. /\ ratings[id[t]] # Null => ratings[id[t]].mean \in Float
        /\ ratings[id[t]] # Null /\ Exact(ratings[id[t]].count) => InRange(ratings[id[t]].mean)
    BY <1>2 DEF MemeInv, RatingsInv, MeanIsFloat, MeanIsInRange
  <2>3. PICK old \in RatingEntry \cup {Null} : old = ratings[id[t]]
    BY <2>1
  <2>4. PICK r \in Rating : r = req[t].rating
    BY <1>2
  <2>5. QED
    BY <2>2, <2>3, <2>4, NewRating
<1> HIDE DEF new
<1>4. /\ Others(t) /\ pc' \in [Thread -> PC] /\ pc'[t] = "ratings"
      /\ res[t] = Null /\ Answering(t)
  BY <1>1, Goes DEF PC
<1>5. TypeOK'
  BY <1>1, <1>2, <1>3, <1>4, Types DEF TypeOK, files
<1>6. \A u \in Thread : pc[u] \notin Rated
  BY <1>1, Special DEF MemeInv, RatingsInv, RatingsAreOwned
<1>7. \A u \in Thread : pc'[u] \in Rated => u = t
  BY <1>4, <1>6 DEF Others
<1>8. ratings'[id[t]] = new /\ \A i \in Id \ {id[t]} : ratings'[i] = ratings[i]
  BY <1>1, <1>2, Types
<1>9. RatingsAreOwned'
  BY <1>1, <1>3, <1>7, <1>8 DEF RatingsAreOwned
<1>10. TornRatingsAreOwned'
  <2>1. \A i \in Id : rated[i] # Torn
    BY <1>6 DEF MemeInv, RatingsInv, TornRatingsAreOwned, Rated
  <2>2. QED
    BY <1>1, <2>1 DEF TornRatingsAreOwned, files
<1>11. RatingsAreSavedOrOwned'
  <2>1. \A i \in Id \ {id[t]} : <<"ratings", i>> \in stale \/ rated[i] = InFile(ratings[i])
    BY <1>2, <1>6 DEF MemeInv, RatingsInv, RatingsAreSavedOrOwned
  <2>2. \A i \in Id \ {id[t]} : <<"ratings", i>> \in stale' \/ rated'[i] = InFile(ratings'[i])
    BY <1>1, <1>8, <2>1 DEF files
  <2>3. pc'[t] \in Rated /\ id'[t] = id[t]
    BY <1>1, <1>4 DEF Rated
  <2>4. QED
    BY <2>2, <2>3 DEF RatingsAreSavedOrOwned, InFile
<1>12. RatedIsThere' /\ RatedIsGood'
  BY <1>1 DEF MemeInv, RatingsInv, RatedIsThere, RatedIsGood, files
<1>13. MeanIsFloat' /\ MeanIsInRange'
  <2>1. \A i \in Id : ratings'[i] # Null =>
          /\ ratings'[i].mean \in Float
          /\ Exact(ratings'[i].count) => InRange(ratings'[i].mean)
    BY <1>3, <1>8 DEF MemeInv, RatingsInv, MeanIsFloat, MeanIsInRange
  <2>2. QED
    BY <2>1 DEF MeanIsFloat, MeanIsInRange, Exact, InRange
<1>14. Established(t)'
  BY <1>1, <1>2, <1>4 DEF Established, Posting, Viewing, Rated
<1>15. QED
  BY <1>1, <1>2, <1>4, <1>5, <1>9, <1>10, <1>11, <1>12, <1>13, <1>14, RatingStep
     DEF RatingsInv, files, Posting, Viewing, PC

LEMMA KeepWriteRatings ==
  ASSUME MemeInv, NEW t \in Thread, write_ratings(t)
  PROVE  MemeInv'
<1>1. /\ pc[t] = "ratings"
      /\ UNCHANGED <<memory, views_mutex, dirs, content, views, comment_dirs, comments, blank,
                     req, id, res, mine, posted, offered, owed>>
  BY DEF write_ratings
<1>2. id[t] \in Id /\ loaded
  BY <1>1 DEF MemeInv, ThreadsInv, Established, HandledIsLoaded, Rated
<1>3. \A u \in Thread : pc[u] \in Rated => u = t
  BY <1>1, Types DEF MemeInv, RatingsInv, RatingsAreOwned, Rated
<1>4. \A i \in Id : rated[i] # Torn
  <2>1. \A u \in Thread : pc[u] # "ratings opened"
    BY <1>1, <1>3 DEF Rated
  <2>2. QED
    BY <2>1 DEF MemeInv, RatingsInv, TornRatingsAreOwned
<1>5. \A i \in Id \ {id[t]} : <<"ratings", i>> \in stale \/ rated[i] = InFile(ratings[i])
  BY <1>2, <1>3 DEF MemeInv, RatingsInv, RatingsAreSavedOrOwned
<1>6. MeanIsFloat' /\ MeanIsInRange'
  BY <1>1 DEF MemeInv, RatingsInv, MeanIsFloat, MeanIsInRange, memory
<1>7. CASE /\ id[t] \in dirs /\ rated' = [rated EXCEPT ![id[t]] = Torn]
           /\ Goto(t, "ratings opened") /\ UNCHANGED <<ratings_mutex, stale>>
  <2>1. /\ Others(t) /\ pc' \in [Thread -> PC] /\ pc'[t] = "ratings opened"
        /\ res[t] = Null /\ Answering(t)
    BY <1>1, <1>7, Goes DEF PC
  <2>2. TypeOK'
    BY <1>1, <1>7, <2>1, Types DEF TypeOK, memory
  <2>3. rated'[id[t]] = Torn /\ \A i \in Id \ {id[t]} : rated'[i] = rated[i]
    BY <1>2, <1>7, Types
  <2>4. RatingsAreOwned'
    <3>1. \A u \in Thread : pc'[u] \in Rated => pc[u] \in Rated
      BY <1>1, <2>1 DEF Others, Rated
    <3>2. QED
      BY <1>1, <1>7, <3>1 DEF MemeInv, RatingsInv, RatingsAreOwned, memory
  <2>5. TornRatingsAreOwned'
    BY <1>1, <1>4, <2>1, <2>3 DEF TornRatingsAreOwned
  <2>6. RatingsAreSavedOrOwned'
    <3>1. \A i \in Id \ {id[t]} : <<"ratings", i>> \in stale' \/ rated'[i] = InFile(ratings'[i])
      BY <1>1, <1>5, <1>7, <2>3 DEF memory
    <3>2. pc'[t] \in Rated /\ id'[t] = id[t]
      BY <1>1, <2>1 DEF Rated
    <3>3. QED
      BY <3>1, <3>2 DEF RatingsAreSavedOrOwned, InFile
  <2>7. RatedIsThere' /\ RatedIsGood'
    BY <1>1, <1>7, <2>3, Special DEF MemeInv, RatingsInv, RatedIsThere, RatedIsGood
  <2>8. Established(t)'
    BY <1>1, <1>2, <1>7, <2>1 DEF Established, Posting, Viewing, Rated
  <2>9. QED
    BY <1>1, <1>2, <1>6, <1>7, <2>1, <2>2, <2>4, <2>5, <2>6, <2>7, <2>8, RatingStep
       DEF RatingsInv, memory, Posting, Viewing, PC
<1>8. CASE /\ ratings_mutex' = Null /\ stale' = stale \cup {<<"ratings", id[t]>>}
           /\ Goto(t, "comment") /\ UNCHANGED rated
  <2>1. /\ Others(t) /\ pc' \in [Thread -> PC] /\ pc'[t] = "comment"
        /\ res[t] = Null /\ Answering(t)
    BY <1>1, <1>8, Goes DEF PC
  <2>2. TypeOK'
    <3>1. stale' \subseteq MetaFile
      BY <1>2, <1>8, Types DEF MetaFile
    <3>2. QED
      BY <1>1, <1>8, <2>1, <3>1, Types DEF TypeOK, memory
  <2>3. RatingsAreOwned'
    BY <1>3, <2>1 DEF Others, Rated, RatingsAreOwned
  <2>4. TornRatingsAreOwned'
    BY <1>4, <1>8 DEF TornRatingsAreOwned
  <2>5. RatingsAreSavedOrOwned'
    BY <1>1, <1>5, <1>8 DEF RatingsAreSavedOrOwned, InFile, memory
  <2>6. RatedIsThere' /\ RatedIsGood'
    BY <1>1, <1>8 DEF MemeInv, RatingsInv, RatedIsThere, RatedIsGood
  <2>7. Established(t)'
    BY <1>1, <1>2, <2>1 DEF Established, Posting, Viewing, Rated
  <2>8. QED
    BY <1>1, <1>2, <1>6, <1>8, <2>1, <2>2, <2>3, <2>4, <2>5, <2>6, <2>7, RatingStep
       DEF RatingsInv, memory, Posting, Viewing, PC
<1>9. QED
  BY <1>7, <1>8 DEF write_ratings

LEMMA KeepCloseRatings ==
  ASSUME MemeInv, NEW t \in Thread, close_ratings(t)
  PROVE  MemeInv'
<1> DEFINE new == to_string(ratings[id[t]])
<1>1. /\ pc[t] = "ratings opened" /\ rated' = [rated EXCEPT ![id[t]] = new]
      /\ ratings_mutex' = Null /\ stale' = stale \ {<<"ratings", id[t]>>} /\ Goto(t, "comment")
      /\ UNCHANGED <<memory, views_mutex, dirs, content, views, comment_dirs, comments, blank,
                     req, id, res, mine, posted, offered, owed>>
  BY DEF close_ratings
<1>2. id[t] \in Id /\ id[t] \in dirs /\ loaded
  BY <1>1, Types DEF MemeInv, ThreadsInv, Established, HandledIsLoaded, Rated
<1>3. \A u \in Thread : pc[u] \in Rated => u = t
  BY <1>1, Types DEF MemeInv, RatingsInv, RatingsAreOwned, Rated
<1>4. ratings[id[t]] # Null /\ new = InFile(ratings[id[t]])
  BY <1>1 DEF MemeInv, RatingsInv, RatingsAreOwned, Rated, InFile
<1>5. /\ new \in RatingEntry
      /\ \E f \in Float : new.mean = Round(f, TextUnit) * TextUnit
      /\ Exact(new.count) => InRange(new.mean)
  <2>1. /\ ratings[id[t]] \in RatingEntry /\ ratings[id[t]].mean \in Float
        /\ Exact(ratings[id[t]].count) => InRange(ratings[id[t]].mean)
    BY <1>2, <1>4, Types DEF MemeInv, RatingsInv, MeanIsFloat, MeanIsInRange
  <2>2. QED
    BY <2>1, Written
<1> HIDE DEF new
<1>6. /\ Others(t) /\ pc' \in [Thread -> PC] /\ pc'[t] = "comment"
      /\ res[t] = Null /\ Answering(t)
  BY <1>1, Goes DEF PC
<1>7. TypeOK'
  BY <1>1, <1>5, <1>6, Types DEF TypeOK, memory
<1>8. rated'[id[t]] = new /\ \A i \in Id \ {id[t]} : rated'[i] = rated[i]
  BY <1>1, <1>2, Types
<1>9. RatingsAreOwned'
  BY <1>3, <1>6 DEF Others, Rated, RatingsAreOwned
<1>10. TornRatingsAreOwned'
  <2>1. \A i \in Id \ {id[t]} : rated[i] # Torn
    BY <1>3 DEF MemeInv, RatingsInv, TornRatingsAreOwned, Rated
  <2>2. QED
    BY <1>5, <1>8, <2>1, Special DEF TornRatingsAreOwned
<1>11. RatingsAreSavedOrOwned'
  <2>1. \A i \in Id \ {id[t]} : <<"ratings", i>> \in stale \/ rated[i] = InFile(ratings[i])
    BY <1>2, <1>3 DEF MemeInv, RatingsInv, RatingsAreSavedOrOwned
  <2>2. \A i \in Id : <<"ratings", i>> \in stale' \/ rated'[i] = InFile(ratings[i])
    BY <1>1, <1>4, <1>8, <2>1
  <2>3. QED
    BY <1>1, <2>2 DEF RatingsAreSavedOrOwned, InFile, memory
<1>12. RatedIsThere' /\ RatedIsGood' /\ MeanIsFloat' /\ MeanIsInRange'
  <2>1. RatedIsThere'
    BY <1>1, <1>2, <1>8 DEF MemeInv, RatingsInv, RatedIsThere
  <2>2. RatedIsGood'
    <3>1. \A i \in Id : rated'[i] \in RatingEntry =>
            /\ \E f \in Float : rated'[i].mean = Round(f, TextUnit) * TextUnit
            /\ Exact(rated'[i].count) => InRange(rated'[i].mean)
      BY <1>5, <1>8 DEF MemeInv, RatingsInv, RatedIsGood
    <3>2. QED
      BY <3>1 DEF RatedIsGood
  <2>3. MeanIsFloat' /\ MeanIsInRange'
    BY <1>1 DEF MemeInv, RatingsInv, MeanIsFloat, MeanIsInRange, memory
  <2>4. QED
    BY <2>1, <2>2, <2>3
<1>13. Established(t)'
  BY <1>1, <1>2, <1>6 DEF Established, Posting, Viewing, Rated
<1>14. QED
  BY <1>1, <1>2, <1>6, <1>7, <1>9, <1>10, <1>11, <1>12, <1>13, RatingStep
     DEF RatingsInv, memory, Posting, Viewing, PC

LEMMA KeepAddComment ==
  ASSUME MemeInv, NEW t \in Thread, add_comment(t)
  PROVE  MemeInv'
<1>1. pc[t] = "comment"
  BY DEF add_comment
<1>2. CASE Dropped(t)
  BY <1>1, <1>2, KeepFailed DEF Dropped, Code, Viewing, Rated
<1>3. CASE ~Dropped(t)
  <2>1. /\ id[t] \in dirs /\ comment_dirs' = comment_dirs \cup {id[t]} /\ Goto(t, "comment file")
        /\ UNCHANGED <<memory, locks, dirs, content, views, rated, comments, blank,
                       req, id, res, mine, posted, offered, stale, owed>>
    BY <1>3 DEF add_comment, history
  <2>2. /\ Others(t) /\ pc' \in [Thread -> PC] /\ pc'[t] = "comment file"
        /\ res[t] = Null /\ Answering(t)
    BY <1>1, <2>1, Goes DEF PC
  <2>3. TypeOK'
    BY <2>1, <2>2, Types DEF TypeOK, memory, locks
  <2>4. Established(t)'
    BY <2>1, <2>2 DEF Established, Posting, Viewing, Rated
  <2>5. loaded
    BY <1>1 DEF MemeInv, ThreadsInv, HandledIsLoaded
  <2>6. QED
    BY <1>1, <2>1, <2>2, <2>3, <2>4, <2>5, QuietStep DEF memory, Posting, Viewing, Rated
<1>4. QED
  BY <1>2, <1>3

LEMMA KeepWriteComment ==
  ASSUME MemeInv, NEW t \in Thread, write_comment(t)
  PROVE  MemeInv'
<1>1. pc[t] = "comment file"
  BY DEF write_comment
<1>2. CASE Dropped(t)
  BY <1>1, <1>2, KeepFailed DEF Dropped, Code, Viewing, Rated
<1>3. CASE ~Dropped(t)
  <2>1. /\ Goto(t, "comment opened")
        /\ UNCHANGED <<memory, locks, files, req, id, res, mine, posted, offered, stale, owed>>
    BY <1>3 DEF write_comment, history
  <2>2. /\ Others(t) /\ pc' \in [Thread -> PC] /\ pc'[t] = "comment opened"
        /\ res[t] = Null /\ Answering(t)
    BY <1>1, <2>1, Goes DEF PC
  <2>3. TypeOK'
    BY <2>1, <2>2, Types DEF TypeOK, memory, locks, files
  <2>4. id[t] \in comment_dirs /\ loaded
    BY <1>1 DEF MemeInv, ThreadsInv, HandledIsLoaded, Established
  <2>5. Established(t)'
    BY <2>1, <2>2, <2>4 DEF Established, Posting, Viewing, Rated, files
  <2>6. QED
    BY <1>1, <2>1, <2>2, <2>3, <2>4, <2>5, QuietStep DEF memory, files, Posting, Viewing, Rated
<1>4. QED
  BY <1>2, <1>3

LEMMA KeepCommentAdded ==
  ASSUME MemeInv, NEW t \in Thread, comment_added(t)
  PROVE  MemeInv'
<1>1. /\ pc[t] = "comment opened" /\ comments' = [comments EXCEPT ![id[t]] = @ + 1]
      /\ pc' = [pc EXCEPT ![t] = "idle"] /\ req' = [req EXCEPT ![t] = NoRequest]
      /\ res' = [res EXCEPT ![t] = Message("commented")] /\ id' = [id EXCEPT ![t] = Null]
      /\ UNCHANGED <<memory, locks, dirs, content, views, rated, comment_dirs, blank, mine,
                     posted, offered, stale, owed>>
  BY DEF comment_added, Respond, Goto, history
<1>2. Message("commented") \in Response
  BY DEF Message, Response, Code
<1>3. TypeOK'
  <2>1. comments' \in [Id -> Nat]
    <3>1. id[t] \in Id
      BY <1>1, Types DEF MemeInv, ThreadsInv, Established
    <3>2. comments[id[t]] + 1 \in Nat
      BY <3>1, Types
    <3>3. QED
      BY <1>1, <3>1, <3>2, Types
  <2>2. QED
    BY <1>1, <1>2, <2>1, Types, NoRequestIsOne DEF TypeOK, PC, memory, locks
<1>4. Others(t) /\ pc'[t] = "idle" /\ res'[t] = Message("commented")
  BY <1>1, Types DEF Others
<1>5. Established(t)'
  BY <1>4 DEF Established, Posting, Viewing, Rated
<1>6. Answering(t)
  <2>1. GoodAnswer(t, Message("commented"))
    BY DEF GoodAnswer, Message
  <2>2. QED
    BY <1>1, <1>4, <2>1 DEF Answering
<1>7. QED
  BY <1>1, <1>3, <1>4, <1>5, <1>6, QuietStep DEF memory, Posting, Viewing, Rated

-----------------------------------------------------------------------------
(* The requests that only read. *)

LEMMA KeepListMemes ==
  ASSUME MemeInv, NEW t \in Thread, list_memes(t)
  PROVE  MemeInv'
<1>1. pc[t] = "handle" /\ Answer(t, Message("ok"))
  BY DEF list_memes, At
<1>2. Message("ok") \in Response /\ GoodAnswer(t, Message("ok"))
  BY DEF Message, Response, Code, GoodAnswer
<1>3. QED
  BY <1>1, <1>2, KeepAnswer DEF Viewing, Rated

LEMMA KeepOtherRequest ==
  ASSUME MemeInv, NEW t \in Thread, other_request(t)
  PROVE  MemeInv'
BY KeepFailed DEF other_request, At, Code, Viewing, Rated

-----------------------------------------------------------------------------
(* The end of the process, and its start. *)

(* Nothing is torn but what is being written, and all of it is left empty. *)
LEMMA LeftFacts ==
  ASSUME NEW S, NEW f \in [Id -> S \cup {Null, Torn, Empty}]
  PROVE  /\ Left(f) \in [Id -> S \cup {Null, Torn, Empty}]
         /\ \A i \in Id : /\ f[i] # Torn => Left(f)[i] = f[i]
                          /\ f[i] = Torn => Left(f)[i] = Empty
                          /\ Left(f)[i] # Torn
BY Special DEF Left

LEMMA KeepTerminate ==
  ASSUME MemeInv, NEW cause, Terminate(cause)
  PROVE  MemeInv'
<1>1. /\ loaded' = FALSE /\ id_count' = 0
      /\ view_counts' = [i \in Id |-> Null] /\ ratings' = [i \in Id |-> Null]
      /\ views_mutex' = Null /\ ratings_mutex' = Null
      /\ content' = Left(content) /\ views' = Left(views) /\ rated' = Left(rated)
      /\ blank' = blank \cup {i \in Id : \E t \in Thread : pc[t] = "comment opened" /\ id[t] = i}
      /\ pc' = [t \in Thread |-> "idle"] /\ id' = [t \in Thread |-> Null]
      /\ res' = [t \in Thread |-> Null] /\ mine' = [t \in Thread |-> Null]
      /\ owed' = [t \in Thread |-> FALSE] /\ req' = [t \in Thread |-> NoRequest]
      /\ UNCHANGED <<dirs, comment_dirs, comments, posted, offered, stale>>
  BY DEF Terminate
<1>2. /\ content' \in [Id -> Body \cup {Null, Torn, Empty}]
      /\ views' \in [Id -> Int \cup {Null, Torn, Empty}]
      /\ rated' \in [Id -> RatingEntry \cup {Null, Torn, Empty}]
      /\ \A i \in Id : /\ content[i] # Torn => content'[i] = content[i]
                       /\ content[i] = Torn => content'[i] = Empty
                       /\ views[i] # Torn => views'[i] = views[i]
                       /\ rated[i] # Torn => rated'[i] = rated[i]
                       /\ rated[i] = Torn => rated'[i] = Empty
                       /\ views'[i] # Torn /\ rated'[i] # Torn
  BY <1>1, Types, LeftFacts
<1>3. TypeOK'
  <2>1. blank' \subseteq comment_dirs
    BY <1>1, Types DEF MemeInv, ThreadsInv, Established
  <2>2. /\ id_count' \in Id \cup {0} /\ view_counts' \in [Id -> Int \cup {Null}]
        /\ ratings' \in [Id -> RatingEntry \cup {Null}]
        /\ pc' \in [Thread -> PC] /\ req' \in [Thread -> Requests]
        /\ id' \in [Thread -> Id \cup {Null}] /\ res' \in [Thread -> Response \cup {Null}]
        /\ mine' \in [Thread -> Int \cup {Null}]
    BY <1>1, NoRequestIsOne DEF PC
  <2>3. owed' \in [Thread -> BOOLEAN]
    BY <1>1, Zenon
  <2>4. QED
    BY <1>1, <1>2, <2>1, <2>2, <2>3, Types DEF TypeOK
<1>4. \A t \in Thread : pc'[t] = "idle" /\ res'[t] = Null
  BY <1>1
<1>5. ThreadsInv'
  BY <1>4 DEF ThreadsInv, HandledIsLoaded, Established, Posting, Viewing, Rated
<1>6. PostsInv'
  <2>1. OnePostPerDirectory'
    BY <1>4 DEF OnePostPerDirectory, Posting
  <2>2. ContentIsThere'
    BY <1>1, <1>2, Special DEF ContentIsThere, MemeInv, PostsInv
  <2>3. ContentIsOffered'
    BY <1>1, <1>2, Special DEF ContentIsOffered, MemeInv, PostsInv
  <2>4. PostedIsKept'
    <3>1. \A i \in Id : posted[i] # Null => content[i] = posted[i] /\ content[i] \in Body
      BY Types DEF PostedIsKept, MemeInv, PostsInv
    <3>2. \A i \in Id : posted[i] # Null => content'[i] = posted[i]
      BY <1>2, <3>1, Special
    <3>3. QED
      BY <1>1, <3>2 DEF PostedIsKept
  <2>5. QED
    BY <2>1, <2>2, <2>3, <2>4 DEF PostsInv
<1>7. AnswersInv'
  BY <1>4 DEF AnswersInv, OwedIsPosted, ShownIsThere, ServedIsPosted, PostedIsFound,
             OwnViewIsCounted, Shown
<1>8. ViewsInv'
  <2>1. ViewedIsThere'
    BY <1>1, <1>2, Special DEF ViewedIsThere, MemeInv, ViewsInv
  <2>2. QED
    BY <1>1, <1>2, <1>4, <2>1 DEF ViewsInv, ViewsAreOwned, ViewIsCounted, TornViewsAreOwned,
                                 ViewsAreSavedOrOwned, Viewing
<1>9. RatingsInv'
  <2>1. RatedIsThere'
    BY <1>1, <1>2, Special DEF RatedIsThere, MemeInv, RatingsInv
  <2>2. RatedIsGood'
    BY <1>2, Special DEF RatedIsGood, MemeInv, RatingsInv
  <2>3. QED
    BY <1>1, <1>2, <1>4, <2>1, <2>2 DEF RatingsInv, RatingsAreOwned, TornRatingsAreOwned,
                                        RatingsAreSavedOrOwned, MeanIsFloat, MeanIsInRange, Rated
<1>10. QED
  BY <1>3, <1>5, <1>6, <1>7, <1>8, <1>9 DEF MemeInv

LEMMA KeepGetInfo ==
  ASSUME MemeInv, NEW t \in Thread, get_info(t)
  PROVE  MemeInv'
<1>1. pc[t] = "handle" /\ req[t].kind = "info"
  BY DEF get_info, At
<1>2. CASE Exception
  BY <1>2, KeepTerminate DEF Exception
<1>3. CASE Answer(t, Details(t, Null))
  <2>1. owed[t] => FALSE
    BY <1>1 DEF MemeInv, AnswersInv, OwedIsPosted
  <2>2. get_view_count(id[t]) \in Int /\ get_rating(id[t]) \in Int
    <3>1. id[t] \in Id
      BY <1>1 DEF MemeInv, ThreadsInv, Established
    <3>2. QED
      BY <3>1, Types, Special DEF get_view_count, get_rating, RatingEntry
  <2>3. Details(t, Null) \in Response
    BY <2>2, Types DEF Details, Response, Code
  <2>4. GoodAnswer(t, Details(t, Null))
    BY <2>1 DEF GoodAnswer, Details
  <2>5. QED
    BY <1>1, <1>3, <2>3, <2>4, KeepAnswer DEF Viewing, Rated
<1>4. QED
  BY <1>2, <1>3 DEF get_info

(* The constructor reads what the last process left. *)
LEMMA KeepMemeModule ==
  ASSUME MemeInv, NEW t \in Thread, MemeModule(t)
  PROVE  MemeInv'
<1>1. pc[t] = "create" /\ ~loaded
  BY DEF MemeModule
<1>2. CASE Exception
  BY <1>2, KeepTerminate DEF Exception
<1>3. CASE ~Exception
  <2>1. PICK listed \in SUBSET dirs :
          \E counted \in SUBSET listed, scored \in SUBSET listed :
            (\A i \in scored : rated[i] # Empty) /\ load(t, listed, counted, scored)
    BY <1>3 DEF MemeModule
  <2>2. PICK counted \in SUBSET listed, scored \in SUBSET listed :
          (\A i \in scored : rated[i] # Empty) /\ load(t, listed, counted, scored)
    BY <2>1
  <2>3. /\ loaded' = TRUE /\ Goto(t, "handle")
        /\ id_count' = CHOOSE n \in listed \cup {0} : \A m \in listed : m <= n
        /\ UNCHANGED <<locks, files, req, id, res, mine, posted, offered, owed>>
        /\ ratings' = [i \in Id |-> IF i \in scored /\ rated[i] # Null THEN stof(rated[i]) ELSE Null]
        /\ stale' = ({"views"} \X {i \in dirs : i \notin counted \/ views[i] = Empty})
                    \cup ({"ratings"} \X (dirs \ scored))
    BY <2>2 DEF load
  <2>4. PICK view_count \in Garbage :
          view_counts' = [i \in Id |-> IF i \notin counted THEN Null
                                      ELSE IF views[i] = Empty THEN view_count ELSE views[i]]
    BY <2>2 DEF load
  <2>5. /\ stale' \subseteq MetaFile
        /\ \A i \in dirs : <<"views", i>> \notin stale' => i \in counted /\ views[i] # Empty
        /\ \A i \in dirs : <<"ratings", i>> \notin stale' => i \in scored
    BY <2>3, Types DEF MetaFile
  <2>6. id_count' \in Id \cup {0}
    <3> DEFINE D == listed \cup {0}
    <3>1. PICK n \in Nat : Id = 1..n
      BY Ids
    <3>2. listed \subseteq Id
      BY Types
    <3>3. D \in SUBSET Nat /\ D # {} /\ \A i \in D : i <= n
      BY <3>1, <3>2
    <3>4. \E i \in D : \A j \in D : j <= i
      <4> HIDE DEF D
      <4>1. QED
        BY <3>1, <3>3, GreatestNumber
    <3>5. \E i \in listed \cup {0} : \A j \in listed : j <= i
      BY <3>4
    <3>6. id_count' \in listed \cup {0}
      BY <2>3, <3>5
    <3>7. QED
      BY <3>2, <3>6
  <2>7. \A u \in Thread : pc[u] \in {"idle", "create"}
    BY <1>1 DEF MemeInv, ThreadsInv, HandledIsLoaded
  <2>8. \A i \in Id : views[i] # Torn /\ rated[i] # Torn
    BY <2>7 DEF MemeInv, ViewsInv, TornViewsAreOwned, RatingsInv, TornRatingsAreOwned
  <2>9. /\ Others(t) /\ pc' \in [Thread -> PC] /\ pc'[t] = "handle"
        /\ res[t] = Null /\ Answering(t)
    BY <1>1, <2>3, Goes DEF PC
  <2>10. \A u \in Thread : pc'[u] \in {"idle", "create", "handle"}
    BY <2>7, <2>9 DEF Others
  <2>11. view_counts' \in [Id -> Int \cup {Null}]
    <3>1. view_count \in Int
      BY MemeAssumption
    <3>2. \A i \in Id : views[i] # Empty => views[i] \in Int \cup {Null}
      BY <2>8, Types
    <3>3. QED
      BY <2>3, <2>4, <3>1, <3>2
  <2>12. /\ ratings' \in [Id -> RatingEntry \cup {Null}]
         /\ \A i \in scored : rated[i] # Null =>
              /\ rated[i] \in RatingEntry
              /\ stof(rated[i]) \in RatingEntry /\ stof(rated[i]).mean \in Float
              /\ Exact(stof(rated[i]).count) => InRange(stof(rated[i]).mean)
              /\ to_string(stof(rated[i])) = rated[i]
    <3>1. \A i \in scored : rated[i] \in RatingEntry \cup {Null}
      BY <2>2, <2>8, Types
    <3>2. ASSUME NEW i \in scored, rated[i] # Null
          PROVE  /\ stof(rated[i]) \in RatingEntry /\ stof(rated[i]).mean \in Float
                 /\ Exact(stof(rated[i]).count) => InRange(stof(rated[i]).mean)
                 /\ to_string(stof(rated[i])) = rated[i]
      <4>1. PICK r \in RatingEntry : r = rated[i]
        BY <3>1, <3>2
      <4>2. i \in Id
        BY Types
      <4>3. /\ \E f \in Float : r.mean = Round(f, TextUnit) * TextUnit
            /\ Exact(r.count) => InRange(r.mean)
        BY <4>1, <4>2 DEF MemeInv, RatingsInv, RatedIsGood
      <4>4. QED
        BY <4>1, <4>3, Read
    <3>3. ratings' \in [Id -> RatingEntry \cup {Null}]
      BY <2>3, <3>1, <3>2
    <3>4. QED
      BY <3>1, <3>2, <3>3
  <2>13. TypeOK'
    BY <2>3, <2>5, <2>6, <2>9, <2>11, <2>12, Types DEF TypeOK, locks, files
  <2>14. ThreadsInv'
    <3>1. HandledIsLoaded'
      BY <2>3 DEF HandledIsLoaded
    <3>2. ASSUME NEW u \in Thread PROVE Established(u)'
      <4>1. Established(u)
        BY DEF MemeInv, ThreadsInv
      <4>2. pc'[u] # "idle" => pc[u] # "idle" /\ pc[u] \in {"create", "handle"}
        BY <1>1, <2>7, <2>9 DEF Others
      <4>3. QED
        BY <2>3, <2>10, <4>1, <4>2 DEF Established, Posting, Viewing, Rated
    <3>3. QED
      BY <3>1, <3>2 DEF ThreadsInv
  <2>15. PostsInv'
    <3>1. OnePostPerDirectory'
      BY <2>10 DEF OnePostPerDirectory, Posting
    <3>2. ContentIsThere' /\ ContentIsOffered' /\ PostedIsKept'
      BY <2>3 DEF MemeInv, PostsInv, ContentIsThere, ContentIsOffered, PostedIsKept, files
    <3>3. QED
      BY <3>1, <3>2 DEF PostsInv
  <2>16. AnswersInv'
    <3>1. /\ dirs' = dirs /\ offered' = offered /\ posted' = posted /\ res' = res
          /\ id' = id /\ req' = req /\ owed' = owed /\ mine' = mine
      BY <2>3 DEF files
    <3>2. \A u \in Thread : pc'[u] # "idle" => pc[u] # "idle"
      BY <1>1, <2>9 DEF Others
    <3>3. QED
      BY <3>1, <3>2 DEF MemeInv, AnswersInv, OwedIsPosted, ShownIsThere, ServedIsPosted,
                        PostedIsFound, OwnViewIsCounted, Shown
  <2>17. ViewsInv'
    <3>1. ViewsAreOwned' /\ ViewIsCounted'
      BY <2>10 DEF ViewsAreOwned, ViewIsCounted, Viewing
    <3>2. TornViewsAreOwned'
      BY <2>3, <2>8 DEF TornViewsAreOwned, files
    <3>3. ViewedIsThere'
      BY <2>3, <2>4 DEF MemeInv, ViewsInv, ViewedIsThere, files
    <3>4. \A i \in Id : <<"views", i>> \in stale' \/ views'[i] = view_counts'[i]
      <4>1. ASSUME NEW i \in dirs, <<"views", i>> \notin stale' PROVE views'[i] = view_counts'[i]
        BY <2>3, <2>4, <2>5, <4>1, Types DEF files
      <4>2. \A i \in Id \ dirs : views'[i] = view_counts'[i]
        BY <2>3, <3>3 DEF ViewedIsThere, files
      <4>3. QED
        BY <4>1, <4>2
    <3>5. ViewsAreSavedOrOwned'
      BY <3>4 DEF ViewsAreSavedOrOwned
    <3>6. QED
      BY <3>1, <3>2, <3>3, <3>5 DEF ViewsInv
  <2>18. RatingsInv'
    <3>1. RatingsAreOwned'
      BY <2>10 DEF RatingsAreOwned, Rated
    <3>2. TornRatingsAreOwned'
      BY <2>3, <2>8 DEF TornRatingsAreOwned, files
    <3>3. RatedIsThere' /\ RatedIsGood'
      BY <2>3 DEF MemeInv, RatingsInv, RatedIsThere, RatedIsGood, files
    <3>4. MeanIsFloat' /\ MeanIsInRange'
      <4>1. ASSUME NEW i \in Id, ratings'[i] # Null
            PROVE  /\ ratings'[i].mean \in Float
                   /\ Exact(ratings'[i].count) => InRange(ratings'[i].mean)
        <5>1. i \in scored /\ rated[i] \in RatingEntry /\ ratings'[i] = stof(rated[i])
          BY <2>3, <2>12, <4>1
        <5>2. QED
          BY <2>12, <5>1, Special
      <4>2. QED
        BY <4>1 DEF MeanIsFloat, MeanIsInRange
    <3>5. ASSUME NEW i \in Id PROVE <<"ratings", i>> \in stale' \/ rated'[i] = InFile(ratings'[i])
      <4>1. CASE i \in dirs /\ <<"ratings", i>> \notin stale'
        <5>1. i \in scored /\ ratings'[i] = IF rated[i] # Null THEN stof(rated[i]) ELSE Null
          BY <2>3, <2>5, <4>1
        <5>2. CASE rated[i] # Null
          <6>1. rated[i] \in RatingEntry /\ ratings'[i] = stof(rated[i])
            BY <2>12, <5>1, <5>2
          <6>2. stof(rated[i]) # Null /\ to_string(stof(rated[i])) = rated[i]
            BY <2>12, <5>1, <5>2, Special
          <6>3. InFile(ratings'[i]) = rated[i]
            BY <6>1, <6>2 DEF InFile
          <6>4. QED
            BY <2>3, <6>3 DEF files
        <5>3. CASE rated[i] = Null
          BY <2>3, <5>1, <5>3 DEF InFile, files
        <5>4. QED
          BY <5>2, <5>3
      <4>2. CASE i \notin dirs
        <5>1. ratings'[i] = Null /\ rated'[i] = Null
          BY <2>3, <4>2 DEF MemeInv, RatingsInv, RatedIsThere, files
        <5>2. QED
          BY <5>1 DEF InFile
      <4>3. QED
        BY <4>1, <4>2
    <3>6. RatingsAreSavedOrOwned'
      BY <3>5 DEF RatingsAreSavedOrOwned, InFile
    <3>7. QED
      BY <3>1, <3>2, <3>3, <3>4, <3>6 DEF RatingsInv
  <2>19. QED
    BY <2>13, <2>14, <2>15, <2>16, <2>17, <2>18 DEF MemeInv
<1>4. QED
  BY <1>2, <1>3

(* A body that does not parse ends the process. *)
LEMMA KeepParseError ==
  ASSUME MemeInv, NEW t \in Thread, parse_error(t)
  PROVE  MemeInv'
BY KeepTerminate DEF parse_error, Exception

LEMMA KeepInterrupt ==
  ASSUME MemeInv, interrupt_handler
  PROVE  MemeInv'
BY KeepTerminate DEF interrupt_handler

-----------------------------------------------------------------------------
(* The process starts with empty tables on an empty disk. *)
LEMMA InitInv ==
  ASSUME Init
  PROVE  MemeInv
<1>1. /\ \A t \in Thread : pc[t] = "idle" /\ res[t] = Null /\ ~owed[t]
      /\ \A i \in Id : /\ view_counts[i] = Null /\ ratings[i] = Null /\ content[i] = Null
                       /\ views[i] = Null /\ rated[i] = Null /\ posted[i] = Null
      /\ ~loaded
  BY DEF Init
<1>2. TypeOK
  <2>1. /\ loaded \in BOOLEAN /\ id_count \in Id \cup {0}
        /\ view_counts \in [Id -> Int \cup {Null}] /\ ratings \in [Id -> RatingEntry \cup {Null}]
        /\ views_mutex \in Thread \cup {Null} /\ ratings_mutex \in Thread \cup {Null}
    BY DEF Init
  <2>2. /\ dirs \subseteq Id /\ comment_dirs \subseteq dirs /\ blank \subseteq comment_dirs
        /\ content \in [Id -> Body \cup {Null, Torn, Empty}]
        /\ views \in [Id -> Int \cup {Null, Torn, Empty}]
        /\ rated \in [Id -> RatingEntry \cup {Null, Torn, Empty}]
        /\ comments \in [Id -> Nat]
    BY DEF Init
  <2>3. /\ pc \in [Thread -> PC] /\ req \in [Thread -> Requests]
        /\ id \in [Thread -> Id \cup {Null}] /\ res \in [Thread -> Response \cup {Null}]
        /\ mine \in [Thread -> Int \cup {Null}]
    BY NoRequestIsOne DEF Init, PC
  <2>4. /\ posted \in [Id -> Body \cup {Null}] /\ offered \in [Id -> Body \cup {Null}]
        /\ stale \subseteq MetaFile /\ owed \in [Thread -> BOOLEAN]
    BY DEF Init
  <2>5. QED
    BY <2>1, <2>2, <2>3, <2>4 DEF TypeOK
<1>3. ThreadsInv
  BY <1>1 DEF ThreadsInv, HandledIsLoaded, Established, Posting, Viewing, Rated
<1>4. PostsInv
  BY <1>1, Special DEF PostsInv, OnePostPerDirectory, ContentIsThere, ContentIsOffered,
                       PostedIsKept, Posting
<1>5. AnswersInv
  BY <1>1 DEF AnswersInv, OwedIsPosted, ShownIsThere, ServedIsPosted, PostedIsFound,
              OwnViewIsCounted, Shown
<1>6. ViewsInv
  BY <1>1, Special DEF ViewsInv, ViewsAreOwned, ViewIsCounted, TornViewsAreOwned,
                       ViewsAreSavedOrOwned, ViewedIsThere, Viewing
<1>7. RatingsInv
  <2>1. \A i \in Id : rated[i] \notin RatingEntry
    BY <1>1, MemeAssumption
  <2>2. QED
    BY <1>1, <2>1, Special DEF RatingsInv, RatingsAreOwned, TornRatingsAreOwned,
         RatingsAreSavedOrOwned, RatedIsThere, RatedIsGood, MeanIsFloat, MeanIsInRange, Rated
<1>8. QED
  BY <1>2, <1>3, <1>4, <1>5, <1>6, <1>7 DEF MemeInv

LEMMA ServeInv ==
  ASSUME MemeInv, NEW t \in Thread, Serve(t)
  PROVE  MemeInv'
<1>1. CASE MemeModule(t) \/ create_handler(t) \/ parse_error(t)
  BY <1>1, KeepMemeModule, KeepCreateHandler, KeepParseError
<1>2. CASE generate_id(t) \/ create_directory(t) \/ write_content(t) \/ meme_created(t)
  BY <1>2, KeepGenerateId, KeepCreateDirectory, KeepWriteContent, KeepMemeCreated
<1>3. CASE random_id(t) \/ get(t) \/ get_content(t)
  BY <1>3, KeepRandomId, KeepGet, KeepGetContent
<1>4. CASE increment_view_count(t) \/ write_views(t) \/ close_views(t)
  BY <1>4, KeepIncrementViewCount, KeepWriteViews, KeepCloseViews
<1>5. CASE bad_comment(t) \/ add_rating(t) \/ write_ratings(t) \/ close_ratings(t)
  BY <1>5, KeepBadComment, KeepAddRating, KeepWriteRatings, KeepCloseRatings
<1>6. CASE add_comment(t) \/ write_comment(t) \/ comment_added(t)
  BY <1>6, KeepAddComment, KeepWriteComment, KeepCommentAdded
<1>7. CASE list_memes(t) \/ other_request(t) \/ get_info(t)
  BY <1>7, KeepListMemes, KeepOtherRequest, KeepGetInfo
<1>8. QED
  BY <1>1, <1>2, <1>3, <1>4, <1>5, <1>6, <1>7 DEF Serve

LEMMA StutteringInv ==
  ASSUME MemeInv, UNCHANGED vars
  PROVE  MemeInv'
<1>1. /\ UNCHANGED <<loaded, id_count, view_counts, ratings, views_mutex, ratings_mutex>>
      /\ UNCHANGED <<dirs, content, views, rated, comment_dirs, comments, blank>>
      /\ UNCHANGED <<pc, req, id, res, mine, posted, offered, stale, owed>>
  BY DEF vars, memory, locks, files, thread, history
<1>2. TypeOK'
  BY <1>1 DEF MemeInv, TypeOK
<1>3. ThreadsInv'
  BY <1>1 DEF MemeInv, ThreadsInv, HandledIsLoaded, Established
<1>4. PostsInv'
  BY <1>1 DEF MemeInv, PostsInv, OnePostPerDirectory, ContentIsThere, ContentIsOffered,
              PostedIsKept
<1>5. AnswersInv'
  BY <1>1 DEF MemeInv, AnswersInv, OwedIsPosted, ShownIsThere, ServedIsPosted, PostedIsFound,
              OwnViewIsCounted, Shown
<1>6. ViewsInv'
  BY <1>1 DEF MemeInv, ViewsInv, ViewsAreOwned, ViewIsCounted, TornViewsAreOwned,
              ViewsAreSavedOrOwned, ViewedIsThere
<1>7. RatingsInv'
  BY <1>1 DEF MemeInv, RatingsInv, RatingsAreOwned, TornRatingsAreOwned,
              RatingsAreSavedOrOwned, RatedIsThere, RatedIsGood, MeanIsFloat, MeanIsInRange
<1>8. QED
  BY <1>2, <1>3, <1>4, <1>5, <1>6, <1>7 DEF MemeInv

(* The inductive invariant holds: whatever the workers do in whatever order,  *)
(* whatever access to a file is refused, with the process ending anywhere and *)
(* its constructor reading what that left.                                    *)
THEOREM Invariance == Spec => []MemeInv
<1>1. Init => MemeInv
  BY InitInv
<1>2. MemeInv /\ [Next]_vars => MemeInv'
  <2> SUFFICES ASSUME MemeInv, [Next]_vars PROVE MemeInv'
    OBVIOUS
  <2>1. CASE \E t \in Thread, r \in Requests : receive(t, r)
    BY <2>1, KeepReceive
  <2>2. CASE \E t \in Thread : Serve(t)
    BY <2>2, ServeInv
  <2>3. CASE interrupt_handler
    BY <2>3, KeepInterrupt
  <2>4. CASE UNCHANGED vars
    BY <2>4, StutteringInv
  <2>5. QED
    BY <2>1, <2>2, <2>3, <2>4 DEF Next
<1>3. QED
  BY <1>1, <1>2, PTL DEF Spec

-----------------------------------------------------------------------------
(* Every variable keeps its type. *)
THEOREM TypeCorrect == Spec => []TypeOK
<1>1. MemeInv => TypeOK
  BY DEF MemeInv
<1>2. QED
  BY <1>1, Invariance, PTL

(* A meme whose POST was answered with 201 is never overwritten. *)
THEOREM Kept == Spec => []PostedIsKept
<1>1. MemeInv => PostedIsKept
  BY DEF MemeInv, PostsInv
<1>2. QED
  BY <1>1, Invariance, PTL

(* A GET answered with 200 shows the whole body posted under its id. *)
THEOREM Served == Spec => []ServedIsPosted
<1>1. MemeInv => ServedIsPosted
  BY DEF MemeInv, AnswersInv
<1>2. QED
  BY <1>1, Invariance, PTL

(* A GET does not answer "missing" for a meme whose POST was answered. *)
THEOREM Found == Spec => []PostedIsFound
<1>1. MemeInv => PostedIsFound
  BY DEF MemeInv, AnswersInv
<1>2. QED
  BY <1>1, Invariance, PTL

(* The view count that get_view_count reads without views_mutex_, after        *)
(* increment_view_count has unlocked it, includes the reader's own view.       *)
THEOREM Counted == Spec => []OwnViewIsCounted
<1>1. MemeInv => OwnViewIsCounted
  BY DEF MemeInv, AnswersInv
<1>2. QED
  BY <1>1, Invariance, PTL

(* When nobody holds views_mutex_, a views file that was written and read     *)
(* whenever it should have been holds what the table holds.                   *)
THEOREM ViewsSaved == Spec => []ViewsAreSaved
<1>1. MemeInv => ViewsAreSaved
  <2> SUFFICES ASSUME MemeInv, loaded, views_mutex = Null, NEW i \in dirs,
                      <<"views", i>> \notin stale
               PROVE  views[i] = view_counts[i]
    BY DEF ViewsAreSaved
  <2>1. i \in Id
    BY Types
  <2>2. \A t \in Thread : pc[t] \notin Viewing
    BY Special DEF MemeInv, ViewsInv, ViewsAreOwned
  <2>3. QED
    BY <2>1, <2>2 DEF MemeInv, ViewsInv, ViewsAreSavedOrOwned
<1>2. QED
  BY <1>1, Invariance, PTL

(* Likewise for ratings_mutex_, and to_string's decimals. *)
THEOREM RatingsSaved == Spec => []RatingsAreSaved
<1>1. MemeInv => RatingsAreSaved
  <2> SUFFICES ASSUME MemeInv, loaded, ratings_mutex = Null, NEW i \in dirs,
                      <<"ratings", i>> \notin stale
               PROVE  rated[i] = InFile(ratings[i])
    BY DEF RatingsAreSaved, InFile
  <2>1. i \in Id
    BY Types
  <2>2. \A t \in Thread : pc[t] \notin Rated
    BY Special DEF MemeInv, RatingsInv, RatingsAreOwned
  <2>3. QED
    BY <2>1, <2>2 DEF MemeInv, RatingsInv, RatingsAreSavedOrOwned
<1>2. QED
  BY <1>1, Invariance, PTL

(* add_rating's mean stays between the lowest and the highest rating given,   *)
(* however its operations and the file round it, while there are no more      *)
(* ratings than that a float holds the sum of as many equal ones exactly.     *)
THEOREM Means == Spec => []MeanIsInRange
<1>1. MemeInv => MeanIsInRange
  BY DEF MemeInv, RatingsInv
<1>2. QED
  BY <1>1, Invariance, PTL

-----------------------------------------------------------------------------
(* Nobody keeps a mutex. *)

(* The owner of views_mutex_ or ratings_mutex_ is between the lock and the      *)
(* unlock: it writes a file there and waits for none of the two.                *)
OwnersAreInside ==
  /\ views_mutex # Null => views_mutex \in Thread /\ pc[views_mutex] \in Viewing
  /\ ratings_mutex # Null => ratings_mutex \in Thread /\ pc[ratings_mutex] \in Rated

(* A thread that goes on keeps a mutex that it has only if it stays inside, or   *)
(* takes it on its way in.                                                       *)
LEMMA OwnersStayInside ==
  ASSUME TypeOK, OwnersAreInside, NEW t \in Thread, NEW l, pc' = [pc EXCEPT ![t] = l],
         \/ views_mutex' = Null
         \/ views_mutex' = t /\ l \in Viewing
         \/ views_mutex' = views_mutex /\ (pc[t] \notin Viewing \/ l \in Viewing),
         \/ ratings_mutex' = Null
         \/ ratings_mutex' = t /\ l \in Rated
         \/ ratings_mutex' = ratings_mutex /\ (pc[t] \notin Rated \/ l \in Rated)
  PROVE  OwnersAreInside'
<1>1. \A u \in Thread : pc'[u] = IF u = t THEN l ELSE pc[u]
  BY DEF TypeOK
<1>2. ASSUME views_mutex' # Null PROVE views_mutex' \in Thread /\ pc'[views_mutex'] \in Viewing
  <2>1. CASE views_mutex' = t /\ l \in Viewing
    BY <1>1, <2>1
  <2>2. CASE views_mutex' = views_mutex /\ (pc[t] \notin Viewing \/ l \in Viewing)
    <3>1. views_mutex' \in Thread /\ pc[views_mutex'] \in Viewing
      BY <1>2, <2>2 DEF OwnersAreInside
    <3>2. QED
      BY <1>1, <2>2, <3>1
  <2>3. QED
    BY <1>2, <2>1, <2>2
<1>3. ASSUME ratings_mutex' # Null
      PROVE  ratings_mutex' \in Thread /\ pc'[ratings_mutex'] \in Rated
  <2>1. CASE ratings_mutex' = t /\ l \in Rated
    BY <1>1, <2>1
  <2>2. CASE ratings_mutex' = ratings_mutex /\ (pc[t] \notin Rated \/ l \in Rated)
    <3>1. ratings_mutex' \in Thread /\ pc[ratings_mutex'] \in Rated
      BY <1>3, <2>2 DEF OwnersAreInside
    <3>2. QED
      BY <1>1, <2>2, <3>1
  <2>3. QED
    BY <1>3, <2>1, <2>2
<1>4. QED
  BY <1>2, <1>3 DEF OwnersAreInside

(* A step of a thread that is outside of both goes anywhere. *)
LEMMA OutsideStep ==
  ASSUME TypeOK, OwnersAreInside, NEW t \in Thread, NEW l, pc' = [pc EXCEPT ![t] = l],
         pc[t] \notin Viewing, pc[t] \notin Rated,
         views_mutex' = views_mutex, ratings_mutex' = ratings_mutex
  PROVE  OwnersAreInside'
  BY OwnersStayInside

(* The end of the process leaves no mutex. *)
LEMMA EndFreesMutexes ==
  ASSUME NEW cause, Terminate(cause)
  PROVE  OwnersAreInside'
  BY DEF Terminate, OwnersAreInside

(* The steps outside, which may also end the process or change no position. *)
LEMMA KeepsOwnersOutside ==
  ASSUME TypeOK, OwnersAreInside, NEW t \in Thread,
         \/ MemeModule(t) \/ create_handler(t) \/ parse_error(t)
         \/ generate_id(t) \/ create_directory(t) \/ write_content(t) \/ meme_created(t)
         \/ random_id(t) \/ get(t) \/ get_content(t) \/ bad_comment(t)
         \/ add_comment(t) \/ write_comment(t) \/ comment_added(t)
         \/ list_memes(t) \/ other_request(t) \/ get_info(t)
  PROVE  OwnersAreInside'
<1> DEFINE
  Outside == pc[t] \notin Viewing /\ pc[t] \notin Rated
  Step(l) == pc' = [pc EXCEPT ![t] = l] /\ views_mutex' = views_mutex /\ ratings_mutex' = ratings_mutex
<1>1. ASSUME NEW l, Outside, Step(l) PROVE OwnersAreInside'
  BY <1>1, OutsideStep
<1>2. ASSUME NEW l, Goto(t, l), UNCHANGED locks PROVE Step(l)
  BY <1>2 DEF Goto, locks
<1>3. ASSUME NEW r, Answer(t, r) PROVE Step("idle")
  BY <1>3 DEF Answer, Respond, Goto, locks
<1>4. ASSUME NEW code, Failed(t, code) PROVE Step("idle")
  BY <1>3, <1>4 DEF Failed
<1>5. Exception => OwnersAreInside'
  BY EndFreesMutexes DEF Exception
<1>6. Outside
  <2>1. pc[t] \in {"create", "handle", "mkdir", "content", "content opened", "read", "comment",
                  "comment file", "comment opened"}
    BY DEF MemeModule, create_handler, parse_error, generate_id, create_directory, write_content,
           meme_created, random_id, get, get_content, bad_comment, add_comment, write_comment,
           comment_added, list_memes, other_request, get_info, At
  <2>2. QED
    BY <2>1 DEF Viewing, Rated
<1>7. CASE MemeModule(t)
  <2>1. CASE Exception
    BY <1>5, <2>1
  <2>2. ASSUME NEW listed, NEW counted, NEW scored, load(t, listed, counted, scored)
        PROVE  OwnersAreInside'
    BY <1>1, <1>2, <1>6, <2>2 DEF load
  <2>3. PICK listed \in SUBSET dirs : \E counted \in SUBSET listed, scored \in SUBSET listed :
          IF \E i \in scored : rated[i] = Empty THEN Exception
          ELSE load(t, listed, counted, scored)
    BY <1>7 DEF MemeModule
  <2>4. QED
    BY <2>1, <2>2, <2>3
<1>8. CASE parse_error(t)
  BY <1>5, <1>8 DEF parse_error
<1>9. CASE create_handler(t) \/ generate_id(t) \/ get(t)
  <2>1. \/ \E l : Goto(t, l) /\ UNCHANGED locks
        \/ Failed(t, "missing")
    BY <1>9, Zenon DEF create_handler, generate_id, get
  <2>2. QED
    BY <1>1, <1>2, <1>4, <1>6, <2>1
<1>10. CASE create_directory(t) \/ write_content(t)
  <2>1. \/ \E l : Goto(t, l) /\ UNCHANGED locks
        \/ Failed(t, "refused")
    BY <1>10, Zenon DEF create_directory, write_content, locks
  <2>2. QED
    BY <1>1, <1>2, <1>4, <1>6, <2>1
<1>11. CASE meme_created(t) \/ comment_added(t)
  <2>1. Step("idle")
    BY <1>11 DEF meme_created, comment_added, Respond, Goto, locks
  <2>2. QED
    BY <1>1, <1>6, <2>1
<1>12. CASE random_id(t)
  <2>1. CASE Failed(t, "bad request")
    BY <1>1, <1>4, <1>6, <2>1
  <2>2. CASE UNCHANGED <<pc, locks>>
    BY <2>2 DEF locks, OwnersAreInside
  <2>3. QED
    BY <1>12, <2>1, <2>2 DEF random_id
<1>13. CASE get_content(t) \/ get_info(t) \/ list_memes(t)
  <2>1. \/ \E r : Answer(t, r)
        \/ \E code : Failed(t, code)
        \/ Exception
    BY <1>13, Zenon DEF get_content, get_info, list_memes
  <2>2. QED
    BY <1>1, <1>3, <1>4, <1>5, <1>6, <2>1
<1>14. CASE bad_comment(t) \/ other_request(t)
  BY <1>1, <1>4, <1>6, <1>14 DEF bad_comment, other_request
<1>15. CASE add_comment(t) \/ write_comment(t)
  <2>1. \/ \E l : Goto(t, l) /\ UNCHANGED locks
        \/ Failed(t, "dropped")
    BY <1>15, Zenon DEF add_comment, write_comment, Dropped
  <2>2. QED
    BY <1>1, <1>2, <1>4, <1>6, <2>1
<1>16. QED
  BY <1>7, <1>8, <1>9, <1>10, <1>11, <1>12, <1>13, <1>14, <1>15

(* increment_view_count takes views_mutex_ and gives it back on both ways out. *)
LEMMA KeepsViewsOwner ==
  ASSUME TypeOK, OwnersAreInside, NEW t \in Thread,
         increment_view_count(t) \/ write_views(t) \/ close_views(t)
  PROVE  OwnersAreInside'
<1>1. ratings_mutex' = ratings_mutex /\ pc[t] \notin Rated
  BY DEF increment_view_count, write_views, close_views, Rated
<1>2. CASE increment_view_count(t)
  <2>1. pc' = [pc EXCEPT ![t] = "views"] /\ views_mutex' = t
    BY <1>2 DEF increment_view_count, Goto
  <2>2. "views" \in Viewing
    BY DEF Viewing
  <2>3. QED
    BY <1>1, <2>1, <2>2, OwnersStayInside
<1>3. CASE write_views(t)
  <2>1. CASE Goto(t, "views opened") /\ views_mutex' = views_mutex
    <3>1. "views opened" \in Viewing
      BY DEF Viewing
    <3>2. QED
      BY <1>1, <2>1, <3>1, OwnersStayInside DEF Goto
  <2>2. CASE Goto(t, "read") /\ views_mutex' = Null
    BY <1>1, <2>2, OwnersStayInside DEF Goto
  <2>3. QED
    BY <1>3, <2>1, <2>2 DEF write_views
<1>4. CASE close_views(t)
  <2>1. pc' = [pc EXCEPT ![t] = "read"] /\ views_mutex' = Null
    BY <1>4 DEF close_views, Goto
  <2>2. QED
    BY <1>1, <2>1, OwnersStayInside
<1>5. QED
  BY <1>2, <1>3, <1>4

(* Likewise add_rating and ratings_mutex_. *)
LEMMA KeepsRatingsOwner ==
  ASSUME TypeOK, OwnersAreInside, NEW t \in Thread,
         add_rating(t) \/ write_ratings(t) \/ close_ratings(t)
  PROVE  OwnersAreInside'
<1>1. views_mutex' = views_mutex /\ pc[t] \notin Viewing
  BY DEF add_rating, write_ratings, close_ratings, At, Viewing
<1>2. CASE add_rating(t)
  <2>1. pc' = [pc EXCEPT ![t] = "ratings"] /\ ratings_mutex' = t
    BY <1>2 DEF add_rating, Goto
  <2>2. "ratings" \in Rated
    BY DEF Rated
  <2>3. QED
    BY <1>1, <2>1, <2>2, OwnersStayInside
<1>3. CASE write_ratings(t)
  <2>1. CASE Goto(t, "ratings opened") /\ ratings_mutex' = ratings_mutex
    <3>1. "ratings opened" \in Rated
      BY DEF Rated
    <3>2. QED
      BY <1>1, <2>1, <3>1, OwnersStayInside DEF Goto
  <2>2. CASE Goto(t, "comment") /\ ratings_mutex' = Null
    BY <1>1, <2>2, OwnersStayInside DEF Goto
  <2>3. QED
    BY <1>3, <2>1, <2>2 DEF write_ratings
<1>4. CASE close_ratings(t)
  <2>1. pc' = [pc EXCEPT ![t] = "comment"] /\ ratings_mutex' = Null
    BY <1>4 DEF close_ratings, Goto
  <2>2. QED
    BY <1>1, <2>1, OwnersStayInside
<1>5. QED
  BY <1>2, <1>3, <1>4

(* No path of increment_view_count or add_rating and no end of the process    *)
(* keeps views_mutex_ or ratings_mutex_: whoever has one of them is writing   *)
(* its file, where it waits for neither (meme_module.cc:279 and 318).         *)
THEOREM MutexesAreGivenBack == Spec => []OwnersAreInside
<1>1. Init => OwnersAreInside
  BY DEF Init, OwnersAreInside
<1>2. TypeOK /\ OwnersAreInside /\ [Next]_vars => OwnersAreInside'
  <2> SUFFICES ASSUME TypeOK, OwnersAreInside, [Next]_vars PROVE OwnersAreInside'
    OBVIOUS
  <2>1. CASE \E t \in Thread, r \in Requests : receive(t, r)
    <3>1. PICK t \in Thread, r \in Requests : receive(t, r)
      BY <2>1
    <3>2. /\ pc[t] \notin Viewing /\ pc[t] \notin Rated
          /\ pc' = [pc EXCEPT ![t] = "create"]
          /\ views_mutex' = views_mutex /\ ratings_mutex' = ratings_mutex
      BY <3>1 DEF receive, Goto, locks, Viewing, Rated
    <3>3. QED
      BY <3>2, OutsideStep
  <2>2. CASE \E t \in Thread : Serve(t)
    BY <2>2, KeepsOwnersOutside, KeepsViewsOwner, KeepsRatingsOwner DEF Serve
  <2>3. CASE interrupt_handler
    BY <2>3, EndFreesMutexes DEF interrupt_handler
  <2>4. CASE UNCHANGED vars
    BY <2>4 DEF vars, locks, thread, OwnersAreInside
  <2>5. QED
    BY <2>1, <2>2, <2>3, <2>4 DEF Next
<1>3. QED
  BY <1>1, <1>2, TypeCorrect, PTL DEF Spec
=============================================================================
