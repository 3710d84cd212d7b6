----------------------- MODULE CircularBuffer_proofs -----------------------
(***************************************************************************)
(* Facts about the operators of CircularBuffer: what its recursive         *)
(* functions compute, what a push and a pop do to the bytes stored in a    *)
(* ring, and what they do to the messages these bytes are.                 *)
(***************************************************************************)
EXTENDS CircularBuffer, SequenceTheorems, FiniteSetTheorems, WellFoundedInduction, TLAPS

-----------------------------------------------------------------------------
(* Natural numbers.                                                        *)

(* A nonempty set of naturals has the minimum Min chooses. *)
LEMMA MinOfNaturals ==
  ASSUME NEW S \in SUBSET Nat, S # {}
  PROVE  Min(S) \in S /\ \A y \in S : Min(S) <= y
<1> DEFINE I == {1..n : n \in S}
           R == StrictSubsetOrdering(Nat)
<1>1. I \subseteq FiniteSubsetsOf(Nat) /\ I # {}
  <2>1. \A n \in S : IsFiniteSet(1..n) /\ 1..n \subseteq Nat
    BY FS_Interval
  <2> QED BY <2>1 DEF FiniteSubsetsOf
<1>2. PICK X \in I : \A Y \in I : ~(<<Y, X>> \in R)
  <2> HIDE DEF I, R
  <2>1. IsWellFoundedOn(R, FiniteSubsetsOf(Nat))
    BY FS_StrictSubsetOrderingWellFounded DEF R
  <2> QED BY <1>1, <2>1, WFMin
<1>3. PICK x \in S : X = 1..x
  OBVIOUS
<1>4. ASSUME NEW y \in S, ~(x <= y) PROVE FALSE
  <2>1. 1..y \subseteq 1..x /\ 1..y # 1..x
    <3>1. x \in 1..x /\ x \notin 1..y
      BY <1>4
    <3> QED BY <1>4, <3>1
  <2>2. 1..y \in SUBSET Nat /\ 1..x \in SUBSET Nat
    OBVIOUS
  <2>3. <<1..y, 1..x>> \in R
    BY <2>1, <2>2 DEF StrictSubsetOrdering
  <2> QED BY <1>2, <1>3, <2>3
<1> QED BY <1>3, <1>4 DEF Min

LEMMA ProductIsNatural ==
  ASSUME NEW a \in Nat, NEW b \in Nat
  PROVE  a * b \in Nat
OBVIOUS

(* Division with remainder, and the remainder is unique. *)
LEMMA DivMod ==
  ASSUME NEW m \in Nat \ {0}, NEW u \in Nat
  PROVE  /\ u % m \in 0..(m - 1)
         /\ u \div m \in Nat
         /\ u = m * (u \div m) + (u % m)
OBVIOUS

LEMMA ModUnique ==
  ASSUME NEW m \in Nat \ {0}, NEW q \in Nat, NEW r \in 0..(m - 1)
  PROVE  (m * q + r) % m = r
OBVIOUS

LEMMA DivUnique ==
  ASSUME NEW m \in Nat \ {0}, NEW q \in Nat, NEW r \in 0..(m - 1)
  PROVE  (m * q + r) \div m = q
OBVIOUS

(* To divide by a product is to divide twice. *)
LEMMA DivByProduct ==
  ASSUME NEW u \in Nat, NEW w \in Nat \ {0}, NEW b \in Nat \ {0}
  PROVE  u \div (b * w) = (u \div w) \div b
<1> DEFINE q == u \div w
           r == u % w
           p == q \div b
           t == q % b
<1>1. q \in Nat /\ r \in 0..(w - 1) /\ u = w * q + r
  BY DivMod
<1>2. p \in Nat /\ t \in 0..(b - 1) /\ q = b * p + t
  BY <1>1, DivMod
<1> HIDE DEF p, t, q, r
<1>3. b * w \in Nat \ {0}
  OBVIOUS
<1>4. w * t + r \in 0..(b * w - 1)
  <2>1. PICK d \in Nat : b = t + 1 + d
    <3>1. b - t - 1 \in Nat /\ b = t + 1 + (b - t - 1)
      BY <1>2
    <3> QED BY <3>1
  <2>2. t \in Nat /\ r \in Nat /\ r < w
    BY <1>1, <1>2
  <2>3. w * d \in Nat /\ w * t \in Nat
    BY <2>1, <2>2, ProductIsNatural
  <2>4. b * w = w * t + w + w * d
    BY <2>1, <2>2
  <2> QED BY <2>2, <2>3, <2>4
<1>5. u = (b * w) * p + (w * t + r)
  BY <1>1, <1>2
<1>6. u \div (b * w) = p
  <2> DEFINE m == b * w
             x == w * t + r
  <2>1. m \in Nat \ {0} /\ x \in 0..(m - 1) /\ u = m * p + x
    BY <1>3, <1>4, <1>5
  <2> HIDE DEF m, x
  <2>2. u \div m = p
    BY <1>2, <2>1, DivUnique
  <2> QED BY <2>2 DEF m
<1> QED BY <1>6 DEF p, q

(* Places on a circle of m: how far ahead one is of another, and where one *)
(* comes to in n steps.                                                    *)
LEMMA AheadModulo ==
  ASSUME NEW m \in Nat \ {0}, NEW a \in 0..(m - 1), NEW b \in 0..(m - 1)
  PROVE  /\ (b - a + m) % m = IF a <= b THEN b - a ELSE b - a + m
         /\ (b - a + m) % m \in 0..(m - 1)
<1>1. CASE a <= b
  <2>1. (m * 1 + (b - a)) % m = b - a
    <3>1. b - a \in 0..(m - 1)
      BY <1>1
    <3> QED BY <3>1, ModUnique
  <2>2. m * 1 + (b - a) = b - a + m
    OBVIOUS
  <2> QED BY <1>1, <2>1, <2>2
<1>2. CASE ~(a <= b)
  <2>1. (m * 0 + (b - a + m)) % m = b - a + m
    <3>1. b - a + m \in 0..(m - 1)
      BY <1>2
    <3> QED BY <3>1, ModUnique
  <2>2. m * 0 + (b - a + m) = b - a + m
    OBVIOUS
  <2> QED BY <1>2, <2>1, <2>2
<1> QED BY <1>1, <1>2

LEMMA PlusModulo ==
  ASSUME NEW m \in Nat \ {0}, NEW a \in 0..(m - 1), NEW n \in 0..m
  PROVE  /\ (a + n) % m = IF a + n < m THEN a + n ELSE a + n - m
         /\ (a + n) % m \in 0..(m - 1)
<1>1. CASE a + n < m
  <2>1. (m * 0 + (a + n)) % m = a + n
    <3>1. a + n \in 0..(m - 1)
      BY <1>1
    <3> QED BY <3>1, ModUnique
  <2>2. m * 0 + (a + n) = a + n
    OBVIOUS
  <2> QED BY <1>1, <2>1, <2>2
<1>2. CASE ~(a + n < m)
  <2>1. (m * 1 + (a + n - m)) % m = a + n - m
    <3>1. a + n - m \in 0..(m - 1)
      BY <1>2
    <3> QED BY <3>1, ModUnique
  <2>2. m * 1 + (a + n - m) = a + n
    OBVIOUS
  <2> QED BY <1>2, <2>1, <2>2
<1> QED BY <1>1, <1>2

(* Where n steps from a place lead, how far it is, and the two together:   *)
(* h is the way u ahead of t.                                              *)
On(a, n, m) == IF a + n < m THEN a + n ELSE a + n - m

Way(a, b, m) == IF a <= b THEN b - a ELSE b - a + m

LEMMA WayBehind ==
  ASSUME NEW m \in Nat \ {0}, NEW t \in 0..(m - 1), NEW h \in 0..(m - 1),
         NEW u \in 0..(m - 1), u = Way(t, h, m), NEW k \in 0..(u - 1)
  PROVE  Way(h, On(t, k, m), m) = k - u + m
<1>1. CASE t + k < m
  BY <1>1 DEF Way, On
<1>2. CASE ~(t + k < m)
  BY <1>2 DEF Way, On
<1> QED BY <1>1, <1>2

LEMMA WayBefore ==
  ASSUME NEW m \in Nat \ {0}, NEW t \in 0..(m - 1), NEW h \in 0..(m - 1),
         NEW u \in 0..(m - 1), u = Way(t, h, m), NEW k \in u..(m - 1)
  PROVE  Way(h, On(t, k, m), m) = k - u
<1>1. CASE t + k < m
  BY <1>1 DEF Way, On
<1>2. CASE ~(t + k < m)
  BY <1>2 DEF Way, On
<1> QED BY <1>1, <1>2

LEMMA WayOn ==
  ASSUME NEW m \in Nat \ {0}, NEW t \in 0..(m - 1), NEW h \in 0..(m - 1),
         NEW n \in 0..(m - 1 - Way(t, h, m))
  PROVE  Way(t, On(h, n, m), m) = Way(t, h, m) + n
<1>1. CASE t <= h
  BY <1>1 DEF Way, On
<1>2. CASE ~(t <= h)
  BY <1>2 DEF Way, On
<1> QED BY <1>1, <1>2

LEMMA WayFrom ==
  ASSUME NEW m \in Nat \ {0}, NEW t \in 0..(m - 1), NEW h \in 0..(m - 1),
         NEW n \in 0..Way(t, h, m)
  PROVE  Way(On(t, n, m), h, m) = Way(t, h, m) - n
<1>1. CASE t <= h
  BY <1>1 DEF Way, On
<1>2. CASE ~(t <= h)
  BY <1>2 DEF Way, On
<1> QED BY <1>1, <1>2

LEMMA OnOn ==
  ASSUME NEW m \in Nat \ {0}, NEW t \in 0..(m - 1), NEW j \in Nat, NEW n \in Nat, j + n < m
  PROVE  On(On(t, n, m), j, m) = On(t, n + j, m)
<1>1. CASE t + n < m
  BY <1>1 DEF On
<1>2. CASE ~(t + n < m)
  BY <1>2 DEF On
<1> QED BY <1>1, <1>2

LEMMA WayThere ==
  ASSUME NEW m \in Nat \ {0}, NEW t \in 0..(m - 1), NEW n \in 0..(m - 1)
  PROVE  Way(t, On(t, n, m), m) = n
<1>1. CASE t + n < m
  BY <1>1 DEF Way, On
<1>2. CASE ~(t + n < m)
  BY <1>2 DEF Way, On
<1> QED BY <1>1, <1>2

LEMMA OnThere ==
  ASSUME NEW m \in Nat \ {0}, NEW a \in 0..(m - 1), NEW b \in 0..(m - 1)
  PROVE  On(a, Way(a, b, m), m) = b
<1>1. CASE a <= b
  BY <1>1 DEF Way, On
<1>2. CASE ~(a <= b)
  BY <1>2 DEF Way, On
<1> QED BY <1>1, <1>2

(* S holds what all that measures less than it says is in S. *)
Inductive(D, measure, S) ==
  \A x \in D : (\A y \in D : measure[y] < measure[x] => y \in S) => x \in S

(* Induction over data that has a measure: what is inductive is all. *)
LEMMA InductionByMeasure ==
  ASSUME NEW D, NEW measure \in [D -> Nat], NEW S, Inductive(D, measure, S)
  PROVE  D \subseteq S
<1> DEFINE Bad == {n \in Nat : \E x \in D : measure[x] = n /\ x \notin S}
<1>1. CASE Bad = {}
  BY <1>1
<1>2. CASE Bad # {}
  <2>1. PICK n \in Bad : \A k \in Bad : n <= k
    <3>1. Bad \in SUBSET Nat
      OBVIOUS
    <3> HIDE DEF Bad
    <3> QED BY <1>2, <3>1, MinOfNaturals
  <2>2. PICK x \in D : measure[x] = n /\ x \notin S
    BY <2>1
  <2>3. ASSUME NEW y \in D, measure[y] < measure[x] PROVE y \in S
    <3>1. measure[y] \in Nat /\ n \in Nat /\ ~(n <= measure[y])
      BY <2>1, <2>2, <2>3
    <3> QED BY <2>1, <3>1
  <2> HIDE DEF Bad
  <2> QED BY <2>2, <2>3 DEF Inductive
<1> QED BY <1>1, <1>2

(* Step[<<x, f>>] looks at f only below the measure of x. *)
LooksBelow(D, V, measure, Step) ==
  \A x \in D : \A f, g \in [D -> V] :
     (\A y \in D : measure[y] < measure[x] => f[y] = g[y])
       => Step[<<x, f>>] = Step[<<x, g>>]

(* There is a function that is its own step. *)
HasRecursion(D, V, Step) ==
  \E F \in [D -> V] : \A x \in D : F[x] = Step[<<x, F>>]

(* A recursive definition defines: where a step looks only below, there is *)
(* a function that is its own step.                                        *)
LEMMA RecursionByMeasure ==
  ASSUME NEW D, NEW V, V # {},
         NEW measure \in [D -> Nat],
         NEW Step \in [D \X [D -> V] -> V],
         LooksBelow(D, V, measure, Step)
  PROVE  HasRecursion(D, V, Step)
<1>0. \A x \in D : \A f, g \in [D -> V] :
        (\A y \in D : measure[y] < measure[x] => f[y] = g[y])
          => Step[<<x, f>>] = Step[<<x, g>>]
  BY DEF LooksBelow
<1> DEFINE Upto(n, f) == /\ f \in [D -> V]
                         /\ \A x \in D : measure[x] < n => f[x] = Step[<<x, f>>]
           Bad == {n \in Nat : ~ \E f : Upto(n, f)}
(* Any two functions that are right up to n agree up to n. *)
<1>1. ASSUME NEW n \in Nat, NEW f, NEW g, Upto(n, f), Upto(n, g),
             NEW z \in D, measure[z] < n
      PROVE  f[z] = g[z]
  <2> DEFINE Differ == {k \in Nat : \E x \in D : measure[x] = k /\ k < n /\ f[x] # g[x]}
  <2>1. CASE Differ = {}
    BY <1>1, <2>1
  <2>2. CASE Differ # {}
    <3>1. PICK k \in Differ : \A j \in Differ : k <= j
      <4>1. Differ \in SUBSET Nat
        OBVIOUS
      <4> HIDE DEF Differ
      <4> QED BY <2>2, <4>1, MinOfNaturals
    <3>2. PICK x \in D : measure[x] = k /\ k < n /\ f[x] # g[x]
      BY <3>1
    <3>3. \A y \in D : measure[y] < measure[x] => f[y] = g[y]
      <4> SUFFICES ASSUME NEW y \in D, measure[y] < measure[x], f[y] # g[y]
                   PROVE  FALSE
        OBVIOUS
      <4>1. measure[y] \in Nat /\ k \in Nat
        BY <3>1
      <4>2. measure[y] < k /\ measure[y] < n
        BY <3>2, <4>1
      <4>3. measure[y] \in Differ
        BY <4>1, <4>2
      <4> QED BY <3>1, <4>1, <4>2, <4>3
    <3>4. f \in [D -> V] /\ g \in [D -> V]
      BY <1>1
    <3>5. Step[<<x, f>>] = Step[<<x, g>>]
      BY <1>0, <3>3, <3>4
    <3>6. f[x] = Step[<<x, f>>] /\ g[x] = Step[<<x, g>>]
      BY <1>1, <3>2
    <3> QED BY <3>2, <3>5, <3>6
  <2> QED BY <2>1, <2>2
(* There is one up to every n. *)
<1>2. Bad = {}
  <2> SUFFICES ASSUME Bad # {} PROVE FALSE
    OBVIOUS
  <2>1. PICK n \in Bad : \A k \in Bad : n <= k
    <3>1. Bad \in SUBSET Nat
      OBVIOUS
    <3> HIDE DEF Bad
    <3> QED BY <3>1, MinOfNaturals
  <2>2. CASE n = 0
    <3>1. PICK v \in V : TRUE
      OBVIOUS
    <3> DEFINE f == [x \in D |-> v]
    <3>2. f \in [D -> V]
      OBVIOUS
    <3>3. Upto(0, f)
      <4> HIDE DEF f
      <4> QED BY <3>2
    <3> HIDE DEF Upto
    <3> QED BY <2>1, <2>2, <3>3
  <2>3. CASE n # 0
    <3>1. n - 1 \in Nat /\ n - 1 \notin Bad /\ n \in Nat
      <4>1. n \in Nat
        BY <2>1
      <4> HIDE DEF Bad
      <4>2. n - 1 \in Nat /\ ~(n <= n - 1)
        BY <2>3, <4>1
      <4> QED BY <2>1, <4>1, <4>2
    <3>2. PICK f : Upto(n - 1, f)
      BY <3>1
    <3> DEFINE g == [x \in D |-> IF measure[x] = n - 1 THEN Step[<<x, f>>] ELSE f[x]]
    <3>3. \A x \in D : Step[<<x, f>>] \in V
      BY <3>2
    <3>4. g \in [D -> V]
      BY <3>2, <3>3
    <3>5. \A x \in D : measure[x] < n => \A y \in D : measure[y] < measure[x] => g[y] = f[y]
      BY <3>1
    <3>6. ASSUME NEW x \in D, measure[x] < n PROVE g[x] = Step[<<x, g>>]
      <4>1. Step[<<x, g>>] = Step[<<x, f>>]
        <5>1. \A y \in D : measure[y] < measure[x] => g[y] = f[y]
          BY <3>5, <3>6
        <5>2. f \in [D -> V]
          BY <3>2
        <5> HIDE DEF g
        <5> QED BY <1>0, <3>4, <5>1, <5>2
      <4>2. g[x] = Step[<<x, f>>]
        <5>1. CASE measure[x] = n - 1
          BY <5>1
        <5>2. CASE measure[x] # n - 1
          <6>1. measure[x] \in Nat
            OBVIOUS
          <6>2. measure[x] < n - 1
            BY <3>1, <3>6, <5>2, <6>1
          <6> QED BY <3>2, <5>2, <6>2
        <5> QED BY <5>1, <5>2
      <4> QED BY <4>1, <4>2
    <3>7. Upto(n, g)
      <4> HIDE DEF g
      <4> QED BY <3>4, <3>6
    <3> HIDE DEF Upto
    <3> QED BY <2>1, <3>7
  <2> QED BY <2>2, <2>3
<1> DEFINE at(n) == CHOOSE f : Upto(n, f)
<1>3. \A n \in Nat : Upto(n, at(n))
  <2>1. \A n \in Nat : \E f : Upto(n, f)
    BY <1>2
  <2> HIDE DEF Upto
  <2> QED BY <2>1
<1> DEFINE F == [x \in D |-> at(measure[x] + 1)[x]]
<1> HIDE DEF at
<1>4. \A x \in D : measure[x] \in Nat /\ measure[x] + 1 \in Nat
  OBVIOUS
<1>5. F \in [D -> V]
  <2> SUFFICES ASSUME NEW x \in D PROVE at(measure[x] + 1)[x] \in V
    OBVIOUS
  <2>1. at(measure[x] + 1) \in [D -> V]
    BY <1>3, <1>4
  <2> QED BY <2>1
<1>6. ASSUME NEW x \in D PROVE F[x] = Step[<<x, F>>]
  <2> DEFINE f == at(measure[x] + 1)
  <2>1. Upto(measure[x] + 1, f)
    BY <1>3, <1>4
  <2>2. f[x] = Step[<<x, f>>] /\ f \in [D -> V]
    <3>1. measure[x] < measure[x] + 1
      BY <1>4
    <3> HIDE DEF f
    <3> QED BY <2>1, <3>1
  <2>3. ASSUME NEW y \in D, measure[y] < measure[x] PROVE f[y] = F[y]
    <3>1. Upto(measure[y] + 1, at(measure[y] + 1))
      BY <1>3, <1>4
    <3>2. Upto(measure[y] + 1, f)
      <4>1. \A z \in D : measure[z] < measure[y] + 1 => measure[z] < measure[x] + 1
        BY <1>4, <2>3
      <4> QED BY <2>1, <4>1
    <3>3. measure[y] < measure[y] + 1
      BY <1>4
    <3> HIDE DEF Upto, f
    <3> QED BY <1>1, <1>4, <3>1, <3>2, <3>3
  <2>4. Step[<<x, f>>] = Step[<<x, F>>]
    <3> HIDE DEF f, F
    <3> QED BY <1>0, <1>5, <2>2, <2>3
  <2> QED BY <2>2, <2>4
<1> HIDE DEF F
<1> QED BY <1>5, <1>6 DEF HasRecursion

(* ------------------------- recursive functions ------------------------- *)

(* Weight is a function, and the powers of ByteSize. *)
LEMMA WeightFacts ==
  /\ Weight \in [Nat -> Nat \ {0}]
  /\ Weight[0] = 1
  /\ \A k \in Nat : Weight[k + 1] = ByteSize * Weight[k]
<1> DEFINE V == Nat \ {0}
           measure == [k \in Nat |-> k]
           Step == [z \in Nat \X [Nat -> V] |->
                      IF z[1] = 0 THEN 1 ELSE ByteSize * z[2][z[1] - 1]]
<1>0. ByteSize \in Nat \ {0}
  BY ByteAssumption
<1>1. ASSUME NEW k \in Nat, NEW f \in [Nat -> V]
      PROVE  Step[<<k, f>>] = IF k = 0 THEN 1 ELSE ByteSize * f[k - 1]
  OBVIOUS
<1>2. Step \in [Nat \X [Nat -> V] -> V]
  <2>1. ASSUME NEW k \in Nat, NEW f \in [Nat -> V]
        PROVE  (IF k = 0 THEN 1 ELSE ByteSize * f[k - 1]) \in V
    <3>1. CASE k = 0
      BY <3>1
    <3>2. CASE k # 0
      <4>1. f[k - 1] \in V
        BY <3>2
      <4> QED BY <1>0, <3>2, <4>1
    <3> QED BY <3>1, <3>2
  <2> HIDE DEF V
  <2> QED BY <2>1
<1>3. LooksBelow(Nat, V, measure, Step)
  <2> SUFFICES ASSUME NEW k \in Nat, NEW f \in [Nat -> V], NEW g \in [Nat -> V],
                      \A j \in Nat : measure[j] < measure[k] => f[j] = g[j]
               PROVE  Step[<<k, f>>] = Step[<<k, g>>]
    BY DEF LooksBelow
  <2>1. k # 0 => f[k - 1] = g[k - 1]
    OBVIOUS
  <2> HIDE DEF Step, V
  <2> QED BY <1>1, <2>1
<1>4. measure \in [Nat -> Nat] /\ V # {}
  OBVIOUS
<1>5. PICK F \in [Nat -> V] : \A k \in Nat : F[k] = Step[<<k, F>>]
  <2> HIDE DEF Step, measure, V
  <2>1. HasRecursion(Nat, V, Step)
    BY <1>2, <1>3, <1>4, RecursionByMeasure
  <2> QED BY <2>1 DEF HasRecursion
<1>6. F = [k \in Nat |-> IF k = 0 THEN 1 ELSE ByteSize * F[k - 1]]
  <2> HIDE DEF Step, V
  <2> QED BY <1>1, <1>5
<1>7. Weight = [k \in Nat |-> IF k = 0 THEN 1 ELSE ByteSize * Weight[k - 1]]
  BY <1>6 DEF Weight
<1> HIDE DEF Step
<1>8. Weight \in [Nat -> V]
  <2> SUFFICES Weight = F
    BY <1>5
  <2> DEFINE S == {k \in Nat : Weight[k] = F[k]}
  <2>1. Inductive(Nat, measure, S)
    <3> SUFFICES ASSUME NEW k \in Nat, \A j \in Nat : measure[j] < measure[k] => j \in S
                 PROVE  k \in S
      BY DEF Inductive
    <3>1. k # 0 => k - 1 \in Nat /\ Weight[k - 1] = F[k - 1]
      OBVIOUS
    <3> QED BY <1>6, <1>7, <3>1
  <2> HIDE DEF measure
  <2>2. Nat \subseteq S
    BY <1>4, <2>1, InductionByMeasure
  <2> QED BY <1>6, <1>7, <2>2
<1>9. \A k \in Nat : k + 1 \in Nat /\ k + 1 # 0 /\ (k + 1) - 1 = k
  OBVIOUS
<1> QED BY <1>7, <1>8, <1>9

(* A part of a sequence. *)
LEMMA Slice ==
  ASSUME NEW S, NEW s \in Seq(S), NEW m \in Nat \ {0}, NEW n \in Nat, n <= Len(s)
  PROVE  /\ SubSeq(s, m, n) \in Seq(S)
         /\ Len(SubSeq(s, m, n)) = IF m <= n THEN n - m + 1 ELSE 0
         /\ \A i \in 1..(n - m + 1) : SubSeq(s, m, n)[i] = s[m + i - 1]
<1>1. Len(s) \in Nat
  BY LenProperties
<1>2. \A i \in m..n : i \in 1..Len(s)
  BY <1>1
<1>3. \A i \in m..n : s[i] \in S
  BY <1>2, ElementOfSeq
<1>4. m \in Int /\ n \in Int
  OBVIOUS
<1> QED BY <1>3, <1>4, SubSeqProperties

(* The length a header says: a natural number, the first byte of it and    *)
(* ByteSize times what the others say.                                     *)
LEMMA LengthOfFacts ==
  /\ LengthOf \in [Seq(Bytes) -> Nat]
  /\ LengthOf[<<>>] = 0
  /\ \A h \in Seq(Bytes) : h # <<>> =>
        LengthOf[h] = Head(h) + ByteSize * LengthOf[Tail(h)]
<1> DEFINE D == Seq(Bytes)
           measure == [h \in D |-> Len(h)]
           Step == [z \in D \X [D -> Nat] |->
                      IF z[1] = <<>> THEN 0
                      ELSE Head(z[1]) + ByteSize * z[2][Tail(z[1])]]
<1>0. ByteSize \in Nat \ {0} /\ Bytes \subseteq Nat
  BY ByteAssumption DEF Bytes
<1>1. ASSUME NEW h \in D, NEW f \in [D -> Nat]
      PROVE  Step[<<h, f>>] =
               IF h = <<>> THEN 0 ELSE Head(h) + ByteSize * f[Tail(h)]
  OBVIOUS
<1>2. \A h \in D : h # <<>> =>
         /\ Tail(h) \in D /\ Head(h) \in Nat
         /\ measure[Tail(h)] < measure[h]
  <2> SUFFICES ASSUME NEW h \in D, h # <<>>
               PROVE  /\ Tail(h) \in D /\ Head(h) \in Nat
                      /\ measure[Tail(h)] < measure[h]
    OBVIOUS
  <2>1. Tail(h) \in D /\ Head(h) \in Bytes /\ Len(Tail(h)) = Len(h) - 1
    BY HeadTailProperties
  <2>2. Len(h) \in Nat /\ measure[h] = Len(h) /\ measure[Tail(h)] = Len(Tail(h))
    BY <2>1, LenProperties
  <2> HIDE DEF measure, D
  <2>3. Len(Tail(h)) < Len(h)
    BY <2>1, <2>2
  <2> QED BY <1>0, <2>1, <2>2, <2>3 DEF D
<1>3. Step \in [D \X [D -> Nat] -> Nat]
  <2>1. ASSUME NEW h \in D, NEW f \in [D -> Nat]
        PROVE  (IF h = <<>> THEN 0 ELSE Head(h) + ByteSize * f[Tail(h)]) \in Nat
    <3>1. h # <<>> => Head(h) \in Nat /\ f[Tail(h)] \in Nat
      BY <1>2
    <3>2. h # <<>> => ByteSize * f[Tail(h)] \in Nat
      BY <1>0, <3>1, ProductIsNatural
    <3> QED BY <3>1, <3>2
  <2> HIDE DEF D
  <2> QED BY <2>1
<1>4. measure \in [D -> Nat] /\ Nat # {}
  BY LenProperties
<1> HIDE DEF measure
<1>5. LooksBelow(D, Nat, measure, Step)
  <2> SUFFICES ASSUME NEW h \in D, NEW f \in [D -> Nat], NEW g \in [D -> Nat],
                      \A y \in D : measure[y] < measure[h] => f[y] = g[y]
               PROVE  Step[<<h, f>>] = Step[<<h, g>>]
    BY DEF LooksBelow
  <2>1. h # <<>> => f[Tail(h)] = g[Tail(h)]
    BY <1>2
  <2> HIDE DEF Step, D
  <2> QED BY <1>1, <2>1
<1>6. PICK F \in [D -> Nat] : \A h \in D : F[h] = Step[<<h, F>>]
  <2> HIDE DEF Step, D
  <2>1. HasRecursion(D, Nat, Step)
    BY <1>3, <1>4, <1>5, RecursionByMeasure
  <2> QED BY <2>1 DEF HasRecursion
<1>7. F = [h \in Seq(Bytes) |-> IF h = <<>> THEN 0
                                ELSE Head(h) + ByteSize * F[Tail(h)]]
  <2> HIDE DEF Step
  <2> QED BY <1>1, <1>6
<1>8. LengthOf = [h \in Seq(Bytes) |-> IF h = <<>> THEN 0
                                       ELSE Head(h) + ByteSize * LengthOf[Tail(h)]]
  BY <1>7 DEF LengthOf
<1> HIDE DEF Step
<1>9. LengthOf = F
  <2> DEFINE S == {h \in D : LengthOf[h] = F[h]}
  <2>1. Inductive(D, measure, S)
    <3> SUFFICES ASSUME NEW h \in D, \A j \in D : measure[j] < measure[h] => j \in S
                 PROVE  h \in S
      BY DEF Inductive
    <3>1. h # <<>> => LengthOf[Tail(h)] = F[Tail(h)]
      BY <1>2
    <3> QED BY <1>7, <1>8, <3>1
  <2>2. D \subseteq S
    <3> HIDE DEF D, S
    <3> QED BY <1>4, <2>1, InductionByMeasure
  <2> QED BY <1>7, <1>8, <2>2
<1>10. LengthOf \in [D -> Nat] /\ <<>> \in D
  BY <1>6, <1>9
<1> QED BY <1>8, <1>10

(* A header has the bytes of its length, and these say the length again.   *)
LEMMA HeaderType ==
  ASSUME NEW len \in Nat
  PROVE  /\ Header(len) \in Seq(Bytes) /\ Len(Header(len)) = HeaderSize
         /\ \A k \in 1..HeaderSize : Header(len)[k] = (len \div Weight[k - 1]) % ByteSize
<1>1. ByteSize \in Nat \ {0} /\ HeaderSize \in Nat
  BY ByteAssumption
<1>2. ASSUME NEW k \in 1..HeaderSize
      PROVE  (len \div Weight[k - 1]) % ByteSize \in Bytes
  <2>1. Weight[k - 1] \in Nat \ {0}
    BY <1>1, WeightFacts
  <2>2. len \div Weight[k - 1] \in Nat
    BY <2>1, DivMod
  <2> QED BY <1>1, <2>2, DivMod DEF Bytes
<1>3. Header(len) \in [1..HeaderSize -> Bytes]
  BY <1>2 DEF Header
<1>4. Header(len) \in Seq(Bytes)
  BY <1>1, <1>3
<1>5. DOMAIN Header(len) = 1..HeaderSize
  BY <1>3
<1>6. Len(Header(len)) = HeaderSize
  BY <1>1, <1>4, <1>5, LenProperties
<1> QED BY <1>4, <1>6 DEF Header

LEMMA HeaderSaysLength ==
  ASSUME NEW len \in Nat, len < Weight[HeaderSize]
  PROVE  LengthOf[Header(len)] = len
<1> DEFINE D == 0..HeaderSize
           Rest(j) == SubSeq(Header(len), j + 1, HeaderSize)
           measure == [j \in D |-> HeaderSize - j]
           S == {j \in D : LengthOf[Rest(j)] = len \div Weight[j]}
<1>1. /\ ByteSize \in Nat \ {0} /\ HeaderSize \in Nat \ {0}
      /\ \A j \in D : Weight[j] \in Nat \ {0}
  BY ByteAssumption, WeightFacts
<1>2. Header(len) \in Seq(Bytes) /\ Len(Header(len)) = HeaderSize
  BY HeaderType
<1>3. ASSUME NEW j \in D, \A i \in D : measure[i] < measure[j] => i \in S
      PROVE  j \in S
  <2>1. CASE j = HeaderSize
    <3>1. Rest(j) = <<>>
      BY <1>1, <2>1, SubSeqEmpty
    <3>2. len \div Weight[HeaderSize] = 0
      <4> DEFINE w == Weight[HeaderSize]
      <4>1. w \in Nat \ {0} /\ len \in 0..(w - 1)
        BY <1>1
      <4> HIDE DEF w
      <4>2. (w * 0 + len) \div w = 0
        BY <4>1, DivUnique
      <4>3. w * 0 + len = len
        BY <4>1
      <4> QED BY <4>2, <4>3 DEF w
    <3> QED BY <2>1, <3>1, <3>2, LengthOfFacts
  <2>2. CASE j # HeaderSize
    <3>1. j + 1 \in D /\ j + 1 \in 1..HeaderSize /\ HeaderSize \in (j + 1)..HeaderSize
      BY <1>1, <2>2
    <3>2. measure[j + 1] < measure[j]
      BY <1>1, <3>1
    <3>3. LengthOf[Rest(j + 1)] = len \div Weight[j + 1]
      BY <1>3, <3>1, <3>2
    <3>4. /\ Head(Rest(j)) = Header(len)[j + 1]
          /\ Tail(Rest(j)) = SubSeq(Header(len), (j + 1) + 1, HeaderSize)
      BY <1>2, <3>1, HeadTailOfSubSeq
    <3>5. Tail(Rest(j)) = Rest(j + 1)
      BY <3>4
    <3>6. Rest(j) \in Seq(Bytes) /\ Rest(j) # <<>>
      <4>1. Rest(j) \in Seq(Bytes) /\ Len(Rest(j)) = HeaderSize - (j + 1) + 1
        <5>1. j + 1 \in Nat \ {0} /\ HeaderSize <= Len(Header(len)) /\ j + 1 <= HeaderSize
          BY <1>1, <1>2, <3>1
        <5> QED BY <1>1, <1>2, <5>1, Slice
      <4>2. Len(Rest(j)) # 0
        BY <1>1, <3>1, <4>1
      <4> HIDE DEF Rest
      <4> QED BY <4>1, <4>2, EmptySeq
    <3>7. LengthOf[Rest(j)] = Header(len)[j + 1] + ByteSize * (len \div Weight[j + 1])
      BY <3>3, <3>4, <3>5, <3>6, LengthOfFacts
    <3> DEFINE q == len \div Weight[j]
    <3>8. Header(len)[j + 1] = q % ByteSize
      <4>1. (j + 1) - 1 = j
        BY <1>1
      <4> QED BY <3>1, <4>1, HeaderType
    <3>9. len \div Weight[j + 1] = q \div ByteSize
      <4>1. Weight[j + 1] = ByteSize * Weight[j]
        BY <1>1, WeightFacts
      <4> QED BY <1>1, <4>1, DivByProduct
    <3>10. q \in Nat
      BY <1>1, DivMod
    <3> HIDE DEF q
    <3>12. (q % ByteSize) + ByteSize * (q \div ByteSize) = q
      <4>1. /\ q % ByteSize \in 0..(ByteSize - 1)
            /\ q \div ByteSize \in Nat
            /\ q = ByteSize * (q \div ByteSize) + (q % ByteSize)
        BY <1>1, <3>10, DivMod
      <4>2. ByteSize * (q \div ByteSize) \in Nat
        BY <1>1, <4>1, ProductIsNatural
      <4> QED BY <1>1, <4>1, <4>2
    <3>13. LengthOf[Rest(j)] = q
      BY <3>7, <3>8, <3>9, <3>12
    <3> QED BY <3>13 DEF q
  <2> QED BY <2>1, <2>2
<1>4. measure \in [D -> Nat] /\ 0 \in D
  BY <1>1
<1>5. D \subseteq S
  <2>1. Inductive(D, measure, S)
    <3> HIDE DEF D, S, measure
    <3> QED BY <1>3 DEF Inductive
  <2> HIDE DEF D, S, measure
  <2> QED BY <1>4, <2>1, InductionByMeasure
<1>6. LengthOf[Rest(0)] = len \div Weight[0]
  BY <1>4, <1>5
<1>7. Rest(0) = Header(len)
  BY <1>2, SubSeqFull
<1>8. len \div Weight[0] = len
  BY WeightFacts
<1> QED BY <1>6, <1>7, <1>8

(* The messages that bytes are: read off the definition, one message after *)
(* the other.                                                              *)
ParsedStep(b, f) ==
    IF b = <<>> THEN <<>>
    ELSE IF Len(b) < HeaderSize THEN <<Torn>>
    ELSE LET last == HeaderSize + LengthOf[SubSeq(b, 1, HeaderSize)] IN
         IF last > Len(b) THEN <<Torn>>
         ELSE <<SubSeq(b, HeaderSize + 1, last)>> \o f[SubSeq(b, last + 1, Len(b))]

LEMMA ParsedFacts ==
  /\ Parsed \in [Seq(Bytes) -> Seq(Seq(Nat))]
  /\ \A b \in Seq(Bytes) : Parsed[b] = ParsedStep(b, Parsed)
<1> DEFINE D == Seq(Bytes)
           V == Seq(Seq(Nat))
           measure == [b \in D |-> Len(b)]
           Step == [z \in D \X [D -> V] |-> ParsedStep(z[1], z[2])]
<1>0. ByteSize \in Nat \ {0} /\ Bytes \subseteq Nat /\ HeaderSize \in Nat \ {0}
  BY ByteAssumption DEF Bytes
<1>1. ASSUME NEW b \in D, NEW f \in [D -> V]
      PROVE  Step[<<b, f>>] = ParsedStep(b, f)
  OBVIOUS
<1>2. ASSUME NEW b \in D, b # <<>>, ~(Len(b) < HeaderSize),
             NEW last, last = HeaderSize + LengthOf[SubSeq(b, 1, HeaderSize)],
             ~(last > Len(b))
      PROVE  /\ last \in Nat /\ last >= HeaderSize
             /\ SubSeq(b, HeaderSize + 1, last) \in Seq(Bytes)
             /\ SubSeq(b, last + 1, Len(b)) \in D
             /\ measure[SubSeq(b, last + 1, Len(b))] < measure[b]
  <2>0. Len(b) \in Nat /\ b \in Seq(Bytes)
    BY LenProperties
  <2>1. SubSeq(b, 1, HeaderSize) \in Seq(Bytes)
    BY <1>0, <1>2, <2>0, Slice
  <2>2. last \in Nat /\ last >= HeaderSize
    <3>1. LengthOf[SubSeq(b, 1, HeaderSize)] \in Nat
      BY <2>1, LengthOfFacts
    <3> QED BY <1>0, <1>2, <3>1
  <2>3. last <= Len(b)
    BY <1>2, <2>0, <2>2
  <2>4. SubSeq(b, HeaderSize + 1, last) \in Seq(Bytes)
    BY <1>0, <2>0, <2>2, <2>3, Slice
  <2>5. /\ SubSeq(b, last + 1, Len(b)) \in D
        /\ Len(SubSeq(b, last + 1, Len(b))) = Len(b) - last
    BY <1>0, <2>0, <2>2, <2>3, Slice
  <2> QED BY <1>0, <2>0, <2>2, <2>3, <2>4, <2>5
<1>3. Step \in [D \X [D -> V] -> V]
  <2>1. ASSUME NEW b \in D, NEW f \in [D -> V] PROVE ParsedStep(b, f) \in V
    <3> DEFINE last == HeaderSize + LengthOf[SubSeq(b, 1, HeaderSize)]
    <3>1. Torn \in Seq(Nat) /\ <<Torn>> \in V /\ <<>> \in V
      BY <1>0 DEF Torn
    <3>2. CASE b # <<>> /\ ~(Len(b) < HeaderSize) /\ ~(last > Len(b))
      <4>1. /\ SubSeq(b, HeaderSize + 1, last) \in Seq(Nat)
            /\ f[SubSeq(b, last + 1, Len(b))] \in V
        <5>1. /\ SubSeq(b, HeaderSize + 1, last) \in Seq(Bytes)
              /\ SubSeq(b, last + 1, Len(b)) \in D
          BY <1>2, <3>2
        <5>2. Seq(Bytes) \subseteq Seq(Nat)
          BY <1>0, SeqMonotonic
        <5> QED BY <5>1, <5>2
      <4>2. ParsedStep(b, f) = <<SubSeq(b, HeaderSize + 1, last)>>
                                  \o f[SubSeq(b, last + 1, Len(b))]
        BY <3>2 DEF ParsedStep
      <4>3. <<SubSeq(b, HeaderSize + 1, last)>> \in V
        BY <4>1
      <4> QED BY <4>1, <4>2, <4>3, ConcatProperties
    <3>3. CASE ~(b # <<>> /\ ~(Len(b) < HeaderSize) /\ ~(last > Len(b)))
      BY <3>1, <3>3 DEF ParsedStep
    <3> QED BY <3>2, <3>3
  <2> HIDE DEF D, V
  <2> QED BY <2>1
<1>4. measure \in [D -> Nat] /\ V # {}
  BY LenProperties, EmptySeq
<1> HIDE DEF measure
<1>5. ASSUME NEW b \in D, NEW f, NEW g,
             \A y \in D : measure[y] < measure[b] => f[y] = g[y]
      PROVE  ParsedStep(b, f) = ParsedStep(b, g)
  <2> DEFINE last == HeaderSize + LengthOf[SubSeq(b, 1, HeaderSize)]
  <2>1. b # <<>> /\ ~(Len(b) < HeaderSize) /\ ~(last > Len(b)) =>
          f[SubSeq(b, last + 1, Len(b))] = g[SubSeq(b, last + 1, Len(b))]
    BY <1>2, <1>5
  <2> QED BY <2>1 DEF ParsedStep
<1>6. LooksBelow(D, V, measure, Step)
  <2> HIDE DEF Step, D, V
  <2> QED BY <1>1, <1>5 DEF LooksBelow
<1>7. PICK F \in [D -> V] : \A b \in D : F[b] = Step[<<b, F>>]
  <2> HIDE DEF Step, D, V
  <2>1. HasRecursion(D, V, Step)
    BY <1>3, <1>4, <1>6, RecursionByMeasure
  <2> QED BY <2>1 DEF HasRecursion
<1>8. F = [b \in Seq(Bytes) |-> ParsedStep(b, F)]
  <2> HIDE DEF Step, V
  <2> QED BY <1>1, <1>7
<1>9. Parsed = [b \in Seq(Bytes) |-> ParsedStep(b, Parsed)]
  BY <1>8 DEF Parsed, ParsedStep
<1> HIDE DEF Step
<1>10. Parsed = F
  <2> DEFINE S == {b \in D : Parsed[b] = F[b]}
  <2>1. Inductive(D, measure, S)
    <3> SUFFICES ASSUME NEW b \in D, \A j \in D : measure[j] < measure[b] => j \in S
                 PROVE  b \in S
      BY DEF Inductive
    <3>1. \A j \in D : measure[j] < measure[b] => Parsed[j] = F[j]
      OBVIOUS
    <3>2. ParsedStep(b, Parsed) = ParsedStep(b, F)
      <4> HIDE DEF D, S
      <4> QED BY <1>5, <3>1
    <3> QED BY <1>8, <1>9, <3>2
  <2>2. D \subseteq S
    <3> HIDE DEF D, S
    <3> QED BY <1>4, <2>1, InductionByMeasure
  <2> QED BY <1>8, <1>9, <2>2
<1> QED BY <1>7, <1>9, <1>10

(* A part that ends within, and one that begins within, a concatenation.   *)
LEMMA SliceOfConcat ==
  ASSUME NEW S, NEW s \in Seq(S), NEW t \in Seq(S),
         NEW m \in Nat \ {0}, NEW n \in Nat, n <= Len(s)
  PROVE  SubSeq(s \o t, m, n) = SubSeq(s, m, n)
<1>1. Len(s) \in Nat
  BY LenProperties
<1>2. CASE m <= n
  <2>1. m \in 1..Len(s) /\ n \in 1..Len(s)
    BY <1>1, <1>2
  <2> QED BY <2>1, SubSeqOfConcat1
<1>3. CASE ~(m <= n)
  <2>1. m \in Int /\ n \in Int /\ n < m
    BY <1>3
  <2>2. SubSeq(s \o t, m, n) = <<>> /\ SubSeq(s, m, n) = <<>>
    BY <2>1, SubSeqEmpty
  <2> QED BY <2>2
<1> QED BY <1>2, <1>3

LEMMA SliceAcrossConcat ==
  ASSUME NEW S, NEW s \in Seq(S), NEW t \in Seq(S),
         NEW m \in Nat \ {0}, m <= Len(s) + 1
  PROVE  SubSeq(s \o t, m, Len(s \o t)) = SubSeq(s, m, Len(s)) \o t
<1> DEFINE u == s \o t
           l == SubSeq(u, m, Len(u))
           f == SubSeq(s, m, Len(s))
           r == f \o t
<1>1. Len(s) \in Nat /\ Len(t) \in Nat
  BY LenProperties
<1>2. /\ u \in Seq(S) /\ Len(u) = Len(s) + Len(t)
      /\ \A i \in 1..(Len(s) + Len(t)) :
           u[i] = IF i <= Len(s) THEN s[i] ELSE t[i - Len(s)]
  BY ConcatProperties
<1> HIDE DEF u
<1>3. /\ l \in Seq(S) /\ Len(l) = Len(u) - m + 1
      /\ \A i \in 1..(Len(u) - m + 1) : l[i] = u[m + i - 1]
  <2>1. Len(u) \in Nat /\ Len(u) <= Len(u)
    BY <1>1, <1>2
  <2>2. /\ l \in Seq(S) /\ Len(l) = IF m <= Len(u) THEN Len(u) - m + 1 ELSE 0
        /\ \A i \in 1..(Len(u) - m + 1) : l[i] = u[m + i - 1]
    BY <1>2, <2>1, Slice
  <2>3. m <= Len(u) \/ Len(u) - m + 1 = 0
    BY <1>1, <1>2
  <2> HIDE DEF l
  <2> QED BY <2>2, <2>3
<1>4. /\ f \in Seq(S) /\ Len(f) = Len(s) - m + 1
      /\ \A i \in 1..(Len(s) - m + 1) : f[i] = s[m + i - 1]
  <2>1. Len(s) <= Len(s)
    BY <1>1
  <2>2. /\ f \in Seq(S) /\ Len(f) = IF m <= Len(s) THEN Len(s) - m + 1 ELSE 0
        /\ \A i \in 1..(Len(s) - m + 1) : f[i] = s[m + i - 1]
    BY <1>1, <2>1, Slice
  <2>3. m <= Len(s) \/ Len(s) - m + 1 = 0
    BY <1>1
  <2> HIDE DEF f
  <2> QED BY <2>2, <2>3
<1> HIDE DEF l, f
<1>5. /\ r \in Seq(S) /\ Len(r) = Len(f) + Len(t)
      /\ \A i \in 1..(Len(f) + Len(t)) :
           r[i] = IF i <= Len(f) THEN f[i] ELSE t[i - Len(f)]
  BY <1>4, ConcatProperties
<1> HIDE DEF r
<1>6. Len(l) = Len(r)
  BY <1>1, <1>2, <1>3, <1>4, <1>5
<1>7. ASSUME NEW i \in 1..Len(l) PROVE l[i] = r[i]
  <2>1. l[i] = u[m + i - 1] /\ i \in 1..(Len(f) + Len(t))
    BY <1>3, <1>5, <1>6
  <2>2. i \in Nat /\ m + i - 1 \in 1..(Len(s) + Len(t))
    BY <1>1, <1>2, <1>3
  <2>3. CASE i <= Len(f)
    <3>1. i \in 1..(Len(s) - m + 1) /\ m + i - 1 <= Len(s)
      BY <1>1, <1>4, <2>2, <2>3
    <3> QED BY <1>2, <1>4, <1>5, <2>1, <2>2, <2>3, <3>1
  <2>4. CASE ~(i <= Len(f))
    <3>1. ~(m + i - 1 <= Len(s)) /\ (m + i - 1) - Len(s) = i - Len(f)
      BY <1>1, <1>4, <2>2, <2>4
    <3> QED BY <1>2, <1>5, <2>1, <2>2, <2>4, <3>1
  <2> QED BY <2>3, <2>4
<1>8. l = r
  BY <1>3, <1>5, <1>6, <1>7, SeqEqual
<1> QED BY <1>8 DEF l, r, f, u

(* What is left of a sequence when its first element is taken. *)
LEMMA TailOfFirst ==
  ASSUME NEW S, NEW a \in S, NEW q \in Seq(S)
  PROVE  Tail(<<a>> \o q) = q
<1> DEFINE f == <<a>>
           l == f \o q
<1>1. f \in Seq(S) /\ Len(f) = 1 /\ Len(q) \in Nat
  BY LenProperties
<1>2. /\ l \in Seq(S) /\ Len(l) = 1 + Len(q)
      /\ \A i \in 1..(1 + Len(q)) : l[i] = IF i <= 1 THEN f[i] ELSE q[i - 1]
  BY <1>1, ConcatProperties
<1> HIDE DEF f, l
<1>3. l # <<>>
  BY <1>1, <1>2, EmptySeq
<1>4. /\ Tail(l) \in Seq(S) /\ Len(Tail(l)) = Len(l) - 1
      /\ \A i \in 1..Len(Tail(l)) : Tail(l)[i] = l[i + 1]
  BY <1>2, <1>3, HeadTailProperties
<1>5. Len(Tail(l)) = Len(q)
  BY <1>1, <1>2, <1>4
<1>6. ASSUME NEW i \in 1..Len(q) PROVE Tail(l)[i] = q[i]
  <2>1. i + 1 \in 1..(1 + Len(q)) /\ ~(i + 1 <= 1) /\ (i + 1) - 1 = i
    BY <1>1
  <2> QED BY <1>2, <1>4, <1>5, <2>1
<1>7. Tail(l) = q
  BY <1>4, <1>5, <1>6, SeqEqual
<1> QED BY <1>7 DEF l, f

(* ------------------------- messages in a ring -------------------------- *)

Sendable(data) == data \in Seq(Bytes) /\ Len(data) < Weight[HeaderSize]

(* Bytes that are whole messages. *)
Whole(b) == \A i \in 1..Len(Parsed[b]) : Parsed[b][i] # Torn

LEMMA ItemType ==
  ASSUME NEW data \in Seq(Bytes)
  PROVE  /\ Item(data) \in Seq(Bytes)
         /\ Len(Item(data)) = HeaderSize + Len(data)
         /\ Len(Item(data)) \in Nat \ {0}
<1>1. Len(data) \in Nat /\ HeaderSize \in Nat \ {0}
  BY LenProperties, ByteAssumption
<1>2. Header(Len(data)) \in Seq(Bytes) /\ Len(Header(Len(data))) = HeaderSize
  BY <1>1, HeaderType
<1>3. /\ Item(data) \in Seq(Bytes)
      /\ Len(Item(data)) = Len(Header(Len(data))) + Len(data)
  BY <1>2, ConcatProperties DEF Item
<1> QED BY <1>1, <1>2, <1>3

(* A message in front is the first that is read. *)
LEMMA ParsedItem ==
  ASSUME NEW data, Sendable(data), NEW rest \in Seq(Bytes)
  PROVE  Parsed[Item(data) \o rest] = <<data>> \o Parsed[rest]
<1> DEFINE h == Header(Len(data))
           item == Item(data)
           b == item \o rest
           last == HeaderSize + Len(data)
<1>1. data \in Seq(Bytes) /\ Len(data) \in Nat /\ HeaderSize \in Nat \ {0}
  BY LenProperties, ByteAssumption DEF Sendable
<1>2. /\ h \in Seq(Bytes) /\ Len(h) = HeaderSize /\ LengthOf[h] = Len(data)
  BY <1>1, HeaderType, HeaderSaysLength DEF Sendable
<1>3. item \in Seq(Bytes) /\ Len(item) = last
  BY <1>1, ItemType
<1>4. b \in Seq(Bytes) /\ Len(b) = last + Len(rest) /\ Len(rest) \in Nat
  BY <1>3, ConcatProperties, LenProperties
<1>5. b # <<>> /\ ~(Len(b) < HeaderSize) /\ ~(last > Len(b))
  BY <1>1, <1>4, EmptySeq
<1>6. SubSeq(b, 1, HeaderSize) = h
  <2>1. HeaderSize <= Len(item) /\ 1 \in Nat \ {0}
    BY <1>1, <1>3
  <2>2. SubSeq(b, 1, HeaderSize) = SubSeq(item, 1, HeaderSize)
    BY <1>1, <1>3, <2>1, SliceOfConcat
  <2>3. SubSeq(item, 1, HeaderSize) = SubSeq(h, 1, HeaderSize)
    BY <1>1, <1>2, <2>1, SliceOfConcat DEF Item
  <2> QED BY <1>2, <2>2, <2>3, SubSeqFull
<1>7. SubSeq(b, HeaderSize + 1, last) = data
  <2>1. HeaderSize + 1 \in Nat \ {0} /\ last \in Nat /\ last <= Len(item)
    BY <1>1, <1>3
  <2>2. SubSeq(b, HeaderSize + 1, last) = SubSeq(item, HeaderSize + 1, Len(item))
    BY <1>3, <2>1, SliceOfConcat
  <2>3. SubSeq(item, HeaderSize + 1, Len(item)) = SubSeq(h, HeaderSize + 1, Len(h)) \o data
    <3>1. HeaderSize + 1 <= Len(h) + 1
      BY <1>1, <1>2
    <3> QED BY <1>1, <1>2, <2>1, <3>1, SliceAcrossConcat DEF Item
  <2>4. SubSeq(h, HeaderSize + 1, Len(h)) = <<>>
    BY <1>1, <1>2, SubSeqEmpty
  <2> QED BY <1>1, <2>2, <2>3, <2>4, ConcatEmptySeq
<1>8. SubSeq(b, last + 1, Len(b)) = rest
  <2>1. last + 1 \in Nat \ {0} /\ last + 1 <= Len(item) + 1
    BY <1>1, <1>3
  <2>2. SubSeq(b, last + 1, Len(b)) = SubSeq(item, last + 1, Len(item)) \o rest
    BY <1>3, <2>1, SliceAcrossConcat
  <2>3. SubSeq(item, last + 1, Len(item)) = <<>>
    BY <1>1, <1>3, SubSeqEmpty
  <2> QED BY <2>2, <2>3, ConcatEmptySeq
<1>9. Parsed[b] = ParsedStep(b, Parsed)
  BY <1>4, ParsedFacts
<1> HIDE DEF b, item, h
<1>10. ParsedStep(b, Parsed) = <<data>> \o Parsed[rest]
  BY <1>2, <1>5, <1>6, <1>7, <1>8 DEF ParsedStep
<1> QED BY <1>9, <1>10 DEF b, item

(* No message of bytes is the mark for a torn one. *)
LEMMA SentIsNotTorn ==
  ASSUME NEW data \in Seq(Bytes)
  PROVE  data # Torn
<1>1. ByteSize \in Nat
  BY ByteAssumption
<1>2. CASE Len(data) = 1
  <2>1. data[1] \in Bytes
    <3>1. 1 \in 1..Len(data)
      BY <1>2
    <3> QED BY <3>1, ElementOfSeq
  <2> QED BY <1>1, <2>1 DEF Torn, Bytes
<1>3. CASE Len(data) # 1
  BY <1>3 DEF Torn
<1> QED BY <1>2, <1>3

(* Whole messages begin with one, and go on with whole messages. *)
LEMMA FirstMessage ==
  ASSUME NEW b \in Seq(Bytes), b # <<>>, Whole(b),
         NEW last, last = HeaderSize + LengthOf[SubSeq(b, 1, HeaderSize)]
  PROVE  /\ Len(b) >= HeaderSize
         /\ last \in HeaderSize..Len(b)
         /\ SubSeq(b, HeaderSize + 1, last) \in Seq(Bytes)
         /\ SubSeq(b, last + 1, Len(b)) \in Seq(Bytes)
         /\ Len(SubSeq(b, last + 1, Len(b))) < Len(b)
         /\ Parsed[b] = <<SubSeq(b, HeaderSize + 1, last)>>
                           \o Parsed[SubSeq(b, last + 1, Len(b))]
         /\ Whole(SubSeq(b, last + 1, Len(b)))
<1> DEFINE first == SubSeq(b, HeaderSize + 1, last)
           rest == SubSeq(b, last + 1, Len(b))
<1>1. HeaderSize \in Nat \ {0} /\ Len(b) \in Nat
  BY LenProperties, ByteAssumption
<1>2. Parsed[b] = ParsedStep(b, Parsed)
  BY ParsedFacts
<1>3. Parsed[b] # <<Torn>>
  <2>1. ASSUME Parsed[b] = <<Torn>> PROVE FALSE
    <3>1. Len(Parsed[b]) = 1 /\ Parsed[b][1] = Torn
      BY <2>1
    <3> QED BY <3>1 DEF Whole
  <2> QED BY <2>1
<1>4. ~(Len(b) < HeaderSize) /\ ~(last > Len(b))
  BY <1>2, <1>3 DEF ParsedStep
<1>5. last \in Nat /\ last >= HeaderSize /\ last <= Len(b)
  <2>1. SubSeq(b, 1, HeaderSize) \in Seq(Bytes)
    BY <1>1, <1>4, Slice
  <2>2. LengthOf[SubSeq(b, 1, HeaderSize)] \in Nat
    BY <2>1, LengthOfFacts
  <2> QED BY <1>1, <1>4, <2>2
<1>6. first \in Seq(Bytes)
  BY <1>1, <1>5, Slice
<1>7. rest \in Seq(Bytes) /\ Len(rest) < Len(b)
  <2>1. /\ rest \in Seq(Bytes)
        /\ Len(rest) = IF last + 1 <= Len(b) THEN Len(b) - (last + 1) + 1 ELSE 0
    BY <1>1, <1>5, Slice
  <2> HIDE DEF rest
  <2> QED BY <1>1, <1>5, <2>1
<1>8. Parsed[b] = <<first>> \o Parsed[rest]
  BY <1>2, <1>4 DEF ParsedStep
<1>9. Whole(rest)
  <2>1. Parsed[rest] \in Seq(Seq(Nat))
    BY <1>7, ParsedFacts
  <2>2. <<first>> \in Seq(Seq(Nat)) /\ Len(<<first>>) = 1
    <3>1. Bytes \subseteq Nat
      BY ByteAssumption DEF Bytes
    <3>2. first \in Seq(Nat)
      BY <1>6, <3>1, SeqMonotonic
    <3> HIDE DEF first
    <3> QED BY <3>2
  <2>3. ASSUME NEW i \in 1..Len(Parsed[rest]) PROVE Parsed[rest][i] # Torn
    <3> DEFINE p == Parsed[rest]
               f == <<first>>
    <3>1. Len(p) \in Nat
      BY <2>1, LenProperties
    <3>2. /\ Len(f \o p) = Len(f) + Len(p)
          /\ \A k \in 1..(Len(f) + Len(p)) :
               (f \o p)[k] = IF k <= Len(f) THEN f[k] ELSE p[k - Len(f)]
      BY <2>1, <2>2, ConcatProperties
    <3>3. i + 1 \in 1..(Len(f) + Len(p)) /\ ~(i + 1 <= Len(f)) /\ (i + 1) - Len(f) = i
      BY <2>2, <3>1
    <3> HIDE DEF p, f
    <3>4. (f \o p)[i + 1] = p[i] /\ i + 1 \in 1..Len(f \o p)
      BY <3>2, <3>3
    <3>5. (f \o p)[i + 1] # Torn
      BY <1>8, <3>4 DEF Whole, p, f
    <3> QED BY <3>4, <3>5 DEF p
  <2> HIDE DEF rest
  <2> QED BY <2>3 DEF Whole
<1> QED BY <1>1, <1>4, <1>5, <1>6, <1>7, <1>8, <1>9

(* A message behind whole messages is read after them: the reader of the   *)
(* bytes finds the same lengths as before.                                 *)
LEMMA ParsedAppend ==
  ASSUME NEW data, Sendable(data), NEW b \in Seq(Bytes), Whole(b)
  PROVE  Parsed[b \o Item(data)] = Append(Parsed[b], data)
<1> DEFINE D == Seq(Bytes)
           item == Item(data)
           measure == [x \in D |-> Len(x)]
           S == {x \in D : Whole(x) => Parsed[x \o item] = Append(Parsed[x], data)}
<1>1. data \in Seq(Bytes) /\ item \in Seq(Bytes) /\ HeaderSize \in Nat \ {0}
  BY ItemType, ByteAssumption DEF Sendable
<1>2. Bytes \subseteq Nat /\ data \in Seq(Nat)
  BY <1>1, ByteAssumption, SeqMonotonic DEF Bytes
<1>3. ASSUME NEW x \in D, \A y \in D : measure[y] < measure[x] => y \in S, Whole(x)
      PROVE  Parsed[x \o item] = Append(Parsed[x], data)
  <2>1. CASE x = <<>>
    <3>1. Parsed[<<>>] = <<>>
      BY ParsedFacts, EmptySeq DEF ParsedStep
    <3>2. x \o item = item \o <<>> /\ <<>> \in Seq(Bytes)
      BY <1>1, <2>1, ConcatEmptySeq, EmptySeq
    <3>3. Parsed[item \o <<>>] = <<data>> \o Parsed[<<>>]
      BY <3>2, ParsedItem
    <3> QED BY <2>1, <3>1, <3>2, <3>3
  <2>2. CASE x # <<>>
    <3> DEFINE last == HeaderSize + LengthOf[SubSeq(x, 1, HeaderSize)]
               first == SubSeq(x, HeaderSize + 1, last)
               rest == SubSeq(x, last + 1, Len(x))
               u == x \o item
    <3>1. /\ Len(x) >= HeaderSize
          /\ last \in HeaderSize..Len(x)
          /\ first \in Seq(Bytes)
          /\ rest \in Seq(Bytes)
          /\ Len(rest) < Len(x)
          /\ Parsed[x] = <<first>> \o Parsed[rest]
          /\ Whole(rest)
      <4> HIDE DEF last
      <4>1. x # <<>> /\ Whole(x) /\ x \in Seq(Bytes)
        BY <1>3, <2>2
      <4> QED BY <4>1, FirstMessage DEF last
    <3>2. Len(x) \in Nat /\ last \in Nat /\ last >= HeaderSize /\ last <= Len(x)
      BY <1>1, <3>1, LenProperties
    <3>3. Parsed[rest \o item] = Append(Parsed[rest], data)
      <4>1. measure[rest] < measure[x]
        BY <3>1
      <4>2. rest \in S
        BY <1>3, <3>1, <4>1
      <4> HIDE DEF rest
      <4> QED BY <3>1, <4>2
    <3>4. u \in Seq(Bytes) /\ Len(u) = Len(x) + Len(item) /\ Len(item) \in Nat
      BY <1>1, ConcatProperties, LenProperties
    <3>5. u # <<>> /\ ~(Len(u) < HeaderSize) /\ ~(last > Len(u))
      <4> HIDE DEF u, last, item, rest, first
      <4>1. Len(u) \in Nat /\ Len(u) >= HeaderSize /\ Len(u) >= last /\ HeaderSize > 0
        BY <1>1, <3>1, <3>2, <3>4
      <4>2. ~(Len(u) < HeaderSize) /\ ~(last > Len(u)) /\ Len(u) # 0
        BY <1>1, <3>2, <4>1
      <4> QED BY <4>2, EmptySeq
    <3>6. SubSeq(u, 1, HeaderSize) = SubSeq(x, 1, HeaderSize)
      BY <1>1, <3>1, SliceOfConcat
    <3>7. SubSeq(u, HeaderSize + 1, last) = first
      <4>1. HeaderSize + 1 \in Nat \ {0}
        BY <1>1
      <4> HIDE DEF last
      <4> QED BY <1>1, <3>2, <4>1, SliceOfConcat DEF last
    <3>8. SubSeq(u, last + 1, Len(u)) = rest \o item
      <4>1. last + 1 \in Nat \ {0} /\ last + 1 <= Len(x) + 1
        BY <3>2
      <4> HIDE DEF last
      <4> QED BY <1>1, <4>1, SliceAcrossConcat
    <3>9. Parsed[u] = <<first>> \o Parsed[rest \o item]
      <4>1. Parsed[u] = ParsedStep(u, Parsed)
        BY <3>4, ParsedFacts
      <4>2. HeaderSize + LengthOf[SubSeq(u, 1, HeaderSize)] = last
        BY <3>6
      <4> HIDE DEF u, first, rest, last, item
      <4>3. ParsedStep(u, Parsed) = <<first>> \o Parsed[rest \o item]
        BY <3>5, <3>7, <3>8, <4>2 DEF ParsedStep
      <4> QED BY <4>1, <4>3
    <3>10. <<first>> \o Append(Parsed[rest], data) = Append(<<first>> \o Parsed[rest], data)
      <4> DEFINE p == Parsed[rest]
                 f == <<first>>
                 V == Seq(Nat)
      <4>1. p \in Seq(V)
        BY <3>1, ParsedFacts
      <4>2. f \in Seq(V) /\ <<data>> \in Seq(V)
        <5>1. first \in V
          BY <1>2, <3>1, SeqMonotonic
        <5> HIDE DEF first, V
        <5> QED BY <1>2, <5>1 DEF V
      <4> HIDE DEF p, f, V
      <4>3. data \in V
        BY <1>2 DEF V
      <4>4. Append(p, data) = p \o <<data>>
        BY <4>1, <4>3, AppendIsConcat
      <4>5. f \o p \in Seq(V)
        BY <4>1, <4>2, ConcatProperties
      <4>6. Append(f \o p, data) = (f \o p) \o <<data>>
        BY <4>3, <4>5, AppendIsConcat
      <4>7. (f \o p) \o <<data>> = f \o (p \o <<data>>)
        BY <4>1, <4>2, ConcatAssociative
      <4> QED BY <4>4, <4>6, <4>7 DEF p, f
    <3> QED BY <3>1, <3>3, <3>9, <3>10
  <2> QED BY <2>1, <2>2
<1>4. measure \in [D -> Nat]
  BY LenProperties
<1>5. D \subseteq S
  <2>1. Inductive(D, measure, S)
    <3> SUFFICES ASSUME NEW x \in D, \A y \in D : measure[y] < measure[x] => y \in S
                 PROVE  x \in S
      BY DEF Inductive
    <3>1. Whole(x) => Parsed[x \o item] = Append(Parsed[x], data)
      BY <1>3
    <3> QED BY <3>1
  <2> HIDE DEF D, S, measure
  <2> QED BY <1>4, <2>1, InductionByMeasure
<1> QED BY <1>5

(* What a message behind whole messages changes. *)
LEMMA WholeAppend ==
  ASSUME NEW data, Sendable(data), NEW b \in Seq(Bytes), Whole(b)
  PROVE  /\ b \o Item(data) \in Seq(Bytes)
         /\ Parsed[b \o Item(data)] = Append(Parsed[b], data)
         /\ Whole(b \o Item(data))
<1> DEFINE p == Parsed[b]
           V == Seq(Nat)
<1>1. data \in Seq(Bytes) /\ data # Torn /\ Item(data) \in Seq(Bytes)
  BY SentIsNotTorn, ItemType DEF Sendable
<1>2. b \o Item(data) \in Seq(Bytes)
  BY <1>1, ConcatProperties
<1>3. Parsed[b \o Item(data)] = Append(p, data)
  BY ParsedAppend
<1>4. p \in Seq(V) /\ data \in V
  <2>1. Bytes \subseteq Nat
    BY ByteAssumption DEF Bytes
  <2> QED BY <1>1, <2>1, ParsedFacts, SeqMonotonic
<1>5. \A i \in 1..Len(p) : p[i] # Torn
  BY DEF Whole
<1> HIDE DEF p, V
<1>6. /\ Len(Append(p, data)) = Len(p) + 1 /\ Len(p) \in Nat
      /\ \A i \in 1..Len(p) : Append(p, data)[i] = p[i]
      /\ Append(p, data)[Len(p) + 1] = data
  BY <1>4, AppendProperties, LenProperties
<1>7. \A i \in 1..Len(Append(p, data)) : Append(p, data)[i] # Torn
  <2>1. \A i \in 1..Len(Append(p, data)) : i \in 1..Len(p) \/ i = Len(p) + 1
    BY <1>6
  <2> QED BY <1>1, <1>5, <1>6, <2>1
<1>8. Whole(b \o Item(data))
  BY <1>3, <1>7 DEF Whole
<1> QED BY <1>2, <1>3, <1>8 DEF p

LEMMA NothingIsWhole == Parsed[<<>>] = <<>> /\ Whole(<<>>)
<1>1. Parsed[<<>>] = <<>>
  BY ParsedFacts, EmptySeq DEF ParsedStep
<1> QED BY <1>1 DEF Whole

(* ------------------------------- rings --------------------------------- *)

(* A ring of m bytes. *)
IsRing(c, m) ==
  /\ m \in Nat \ {0}
  /\ c \in [buffer : [0..(m - 1) -> Bytes], head : 0..(m - 1),
            tail : 0..(m - 1), maxLen : {m}]

LEMMA RingFacts ==
  ASSUME NEW c, NEW m, IsRing(c, m)
  PROVE  /\ m \in Nat \ {0} /\ c.maxLen = m
         /\ c.head \in 0..(m - 1) /\ c.tail \in 0..(m - 1)
         /\ c.buffer \in [0..(m - 1) -> Bytes]
         /\ Used(c) = Way(c.tail, c.head, m) /\ Used(c) \in 0..(m - 1)
         /\ Free(c) = m - 1 - Used(c) /\ Free(c) \in 0..(m - 1)
<1>1. /\ m \in Nat \ {0} /\ c.maxLen = m
      /\ c.head \in 0..(m - 1) /\ c.tail \in 0..(m - 1)
      /\ c.buffer \in [0..(m - 1) -> Bytes]
  BY DEF IsRing
<1>2. Used(c) = Way(c.tail, c.head, m) /\ Used(c) \in 0..(m - 1)
  BY <1>1, AheadModulo DEF Used, Ahead, Way
<1>3. Free(c) = m - 1 - Used(c)
  BY <1>1 DEF Free
<1> QED BY <1>1, <1>2, <1>3

(* Ahead and the way on are what they look like. *)
LEMMA AheadIsWay ==
  ASSUME NEW c, NEW m, IsRing(c, m), NEW a \in 0..(m - 1), NEW b \in 0..(m - 1)
  PROVE  Ahead(c, a, b) = Way(a, b, m) /\ Ahead(c, a, b) \in 0..(m - 1)
<1>1. m \in Nat \ {0} /\ c.maxLen = m
  BY RingFacts
<1> QED BY <1>1, AheadModulo DEF Ahead, Way

LEMMA PlusIsOn ==
  ASSUME NEW m \in Nat \ {0}, NEW a \in 0..(m - 1), NEW n \in 0..m
  PROVE  (a + n) % m = On(a, n, m) /\ (a + n) % m \in 0..(m - 1)
  BY PlusModulo DEF On

LEMMA StoredFacts ==
  ASSUME NEW c, NEW m, IsRing(c, m)
  PROVE  /\ Stored(c) \in Seq(Bytes) /\ Len(Stored(c)) = Used(c)
         /\ \A k \in 1..Used(c) : /\ On(c.tail, k - 1, m) \in 0..(m - 1)
                                  /\ Stored(c)[k] = c.buffer[On(c.tail, k - 1, m)]
<1>1. /\ m \in Nat \ {0} /\ c.maxLen = m
      /\ c.tail \in 0..(m - 1)
      /\ c.buffer \in [0..(m - 1) -> Bytes]
      /\ Used(c) \in 0..(m - 1)
  BY RingFacts
<1>2. ASSUME NEW k \in 1..Used(c)
      PROVE  /\ (c.tail + k - 1) % c.maxLen = On(c.tail, k - 1, m)
             /\ On(c.tail, k - 1, m) \in 0..(m - 1)
  <2>1. k - 1 \in 0..m /\ c.tail + k - 1 = c.tail + (k - 1)
    BY <1>1
  <2>2. (c.tail + (k - 1)) % m = On(c.tail, k - 1, m)
        /\ (c.tail + (k - 1)) % m \in 0..(m - 1)
    BY <1>1, <2>1, PlusIsOn
  <2> QED BY <1>1, <2>1, <2>2
<1>3. Stored(c) = [k \in 1..Used(c) |-> c.buffer[On(c.tail, k - 1, m)]]
  BY <1>2 DEF Stored
<1>4. \A k \in 1..Used(c) : c.buffer[On(c.tail, k - 1, m)] \in Bytes
  BY <1>1, <1>2
<1>5. Stored(c) \in [1..Used(c) -> Bytes] /\ Used(c) \in Nat
  BY <1>1, <1>3, <1>4
<1>6. Stored(c) \in Seq(Bytes) /\ DOMAIN Stored(c) = 1..Used(c)
  BY <1>5
<1>7. Len(Stored(c)) = Used(c)
  BY <1>5, <1>6, LenProperties
<1>8. \A k \in 1..Used(c) : Stored(c)[k] = c.buffer[On(c.tail, k - 1, m)]
  BY <1>3
<1> HIDE DEF IsRing
<1> QED BY <1>2, <1>6, <1>7, <1>8

(* The ring after n bytes have been pushed, and with head put back.        *)
Pushed(c, bytes, n) ==
  [c EXCEPT !.buffer = Written(c, bytes, n), !.head = (c.head + n) % c.maxLen]
PutBack(c, bytes, n) == [c EXCEPT !.buffer = Written(c, bytes, n)]

LEMMA WrittenFacts ==
  ASSUME NEW c, NEW m, IsRing(c, m),
         NEW bytes \in Seq(Bytes), NEW n \in 0..Free(c), n <= Len(bytes)
  PROVE  /\ Written(c, bytes, n) \in [0..(m - 1) -> Bytes]
         /\ \A k \in 0..(m - 1) :
              Written(c, bytes, n)[k] =
                IF Way(c.head, k, m) < n THEN bytes[Way(c.head, k, m) + 1]
                ELSE c.buffer[k]
<1>1. /\ m \in Nat \ {0} /\ c.maxLen = m /\ c.head \in 0..(m - 1)
      /\ c.buffer \in [0..(m - 1) -> Bytes] /\ Free(c) \in 0..(m - 1)
  BY RingFacts
<1>2. \A k \in 0..(m - 1) : Ahead(c, c.head, k) = Way(c.head, k, m)
                             /\ Way(c.head, k, m) \in 0..(m - 1)
  BY <1>1, AheadIsWay
<1>3. Written(c, bytes, n) =
        [k \in 0..(m - 1) |->
           IF Way(c.head, k, m) < n THEN bytes[Way(c.head, k, m) + 1] ELSE c.buffer[k]]
  BY <1>1, <1>2 DEF Written
<1>4. ASSUME NEW k \in 0..(m - 1), Way(c.head, k, m) < n
      PROVE  bytes[Way(c.head, k, m) + 1] \in Bytes
  <2>1. Len(bytes) \in Nat /\ n \in Nat
    BY <1>1, LenProperties
  <2>2. Way(c.head, k, m) + 1 \in 1..Len(bytes)
    <3> DEFINE a == Way(c.head, k, m)
    <3>1. a \in 0..(m - 1) /\ a < n
      BY <1>2, <1>4
    <3> HIDE DEF a
    <3>2. a + 1 \in 1..Len(bytes)
      BY <1>1, <2>1, <3>1
    <3> QED BY <3>2 DEF a
  <2> QED BY <2>2, ElementOfSeq
<1>5. \A k \in 0..(m - 1) : c.buffer[k] \in Bytes
  BY <1>1
<1> QED BY <1>3, <1>4, <1>5

LEMMA PutBackFacts ==
  ASSUME NEW c, NEW m, IsRing(c, m),
         NEW bytes \in Seq(Bytes), NEW n \in 0..Free(c), n <= Len(bytes)
  PROVE  /\ IsRing(PutBack(c, bytes, n), m)
         /\ Stored(PutBack(c, bytes, n)) = Stored(c)
<1> DEFINE d == PutBack(c, bytes, n)
           w == Written(c, bytes, n)
<1>1. /\ m \in Nat \ {0} /\ c.maxLen = m
      /\ c.head \in 0..(m - 1) /\ c.tail \in 0..(m - 1)
      /\ Used(c) = Way(c.tail, c.head, m) /\ Used(c) \in 0..(m - 1)
      /\ Free(c) = m - 1 - Used(c)
  BY RingFacts
<1>2. w \in [0..(m - 1) -> Bytes]
  BY WrittenFacts
<1>3. IsRing(d, m) /\ d.head = c.head /\ d.tail = c.tail /\ d.buffer = w
  BY <1>2 DEF IsRing, PutBack
<1> HIDE DEF d
<1>4. Used(d) = Used(c)
  BY <1>1, <1>3, RingFacts
<1>5. ASSUME NEW k \in 1..Used(c) PROVE Stored(d)[k] = Stored(c)[k]
  <2> DEFINE j == On(c.tail, k - 1, m)
  <2>1. j \in 0..(m - 1) /\ Stored(c)[k] = c.buffer[j] /\ Stored(d)[k] = w[j]
    BY <1>3, <1>4, StoredFacts
  <2>2. ~(Way(c.head, j, m) < n)
    <3>1. k - 1 \in 0..(Used(c) - 1)
      BY <1>1
    <3>2. Way(c.head, j, m) = k - 1 - Used(c) + m
      BY <1>1, <3>1, WayBehind
    <3> HIDE DEF j
    <3> QED BY <1>1, <3>1, <3>2
  <2> HIDE DEF j, w
  <2>3. w[j] = c.buffer[j]
    BY <2>1, <2>2, WrittenFacts DEF w
  <2> QED BY <2>1, <2>3
<1>6. Stored(d) = Stored(c)
  <2>1. /\ Stored(d) \in Seq(Bytes) /\ Stored(c) \in Seq(Bytes)
        /\ Len(Stored(d)) = Len(Stored(c)) /\ Len(Stored(d)) = Used(c)
    BY <1>3, <1>4, StoredFacts
  <2> QED BY <1>5, <2>1, SeqEqual
<1> QED BY <1>3, <1>6 DEF d

LEMMA PushedFacts ==
  ASSUME NEW c, NEW m, IsRing(c, m),
         NEW bytes \in Seq(Bytes), NEW n \in 0..Free(c), n <= Len(bytes)
  PROVE  /\ IsRing(Pushed(c, bytes, n), m)
         /\ Used(Pushed(c, bytes, n)) = Used(c) + n
         /\ Stored(Pushed(c, bytes, n)) = Stored(c) \o SubSeq(bytes, 1, n)
<1> DEFINE d == Pushed(c, bytes, n)
           w == Written(c, bytes, n)
           part == SubSeq(bytes, 1, n)
           s == Stored(c)
           u == s \o part
<1>1. /\ m \in Nat \ {0} /\ c.maxLen = m
      /\ c.head \in 0..(m - 1) /\ c.tail \in 0..(m - 1)
      /\ Used(c) = Way(c.tail, c.head, m) /\ Used(c) \in 0..(m - 1)
      /\ Free(c) = m - 1 - Used(c)
  BY RingFacts
<1>2. w \in [0..(m - 1) -> Bytes]
  BY WrittenFacts
<1>3. (c.head + n) % c.maxLen = On(c.head, n, m) /\ On(c.head, n, m) \in 0..(m - 1)
  <2>1. n \in 0..m
    BY <1>1
  <2> QED BY <1>1, <2>1, PlusIsOn
<1>4. IsRing(d, m) /\ d.head = On(c.head, n, m) /\ d.tail = c.tail /\ d.buffer = w
  BY <1>2, <1>3 DEF IsRing, Pushed
<1> HIDE DEF d, w
<1>5. Used(d) = Used(c) + n
  <2>1. Used(d) = Way(c.tail, On(c.head, n, m), m)
    BY <1>4, RingFacts
  <2>2. n \in 0..(m - 1 - Way(c.tail, c.head, m))
    BY <1>1
  <2> QED BY <1>1, <2>1, <2>2, WayOn
<1>6. part \in Seq(Bytes) /\ Len(part) = n /\ \A i \in 1..n : part[i] = bytes[i]
  <2>1. n \in Nat
    BY <1>1
  <2>2. /\ part \in Seq(Bytes) /\ Len(part) = IF 1 <= n THEN n - 1 + 1 ELSE 0
        /\ \A i \in 1..(n - 1 + 1) : part[i] = bytes[1 + i - 1]
    BY <2>1, Slice
  <2> HIDE DEF part
  <2>3. n - 1 + 1 = n /\ (~(1 <= n) => n = 0) /\ \A i \in 1..n : 1 + i - 1 = i
    BY <2>1
  <2> QED BY <2>2, <2>3
<1>7. s \in Seq(Bytes) /\ Len(s) = Used(c)
  BY StoredFacts
<1> HIDE DEF part
<1>8. /\ u \in Seq(Bytes) /\ Len(u) = Used(c) + n
      /\ \A i \in 1..(Used(c) + n) : u[i] = IF i <= Used(c) THEN s[i] ELSE part[i - Used(c)]
  <2>1. /\ s \o part \in Seq(Bytes) /\ Len(s \o part) = Len(s) + Len(part)
        /\ \A i \in 1..(Len(s) + Len(part)) :
             (s \o part)[i] = IF i <= Len(s) THEN s[i] ELSE part[i - Len(s)]
    BY <1>6, <1>7, ConcatProperties
  <2> QED BY <1>6, <1>7, <2>1
<1> HIDE DEF s, u
<1>9. ASSUME NEW k \in 1..(Used(c) + n) PROVE Stored(d)[k] = u[k]
  <2> DEFINE j == On(c.tail, k - 1, m)
  <2>1. j \in 0..(m - 1) /\ Stored(d)[k] = w[j]
    BY <1>4, <1>5, StoredFacts
  <2>2. w[j] = IF Way(c.head, j, m) < n THEN bytes[Way(c.head, j, m) + 1] ELSE c.buffer[j]
    <3> HIDE DEF j
    <3> QED BY <2>1, WrittenFacts DEF w
  <2>3. CASE k <= Used(c)
    <3>1. k \in 1..Used(c)
      BY <1>1, <2>3
    <3>2. s[k] = c.buffer[j]
      BY <3>1, StoredFacts DEF s
    <3>3. ~(Way(c.head, j, m) < n)
      <4>1. k - 1 \in 0..(Used(c) - 1)
        BY <1>1, <3>1
      <4>2. Way(c.head, j, m) = k - 1 - Used(c) + m
        BY <1>1, <4>1, WayBehind
      <4> HIDE DEF j
      <4> QED BY <1>1, <4>1, <4>2
    <3> HIDE DEF j
    <3> QED BY <1>8, <2>1, <2>2, <2>3, <3>2, <3>3
  <2>4. CASE ~(k <= Used(c))
    <3>1. Way(c.head, j, m) = k - 1 - Used(c)
      <4>1. k - 1 \in Used(c)..(m - 1)
        BY <1>1, <2>4
      <4> QED BY <1>1, <4>1, WayBefore
    <3>2. /\ k - 1 - Used(c) < n /\ k - 1 - Used(c) + 1 = k - Used(c)
          /\ k - Used(c) \in 1..n
      BY <1>1, <2>4
    <3>3. w[j] = bytes[k - Used(c)]
      BY <2>2, <3>1, <3>2
    <3>4. u[k] = part[k - Used(c)]
      BY <1>8, <2>4
    <3> HIDE DEF j
    <3> QED BY <1>6, <2>1, <3>2, <3>3, <3>4
  <2> QED BY <2>3, <2>4
<1>10. Stored(d) = u
  <2>1. Stored(d) \in Seq(Bytes) /\ Len(Stored(d)) = Used(c) + n
    BY <1>4, <1>5, StoredFacts
  <2> QED BY <1>8, <1>9, <2>1, SeqEqual
<1> QED BY <1>4, <1>5, <1>10 DEF d, u, s, part

LEMMA DrainedFacts ==
  ASSUME NEW c, NEW m, IsRing(c, m), NEW n \in 0..Used(c)
  PROVE  /\ IsRing(Drained(c, n), m)
         /\ Used(Drained(c, n)) = Used(c) - n
         /\ Stored(Drained(c, n)) = SubSeq(Stored(c), n + 1, Used(c))
<1> DEFINE d == Drained(c, n)
           w == [k \in 0..(m - 1) |-> IF Way(c.tail, k, m) < n THEN 0 ELSE c.buffer[k]]
           s == Stored(c)
           u == SubSeq(s, n + 1, Used(c))
<1>1. /\ m \in Nat \ {0} /\ c.maxLen = m
      /\ c.head \in 0..(m - 1) /\ c.tail \in 0..(m - 1)
      /\ c.buffer \in [0..(m - 1) -> Bytes]
      /\ Used(c) = Way(c.tail, c.head, m) /\ Used(c) \in 0..(m - 1)
  BY RingFacts
<1>2. w \in [0..(m - 1) -> Bytes]
  <2>1. 0 \in Bytes
    BY ByteAssumption DEF Bytes
  <2> QED BY <1>1, <2>1
<1>3. (c.tail + n) % c.maxLen = On(c.tail, n, m) /\ On(c.tail, n, m) \in 0..(m - 1)
  <2>1. n \in 0..m
    BY <1>1
  <2> QED BY <1>1, <2>1, PlusIsOn
<1>4. d = [c EXCEPT !.buffer = w, !.tail = On(c.tail, n, m)]
  <2>1. \A k \in 0..(m - 1) : Ahead(c, c.tail, k) = Way(c.tail, k, m)
    BY <1>1, AheadIsWay
  <2>2. [k \in 0..(c.maxLen - 1) |-> IF Ahead(c, c.tail, k) < n THEN 0 ELSE c.buffer[k]] = w
    BY <1>1, <2>1
  <2> HIDE DEF w
  <2> QED BY <1>3, <2>2 DEF Drained
<1> HIDE DEF w, d
<1>5. IsRing(d, m) /\ d.head = c.head /\ d.tail = On(c.tail, n, m) /\ d.buffer = w
  BY <1>2, <1>3, <1>4 DEF IsRing
<1>6. Used(d) = Used(c) - n
  <2>1. Used(d) = Way(On(c.tail, n, m), c.head, m)
    BY <1>5, RingFacts
  <2>2. n \in 0..Way(c.tail, c.head, m)
    BY <1>1
  <2> QED BY <1>1, <2>1, <2>2, WayFrom
<1>7. s \in Seq(Bytes) /\ Len(s) = Used(c)
  BY StoredFacts
<1> HIDE DEF s
<1>8. u \in Seq(Bytes) /\ Len(u) = Used(c) - n /\ \A i \in 1..(Used(c) - n) : u[i] = s[n + i]
  <2>1. n + 1 \in Nat \ {0} /\ Used(c) \in Nat /\ Used(c) <= Len(s)
    BY <1>1, <1>7
  <2>2. /\ u \in Seq(Bytes)
        /\ Len(u) = IF n + 1 <= Used(c) THEN Used(c) - (n + 1) + 1 ELSE 0
        /\ \A i \in 1..(Used(c) - (n + 1) + 1) : u[i] = s[(n + 1) + i - 1]
    BY <1>7, <2>1, Slice
  <2>3. /\ Used(c) - (n + 1) + 1 = Used(c) - n
        /\ (~(n + 1 <= Used(c)) => Used(c) - n = 0)
        /\ \A i \in 1..(Used(c) - n) : (n + 1) + i - 1 = n + i
    BY <2>1
  <2> HIDE DEF u
  <2> QED BY <2>2, <2>3
<1> HIDE DEF u
<1>9. ASSUME NEW k \in 1..(Used(c) - n) PROVE Stored(d)[k] = u[k]
  <2> DEFINE j == On(d.tail, k - 1, m)
  <2>1. j \in 0..(m - 1) /\ Stored(d)[k] = w[j]
    BY <1>5, <1>6, StoredFacts
  <2>2. /\ k - 1 \in Nat /\ n \in Nat /\ k - 1 + n < m /\ n + (k - 1) \in 0..(m - 1)
        /\ n + k \in 1..Used(c) /\ (n + k) - 1 = n + (k - 1)
    BY <1>1
  <2>3. j = On(c.tail, n + (k - 1), m)
    BY <1>1, <1>5, <2>2, OnOn
  <2>4. Way(c.tail, j, m) = n + (k - 1)
    BY <1>1, <2>2, <2>3, WayThere
  <2>5. w[j] = c.buffer[j]
    <3> HIDE DEF j
    <3>1. ~(Way(c.tail, j, m) < n)
      BY <2>2, <2>4
    <3> QED BY <2>1, <3>1 DEF w
  <2>6. s[n + k] = c.buffer[j]
    BY <2>2, <2>3, StoredFacts DEF s
  <2> HIDE DEF j
  <2> QED BY <1>8, <2>1, <2>5, <2>6
<1>10. Stored(d) = u
  <2>1. Stored(d) \in Seq(Bytes) /\ Len(Stored(d)) = Used(c) - n
    BY <1>5, <1>6, StoredFacts
  <2> QED BY <1>8, <1>9, <2>1, SeqEqual
<1> QED BY <1>5, <1>6, <1>10 DEF d, u, s

(* A ring begins empty. *)
LEMMA EmptyRing ==
  ASSUME NEW m \in Nat \ {0}
  PROVE  /\ IsRing(CircBuf(m), m)
         /\ Used(CircBuf(m)) = 0
         /\ Stored(CircBuf(m)) = <<>>
         /\ Messages(CircBuf(m)) = <<>>
         /\ Whole(Stored(CircBuf(m)))
<1> DEFINE r == CircBuf(m)
<1>1. 0 \in Bytes /\ 0 \in 0..(m - 1)
  BY ByteAssumption DEF Bytes
<1>2. IsRing(r, m) /\ r.head = 0 /\ r.tail = 0
  BY <1>1 DEF IsRing, CircBuf
<1> HIDE DEF r
<1>3. Used(r) = 0
  <2>1. Used(r) = Way(0, 0, m)
    BY <1>2, RingFacts
  <2> QED BY <2>1 DEF Way
<1>4. Stored(r) \in Seq(Bytes) /\ Len(Stored(r)) = 0
  BY <1>2, <1>3, StoredFacts
<1>5. Stored(r) = <<>>
  BY <1>4, EmptySeq
<1> QED BY <1>2, <1>3, <1>5, NothingIsWhole DEF Messages, r

(* ---------------------- what push and pop amount to -------------------- *)

(* push_item keeps the bytes of a ring and adds those of its message, or   *)
(* none.                                                                   *)
LEMMA PushItem ==
  ASSUME NEW c, NEW m, IsRing(c, m), NEW data \in Seq(Bytes)
  PROVE  /\ IsRing(push_item(c, data).ring, m)
         /\ push_item(c, data).ret \in {0, -1}
         /\ push_item(c, data).ret = 0 <=> Len(Item(data)) <= Free(c)
         /\ push_item(c, data).ret = 0 =>
              Stored(push_item(c, data).ring) = Stored(c) \o Item(data)
         /\ push_item(c, data).ret # 0 =>
              Stored(push_item(c, data).ring) = Stored(c)
<1> DEFINE item == Item(data)
           p == push_item(c, data)
<1>1. item \in Seq(Bytes) /\ Len(item) \in Nat
  BY ItemType
<1>2. Free(c) \in Nat /\ c.maxLen = m
  BY RingFacts
<1> HIDE DEF item
<1>3. CASE Len(item) <= Free(c)
  <2>1. p.ret = 0 /\ p.ring = Pushed(c, item, Len(item))
    BY <1>3 DEF push_item, Pushed, item
  <2>2. Len(item) \in 0..Free(c) /\ Len(item) <= Len(item)
    BY <1>1, <1>2, <1>3
  <2>3. /\ IsRing(Pushed(c, item, Len(item)), m)
        /\ Stored(Pushed(c, item, Len(item))) = Stored(c) \o SubSeq(item, 1, Len(item))
    BY <1>1, <2>2, PushedFacts
  <2>4. SubSeq(item, 1, Len(item)) = item
    BY <1>1, SubSeqFull
  <2> HIDE DEF p
  <2> QED BY <1>3, <2>1, <2>3, <2>4 DEF item, p
<1>4. CASE ~(Len(item) <= Free(c))
  <2>1. p.ret = -1 /\ p.ring = PutBack(c, item, Free(c))
    BY <1>4 DEF push_item, PutBack, item
  <2>2. Free(c) \in 0..Free(c) /\ Free(c) <= Len(item)
    BY <1>1, <1>2, <1>4
  <2>3. /\ IsRing(PutBack(c, item, Free(c)), m)
        /\ Stored(PutBack(c, item, Free(c))) = Stored(c)
    BY <1>1, <2>2, PutBackFacts
  <2>4. -1 # 0
    OBVIOUS
  <2> HIDE DEF p
  <2> QED BY <1>4, <2>1, <2>3, <2>4 DEF item, p
<1> QED BY <1>3, <1>4

(* To a ring of whole messages push_item adds its message, or nothing.     *)
LEMMA PushMessages ==
  ASSUME NEW c, NEW m, IsRing(c, m), Whole(Stored(c)), NEW data, Sendable(data)
  PROVE  /\ IsRing(push_item(c, data).ring, m)
         /\ push_item(c, data).ret \in {0, -1}
         /\ Whole(Stored(push_item(c, data).ring))
         /\ push_item(c, data).ret = 0 =>
              Messages(push_item(c, data).ring) = Append(Messages(c), data)
         /\ push_item(c, data).ret # 0 =>
              Messages(push_item(c, data).ring) = Messages(c)
<1>1. data \in Seq(Bytes)
  BY DEF Sendable
<1>2. Stored(c) \in Seq(Bytes)
  BY StoredFacts
<1>3. /\ Parsed[Stored(c) \o Item(data)] = Append(Parsed[Stored(c)], data)
      /\ Whole(Stored(c) \o Item(data))
  BY <1>2, WholeAppend
<1> QED BY <1>1, <1>3, PushItem DEF Messages

(* From a ring of whole messages pop_item takes the first, if there is one. *)
LEMMA PopMessages ==
  ASSUME NEW c, NEW m, IsRing(c, m), Whole(Stored(c))
  PROVE  /\ IsRing(pop_item(c).ring, m)
         /\ Whole(Stored(pop_item(c).ring))
         /\ Messages(c) = <<>> => /\ pop_item(c).ret = -1
                                  /\ Messages(pop_item(c).ring) = <<>>
         /\ Messages(c) # <<>> => /\ pop_item(c).ret = 0
                                  /\ pop_item(c).data \in Seq(Bytes)
                                  /\ Messages(c) = <<pop_item(c).data>>
                                                     \o Messages(pop_item(c).ring)
<1> DEFINE s == Stored(c)
           p == pop_item(c)
<1>1. /\ s \in Seq(Bytes) /\ Len(s) = Used(c) /\ Used(c) \in Nat
  BY StoredFacts, RingFacts
<1>2. HeaderSize \in Nat \ {0}
  BY ByteAssumption
<1>3. CASE s = <<>>
  <2>1. Used(c) = 0
    BY <1>1, <1>3
  <2>2. p.ret = -1 /\ p.ring = Drained(c, 0)
    <3>1. Wanted(c) = HeaderSize + 0
      BY <1>2, <2>1 DEF Wanted
    <3>2. ~(Wanted(c) <= Used(c))
      BY <1>2, <2>1, <3>1
    <3> QED BY <2>1, <3>2 DEF pop_item
  <2>3. /\ IsRing(Drained(c, 0), m)
        /\ Stored(Drained(c, 0)) = SubSeq(s, 0 + 1, Used(c))
    BY <1>1, DrainedFacts
  <2>4. SubSeq(s, 0 + 1, Used(c)) = <<>>
    BY <2>1, SubSeqEmpty
  <2>5. Messages(c) = <<>>
    BY <1>3, NothingIsWhole DEF Messages
  <2> HIDE DEF p, s
  <2> QED BY <2>2, <2>3, <2>4, <2>5, NothingIsWhole DEF Messages, p, s
<1>4. CASE s # <<>>
  <2> DEFINE last == HeaderSize + LengthOf[SubSeq(s, 1, HeaderSize)]
             rest == SubSeq(s, last + 1, Len(s))
             first == SubSeq(s, HeaderSize + 1, last)
  <2>1. /\ Len(s) >= HeaderSize /\ last \in HeaderSize..Len(s)
        /\ first \in Seq(Bytes) /\ rest \in Seq(Bytes)
        /\ Parsed[s] = <<first>> \o Parsed[rest] /\ Whole(rest)
    <3> HIDE DEF last, s
    <3>1. Whole(s)
      BY DEF s
    <3> QED BY <1>1, <1>4, <3>1, FirstMessage DEF last
  <2>2. Wanted(c) = last /\ last <= Used(c) /\ last \in 0..Used(c)
    <3> HIDE DEF s
    <3>1. ~(Used(c) < HeaderSize)
      BY <1>1, <1>2, <2>1
    <3>2. Wanted(c) = last
      BY <3>1 DEF Wanted, s
    <3> HIDE DEF last
    <3> QED BY <1>1, <1>2, <2>1, <3>2
  <2>3. p.ret = 0 /\ p.data = first /\ p.ring = Drained(c, last)
    <3> HIDE DEF last
    <3> QED BY <2>2 DEF pop_item
  <2>4. IsRing(Drained(c, last), m) /\ Stored(Drained(c, last)) = rest
    <3> HIDE DEF last
    <3> QED BY <1>1, <2>2, DrainedFacts
  <2>5. Parsed[s] # <<>>
    <3>1. Parsed[rest] \in Seq(Seq(Nat))
      BY <2>1, ParsedFacts
    <3>2. <<first>> \in Seq(Seq(Nat))
      <4>1. Bytes \subseteq Nat
        BY ByteAssumption DEF Bytes
      <4>2. first \in Seq(Nat)
        BY <2>1, <4>1, SeqMonotonic
      <4> HIDE DEF first
      <4> QED BY <4>2
    <3>3. <<first>> # <<>>
      OBVIOUS
    <3> HIDE DEF first, rest, s
    <3> QED BY <2>1, <3>1, <3>2, <3>3, ConcatEqualIffEmpty
  <2> HIDE DEF p, s, first, rest, last
  <2> QED BY <2>1, <2>3, <2>4, <2>5 DEF Messages, p, s
<1> QED BY <1>3, <1>4
=============================================================================
