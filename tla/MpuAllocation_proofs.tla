------------------------ MODULE MpuAllocation_proofs ------------------------
(***************************************************************************)
(* Proofs about MpuAllocation: for any number of partitions, blocks are    *)
(* counted exactly, large enough, and in aligned regions or below them     *)
(* all; when no size is cut and no pair of sections divided, none is below *)
(* the regions and they are apart.                                         *)
(***************************************************************************)
EXTENDS MpuAllocation, Integers, FiniteSetTheorems, WellFoundedInduction, TLAPS

-----------------------------------------------------------------------------
(* Natural numbers.                                                        *)

(* A nonempty set of naturals has the minimum Min chooses. *)
LEMMA MinOfNaturals ==
  ASSUME NEW S \in SUBSET Nat, S # {}
  PROVE  Min(S) \in S /\ \A y \in S : Min(S) <= y
<1> DEFINE I == {1..n : n \in S}
           R == StrictSubsetOrdering(Nat)
<1>1. I \subseteq FiniteSubsetsOf(Nat) /\ I # {}
  <2>1. \A n \in S : IsFiniteSet(1..n) /\ 1..n \subseteq Nat
    BY FS_Interval
  <2> QED BY <2>1 DEF FiniteSubsetsOf
<1>2. PICK X \in I : \A Y \in I : ~(<<Y, X>> \in R)
  <2> HIDE DEF I, R
  <2>1. IsWellFoundedOn(R, FiniteSubsetsOf(Nat))
    BY FS_StrictSubsetOrderingWellFounded DEF R
  <2> QED BY <1>1, <2>1, WFMin
<1>3. PICK x \in S : X = 1..x
  OBVIOUS
<1>4. ASSUME NEW y \in S, ~(x <= y) PROVE FALSE
  <2>1. 1..y \subseteq 1..x /\ 1..y # 1..x
    <3>1. x \in 1..x /\ x \notin 1..y
      BY <1>4
    <3> QED BY <1>4, <3>1
  <2>2. 1..y \in SUBSET Nat /\ 1..x \in SUBSET Nat
    OBVIOUS
  <2>3. <<1..y, 1..x>> \in R
    BY <2>1, <2>2 DEF StrictSubsetOrdering
  <2> QED BY <1>2, <1>3, <2>3
<1> QED BY <1>3, <1>4 DEF Min

(* The greatest of numbers that have a bound. *)
LEMMA MaxOfBounded ==
  ASSUME NEW n \in Nat, NEW S \in SUBSET (0..n), S # {}
  PROVE  Max(S) \in S /\ \A y \in S : Max(S) >= y
<1> DEFINE R == {n - x : x \in S}
<1>0. \A x \in S : x \in Int /\ x >= 0 /\ n - x \in Nat
  OBVIOUS
<1>1. R \in SUBSET Nat /\ R # {}
  BY <1>0
<1>2. PICK r \in R : \A y \in R : r <= y
  <2> HIDE DEF R
  <2> QED BY <1>1, MinOfNaturals
<1>3. PICK x \in S : r = n - x
  BY <1>2
<1>4. ASSUME NEW y \in S PROVE x >= y
  <2>1. n - y \in R
    OBVIOUS
  <2>2. n - x <= n - y
    BY <1>2, <1>3, <2>1
  <2>3. x \in Int /\ y \in Int
    BY <1>0
  <2> QED BY <2>2, <2>3
<1>5. \E z \in S : \A y \in S : z >= y
  BY <1>4
<1> QED BY <1>5 DEF Max

(* Division with remainder, and the remainder is unique. *)
LEMMA DivMod ==
  ASSUME NEW m \in Nat \ {0}, NEW u \in Nat
  PROVE  /\ u % m \in 0..(m - 1)
         /\ u \div m \in Nat
         /\ u = m * (u \div m) + (u % m)
OBVIOUS

LEMMA ModUnique ==
  ASSUME NEW m \in Nat \ {0}, NEW q \in Nat, NEW r \in 0..(m - 1)
  PROVE  (m * q + r) % m = r
OBVIOUS

(* What holds of 0 and of a number's successor holds up to n. *)
LEMMA UpToEnd ==
  ASSUME NEW n \in Nat, NEW S, 0 \in S, \A i \in 1..n : i - 1 \in S => i \in S
  PROVE  \A i \in 0..n : i \in S
<1> SUFFICES ASSUME {i \in 0..n : i \notin S} # {} PROVE FALSE
  OBVIOUS
<1> DEFINE Bad == {i \in 0..n : i \notin S}
<1>1. PICK k \in Bad : \A i \in Bad : k <= i
  <2>1. Bad \in SUBSET Nat /\ Bad # {}
    OBVIOUS
  <2> HIDE DEF Bad
  <2> QED BY <2>1, MinOfNaturals
<1>2. k \in 1..n
  BY <1>1
<1>3. k - 1 \in S
  <2>1. k - 1 \in 0..n /\ ~(k <= k - 1)
    BY <1>2
  <2> QED BY <1>1, <2>1
<1> QED BY <1>1, <1>2, <1>3

-----------------------------------------------------------------------------
(* The scan that Best makes.                                               *)

Entry == [vec : Nat, perc : Nat]
Unlisted(n) == [k \in 1..n |-> [vec |-> 0, perc |-> 0]]

IsScan(f, b, n, low, high) ==
  /\ f \in [0..Len(memory) -> [1..n -> Entry]]
  /\ f[0] = Unlisted(n)
  /\ \A i \in 1..Len(memory) :
       f[i] = IF Candidate(b, low, high, i) THEN Inserted(f[i - 1], i) ELSE f[i - 1]

IsChain(f, m, V, init, Step) ==
  /\ f \in [0..m -> V]
  /\ f[0] = init
  /\ \A i \in 1..m : f[i] = Step[<<i, f[i - 1]>>]

LEMMA InsertedType ==
  ASSUME NEW n \in Nat, NEW best \in [1..n -> Entry], NEW i \in Nat,
         memory[i] \in Nat, PercWord \in Nat \ {0}
  PROVE  Inserted(best, i) \in [1..n -> Entry]
<1>1. memory[i] % PercWord \in Nat
  OBVIOUS
<1>2. ASSUME NEW k \in 1..n, \E l \in 1..(k - 1) : best[l].perc < memory[i]
      PROVE  best[k - 1] \in Entry
  <2>1. k - 1 \in 1..n
    BY <1>2
  <2> QED BY <2>1
<1> QED BY <1>1, <1>2 DEF Inserted, Entry

(* A list that is made from the one before it: there is a scan. *)
LEMMA ScanExists ==
  ASSUME NEW m \in Nat, NEW V, NEW init \in V,
         NEW Step \in [(1..m) \X V -> V]
  PROVE  \E f : IsChain(f, m, V, init, Step)
<1> DEFINE S == {i \in 0..m : \E f : IsChain(f, i, V, init, Step)}
<1>1. 0 \in S
  <2> DEFINE f == [x \in 0..0 |-> init]
  <2>1. f \in [0..0 -> V] /\ f[0] = init /\ 1..0 = {}
    OBVIOUS
  <2> HIDE DEF f
  <2>2. IsChain(f, 0, V, init, Step)
    BY <2>1 DEF IsChain
  <2> QED BY <2>2
<1>2. ASSUME NEW i \in 1..m, i - 1 \in S PROVE i \in S
  <2>1. PICK f : IsChain(f, i - 1, V, init, Step)
    BY <1>2
  <2> DEFINE v == Step[<<i, f[i - 1]>>]
             g == [x \in 0..i |-> IF x = i THEN v ELSE f[x]]
  <2>2. i - 1 \in 0..(i - 1) /\ i \in 0..i /\ 0 \in 0..i /\ 0 # i
        /\ \A x \in 0..i : x = i \/ x \in 0..(i - 1)
    OBVIOUS
  <2>3. v \in V
    <3>1. f[i - 1] \in V
      BY <2>1, <2>2 DEF IsChain
    <3> QED BY <3>1
  <2> HIDE DEF v
  <2>4. g \in [0..i -> V] /\ g[0] = init
    BY <2>1, <2>2, <2>3 DEF IsChain
  <2>5. ASSUME NEW x \in 1..i PROVE g[x] = Step[<<x, g[x - 1]>>]
    <3>1. x \in 0..i /\ x - 1 \in 0..i /\ x - 1 # i
      OBVIOUS
    <3>2. g[x - 1] = f[x - 1]
      BY <3>1
    <3>3. CASE x = i
      BY <2>2, <3>2, <3>3 DEF v
    <3>4. CASE x # i
      <4>1. x \in 1..(i - 1)
        BY <3>4
      <4>2. f[x] = Step[<<x, f[x - 1]>>]
        BY <2>1, <4>1 DEF IsChain
      <4> QED BY <3>1, <3>2, <3>4, <4>2
    <3> QED BY <3>3, <3>4
  <2> HIDE DEF g
  <2>6. IsChain(g, i, V, init, Step)
    BY <2>4, <2>5 DEF IsChain
  <2> QED BY <2>6
<1>3. m \in 0..m
  OBVIOUS
<1> HIDE DEF S
<1>4. m \in S
  BY <1>1, <1>2, <1>3, UpToEnd
<1> QED BY <1>4 DEF S

LEMMA BestIsScan ==
  ASSUME NEW b, NEW n \in Nat, NEW low, NEW high, memory \in Seq(Nat),
         PercWord \in Nat \ {0}
  PROVE  \E f : /\ IsScan(f, b, n, low, high)
                /\ Best(b, n, low, high) = f[Len(memory)]
<1> DEFINE m == Len(memory)
           V == [1..n -> Entry]
           Step == [x \in (1..m) \X V |->
                      IF Candidate(b, low, high, x[1]) THEN Inserted(x[2], x[1]) ELSE x[2]]
<1>1. m \in Nat /\ Unlisted(n) \in V
  BY DEF Unlisted, Entry
<1>2. \A i \in 1..m : memory[i] \in Nat
  OBVIOUS
<1>3. Step \in [(1..m) \X V -> V]
  <2>1. ASSUME NEW x \in (1..m) \X V
        PROVE  (IF Candidate(b, low, high, x[1]) THEN Inserted(x[2], x[1]) ELSE x[2]) \in V
    <3>1. x[1] \in 1..m /\ x[1] \in Nat /\ x[2] \in V
      BY <2>1
    <3>2. Inserted(x[2], x[1]) \in V
      BY <1>2, <3>1, InsertedType
    <3> QED BY <3>1, <3>2
  <2> HIDE DEF V, m
  <2> QED BY <2>1
<1>4. PICK f : IsChain(f, m, V, Unlisted(n), Step)
  <2> HIDE DEF V, Step, m
  <2> QED BY <1>1, <1>3, ScanExists
<1>5. \A i \in 1..m : i - 1 \in 0..m /\ f[i - 1] \in V
  <2>1. \A i \in 1..m : i - 1 \in 0..m
    OBVIOUS
  <2> HIDE DEF V, m
  <2> QED BY <1>4, <2>1 DEF IsChain
<1>6. \A i \in 1..m :
         f[i] = IF Candidate(b, low, high, i) THEN Inserted(f[i - 1], i) ELSE f[i - 1]
  <2>1. \A i \in 1..m : Step[<<i, f[i - 1]>>] =
           IF Candidate(b, low, high, i) THEN Inserted(f[i - 1], i) ELSE f[i - 1]
    <3> HIDE DEF V, m
    <3> QED BY <1>5
  <2> HIDE DEF V, Step, m
  <2> QED BY <1>4, <2>1 DEF IsChain
<1> DEFINE IsBest(g) ==
      g = [i \in 0..Len(memory) |->
             IF i = 0 THEN [k \in 1..n |-> [vec |-> 0, perc |-> 0]]
             ELSE IF Candidate(b, low, high, i) THEN Inserted(g[i - 1], i)
             ELSE g[i - 1]]
           best == CHOOSE g : IsBest(g)
<1>7. IsBest(f)
  <2>1. f \in [0..m -> V] /\ f[0] = [k \in 1..n |-> [vec |-> 0, perc |-> 0]]
    BY <1>4 DEF IsChain, Unlisted
  <2> HIDE DEF V
  <2> QED BY <1>6, <2>1
<1>8. IsBest(best)
  <2> HIDE DEF IsBest
  <2> QED BY <1>7
<1>9. Best(b, n, low, high) = best[Len(memory)]
  BY DEF Best
<1>10. best[0] = Unlisted(n) /\ DOMAIN best = 0..m
         /\ \A i \in 1..m :
              best[i] = IF Candidate(b, low, high, i) THEN Inserted(best[i - 1], i)
                                                      ELSE best[i - 1]
  <2> HIDE DEF best
  <2>1. best = [i \in 0..m |->
                  IF i = 0 THEN [k \in 1..n |-> [vec |-> 0, perc |-> 0]]
                  ELSE IF Candidate(b, low, high, i) THEN Inserted(best[i - 1], i)
                  ELSE best[i - 1]]
    BY <1>8
  <2>2. 0 \in 0..m /\ \A i \in 1..m : i \in 0..m /\ i # 0
    BY <1>1
  <2> HIDE DEF IsBest, m
  <2> QED BY <2>1, <2>2 DEF Unlisted
<1>11. \A i \in 0..m : best[i] \in V
  <2> DEFINE S == {i \in 0..m : best[i] \in V}
  <2> HIDE DEF best, V
  <2>1. 0 \in S
    BY <1>1, <1>10
  <2>2. \A i \in 1..m : i - 1 \in S => i \in S
    <3> SUFFICES ASSUME NEW i \in 1..m, i - 1 \in S PROVE best[i] \in V
      OBVIOUS
    <3>1. memory[i] \in Nat /\ i \in Nat /\ best[i - 1] \in V
      BY <1>2
    <3>2. Inserted(best[i - 1], i) \in V
      BY <3>1, InsertedType DEF V
    <3> QED BY <1>10, <3>1, <3>2
  <2>3. \A i \in 0..m : i \in S
    <3> HIDE DEF S, m
    <3> QED BY <1>1, <2>1, <2>2, UpToEnd
  <2> QED BY <2>3
<1>12. IsScan(best, b, n, low, high)
  <2>1. best \in [0..m -> V]
    <3>1. best = [i \in 0..m |-> best[i]]
      BY <1>8
    <3> HIDE DEF best, V, m
    <3> QED BY <1>11, <3>1
  <2> HIDE DEF best
  <2> QED BY <1>10, <2>1 DEF IsScan
<1> HIDE DEF best
<1> QED BY <1>9, <1>12

(* A list of the best tells candidates apart, and has its gaps at the end. *)
Listed(best, n, i, b, low, high) ==
  /\ \A k \in 1..n : best[k].vec \in 0..i
  /\ \A k \in 1..n : best[k].vec = 0 => best[k].perc = 0
  /\ \A k \in 1..n : \A l \in 1..n : k < l /\ best[k].vec = 0 => best[l].vec = 0
  /\ \A k \in 1..n : best[k].vec # 0 => /\ Candidate(b, low, high, best[k].vec)
                                       /\ best[k].perc = memory[best[k].vec] % PercWord
  /\ \A k \in 1..n : \A l \in 1..n : k < l /\ best[k].vec # 0 => best[k].vec # best[l].vec

(* It keeps sizes, and none it has seen is larger than its first. *)
Exact(best, n, i, b, low, high) ==
  /\ \A k \in 1..n : best[k].vec # 0 => best[k].perc = memory[best[k].vec]
  /\ \A c \in 1..i : Candidate(b, low, high, c) => memory[c] <= best[1].perc

LEMMA InsertedListed ==
  ASSUME NEW n \in Nat, NEW best \in [1..n -> Entry], NEW i \in Nat \ {0},
         memory[i] \in Nat \ {0}, PercWord \in Nat \ {0},
         NEW b, NEW low, NEW high, Candidate(b, low, high, i),
         Listed(best, n, i - 1, b, low, high)
  PROVE  Listed(Inserted(best, i), n, i, b, low, high)
<1> DEFINE new == Inserted(best, i)
           Later(k) == \E l \in 1..(k - 1) : best[l].perc < memory[i]
           old == [vec |-> i, perc |-> memory[i] % PercWord]
<1>0. \A k \in 1..n : best[k].perc \in Nat /\ best[k].vec \in 0..(i - 1)
  BY DEF Entry, Listed
<1>1. \A k \in 1..n :
        new[k] = IF Later(k) THEN best[k - 1]
                 ELSE IF best[k].perc < memory[i] THEN old ELSE best[k]
  BY DEF Inserted
<1>2. \A k \in 1..n : Later(k) => k - 1 \in 1..n
  OBVIOUS
<1>3. \A k \in 1..n : \A l \in 1..n : k < l /\ Later(k) => Later(l)
  OBVIOUS
<1>4. \A k \in 1..n : \A l \in 1..n : k < l /\ best[k].perc < memory[i] => Later(l)
  OBVIOUS
<1>5. \A k \in 1..n : best[k].vec = 0 => best[k].perc < memory[i]
  BY DEF Listed
<1> HIDE DEF new, Later
<1>6. \A k \in 1..n : new[k].vec \in 0..i
  <2>1. old.vec = i
    OBVIOUS
  <2> HIDE DEF old
  <2> QED BY <1>0, <1>1, <1>2, <2>1
<1>7. \A k \in 1..n : new[k].vec = 0 => new[k].perc = 0
  <2>1. old.vec # 0
    OBVIOUS
  <2> HIDE DEF old
  <2> QED BY <1>1, <1>2, <2>1, SMTT(30) DEF Listed
<1>8. \A k \in 1..n : \A l \in 1..n : k < l /\ new[k].vec = 0 => new[l].vec = 0
  <2> SUFFICES ASSUME NEW k \in 1..n, NEW l \in 1..n, k < l, new[k].vec = 0
               PROVE  new[l].vec = 0
    OBVIOUS
  <2>1. old.vec # 0
    OBVIOUS
  <2> HIDE DEF old
  <2>2. CASE Later(k)
    <3>1. best[k - 1].vec = 0 /\ k - 1 \in 1..n /\ new[l] = best[l - 1] /\ l - 1 \in 1..n
      BY <1>1, <1>2, <1>3, <2>2
    <3> QED BY <3>1 DEF Listed
  <2>3. CASE ~Later(k)
    <3>1. ~(best[k].perc < memory[i]) /\ best[k].vec = 0
      BY <1>1, <2>1, <2>3
    <3> QED BY <1>5, <3>1
  <2> QED BY <2>2, <2>3
<1>9. \A k \in 1..n : new[k].vec # 0 => /\ Candidate(b, low, high, new[k].vec)
                                        /\ new[k].perc = memory[new[k].vec] % PercWord
  <2>1. old.vec = i /\ old.perc = memory[i] % PercWord
    OBVIOUS
  <2> HIDE DEF old
  <2> QED BY <1>1, <1>2, <2>1, SMTT(30) DEF Listed
<1>10. \A k \in 1..n : \A l \in 1..n : k < l /\ new[k].vec # 0 => new[k].vec # new[l].vec
  <2> SUFFICES ASSUME NEW k \in 1..n, NEW l \in 1..n, k < l, new[k].vec # 0,
                      new[k].vec = new[l].vec
               PROVE  FALSE
    OBVIOUS
  <2>1. old.vec = i
    OBVIOUS
  <2> HIDE DEF old
  <2>2. CASE Later(k)
    <3>1. /\ k - 1 \in 1..n /\ l - 1 \in 1..n /\ k - 1 < l - 1
          /\ new[k] = best[k - 1] /\ new[l] = best[l - 1]
      BY <1>1, <1>2, <1>3, <2>2
    <3> QED BY <3>1 DEF Listed
  <2>3. CASE ~Later(k) /\ best[k].perc < memory[i]
    <3>1. new[k] = old /\ new[l] = best[l - 1] /\ l - 1 \in 1..n
      BY <1>1, <1>2, <1>4, <2>3
    <3>2. best[l - 1].vec # i
      BY <1>0, <3>1
    <3> QED BY <2>1, <3>1, <3>2
  <2>4. CASE ~Later(k) /\ ~(best[k].perc < memory[i])
    <3>1. new[k] = best[k]
      BY <1>1, <2>4
    <3>2. CASE Later(l)
      <4>1. l - 1 \in 1..n /\ new[l] = best[l - 1]
        BY <1>1, <1>2, <3>2
      <4>2. CASE k < l - 1
        BY <3>1, <4>1, <4>2 DEF Listed
      <4>3. CASE ~(k < l - 1)
        <5>1. l - 1 = k
          BY <4>3
        <5>2. PICK q \in 1..(l - 1) : best[q].perc < memory[i]
          BY <3>2 DEF Later
        <5>3. q = k \/ q \in 1..(k - 1)
          BY <5>1, <5>2
        <5> QED BY <2>4, <5>2, <5>3 DEF Later
      <4> QED BY <4>2, <4>3
    <3>3. CASE ~Later(l) /\ best[l].perc < memory[i]
      <4>1. new[l] = old /\ best[k].vec # i
        BY <1>0, <1>1, <3>3
      <4> QED BY <2>1, <3>1, <4>1
    <3>4. CASE ~Later(l) /\ ~(best[l].perc < memory[i])
      <4>1. new[l] = best[l]
        BY <1>1, <3>4
      <4> QED BY <3>1, <4>1 DEF Listed
    <3> QED BY <3>2, <3>3, <3>4
  <2> QED BY <2>2, <2>3, <2>4
<1> HIDE DEF old
<1> QED BY <1>6, <1>7, <1>8, <1>9, <1>10 DEF Listed, new

LEMMA InsertedExact ==
  ASSUME NEW n \in Nat \ {0}, NEW best \in [1..n -> Entry], NEW i \in Nat \ {0},
         memory[i] \in 1..(PercWord - 1), PercWord \in Nat \ {0},
         NEW b, NEW low, NEW high, Candidate(b, low, high, i),
         \A c \in 1..i : memory[c] \in Nat,
         Exact(best, n, i - 1, b, low, high)
  PROVE  Exact(Inserted(best, i), n, i, b, low, high)
<1> DEFINE new == Inserted(best, i)
           Later(k) == \E l \in 1..(k - 1) : best[l].perc < memory[i]
           old == [vec |-> i, perc |-> memory[i] % PercWord]
<1>1. \A k \in 1..n :
        new[k] = IF Later(k) THEN best[k - 1]
                 ELSE IF best[k].perc < memory[i] THEN old ELSE best[k]
  BY DEF Inserted
<1>2. \A k \in 1..n : Later(k) => k - 1 \in 1..n
  OBVIOUS
<1>3. 1 \in 1..n /\ ~Later(1)
  OBVIOUS
<1>4. old.vec = i /\ old.perc = memory[i]
  <2>1. memory[i] % PercWord = memory[i]
    <3>1. 0 \in Nat /\ memory[i] \in 0..(PercWord - 1) /\ PercWord * 0 + memory[i] = memory[i]
      OBVIOUS
    <3> QED BY <3>1, ModUnique
  <2> QED BY <2>1
<1>5. \A k \in 1..n : best[k].perc \in Nat
  BY DEF Entry
<1> HIDE DEF new, Later, old
<1>6. \A k \in 1..n : new[k].vec # 0 => new[k].perc = memory[new[k].vec]
  BY <1>1, <1>2, <1>4 DEF Exact
<1>7. new[1].perc >= best[1].perc /\ new[1].perc >= memory[i]
  <2>1. new[1] = IF best[1].perc < memory[i] THEN old ELSE best[1]
    BY <1>1, <1>3
  <2> QED BY <1>3, <1>4, <1>5, <2>1
<1>8. new[1].perc \in Nat
  BY <1>1, <1>3, <1>4, <1>5
<1>9. \A c \in 1..i : Candidate(b, low, high, c) => memory[c] <= new[1].perc
  <2> SUFFICES ASSUME NEW c \in 1..i, Candidate(b, low, high, c)
               PROVE  memory[c] <= new[1].perc
    OBVIOUS
  <2>1. CASE c = i
    BY <1>7, <2>1
  <2>2. CASE c # i
    <3>1. c \in 1..(i - 1) /\ memory[c] \in Nat
      BY <2>2
    <3>2. memory[c] <= best[1].perc
      BY <3>1 DEF Exact
    <3> QED BY <1>3, <1>5, <1>7, <1>8, <3>1, <3>2
  <2> QED BY <2>1, <2>2
<1> QED BY <1>6, <1>9 DEF Exact, new

LEMMA BestListed ==
  ASSUME NEW b, NEW n \in Nat \ {0}, NEW low, NEW high, memory \in Seq(Nat \ {0}),
         PercWord \in Nat \ {0}
  PROVE  /\ Best(b, n, low, high) \in [1..n -> Entry]
         /\ Listed(Best(b, n, low, high), n, Len(memory), b, low, high)
<1> DEFINE m == Len(memory)
<1>1. memory \in Seq(Nat) /\ m \in Nat /\ \A i \in 1..m : memory[i] \in Nat \ {0}
  OBVIOUS
<1>2. PICK f : IsScan(f, b, n, low, high) /\ Best(b, n, low, high) = f[m]
  BY <1>1, BestIsScan
<1>3. \A i \in 0..m : f[i] \in [1..n -> Entry]
  BY <1>2 DEF IsScan
<1> DEFINE S == {i \in 0..m : Listed(f[i], n, i, b, low, high)}
<1> HIDE DEF m
<1>4. 0 \in S
  BY <1>1, <1>2 DEF IsScan, Listed, Unlisted
<1>5. ASSUME NEW i \in 1..m, i - 1 \in S PROVE i \in S
  <2>1. /\ f[i - 1] \in [1..n -> Entry] /\ memory[i] \in Nat \ {0} /\ i \in Nat \ {0}
        /\ Listed(f[i - 1], n, i - 1, b, low, high)
    BY <1>1, <1>3, <1>5
  <2>2. f[i] = IF Candidate(b, low, high, i) THEN Inserted(f[i - 1], i) ELSE f[i - 1]
    BY <1>2 DEF IsScan, m
  <2>3. CASE Candidate(b, low, high, i)
    <3>1. Listed(Inserted(f[i - 1], i), n, i, b, low, high)
      <4> HIDE DEF S
      <4> QED BY <2>1, <2>3, InsertedListed
    <3> QED BY <2>2, <2>3, <3>1
  <2>4. CASE ~Candidate(b, low, high, i)
    <3>1. \A v \in 0..(i - 1) : v \in 0..i
      OBVIOUS
    <3>2. Listed(f[i - 1], n, i, b, low, high)
      <4> HIDE DEF S
      <4> QED BY <2>1, <3>1 DEF Listed
    <3> QED BY <2>2, <2>4, <3>2
  <2> QED BY <2>3, <2>4
<1>6. m \in S
  <2>1. \A i \in 0..m : i \in S
    <3> HIDE DEF S
    <3> QED BY <1>1, <1>4, <1>5, UpToEnd
  <2> QED BY <1>1, <2>1
<1> QED BY <1>1, <1>2, <1>3, <1>6 DEF m

LEMMA BestExact ==
  ASSUME NEW b, NEW n \in Nat \ {0}, NEW low, NEW high, memory \in Seq(Nat \ {0}),
         PercWord \in Nat \ {0},
         \A i \in 1..Len(memory) : Candidate(b, low, high, i) => memory[i] < PercWord
  PROVE  Exact(Best(b, n, low, high), n, Len(memory), b, low, high)
<1> DEFINE m == Len(memory)
<1>1. memory \in Seq(Nat) /\ m \in Nat /\ \A i \in 1..m : memory[i] \in Nat \ {0}
  OBVIOUS
<1>2. PICK f : IsScan(f, b, n, low, high) /\ Best(b, n, low, high) = f[m]
  BY <1>1, BestIsScan
<1>3. \A i \in 0..m : f[i] \in [1..n -> Entry]
  BY <1>2 DEF IsScan
<1> DEFINE S == {i \in 0..m : Exact(f[i], n, i, b, low, high)}
<1>0. \A i \in 1..m : Candidate(b, low, high, i) => memory[i] < PercWord
  OBVIOUS
<1> HIDE DEF m
<1>4. 0 \in S
  BY <1>1, <1>2 DEF IsScan, Exact, Unlisted
<1>5. ASSUME NEW i \in 1..m, i - 1 \in S PROVE i \in S
  <2>1. /\ f[i - 1] \in [1..n -> Entry] /\ memory[i] \in Nat \ {0} /\ i \in Nat \ {0}
        /\ Exact(f[i - 1], n, i - 1, b, low, high)
        /\ \A c \in 1..i : memory[c] \in Nat
    BY <1>1, <1>3, <1>5
  <2>2. f[i] = IF Candidate(b, low, high, i) THEN Inserted(f[i - 1], i) ELSE f[i - 1]
    BY <1>2 DEF IsScan, m
  <2>3. CASE Candidate(b, low, high, i)
    <3>1. memory[i] \in 1..(PercWord - 1)
      BY <1>0, <2>1, <2>3
    <3>2. Exact(Inserted(f[i - 1], i), n, i, b, low, high)
      <4> HIDE DEF S
      <4> QED BY <2>1, <2>3, <3>1, InsertedExact
    <3> QED BY <2>2, <2>3, <3>2
  <2>4. CASE ~Candidate(b, low, high, i)
    <3>1. \A c \in 1..i : c = i \/ c \in 1..(i - 1)
      OBVIOUS
    <3>2. Exact(f[i - 1], n, i, b, low, high)
      <4> HIDE DEF S
      <4> QED BY <2>1, <2>4, <3>1 DEF Exact
    <3> QED BY <2>2, <2>4, <3>2
  <2> QED BY <2>3, <2>4
<1>6. m \in S
  <2>1. \A i \in 0..m : i \in S
    <3> HIDE DEF S
    <3> QED BY <1>1, <1>4, <1>5, UpToEnd
  <2> QED BY <1>1, <2>1
<1> QED BY <1>1, <1>2, <1>6 DEF m

(* The best of all is the second of those that ask for less only if the    *)
(* first of these has a size that is not lost.                             *)
LEMMA BestOfMore ==
  ASSUME NEW b, NEW lower \in Nat, NEW high \in Nat, lower <= high,
         memory \in Seq(Nat \ {0}), PercWord \in Nat \ {0},
         Best(b, 1, 0, high)[1].vec # 0,
         Best(b, 1, 0, high)[1].vec = Best(b, 2, 0, lower)[2].vec
  PROVE  Best(b, 2, 0, lower)[1].perc # 0
<1> DEFINE m == Len(memory)
<1>1. memory \in Seq(Nat) /\ m \in Nat /\ \A i \in 1..m : memory[i] \in Nat \ {0}
  OBVIOUS
<1>2. PICK f : IsScan(f, b, 1, 0, high) /\ Best(b, 1, 0, high) = f[m]
  BY <1>1, BestIsScan
<1>3. PICK g : IsScan(g, b, 2, 0, lower) /\ Best(b, 2, 0, lower) = g[m]
  BY <1>1, BestIsScan
<1>4. \A i \in 0..m : f[i] \in [1..1 -> Entry] /\ g[i] \in [1..2 -> Entry]
  BY <1>2, <1>3 DEF IsScan
<1> DEFINE Good(i) == /\ f[i][1].vec \in 0..i
                      /\ g[i][1].vec \in 0..i
                      /\ g[i][2].vec \in 0..i
                      /\ f[i][1].perc < PercWord
                      /\ f[i][1].vec # 0 /\ f[i][1].vec = g[i][2].vec => g[i][1].perc # 0
           S == {i \in 0..m : Good(i)}
<1> HIDE DEF m
<1>5. 0 \in S
  BY <1>1, <1>2, <1>3 DEF IsScan, Unlisted
<1>6. ASSUME NEW i \in 1..m, i - 1 \in S PROVE i \in S
  <2> DEFINE p == f[i - 1]
             q == g[i - 1]
             new == [vec |-> i, perc |-> memory[i] % PercWord]
  <2>1. /\ p \in [1..1 -> Entry] /\ q \in [1..2 -> Entry] /\ memory[i] \in Nat \ {0}
        /\ i \in 0..m /\ i \in Nat \ {0} /\ Good(i - 1)
    BY <1>1, <1>4, <1>6
  <2>2. f[i] = IF Candidate(b, 0, high, i) THEN Inserted(p, i) ELSE p
    BY <1>2 DEF IsScan, m
  <2>3. g[i] = IF Candidate(b, 0, lower, i) THEN Inserted(q, i) ELSE q
    BY <1>3 DEF IsScan, m
  <2>4. Candidate(b, 0, lower, i) => Candidate(b, 0, high, i)
    BY <2>1 DEF Candidate
  <2>5. Inserted(p, i)[1] = IF p[1].perc < memory[i] THEN new ELSE p[1]
    BY <2>1 DEF Inserted
  <2>6. Inserted(q, i)[1] = IF q[1].perc < memory[i] THEN new ELSE q[1]
    BY <2>1 DEF Inserted
  <2>7. Inserted(q, i)[2] = IF q[1].perc < memory[i] THEN q[1]
                            ELSE IF q[2].perc < memory[i] THEN new ELSE q[2]
    <3>1. \E l \in 1..(2 - 1) : q[l].perc < memory[i] <=> q[1].perc < memory[i]
      OBVIOUS
    <3>2. 2 \in DOMAIN q /\ 2 - 1 = 1
      BY <2>1
    <3> QED BY <3>1, <3>2 DEF Inserted
  <2>8. p[1] \in Entry /\ q[1] \in Entry /\ q[2] \in Entry
    BY <2>1
  <2>9. new.vec = i /\ (memory[i] < PercWord => new.perc # 0)
    <3>1. ASSUME memory[i] < PercWord PROVE memory[i] % PercWord = memory[i]
      <4>1. 0 \in Nat /\ memory[i] \in 0..(PercWord - 1) /\ PercWord * 0 + memory[i] = memory[i]
        BY <2>1, <3>1
      <4> QED BY <4>1, ModUnique
    <3> QED BY <2>1, <3>1
  <2>10. new.perc \in Nat /\ new.perc < PercWord
    BY <2>1, SMTT(30)
  <2>11. p[1].perc \in Nat /\ q[1].perc \in Nat /\ q[2].perc \in Nat
    BY <2>8 DEF Entry
  <2>12. /\ p[1].vec \in 0..(i - 1) /\ q[1].vec \in 0..(i - 1) /\ q[2].vec \in 0..(i - 1)
         /\ p[1].perc < PercWord
         /\ p[1].vec # 0 /\ p[1].vec = q[2].vec => q[1].perc # 0
    BY <2>1
  <2> HIDE DEF p, q, new
  <2>13. \A v \in 0..(i - 1) : v \in 0..i /\ v # i
    BY <2>1
  <2>14. f[i][1] = p[1] \/ f[i][1] = new
    BY <2>2, <2>5
  <2>15. /\ g[i][1] = q[1] \/ g[i][1] = new
         /\ g[i][2] = q[1] \/ g[i][2] = q[2] \/ g[i][2] = new
    BY <2>3, <2>6, <2>7
  <2>16. /\ f[i][1].vec \in 0..i /\ g[i][1].vec \in 0..i /\ g[i][2].vec \in 0..i
         /\ f[i][1].perc < PercWord
    <3>1. new.vec \in 0..i /\ p[1].vec \in 0..i /\ q[1].vec \in 0..i /\ q[2].vec \in 0..i
      BY <2>1, <2>9, <2>12, <2>13, SMTT(30)
    <3>2. f[i][1].vec \in 0..i /\ f[i][1].perc < PercWord
      BY <2>10, <2>12, <2>14, <3>1
    <3> QED BY <2>15, <3>1, <3>2
  <2>17. ASSUME f[i][1].vec # 0, f[i][1].vec = g[i][2].vec PROVE g[i][1].perc # 0
    <3>1. CASE ~Candidate(b, 0, lower, i)
      <4>1. g[i] = q
        BY <2>3, <3>1
      <4>2. f[i][1] = p[1]
        BY <2>9, <2>12, <2>13, <2>14, <2>17, <4>1
      <4> QED BY <2>12, <2>17, <4>1, <4>2
    <3>2. CASE Candidate(b, 0, lower, i) /\ q[1].perc < memory[i]
      <4>1. g[i][1] = new /\ g[i][2] = q[1]
        BY <2>3, <2>6, <2>7, <3>2
      <4>2. f[i][1] # new
        BY <2>9, <2>12, <2>13, <2>17, <4>1
      <4>3. ~(p[1].perc < memory[i])
        BY <2>2, <2>4, <2>5, <3>2, <4>2
      <4> QED BY <2>1, <2>9, <2>11, <2>12, <4>1, <4>3
    <3>3. CASE Candidate(b, 0, lower, i) /\ ~(q[1].perc < memory[i])
      <4>1. g[i][1] = q[1]
        BY <2>3, <2>6, <3>3
      <4> QED BY <2>1, <2>11, <3>3, <4>1
    <3> QED BY <3>1, <3>2, <3>3
  <2> QED BY <2>1, <2>16, <2>17
<1>7. m \in S
  <2>1. \A i \in 0..m : i \in S
    <3> HIDE DEF S
    <3> QED BY <1>1, <1>5, <1>6, UpToEnd
  <2> QED BY <1>1, <2>1
<1> QED BY <1>1, <1>2, <1>3, <1>7

-----------------------------------------------------------------------------
(* Regions: powers of two with eight sections.                             *)

Region == {8, 16, 32, 64, 128, 256, 512, 1024, 2048, 4096, 8192, 16384,
           32768, 65536, 131072, 262144, 524288, 1048576}

LEMMA RegionExists ==
  ASSUME NEW m \in Nat, 5 <= m, m <= 1048576
  PROVE  \E r \in Region : m <= r /\ r < 2 * m
<1>1. CASE 5 <= m /\ m <= 8
  <2>1. 8 \in Region /\ m <= 8 /\ 8 < 2 * m
    BY <1>1, SMT DEF Region
  <2> QED BY <2>1, SMT
<1>2. CASE 9 <= m /\ m <= 16
  <2>1. 16 \in Region /\ m <= 16 /\ 16 < 2 * m
    BY <1>2, SMT DEF Region
  <2> QED BY <2>1, SMT
<1>3. CASE 17 <= m /\ m <= 32
  <2>1. 32 \in Region /\ m <= 32 /\ 32 < 2 * m
    BY <1>3, SMT DEF Region
  <2> QED BY <2>1, SMT
<1>4. CASE 33 <= m /\ m <= 64
  <2>1. 64 \in Region /\ m <= 64 /\ 64 < 2 * m
    BY <1>4, SMT DEF Region
  <2> QED BY <2>1, SMT
<1>5. CASE 65 <= m /\ m <= 128
  <2>1. 128 \in Region /\ m <= 128 /\ 128 < 2 * m
    BY <1>5, SMT DEF Region
  <2> QED BY <2>1, SMT
<1>6. CASE 129 <= m /\ m <= 256
  <2>1. 256 \in Region /\ m <= 256 /\ 256 < 2 * m
    BY <1>6, SMT DEF Region
  <2> QED BY <2>1, SMT
<1>7. CASE 257 <= m /\ m <= 512
  <2>1. 512 \in Region /\ m <= 512 /\ 512 < 2 * m
    BY <1>7, SMT DEF Region
  <2> QED BY <2>1, SMT
<1>8. CASE 513 <= m /\ m <= 1024
  <2>1. 1024 \in Region /\ m <= 1024 /\ 1024 < 2 * m
    BY <1>8, SMT DEF Region
  <2> QED BY <2>1, SMT
<1>9. CASE 1025 <= m /\ m <= 2048
  <2>1. 2048 \in Region /\ m <= 2048 /\ 2048 < 2 * m
    BY <1>9, SMT DEF Region
  <2> QED BY <2>1, SMT
<1>10. CASE 2049 <= m /\ m <= 4096
  <2>1. 4096 \in Region /\ m <= 4096 /\ 4096 < 2 * m
    BY <1>10, SMT DEF Region
  <2> QED BY <2>1, SMT
<1>11. CASE 4097 <= m /\ m <= 8192
  <2>1. 8192 \in Region /\ m <= 8192 /\ 8192 < 2 * m
    BY <1>11, SMT DEF Region
  <2> QED BY <2>1, SMT
<1>12. CASE 8193 <= m /\ m <= 16384
  <2>1. 16384 \in Region /\ m <= 16384 /\ 16384 < 2 * m
    BY <1>12, SMT DEF Region
  <2> QED BY <2>1, SMT
<1>13. CASE 16385 <= m /\ m <= 32768
  <2>1. 32768 \in Region /\ m <= 32768 /\ 32768 < 2 * m
    BY <1>13, SMT DEF Region
  <2> QED BY <2>1, SMT
<1>14. CASE 32769 <= m /\ m <= 65536
  <2>1. 65536 \in Region /\ m <= 65536 /\ 65536 < 2 * m
    BY <1>14, SMT DEF Region
  <2> QED BY <2>1, SMT
<1>15. CASE 65537 <= m /\ m <= 131072
  <2>1. 131072 \in Region /\ m <= 131072 /\ 131072 < 2 * m
    BY <1>15, SMT DEF Region
  <2> QED BY <2>1, SMT
<1>16. CASE 131073 <= m /\ m <= 262144
  <2>1. 262144 \in Region /\ m <= 262144 /\ 262144 < 2 * m
    BY <1>16, SMT DEF Region
  <2> QED BY <2>1, SMT
<1>17. CASE 262145 <= m /\ m <= 524288
  <2>1. 524288 \in Region /\ m <= 524288 /\ 524288 < 2 * m
    BY <1>17, SMT DEF Region
  <2> QED BY <2>1, SMT
<1>18. CASE 524289 <= m /\ m <= 1048576
  <2>1. 1048576 \in Region /\ m <= 1048576 /\ 1048576 < 2 * m
    BY <1>18, SMT DEF Region
  <2> QED BY <2>1, SMT
<1> QED BY <1>1, <1>2, <1>3, <1>4, <1>5, <1>6, <1>7, <1>8, <1>9,
           <1>10, <1>11, <1>12, <1>13, <1>14, <1>15, <1>16, <1>17, <1>18, SMT

LEMMA PowersOfTwo == {PowerOf2[k] : k \in 1..MaxExponent} = Region \cup {2, 4}
<1>1. \A k \in 1..MaxExponent : PowerOf2[k] \in Region \cup {2, 4}
  BY SMT DEF PowerOf2, MaxExponent, Region
<1>2. \A r \in Region \cup {2, 4} : \E k \in 1..MaxExponent : PowerOf2[k] = r
  BY SMT DEF PowerOf2, MaxExponent, Region
<1> QED BY <1>1, <1>2

(* What a partition may ask for. *)
Asked(m) == m \in Nat /\ 5 <= m /\ m <= PowerOf2[MaxExponent]

LEMMA LargestPower == PowerOf2[MaxExponent] = 1048576
BY SMT DEF PowerOf2, MaxExponent

LEMMA RegionFacts ==
  ASSUME NEW m, Asked(m)
  PROVE  RegionSize(m) \in Region /\ m <= RegionSize(m) /\ RegionSize(m) < 2 * m
<1>1. m \in Nat /\ 5 <= m /\ m <= 1048576
  BY LargestPower, SMT DEF Asked
<1>2. PICK r \in Region : m <= r /\ r < 2 * m
  BY <1>1, RegionExists, SMT
<1>3. /\ RegionSize(m) \in Region \cup {2, 4}
      /\ m <= RegionSize(m) /\ RegionSize(m) < 2 * m
  <2>1. \E q \in {PowerOf2[k] : k \in 1..MaxExponent} : m <= q /\ q < 2 * m
    BY <1>2, PowersOfTwo
  <2>2. /\ RegionSize(m) \in {PowerOf2[k] : k \in 1..MaxExponent}
        /\ m <= RegionSize(m) /\ RegionSize(m) < 2 * m
    BY <2>1 DEF RegionSize
  <2> QED BY <2>2, PowersOfTwo
<1>4. RegionSize(m) # 2 /\ RegionSize(m) # 4
  BY <1>1, <1>3, SMT
<1> QED BY <1>3, <1>4

LEMMA RegionOfEight ==
  ASSUME NEW r \in Region
  PROVE  /\ r \in Nat \ {0} /\ r <= 1048576
         /\ r \div 8 \in Nat \ {0} /\ r = 8 * (r \div 8)
BY SMT DEF Region

LEMMA RegionsDivide ==
  ASSUME NEW a \in Region, NEW b \in Region, a <= b
  PROVE  b % a = 0
BY SMT DEF Region

LEMMA RegionsApart ==
  ASSUME NEW a \in Region, NEW b \in Region, a < 2 * b
  PROVE  a <= b
BY SMT DEF Region

LEMMA SectionFacts ==
  ASSUME NEW m, Asked(m)
  PROVE  /\ Sub(m) \in Nat \ {0} /\ RegionSize(m) = 8 * Sub(m)
         /\ NumFree(m) \in 0..3
         /\ m <= Sub(m) * (8 - NumFree(m))
<1> DEFINE R == RegionSize(m)
           S == Sub(m)
           d == R - m
           nf == d \div S
<1>1. R \in Region /\ m <= R /\ R < 2 * m /\ m \in Nat
  BY RegionFacts DEF Asked
<1>2. S \in Nat \ {0} /\ R = 8 * S
  <2> HIDE DEF R
  <2> QED BY <1>1, RegionOfEight DEF Sub, R
<1> HIDE DEF R, S
<1>3. d \in Nat /\ d < 4 * S
  BY <1>1, <1>2
<1>4. nf \in Nat /\ d % S \in 0..(S - 1) /\ d = S * nf + (d % S)
  <2> HIDE DEF d
  <2> QED BY <1>2, <1>3, DivMod
<1>5. NumFree(m) = nf
  BY DEF NumFree, R, S
<1>6. nf \in 0..3
  <2> HIDE DEF nf, d
  <2> SUFFICES ASSUME nf >= 4 PROVE FALSE
    BY <1>4
  <2>1. PICK e \in Nat : nf = 4 + e
    <3>1. nf - 4 \in Nat /\ nf = 4 + (nf - 4)
      BY <1>4
    <3> QED BY <3>1
  <2>2. S * e \in Nat /\ S * nf = 4 * S + S * e
    BY <1>2, <2>1
  <2> QED BY <1>2, <1>3, <1>4, <2>2
<1> HIDE DEF nf
<1>7. m <= S * (8 - nf)
  <2>1. d = R - m
    OBVIOUS
  <2>2. nf = 0 \/ nf = 1 \/ nf = 2 \/ nf = 3
    BY <1>6
  <2> HIDE DEF d
  <2> QED BY <1>1, <1>2, <1>4, <2>1, <2>2
<1> QED BY <1>2, <1>5, <1>6, <1>7 DEF R, S

-----------------------------------------------------------------------------
(* The gifts of a round: whom insertMem gives free sections.               *)

GiftShapes == {<<6, 1>>, <<6, 3>>, <<7, 1>>, <<7, 2>>, <<8, 1>>}
GiftRecord == [vec : Nat, after : Nat, nr_sec : Nat, first : Nat]

IsGift(g, b, j, sub) ==
  /\ g \in GiftRecord
  /\ g.vec \in Partition \ {j} /\ b[g.vec].located = 0
  /\ g.after \in Partition
  /\ <<g.first, g.nr_sec>> \in GiftShapes
  /\ memory[g.vec] <= sub * g.nr_sec

(* Three gifts at most, to different partitions without a block. *)
AreGifts(G, b, j, sub) ==
  /\ G = <<G[1], G[2], G[3]>>
  /\ \A k \in 1..3 : G[k] = Nobody \/ IsGift(G[k], b, j, sub)
  /\ \A k \in 1..3 : \A l \in 1..3 :
       k < l /\ G[k] # Nobody /\ G[l] # Nobody => G[k].vec # G[l].vec

(* One gift follows the gift before it, in the next section. *)
Joins(G, k) ==
  /\ G[k - 1] # Nobody
  /\ G[k].after = G[k - 1].vec
  /\ G[k - 1].nr_sec = 1
  /\ G[k].first = G[k - 1].first + 1

(* Or it is placed after a partition that has no block and gets none. *)
Loose(G, k, b) ==
  /\ b[G[k].after].located = 0
  /\ \A l \in 1..3 : G[l] # Nobody => G[l].vec # G[k].after

Linked(G, b, j, num_free) ==
  /\ G[1] # Nobody => G[1].after = j /\ G[1].first = 9 - num_free
  /\ \A k \in 2..3 : G[k] # Nobody => Joins(G, k) \/ Loose(G, k, b)

(* They fill the free sections from the first on, one after another. *)
Chained(G, j, num_free) ==
  /\ G[1] # Nobody => G[1].after = j /\ G[1].first = 9 - num_free
  /\ \A k \in 2..3 : G[k] # Nobody => Joins(G, k)

(* A gift all of whose predecessors follow each other. *)
InPlace(G, k) == \A l \in 2..k : Joins(G, l)

-----------------------------------------------------------------------------
(* The inductive invariants.                                               *)

BlockRecord == [located : Nat, adress : Nat, region : Nat,
                nr_sec : Nat, first : Nat, nr_region : Nat]

BlockShapes == ({1} \X (5..8)) \cup GiftShapes

(* Sections of some partition's region, of which nr have been made. *)
IsBlock(x, nr) ==
  /\ x \in BlockRecord
  /\ \E j \in Partition : x.region = RegionSize(memory[j])
  /\ <<x.first, x.nr_sec>> \in BlockShapes
  /\ x.located = (x.region \div 8) * x.nr_sec
  /\ x.nr_region \in 1..nr

TypeInv ==
  /\ memory \in Requests
  /\ block \in [Partition -> BlockRecord]
  /\ \A i \in Partition : block[i] = None \/ IsBlock(block[i], nr_region)
  /\ nr_located = Cardinality(Located(block))
  /\ nr_region \in 0..nr_located
  /\ memory_arr \in [Partition -> [size : Nat, address : Nat]]
  /\ pointer \in Nat

(* A block holds what was asked for and lies in a region that is aligned   *)
(* and ends before the pointer.                                            *)
LiesIn(x, m, end) ==
  /\ m <= x.located
  /\ \E start \in Nat : /\ start % x.region = 0
                        /\ Base <= start
                        /\ x.adress = start + (x.first - 1) * (x.region \div 8)
                        /\ start + x.region <= end

(* A block below all regions. *)
Stray(x) == x.adress + x.located <= Base

Sits(x, m, end) == LiesIn(x, m, end) \/ (m <= x.located /\ Stray(x))

Apart(x, y) == x.adress + x.located <= y.adress \/ y.adress + y.located <= x.adress

SpaceInv ==
  /\ TypeInv
  /\ \A i \in Partition : block[i] = None \/ Sits(block[i], memory[i], pointer)
  /\ \A i \in Located(block) : \A k \in Located(block) :
       i # k => Stray(block[i]) \/ Stray(block[k]) \/ Apart(block[i], block[k])
  /\ \A i \in Partition \ Located(block) : pointer % RegionSize(memory[i]) = 0
  /\ Base <= pointer
  /\ pointer <= Base + nr_region * PowerOf2[MaxExponent]

NoStray == \A i \in Located(block) : ~Stray(block[i])

-----------------------------------------------------------------------------
(* What insertMem gives.                                                   *)

LEMMA MaxIsNat == PowerOf2[MaxExponent] \in Nat
BY SMT DEF PowerOf2, MaxExponent

LEMMA MemoryFacts ==
  ASSUME memory \in Requests
  PROVE  /\ memory \in Seq(Nat \ {0})
         /\ Len(memory) \in Nat /\ Partition = 1..Len(memory)
         /\ \A i \in Partition : Asked(memory[i])
         /\ PercWord \in Nat \ {0} /\ Base \in Nat \ {0} /\ AddressWord \in Nat \ {0}
<1>1. /\ memory \in Seq(Nat) /\ PercWord \in Nat \ {0}
      /\ Base \in Nat \ {0} /\ AddressWord \in Nat \ {0}
      /\ \A i \in DOMAIN memory : memory[i] \in 5..PowerOf2[MaxExponent]
  BY AllocationAssumption
<1>2. Len(memory) \in Nat /\ Partition = 1..Len(memory)
  BY <1>1 DEF Partition
<1>3. \A i \in Partition : Asked(memory[i])
  BY <1>1, MaxIsNat DEF Partition, Asked
<1>4. \A i \in 1..Len(memory) : memory[i] \in Nat \ {0}
  BY <1>2, <1>3 DEF Asked
<1>5. memory \in Seq(Nat \ {0})
  <2>1. memory \in [1..Len(memory) -> Nat \ {0}]
    BY <1>1, <1>4
  <2> QED BY <1>2, <2>1
<1> QED BY <1>1, <1>2, <1>3, <1>5

(* A candidate c, if it is one, can be given sections. *)
WellGiven(c, b, j, sub, low, p, nr_sec, first) ==
  LET g == Give(c, p, nr_sec, first)
  IN  /\ c \in Entry
      /\ g = Nobody <=> c.perc = 0
      /\ c.perc # 0 =>
           /\ IsGift(g, b, j, sub)
           /\ g = [vec |-> c.vec, after |-> p, nr_sec |-> nr_sec, first |-> first]
           /\ Candidate(b, low, sub * nr_sec, c.vec)
           /\ c.perc = memory[c.vec] % PercWord

LEMMA GiveIsGift ==
  ASSUME memory \in Requests, NEW b, NEW j \in Partition, b[j].located # 0,
         NEW n \in Nat \ {0}, NEW low, NEW high \in Nat, NEW k \in 1..n,
         NEW p \in Partition, NEW sub \in Nat, NEW nr_sec, NEW first,
         <<first, nr_sec>> \in GiftShapes, high <= sub * nr_sec
  PROVE  WellGiven(Best(b, n, low, high)[k], b, j, sub, low, p, nr_sec, first)
<1> DEFINE best == Best(b, n, low, high)
           c == best[k]
           g == Give(c, p, nr_sec, first)
<1>1. /\ memory \in Seq(Nat \ {0}) /\ PercWord \in Nat \ {0}
      /\ Partition = 1..Len(memory) /\ Len(memory) \in Nat
  BY MemoryFacts
<1>2. best \in [1..n -> Entry] /\ Listed(best, n, Len(memory), b, low, high)
  BY <1>1, BestListed
<1> HIDE DEF best
<1>3. c \in Entry
  BY <1>2
<1>4. c.perc # 0 => /\ c.vec # 0 /\ c.vec \in Partition
                    /\ Candidate(b, low, high, c.vec)
                    /\ c.perc = memory[c.vec] % PercWord
  BY <1>1, <1>2, SMTT(30) DEF Listed
<1> HIDE DEF c
<1>5. ASSUME c.perc = 0 PROVE WellGiven(c, b, j, sub, low, p, nr_sec, first)
  BY <1>3, <1>5 DEF Give, WellGiven
<1>6. ASSUME c.perc # 0 PROVE WellGiven(c, b, j, sub, low, p, nr_sec, first)
  <2>1. g = [vec |-> c.vec, after |-> p, nr_sec |-> nr_sec, first |-> first]
    BY <1>6 DEF Give
  <2>2. g # Nobody
    BY <1>4, <1>6, <2>1 DEF Nobody
  <2>3. first \in Nat /\ nr_sec \in Nat
    BY DEF GiftShapes
  <2>4. p \in Nat /\ c.vec \in Nat
    BY <1>1, <1>3 DEF Entry
  <2>5. c.vec # j /\ b[c.vec].located = 0 /\ memory[c.vec] <= sub * nr_sec
    <3>1. memory[c.vec] \in Nat /\ sub * nr_sec \in Nat
      BY <1>4, <1>6, <2>3, MemoryFacts, SMTT(30) DEF Asked
    <3> QED BY <1>4, <1>6, <3>1 DEF Candidate
  <2>7. Candidate(b, low, sub * nr_sec, c.vec)
    BY <1>4, <1>6, <2>5 DEF Candidate
  <2>6. IsGift(g, b, j, sub)
    <3>1. g \in GiftRecord
      BY <2>1, <2>3, <2>4 DEF GiftRecord
    <3>2. g.vec = c.vec /\ g.after = p /\ g.first = first /\ g.nr_sec = nr_sec
      BY <2>1
    <3> HIDE DEF g
    <3> QED BY <1>4, <1>6, <2>5, <3>1, <3>2 DEF IsGift
  <2> QED BY <1>3, <1>4, <1>6, <2>1, <2>2, <2>6, <2>7 DEF WellGiven
<1> QED BY <1>5, <1>6 DEF c, best

(* Different candidates are given to different partitions. *)
LEMMA ListedApart ==
  ASSUME memory \in Requests, NEW b, NEW n \in Nat \ {0}, NEW low, NEW high,
         NEW k \in 1..n, NEW l \in 1..n, k < l,
         Best(b, n, low, high)[l].perc # 0
  PROVE  /\ Best(b, n, low, high)[k].vec # 0
         /\ Best(b, n, low, high)[k].vec \in Partition
         /\ Best(b, n, low, high)[k].vec # Best(b, n, low, high)[l].vec
<1> DEFINE best == Best(b, n, low, high)
<1>1. /\ memory \in Seq(Nat \ {0}) /\ PercWord \in Nat \ {0}
      /\ Partition = 1..Len(memory) /\ Len(memory) \in Nat
  BY MemoryFacts
<1>2. best \in [1..n -> Entry] /\ Listed(best, n, Len(memory), b, low, high)
  BY <1>1, BestListed
<1> HIDE DEF best
<1>3. best[l].vec # 0 /\ best[k].vec # 0 /\ best[k].vec # best[l].vec
  BY <1>2 DEF Listed, best
<1>4. best[k].vec \in Partition
  BY <1>1, <1>2, <1>3 DEF Listed
<1> QED BY <1>3, <1>4 DEF best

(* The candidates that are listed have no block and are all different. *)
Unplaced(c, b) ==
  /\ c.perc # 0 => c.vec # 0
  /\ c.vec # 0 => /\ c.vec \in Partition /\ b[c.vec].located = 0
                  /\ c.perc = memory[c.vec] % PercWord

LEMMA ListedUnplaced ==
  ASSUME memory \in Requests, NEW b, NEW n \in Nat \ {0}, NEW low, NEW high
  PROVE  /\ \A k \in 1..n : Unplaced(Best(b, n, low, high)[k], b)
         /\ \A k, l \in 1..n : k < l /\ Best(b, n, low, high)[l].vec # 0 =>
              /\ Best(b, n, low, high)[k].vec # 0
              /\ Best(b, n, low, high)[k].vec # Best(b, n, low, high)[l].vec
<1> DEFINE best == Best(b, n, low, high)
<1>1. /\ memory \in Seq(Nat \ {0}) /\ PercWord \in Nat \ {0}
      /\ Partition = 1..Len(memory) /\ Len(memory) \in Nat
  BY MemoryFacts
<1>2. best \in [1..n -> Entry] /\ Listed(best, n, Len(memory), b, low, high)
  BY <1>1, BestListed
<1> HIDE DEF best
<1>3. \A k \in 1..n : Unplaced(best[k], b)
  BY <1>1, <1>2 DEF Listed, Candidate, Unplaced
<1>4. \A k, l \in 1..n : k < l /\ best[l].vec # 0 =>
         best[k].vec # 0 /\ best[k].vec # best[l].vec
  BY <1>2 DEF Listed
<1> QED BY <1>3, <1>4 DEF best

LEMMA GiftsOfThree ==
  ASSUME NEW b, NEW j, NEW sub, NEW g1, NEW g2, NEW g3,
         g1 = Nobody \/ IsGift(g1, b, j, sub),
         g2 = Nobody \/ IsGift(g2, b, j, sub),
         g3 = Nobody \/ IsGift(g3, b, j, sub),
         g1 # Nobody /\ g2 # Nobody => g1.vec # g2.vec,
         g1 # Nobody /\ g3 # Nobody => g1.vec # g3.vec,
         g2 # Nobody /\ g3 # Nobody => g2.vec # g3.vec
  PROVE  AreGifts(<<g1, g2, g3>>, b, j, sub)
<1> DEFINE G == <<g1, g2, g3>>
<1>1. G[1] = g1 /\ G[2] = g2 /\ G[3] = g3 /\ G = <<G[1], G[2], G[3]>>
  OBVIOUS
<1> HIDE DEF G
<1>2. \A k \in 1..3 : k = 1 \/ k = 2 \/ k = 3
  OBVIOUS
<1>3. AreGifts(G, b, j, sub)
  BY <1>1, <1>2 DEF AreGifts
<1> QED BY <1>3 DEF G

LEMMA ChainOfThree ==
  ASSUME NEW j, NEW num_free, NEW g1, NEW g2, NEW g3,
         g1 # Nobody => g1.after = j /\ g1.first = 9 - num_free,
         g2 # Nobody => /\ g1 # Nobody /\ g2.after = g1.vec
                        /\ g1.nr_sec = 1 /\ g2.first = g1.first + 1,
         g3 # Nobody => /\ g2 # Nobody /\ g3.after = g2.vec
                        /\ g2.nr_sec = 1 /\ g3.first = g2.first + 1
  PROVE  Chained(<<g1, g2, g3>>, j, num_free)
<1> DEFINE G == <<g1, g2, g3>>
<1>1. G[1] = g1 /\ G[2] = g2 /\ G[3] = g3
  OBVIOUS
<1> HIDE DEF G
<1>2. \A k \in 2..3 : (k = 2 /\ k - 1 = 1) \/ (k = 3 /\ k - 1 = 2)
  OBVIOUS
<1>3. Chained(G, j, num_free)
  BY <1>1, <1>2 DEF Chained, Joins
<1> QED BY <1>3 DEF G

(* The same of gifts that may be loose. *)
Follows(g, f) ==
  f # Nobody /\ g.after = f.vec /\ f.nr_sec = 1 /\ g.first = f.first + 1

LEMMA LinkOfThree ==
  ASSUME NEW b, NEW j, NEW num_free, NEW g1, NEW g2, NEW g3,
         g1 # Nobody => g1.after = j /\ g1.first = 9 - num_free,
         g2 # Nobody => \/ Follows(g2, g1)
                        \/ /\ b[g2.after].located = 0 /\ g2.vec # g2.after
                           /\ g1 # Nobody => g1.vec # g2.after
                           /\ g3 # Nobody => g3.vec # g2.after,
         g3 # Nobody => \/ Follows(g3, g2)
                        \/ /\ b[g3.after].located = 0 /\ g3.vec # g3.after
                           /\ g1 # Nobody => g1.vec # g3.after
                           /\ g2 # Nobody => g2.vec # g3.after
  PROVE  Linked(<<g1, g2, g3>>, b, j, num_free)
<1> DEFINE G == <<g1, g2, g3>>
<1>1. G[1] = g1 /\ G[2] = g2 /\ G[3] = g3
  OBVIOUS
<1> HIDE DEF G
<1>2. \A k \in 2..3 : (k = 2 /\ k - 1 = 1) \/ (k = 3 /\ k - 1 = 2)
  OBVIOUS
<1>3. \A l \in 1..3 : l = 1 \/ l = 2 \/ l = 3
  OBVIOUS
<1>4. g2 # Nobody => Joins(G, 2) \/ Loose(G, 2, b)
  <2>1. 2 - 1 = 1
    OBVIOUS
  <2> QED BY <1>1, <1>3, <2>1 DEF Joins, Loose, Follows
<1>5. g3 # Nobody => Joins(G, 3) \/ Loose(G, 3, b)
  <2>1. 3 - 1 = 2
    OBVIOUS
  <2> QED BY <1>1, <1>3, <2>1 DEF Joins, Loose, Follows
<1>6. Linked(G, b, j, num_free)
  BY <1>1, <1>2, <1>4, <1>5 DEF Linked
<1> QED BY <1>6 DEF G

LEMMA OneFreeGifts ==
  ASSUME memory \in Requests, NEW b, NEW j \in Partition, b[j].located # 0,
         NEW sub \in Nat
  PROVE  AreGifts(OneFree(b, j, sub), b, j, sub) /\ Chained(OneFree(b, j, sub), j, 1)
<1> DEFINE c == Best(b, 1, 0, sub)[1]
           g == Give(c, j, 1, 8)
<1>1. WellGiven(c, b, j, sub, 0, j, 1, 8)
  <2>1. <<8, 1>> \in GiftShapes /\ sub <= sub * 1 /\ 1 \in Nat \ {0} /\ 1 \in 1..1
    BY DEF GiftShapes
  <2> QED BY <2>1, GiveIsGift
<1>2. OneFree(b, j, sub) = <<g, Nobody, Nobody>>
  BY DEF OneFree
<1> HIDE DEF c
<1>3. /\ g = Nobody \/ IsGift(g, b, j, sub)
      /\ g # Nobody => g.after = j /\ g.first = 8
  BY <1>1 DEF WellGiven
<1> HIDE DEF g
<1>4. AreGifts(<<g, Nobody, Nobody>>, b, j, sub)
  BY <1>3, GiftsOfThree
<1>5. Chained(<<g, Nobody, Nobody>>, j, 1)
  <2>1. 8 = 9 - 1
    OBVIOUS
  <2> QED BY <1>3, <2>1, ChainOfThree
<1> QED BY <1>2, <1>4, <1>5

LEMMA TwoFreeGifts ==
  ASSUME memory \in Requests, NEW b, NEW j \in Partition, b[j].located # 0,
         NEW sub \in Nat
  PROVE  AreGifts(TwoFree(b, j, sub), b, j, sub)
<1> DEFINE both == Best(b, 1, 0, 2 * sub)[1]
           one == Best(b, 2, 0, sub)
           pair == both.perc # 0 /\ both.perc >= one[1].perc + one[2].perc
           g1 == IF pair THEN Give(both, j, 2, 7) ELSE Give(one[1], j, 1, 7)
           g2 == Give(one[2], one[1].vec, 1, 8)
<1>0. TwoFree(b, j, sub) = <<g1, g2, Nobody>>
  BY DEF TwoFree
<1>1. /\ <<7, 2>> \in GiftShapes /\ <<7, 1>> \in GiftShapes /\ <<8, 1>> \in GiftShapes
      /\ sub <= sub * 1 /\ 2 * sub <= sub * 2 /\ 1 \in Nat \ {0} /\ 2 \in Nat \ {0}
      /\ 1 \in 1..1 /\ 1 \in 1..2 /\ 2 \in 1..2 /\ 1 < 2
      /\ 2 * sub \in Nat /\ sub <= 2 * sub
  BY DEF GiftShapes
<1>2. WellGiven(both, b, j, sub, 0, j, 2, 7)
  BY <1>1, GiveIsGift
<1>3. WellGiven(one[1], b, j, sub, 0, j, 1, 7)
  BY <1>1, GiveIsGift
<1>4. one[2].perc # 0 => /\ one[1].vec # 0 /\ one[1].vec \in Partition
                         /\ one[1].vec # one[2].vec
  BY <1>1, ListedApart
<1>5. one[2].perc # 0 => WellGiven(one[2], b, j, sub, 0, one[1].vec, 1, 8)
  BY <1>1, <1>4, GiveIsGift
<1>6. both.vec # 0 /\ both.vec = one[2].vec => one[1].perc # 0
  <2>1. memory \in Seq(Nat \ {0}) /\ PercWord \in Nat \ {0}
    BY MemoryFacts
  <2> QED BY <1>1, <2>1, BestOfMore
<1> HIDE DEF both, one
<1>7. g1 = Nobody \/ IsGift(g1, b, j, sub)
  BY <1>2, <1>3 DEF WellGiven
<1>8. g2 = Nobody \/ IsGift(g2, b, j, sub)
  BY <1>5 DEF WellGiven, Give
<1>9. ASSUME g1 # Nobody, g2 # Nobody PROVE g1.vec # g2.vec
  <2>1. one[2].perc # 0 /\ g2.vec = one[2].vec
    BY <1>5, <1>9 DEF WellGiven, Give
  <2>2. CASE pair
    <3>1. g1.vec = both.vec /\ both.vec # 0 /\ both.perc = memory[both.vec] % PercWord
      <4>1. 0 \notin Partition
        BY MemoryFacts
      <4> QED BY <1>2, <2>2, <4>1 DEF WellGiven, IsGift
    <3>2. one[2].perc = memory[one[2].vec] % PercWord
      BY <1>5, <2>1 DEF WellGiven
    <3>3. one[1].perc \in Nat /\ one[2].perc \in Nat
      BY <1>3, <1>5, <2>1 DEF WellGiven, Entry
    <3> QED BY <1>6, <2>1, <2>2, <3>1, <3>2, <3>3
  <2>3. CASE ~pair
    <3>1. one[1].perc # 0 /\ g1.vec = one[1].vec
      BY <1>3, <1>9, <2>3 DEF WellGiven, Give
    <3> QED BY <1>4, <2>1, <3>1
  <2> QED BY <2>2, <2>3
<1> HIDE DEF g1, g2
<1>10. AreGifts(<<g1, g2, Nobody>>, b, j, sub)
  BY <1>7, <1>8, <1>9, GiftsOfThree
<1> QED BY <1>0, <1>10

LEMMA ThreeFreeGifts ==
  ASSUME memory \in Requests, NEW b, NEW j \in Partition, b[j].located # 0,
         NEW sub \in Nat
  PROVE  AreGifts(ThreeFree(b, j, sub), b, j, sub)
<1> DEFINE all == Best(b, 1, 0, 3 * sub)[1]
           single == Best(b, 1, 0, sub)[1]
           double == Best(b, 1, sub, 2 * sub)[1]
           one == Best(b, 3, 0, sub)
           ones == one[1].perc + one[2].perc + one[3].perc
           whole == all.perc # 0 /\ all.perc >= single.perc + double.perc /\ all.perc >= ones
           o1 == Give(one[1], j, 1, 6)
           o2 == Give(one[2], one[1].vec, 1, 7)
           o3 == Give(one[3], one[2].vec, 1, 8)
           a1 == Give(all, j, 3, 6)
           s1 == Give(single, j, 1, 6)
           d2 == Give(double, single.vec, 2, 7)
           s3 == Give(single, j, 3, 6)
           d3 == Give(double, j, 3, 6)
<1>0. \/ ThreeFree(b, j, sub) = <<a1, Nobody, Nobody>>
      \/ ThreeFree(b, j, sub) = <<o1, o2, o3>>
      \/ ThreeFree(b, j, sub) = <<s3, Nobody, Nobody>>
      \/ ThreeFree(b, j, sub) = <<d3, Nobody, Nobody>>
      \/ /\ single.perc # 0 /\ double.perc # 0
         /\ ThreeFree(b, j, sub) = <<s1, d2, Nobody>>
  <2>1. ThreeFree(b, j, sub) =
          IF whole THEN <<a1, Nobody, Nobody>>
          ELSE IF single.perc + double.perc < ones THEN <<o1, o2, o3>>
          ELSE IF single.perc # 0 /\ double.perc # 0 THEN <<s1, d2, Nobody>>
          ELSE IF single.perc # 0 THEN <<s3, Nobody, Nobody>>
          ELSE <<d3, Nobody, Nobody>>
    BY DEF ThreeFree
  <2> HIDE DEF all, single, double, one, ones, whole, o1, o2, o3, a1, s1, d2, s3, d3
  <2>2. CASE whole
    BY <2>1, <2>2
  <2>3. CASE ~whole /\ single.perc + double.perc < ones
    BY <2>1, <2>3
  <2>4. CASE ~whole /\ ~(single.perc + double.perc < ones)
    BY <2>1, <2>4
  <2> QED BY <2>2, <2>3, <2>4
<1>1. /\ <<6, 1>> \in GiftShapes /\ <<6, 3>> \in GiftShapes /\ <<7, 1>> \in GiftShapes
      /\ <<7, 2>> \in GiftShapes /\ <<8, 1>> \in GiftShapes
      /\ sub <= sub * 1 /\ 2 * sub <= sub * 2 /\ 3 * sub <= sub * 3
      /\ sub <= sub * 3 /\ 2 * sub <= sub * 3
      /\ 1 \in Nat \ {0} /\ 3 \in Nat \ {0} /\ 1 \in 1..1
      /\ 1 \in 1..3 /\ 2 \in 1..3 /\ 3 \in 1..3 /\ 1 < 2 /\ 2 < 3 /\ 1 < 3
      /\ 2 * sub \in Nat /\ 3 * sub \in Nat
  BY DEF GiftShapes
<1>2. WellGiven(all, b, j, sub, 0, j, 3, 6)
  BY <1>1, GiveIsGift
<1>3. /\ WellGiven(single, b, j, sub, 0, j, 1, 6)
      /\ WellGiven(single, b, j, sub, 0, j, 3, 6)
  BY <1>1, GiveIsGift
<1>4. WellGiven(double, b, j, sub, sub, j, 3, 6)
  BY <1>1, GiveIsGift
<1>5. single.perc # 0 => single.vec \in Partition
  <2> HIDE DEF single
  <2> QED BY <1>3 DEF WellGiven, IsGift
<1>6. single.perc # 0 => WellGiven(double, b, j, sub, sub, single.vec, 2, 7)
  BY <1>1, <1>5, GiveIsGift
<1>7. WellGiven(one[1], b, j, sub, 0, j, 1, 6)
  BY <1>1, GiveIsGift
<1>8. one[2].perc # 0 => /\ one[1].vec # 0 /\ one[1].vec \in Partition
                         /\ one[1].vec # one[2].vec
  BY <1>1, ListedApart
<1>9. one[3].perc # 0 => /\ one[2].vec # 0 /\ one[2].vec \in Partition
                         /\ one[2].vec # one[3].vec
  BY <1>1, ListedApart
<1>10. one[3].perc # 0 => one[1].vec # one[3].vec
  BY <1>1, ListedApart
<1>11. one[2].perc # 0 => WellGiven(one[2], b, j, sub, 0, one[1].vec, 1, 7)
  BY <1>1, <1>8, GiveIsGift
<1>12. one[3].perc # 0 => WellGiven(one[3], b, j, sub, 0, one[2].vec, 1, 8)
  BY <1>1, <1>9, GiveIsGift
<1> HIDE DEF all, single, double, one
<1>13. /\ a1 = Nobody \/ IsGift(a1, b, j, sub)
       /\ s3 = Nobody \/ IsGift(s3, b, j, sub)
       /\ d3 = Nobody \/ IsGift(d3, b, j, sub)
  BY <1>2, <1>3, <1>4 DEF WellGiven
<1>14. /\ o1 = Nobody \/ IsGift(o1, b, j, sub)
       /\ o2 = Nobody \/ IsGift(o2, b, j, sub)
       /\ o3 = Nobody \/ IsGift(o3, b, j, sub)
  BY <1>7, <1>11, <1>12 DEF WellGiven, Give
<1>15. /\ o1 # Nobody => o1.vec = one[1].vec
       /\ o2 # Nobody => one[2].perc # 0 /\ o2.vec = one[2].vec
       /\ o3 # Nobody => one[3].perc # 0 /\ o3.vec = one[3].vec
  BY DEF Give
<1>16. ASSUME single.perc # 0, double.perc # 0
       PROVE  IsGift(s1, b, j, sub) /\ IsGift(d2, b, j, sub) /\ s1.vec # d2.vec
  <2>1. s1.vec = single.vec /\ d2.vec = double.vec
    BY <1>16 DEF Give
  <2>2. memory[single.vec] <= sub /\ sub < memory[double.vec]
    BY <1>1, <1>3, <1>6, <1>16 DEF WellGiven, Candidate
  <2>3. memory[single.vec] \in Nat
    BY <1>5, <1>16, MemoryFacts DEF Asked
  <2> QED BY <1>3, <1>6, <1>16, <2>1, <2>2, <2>3 DEF WellGiven
<1> HIDE DEF a1, s3, d3, o1, o2, o3, s1, d2
<1>17. /\ AreGifts(<<a1, Nobody, Nobody>>, b, j, sub)
       /\ AreGifts(<<s3, Nobody, Nobody>>, b, j, sub)
       /\ AreGifts(<<d3, Nobody, Nobody>>, b, j, sub)
  BY <1>13, GiftsOfThree
<1>18. AreGifts(<<o1, o2, o3>>, b, j, sub)
  BY <1>8, <1>9, <1>10, <1>14, <1>15, GiftsOfThree
<1>19. single.perc # 0 /\ double.perc # 0 => AreGifts(<<s1, d2, Nobody>>, b, j, sub)
  BY <1>16, GiftsOfThree
<1> QED BY <1>0, <1>17, <1>18, <1>19

LEMMA InsertMemGifts ==
  ASSUME memory \in Requests, NEW b, NEW j \in Partition, b[j].located # 0,
         NEW sub \in Nat, NEW num_free \in 0..3
  PROVE  AreGifts(insertMem(num_free, b, j, sub), b, j, sub)
<1>1. CASE num_free = 0
  <2>1. insertMem(num_free, b, j, sub) = <<Nobody, Nobody, Nobody>>
    BY <1>1 DEF insertMem
  <2>2. AreGifts(<<Nobody, Nobody, Nobody>>, b, j, sub)
    BY GiftsOfThree
  <2> QED BY <2>1, <2>2
<1>2. CASE num_free = 1
  <2>1. insertMem(num_free, b, j, sub) = OneFree(b, j, sub)
    BY <1>2 DEF insertMem
  <2> QED BY <2>1, OneFreeGifts
<1>3. CASE num_free = 2
  <2>1. insertMem(num_free, b, j, sub) = TwoFree(b, j, sub)
    BY <1>3 DEF insertMem
  <2> QED BY <2>1, TwoFreeGifts
<1>4. CASE num_free = 3
  <2>1. insertMem(num_free, b, j, sub) = ThreeFree(b, j, sub)
    BY <1>4 DEF insertMem
  <2> QED BY <2>1, ThreeFreeGifts
<1> QED BY <1>1, <1>2, <1>3, <1>4

-----------------------------------------------------------------------------
(* How the gifts lie, whatever the sizes.                                  *)

LEMMA TwoFreeLinked ==
  ASSUME memory \in Requests, NEW b, NEW j \in Partition, b[j].located # 0,
         NEW sub \in Nat
  PROVE  Linked(TwoFree(b, j, sub), b, j, 2)
<1> DEFINE both == Best(b, 1, 0, 2 * sub)[1]
           one == Best(b, 2, 0, sub)
           pair == both.perc # 0 /\ both.perc >= one[1].perc + one[2].perc
           g1 == IF pair THEN Give(both, j, 2, 7) ELSE Give(one[1], j, 1, 7)
           g2 == Give(one[2], one[1].vec, 1, 8)
<1>0. TwoFree(b, j, sub) = <<g1, g2, Nobody>>
  BY DEF TwoFree
<1>1. 1 \in Nat \ {0} /\ 2 \in Nat \ {0} /\ 1 \in 1..1 /\ 1 \in 1..2 /\ 2 \in 1..2 /\ 1 < 2
  OBVIOUS
<1>2. Unplaced(both, b) /\ Unplaced(one[1], b) /\ Unplaced(one[2], b)
  BY <1>1, ListedUnplaced
<1>3. one[2].vec # 0 => one[1].vec # 0 /\ one[1].vec # one[2].vec
  BY <1>1, ListedUnplaced
<1>4. \A v \in Partition : memory[v] % PercWord \in Nat
  <2>1. PercWord \in Nat \ {0} /\ \A v \in Partition : memory[v] \in Nat
    BY MemoryFacts DEF Asked
  <2>2. \A m \in Nat : m % PercWord \in 0..(PercWord - 1)
    BY <2>1, DivMod
  <2> QED BY <2>1, <2>2
<1> HIDE DEF both, one
<1>5. g1 # Nobody => g1.after = j /\ g1.first = 7
  BY DEF Give
<1>6. ASSUME g2 # Nobody
      PROVE  \/ Follows(g2, g1)
             \/ /\ b[g2.after].located = 0 /\ g2.vec # g2.after
                /\ g1 # Nobody => g1.vec # g2.after
  <2>1. g2 = [vec |-> one[2].vec, after |-> one[1].vec, nr_sec |-> 1, first |-> 8]
        /\ one[2].perc # 0
    BY <1>6 DEF Give
  <2>2. /\ one[1].vec # 0 /\ one[1].vec # one[2].vec /\ b[one[1].vec].located = 0
        /\ one[1].vec \in Partition /\ one[1].perc = memory[one[1].vec] % PercWord
        /\ one[2].vec \in Partition /\ one[2].perc = memory[one[2].vec] % PercWord
    BY <1>2, <1>3, <2>1 DEF Unplaced
  <2> HIDE DEF g1, g2
  <2>3. b[g2.after].located = 0 /\ g2.vec # g2.after /\ g2.after = one[1].vec /\ g2.first = 8
    BY <2>1, <2>2
  <2>4. CASE pair
    <3>1. both.vec # one[1].vec
      <4> SUFFICES ASSUME both.vec = one[1].vec PROVE FALSE
        OBVIOUS
      <4>1. both.perc = one[1].perc /\ one[1].perc \in Nat /\ one[2].perc \in Nat
        BY <1>2, <1>4, <2>2, <2>4 DEF Unplaced
      <4>2. both.perc >= one[1].perc + one[2].perc
        BY <2>4
      <4> HIDE DEF pair
      <4> QED BY <2>1, <4>1, <4>2
    <3>2. g1 # Nobody => g1.vec = both.vec
      BY <2>4 DEF Give, g1
    <3> QED BY <2>3, <3>1, <3>2
  <2>5. CASE ~pair /\ one[1].perc = 0
    <3>1. g1 = Nobody
      BY <2>5 DEF Give, g1
    <3> QED BY <2>3, <3>1
  <2>6. CASE ~pair /\ one[1].perc # 0
    <3>1. g1 = [vec |-> one[1].vec, after |-> j, nr_sec |-> 1, first |-> 7]
      BY <2>6 DEF Give, g1
    <3>2. g1 # Nobody /\ g1.vec = one[1].vec /\ g1.nr_sec = 1 /\ g1.first = 7
      BY <3>1 DEF Nobody
    <3>3. 8 = 7 + 1
      OBVIOUS
    <3>4. Follows(g2, g1)
      BY <2>3, <3>2, <3>3 DEF Follows
    <3> QED BY <3>4
  <2> QED BY <2>4, <2>5, <2>6
<1> HIDE DEF g1, g2
<1>7. Linked(<<g1, g2, Nobody>>, b, j, 2)
  <2>1. 7 = 9 - 2
    OBVIOUS
  <2> QED BY <1>5, <1>6, <2>1, LinkOfThree
<1> QED BY <1>0, <1>7

LEMMA ThreeFreeLinked ==
  ASSUME memory \in Requests, NEW b, NEW j \in Partition, b[j].located # 0,
         NEW sub \in Nat
  PROVE  Linked(ThreeFree(b, j, sub), b, j, 3)
<1> DEFINE all == Best(b, 1, 0, 3 * sub)[1]
           single == Best(b, 1, 0, sub)[1]
           double == Best(b, 1, sub, 2 * sub)[1]
           one == Best(b, 3, 0, sub)
           ones == one[1].perc + one[2].perc + one[3].perc
           whole == all.perc # 0 /\ all.perc >= single.perc + double.perc /\ all.perc >= ones
           o1 == Give(one[1], j, 1, 6)
           o2 == Give(one[2], one[1].vec, 1, 7)
           o3 == Give(one[3], one[2].vec, 1, 8)
           a1 == Give(all, j, 3, 6)
           s1 == Give(single, j, 1, 6)
           d2 == Give(double, single.vec, 2, 7)
           s3 == Give(single, j, 3, 6)
           d3 == Give(double, j, 3, 6)
<1>0. \/ ThreeFree(b, j, sub) = <<a1, Nobody, Nobody>>
      \/ ThreeFree(b, j, sub) = <<o1, o2, o3>>
      \/ ThreeFree(b, j, sub) = <<s3, Nobody, Nobody>>
      \/ ThreeFree(b, j, sub) = <<d3, Nobody, Nobody>>
      \/ /\ single.perc # 0 /\ double.perc # 0
         /\ ThreeFree(b, j, sub) = <<s1, d2, Nobody>>
  <2>1. ThreeFree(b, j, sub) =
          IF whole THEN <<a1, Nobody, Nobody>>
          ELSE IF single.perc + double.perc < ones THEN <<o1, o2, o3>>
          ELSE IF single.perc # 0 /\ double.perc # 0 THEN <<s1, d2, Nobody>>
          ELSE IF single.perc # 0 THEN <<s3, Nobody, Nobody>>
          ELSE <<d3, Nobody, Nobody>>
    BY DEF ThreeFree
  <2> HIDE DEF all, single, double, one, ones, whole, o1, o2, o3, a1, s1, d2, s3, d3
  <2>2. CASE whole
    BY <2>1, <2>2
  <2>3. CASE ~whole /\ single.perc + double.perc < ones
    BY <2>1, <2>3
  <2>4. CASE ~whole /\ ~(single.perc + double.perc < ones)
    BY <2>1, <2>4
  <2> QED BY <2>2, <2>3, <2>4
<1>1. 1 \in 1..3 /\ 2 \in 1..3 /\ 3 \in 1..3 /\ 1 < 2 /\ 2 < 3 /\ 1 < 3 /\ 3 \in Nat \ {0}
  OBVIOUS
<1>2. Unplaced(one[1], b) /\ Unplaced(one[2], b) /\ Unplaced(one[3], b)
  BY <1>1, ListedUnplaced
<1>3. /\ one[2].vec # 0 => one[1].vec # 0 /\ one[1].vec # one[2].vec
      /\ one[3].vec # 0 => one[2].vec # 0 /\ one[2].vec # one[3].vec
      /\ one[3].vec # 0 => one[1].vec # one[3].vec
  BY <1>1, ListedUnplaced
<1> HIDE DEF all, single, double, one
<1>4. /\ a1 # Nobody => a1.after = j /\ a1.first = 6
      /\ s3 # Nobody => s3.after = j /\ s3.first = 6
      /\ d3 # Nobody => d3.after = j /\ d3.first = 6
      /\ s1 # Nobody => s1.after = j /\ s1.first = 6
      /\ o1 # Nobody => o1.after = j /\ o1.first = 6
  BY DEF Give
<1>5. /\ o1 # Nobody => o1.vec = one[1].vec
      /\ one[1].perc # 0 => o1 # Nobody /\ o1.nr_sec = 1
      /\ one[1].perc = 0 => o1 = Nobody
  BY DEF Give, Nobody
<1>6. /\ o2 # Nobody => /\ one[2].perc # 0 /\ o2.vec = one[2].vec /\ o2.after = one[1].vec
                        /\ o2.first = 7
      /\ one[2].perc # 0 => o2 # Nobody /\ o2.nr_sec = 1
      /\ one[2].perc = 0 => o2 = Nobody
  BY DEF Give, Nobody
<1>7. o3 # Nobody => /\ one[3].perc # 0 /\ o3.vec = one[3].vec /\ o3.after = one[2].vec
                     /\ o3.first = 8
  BY DEF Give, Nobody
<1>8. single.perc # 0 /\ d2 # Nobody => Follows(d2, s1)
  <2>1. 7 = 6 + 1
    OBVIOUS
  <2> QED BY <2>1 DEF Give, Nobody, Follows
<1> HIDE DEF a1, s1, d2, s3, d3, o1, o2, o3
<1>9. 6 = 9 - 3 /\ 7 = 6 + 1 /\ 8 = 7 + 1
  OBVIOUS
<1>10. o2 # Nobody => \/ Follows(o2, o1)
                      \/ /\ b[o2.after].located = 0 /\ o2.vec # o2.after
                         /\ o1 # Nobody => o1.vec # o2.after
                         /\ o3 # Nobody => o3.vec # o2.after
  <2> SUFFICES ASSUME o2 # Nobody
               PROVE  \/ Follows(o2, o1)
                      \/ /\ b[o2.after].located = 0 /\ o2.vec # o2.after
                         /\ o1 # Nobody => o1.vec # o2.after
                         /\ o3 # Nobody => o3.vec # o2.after
    OBVIOUS
  <2>1. CASE one[1].perc # 0
    <3>1. Follows(o2, o1)
      BY <1>4, <1>5, <1>6, <1>9, <2>1 DEF Follows
    <3> QED BY <3>1
  <2>2. CASE one[1].perc = 0
    <3>1. one[2].vec # 0 /\ b[one[1].vec].located = 0 /\ o1 = Nobody
      BY <1>2, <1>3, <1>5, <1>6, <2>2 DEF Unplaced
    <3>2. o3 # Nobody => one[3].vec # 0
      BY <1>2, <1>7 DEF Unplaced
    <3> QED BY <1>3, <1>6, <1>7, <3>1, <3>2
  <2> QED BY <2>1, <2>2
<1>11. o3 # Nobody => \/ Follows(o3, o2)
                      \/ /\ b[o3.after].located = 0 /\ o3.vec # o3.after
                         /\ o1 # Nobody => o1.vec # o3.after
                         /\ o2 # Nobody => o2.vec # o3.after
  <2> SUFFICES ASSUME o3 # Nobody
               PROVE  \/ Follows(o3, o2)
                      \/ /\ b[o3.after].located = 0 /\ o3.vec # o3.after
                         /\ o1 # Nobody => o1.vec # o3.after
                         /\ o2 # Nobody => o2.vec # o3.after
    OBVIOUS
  <2>1. CASE one[2].perc # 0
    <3>1. Follows(o3, o2)
      BY <1>6, <1>7, <1>9, <2>1 DEF Follows
    <3> QED BY <3>1
  <2>2. CASE one[2].perc = 0
    <3>1. one[3].vec # 0 /\ one[2].vec # 0 /\ b[one[2].vec].located = 0 /\ o2 = Nobody
      BY <1>2, <1>3, <1>6, <1>7, <2>2 DEF Unplaced
    <3> QED BY <1>3, <1>5, <1>7, <3>1
  <2> QED BY <2>1, <2>2
<1>12. /\ Linked(<<a1, Nobody, Nobody>>, b, j, 3)
       /\ Linked(<<s3, Nobody, Nobody>>, b, j, 3)
       /\ Linked(<<d3, Nobody, Nobody>>, b, j, 3)
  BY <1>4, <1>9, LinkOfThree
<1>13. Linked(<<o1, o2, o3>>, b, j, 3)
  BY <1>4, <1>9, <1>10, <1>11, LinkOfThree
<1>14. single.perc # 0 => Linked(<<s1, d2, Nobody>>, b, j, 3)
  BY <1>4, <1>8, <1>9, LinkOfThree
<1> QED BY <1>0, <1>12, <1>13, <1>14

LEMMA InsertMemLinked ==
  ASSUME memory \in Requests, NEW b, NEW j \in Partition, b[j].located # 0,
         NEW sub \in Nat, NEW num_free \in 0..3
  PROVE  Linked(insertMem(num_free, b, j, sub), b, j, num_free)
<1>1. CASE num_free = 0
  <2>1. insertMem(num_free, b, j, sub) = <<Nobody, Nobody, Nobody>>
    BY <1>1 DEF insertMem
  <2>2. Linked(<<Nobody, Nobody, Nobody>>, b, j, num_free)
    BY LinkOfThree
  <2> QED BY <2>1, <2>2
<1>2. CASE num_free = 1
  <2>1. insertMem(num_free, b, j, sub) = OneFree(b, j, sub)
    BY <1>2 DEF insertMem
  <2>2. Chained(OneFree(b, j, sub), j, 1)
    BY OneFreeGifts
  <2> QED BY <1>2, <2>1, <2>2 DEF Chained, Linked
<1>3. CASE num_free = 2
  <2>1. insertMem(num_free, b, j, sub) = TwoFree(b, j, sub)
    BY <1>3 DEF insertMem
  <2> QED BY <1>3, <2>1, TwoFreeLinked
<1>4. CASE num_free = 3
  <2>1. insertMem(num_free, b, j, sub) = ThreeFree(b, j, sub)
    BY <1>4 DEF insertMem
  <2> QED BY <1>4, <2>1, ThreeFreeLinked
<1> QED BY <1>1, <1>2, <1>3, <1>4

-----------------------------------------------------------------------------
(* How the gifts lie, when sizes are kept and pairs are not divided.       *)

Kept(b, top) ==
  \A i \in Partition : b[i].located = 0 /\ memory[i] <= top => memory[i] < PercWord

Undivided(b, sub) ==
  \A a, p, q \in Partition :
     /\ b[a].located = 0 /\ b[p].located = 0 /\ b[q].located = 0
     /\ a # p /\ a # q /\ p # q
     /\ sub < memory[a] /\ memory[a] <= 2 * sub
     /\ memory[p] <= sub /\ memory[q] <= sub
     => memory[a] < memory[p] + memory[q]

(* What is listed of sizes that are kept. *)
KeptEntry(c, b, high) ==
  \/ c.vec = 0 /\ c.perc = 0
  \/ /\ c.vec \in Partition /\ Candidate(b, 0, high, c.vec)
     /\ c.vec # 0 /\ c.perc # 0 /\ c.perc = memory[c.vec]

LEMMA KeptExact ==
  ASSUME memory \in Requests, NEW b, NEW n \in Nat \ {0}, NEW high \in Nat, Kept(b, high),
         NEW k \in 1..n
  PROVE  /\ KeptEntry(Best(b, n, 0, high)[k], b, high)
         /\ \A c \in Partition :
              Candidate(b, 0, high, c) => memory[c] <= Best(b, n, 0, high)[1].perc
<1> DEFINE best == Best(b, n, 0, high)
<1>1. /\ memory \in Seq(Nat \ {0}) /\ PercWord \in Nat \ {0}
      /\ Partition = 1..Len(memory) /\ Len(memory) \in Nat
      /\ \A i \in Partition : memory[i] \in Nat \ {0}
  BY MemoryFacts DEF Asked
<1>2. \A i \in 1..Len(memory) : Candidate(b, 0, high, i) => memory[i] < PercWord
  BY <1>1 DEF Kept, Candidate
<1>3. /\ best \in [1..n -> Entry]
      /\ Listed(best, n, Len(memory), b, 0, high)
      /\ Exact(best, n, Len(memory), b, 0, high)
  <2> HIDE DEF best
  <2> QED BY <1>1, <1>2, BestListed, BestExact DEF best
<1> HIDE DEF best
<1>4. ASSUME best[k].vec # 0
      PROVE  /\ best[k].perc = memory[best[k].vec] /\ best[k].perc # 0
             /\ best[k].vec \in Partition /\ Candidate(b, 0, high, best[k].vec)
  <2>1. best[k].vec \in Partition /\ Candidate(b, 0, high, best[k].vec)
    BY <1>1, <1>3, <1>4 DEF Listed
  <2>2. best[k].perc = memory[best[k].vec]
    BY <1>3, <1>4 DEF Exact
  <2> QED BY <1>1, <2>1, <2>2
<1>5. \A c \in Partition : Candidate(b, 0, high, c) => memory[c] <= best[1].perc
  BY <1>1, <1>3 DEF Exact
<1>6. best[k].vec = 0 => best[k].perc = 0
  BY <1>3 DEF Listed
<1> QED BY <1>4, <1>5, <1>6 DEF best, KeptEntry

LEMMA TwoFreeChained ==
  ASSUME memory \in Requests, NEW b, NEW j \in Partition, b[j].located # 0,
         NEW sub \in Nat, Kept(b, 2 * sub), Undivided(b, sub)
  PROVE  Chained(TwoFree(b, j, sub), j, 2)
<1> DEFINE both == Best(b, 1, 0, 2 * sub)[1]
           one == Best(b, 2, 0, sub)
           pair == both.perc # 0 /\ both.perc >= one[1].perc + one[2].perc
           g1 == IF pair THEN Give(both, j, 2, 7) ELSE Give(one[1], j, 1, 7)
           g2 == Give(one[2], one[1].vec, 1, 8)
<1>0. TwoFree(b, j, sub) = <<g1, g2, Nobody>>
  BY DEF TwoFree
<1>1. /\ 1 \in Nat \ {0} /\ 2 \in Nat \ {0} /\ 1 \in 1..1 /\ 1 \in 1..2 /\ 2 \in 1..2 /\ 1 < 2
      /\ 2 * sub \in Nat
  OBVIOUS
<1>2. \A i \in Partition : memory[i] \in Nat \ {0}
  BY MemoryFacts DEF Asked
<1>3. Kept(b, sub)
  <2>1. \A i \in Partition : memory[i] <= sub => memory[i] <= 2 * sub
    BY <1>2
  <2> QED BY <2>1 DEF Kept
<1>4. one[2].perc # 0 => /\ one[1].vec # 0 /\ one[1].vec \in Partition
                         /\ one[1].vec # one[2].vec
  BY <1>1, ListedApart
<1>5. KeptEntry(both, b, 2 * sub)
  BY <1>1, KeptExact
<1>6. KeptEntry(one[1], b, sub) /\ KeptEntry(one[2], b, sub)
  BY <1>1, <1>3, KeptExact
<1>7. \A c \in Partition : Candidate(b, 0, sub, c) => memory[c] <= one[1].perc
  BY <1>1, <1>3, KeptExact
<1> HIDE DEF both, one
<1>8. ASSUME one[2].perc # 0 PROVE ~pair
  <2> SUFFICES ASSUME pair PROVE FALSE
    OBVIOUS
  <2> DEFINE a == both.vec
             p == one[1].vec
             q == one[2].vec
  <2>1. /\ a \in Partition /\ p \in Partition /\ q \in Partition /\ p # q
        /\ b[a].located = 0 /\ b[p].located = 0 /\ b[q].located = 0
        /\ memory[a] <= 2 * sub /\ memory[p] <= sub /\ memory[q] <= sub
        /\ both.perc = memory[a] /\ one[1].perc = memory[p] /\ one[2].perc = memory[q]
    BY <1>4, <1>5, <1>6, <1>8 DEF Candidate, KeptEntry
  <2>2. memory[a] >= memory[p] + memory[q]
    BY <2>1
  <2> HIDE DEF a, p, q
  <2>3. memory[a] \in Nat \ {0} /\ memory[p] \in Nat \ {0} /\ memory[q] \in Nat \ {0}
    BY <1>2, <2>1
  <2>4. a # p /\ a # q
    BY <2>2, <2>3
  <2>5. sub < memory[a]
    <3> SUFFICES ASSUME memory[a] <= sub PROVE FALSE
      BY <2>3
    <3>1. Candidate(b, 0, sub, a)
      BY <2>1, <2>3 DEF Candidate
    <3>2. memory[a] <= memory[p]
      BY <1>7, <2>1, <3>1
    <3> QED BY <2>2, <2>3, <3>2
  <2>6. memory[a] < memory[p] + memory[q]
    BY <2>1, <2>4, <2>5 DEF Undivided
  <2> QED BY <2>2, <2>3, <2>6
<1>9. g1 # Nobody => g1.after = j /\ g1.first = 7
  BY DEF Give
<1>10. g2 # Nobody => /\ g1 # Nobody /\ g2.after = g1.vec
                      /\ g1.nr_sec = 1 /\ g2.first = 8 /\ g1.first = 7
  <2> SUFFICES ASSUME g2 # Nobody PROVE /\ g1 # Nobody /\ g2.after = g1.vec
                                        /\ g1.nr_sec = 1 /\ g2.first = 8 /\ g1.first = 7
    OBVIOUS
  <2>1. one[2].perc # 0
    BY DEF Give
  <2>2. ~pair /\ one[1].perc # 0
    BY <1>4, <1>6, <1>8, <2>1 DEF KeptEntry
  <2>3. g1 = [vec |-> one[1].vec, after |-> j, nr_sec |-> 1, first |-> 7]
    BY <2>2 DEF Give
  <2>4. g2 = [vec |-> one[2].vec, after |-> one[1].vec, nr_sec |-> 1, first |-> 8]
    BY <2>1 DEF Give
  <2> QED BY <2>3, <2>4 DEF Nobody
<1> HIDE DEF g1, g2
<1>11. Chained(<<g1, g2, Nobody>>, j, 2)
  <2>1. 7 = 9 - 2 /\ 8 = 7 + 1
    OBVIOUS
  <2> QED BY <1>9, <1>10, <2>1, ChainOfThree
<1> QED BY <1>0, <1>11

LEMMA ThreeFreeChained ==
  ASSUME memory \in Requests, NEW b, NEW j \in Partition, b[j].located # 0,
         NEW sub \in Nat, Kept(b, sub)
  PROVE  Chained(ThreeFree(b, j, sub), j, 3)
<1> DEFINE all == Best(b, 1, 0, 3 * sub)[1]
           single == Best(b, 1, 0, sub)[1]
           double == Best(b, 1, sub, 2 * sub)[1]
           one == Best(b, 3, 0, sub)
           ones == one[1].perc + one[2].perc + one[3].perc
           whole == all.perc # 0 /\ all.perc >= single.perc + double.perc /\ all.perc >= ones
           o1 == Give(one[1], j, 1, 6)
           o2 == Give(one[2], one[1].vec, 1, 7)
           o3 == Give(one[3], one[2].vec, 1, 8)
           a1 == Give(all, j, 3, 6)
           s1 == Give(single, j, 1, 6)
           d2 == Give(double, single.vec, 2, 7)
           s3 == Give(single, j, 3, 6)
           d3 == Give(double, j, 3, 6)
<1>0. \/ ThreeFree(b, j, sub) = <<a1, Nobody, Nobody>>
      \/ ThreeFree(b, j, sub) = <<o1, o2, o3>>
      \/ ThreeFree(b, j, sub) = <<s3, Nobody, Nobody>>
      \/ ThreeFree(b, j, sub) = <<d3, Nobody, Nobody>>
      \/ /\ single.perc # 0 /\ double.perc # 0
         /\ ThreeFree(b, j, sub) = <<s1, d2, Nobody>>
  <2>1. ThreeFree(b, j, sub) =
          IF whole THEN <<a1, Nobody, Nobody>>
          ELSE IF single.perc + double.perc < ones THEN <<o1, o2, o3>>
          ELSE IF single.perc # 0 /\ double.perc # 0 THEN <<s1, d2, Nobody>>
          ELSE IF single.perc # 0 THEN <<s3, Nobody, Nobody>>
          ELSE <<d3, Nobody, Nobody>>
    BY DEF ThreeFree
  <2> HIDE DEF all, single, double, one, ones, whole, o1, o2, o3, a1, s1, d2, s3, d3
  <2>2. CASE whole
    BY <2>1, <2>2
  <2>3. CASE ~whole /\ single.perc + double.perc < ones
    BY <2>1, <2>3
  <2>4. CASE ~whole /\ ~(single.perc + double.perc < ones)
    BY <2>1, <2>4
  <2> QED BY <2>2, <2>3, <2>4
<1>1. 1 \in 1..3 /\ 2 \in 1..3 /\ 3 \in 1..3 /\ 1 < 2 /\ 2 < 3 /\ 3 \in Nat \ {0}
  OBVIOUS
<1>2. /\ KeptEntry(one[1], b, sub) /\ KeptEntry(one[2], b, sub)
  BY <1>1, KeptExact
<1>3. /\ one[2].perc # 0 => one[1].vec # 0
      /\ one[3].perc # 0 => one[2].vec # 0
  BY <1>1, ListedApart
<1>4. /\ one[2].perc # 0 => one[1].perc # 0
      /\ one[3].perc # 0 => one[2].perc # 0
  BY <1>2, <1>3 DEF KeptEntry
<1> HIDE DEF all, single, double, one
<1>5. /\ a1 # Nobody => a1.after = j /\ a1.first = 6
      /\ s3 # Nobody => s3.after = j /\ s3.first = 6
      /\ d3 # Nobody => d3.after = j /\ d3.first = 6
      /\ s1 # Nobody => s1.after = j /\ s1.first = 6
      /\ o1 # Nobody => o1.after = j /\ o1.first = 6
  BY DEF Give
<1>6. o2 # Nobody => /\ o1 # Nobody /\ o2.after = o1.vec
                     /\ o1.nr_sec = 1 /\ o2.first = 7 /\ o1.first = 6
  BY <1>4 DEF Give, Nobody
<1>7. o3 # Nobody => /\ o2 # Nobody /\ o3.after = o2.vec
                     /\ o2.nr_sec = 1 /\ o3.first = 8 /\ o2.first = 7
  BY <1>4 DEF Give, Nobody
<1>8. single.perc # 0 /\ d2 # Nobody =>
        /\ s1 # Nobody /\ d2.after = s1.vec
        /\ s1.nr_sec = 1 /\ d2.first = 7 /\ s1.first = 6
  BY DEF Give, Nobody
<1> HIDE DEF a1, s1, d2, s3, d3, o1, o2, o3
<1>9. 6 = 9 - 3 /\ 7 = 6 + 1 /\ 8 = 7 + 1
  OBVIOUS
<1>10. /\ Chained(<<a1, Nobody, Nobody>>, j, 3)
       /\ Chained(<<s3, Nobody, Nobody>>, j, 3)
       /\ Chained(<<d3, Nobody, Nobody>>, j, 3)
  BY <1>5, <1>9, ChainOfThree
<1>11. Chained(<<o1, o2, o3>>, j, 3)
  BY <1>5, <1>6, <1>7, <1>9, ChainOfThree
<1>12. single.perc # 0 => Chained(<<s1, d2, Nobody>>, j, 3)
  BY <1>5, <1>8, <1>9, ChainOfThree
<1> QED BY <1>0, <1>10, <1>11, <1>12

LEMMA InsertMemChained ==
  ASSUME memory \in Requests, NEW b, NEW j \in Partition, b[j].located # 0,
         NEW sub \in Nat, NEW num_free \in 0..3,
         Kept(b, num_free * sub), num_free = 2 => Undivided(b, sub)
  PROVE  Chained(insertMem(num_free, b, j, sub), j, num_free)
<1>1. CASE num_free = 0
  <2>1. insertMem(num_free, b, j, sub) = <<Nobody, Nobody, Nobody>>
    BY <1>1 DEF insertMem
  <2>2. Chained(<<Nobody, Nobody, Nobody>>, j, num_free)
    BY ChainOfThree
  <2> QED BY <2>1, <2>2
<1>2. CASE num_free = 1
  <2>1. insertMem(num_free, b, j, sub) = OneFree(b, j, sub)
    BY <1>2 DEF insertMem
  <2> QED BY <1>2, <2>1, OneFreeGifts
<1>3. CASE num_free = 2
  <2>1. insertMem(num_free, b, j, sub) = TwoFree(b, j, sub)
    BY <1>3 DEF insertMem
  <2> QED BY <1>3, <2>1, TwoFreeChained
<1>4. CASE num_free = 3
  <2>1. insertMem(num_free, b, j, sub) = ThreeFree(b, j, sub)
    BY <1>4 DEF insertMem
  <2>2. Kept(b, sub)
    <3>1. \A i \in Partition : memory[i] \in Nat
      BY MemoryFacts DEF Asked
    <3>2. \A i \in Partition : memory[i] <= sub => memory[i] <= num_free * sub
      BY <1>4, <3>1
    <3> QED BY <3>2 DEF Kept
  <2> QED BY <1>4, <2>1, <2>2, ThreeFreeChained
<1> QED BY <1>1, <1>2, <1>3, <1>4

-----------------------------------------------------------------------------
(* The blocks after a round.                                               *)

(* bb is b after g has been placed. *)
PlacedAs(bb, b, g, j, sub, region, nr) ==
  /\ bb \in [Partition -> BlockRecord]
  /\ g = Nobody => bb = b
  /\ g # Nobody =>
       /\ bb[g.vec] = Block(b[g.after].adress + (IF g.after = j THEN b[j].located ELSE sub),
                            sub, region, g.nr_sec, g.first, nr)
       /\ \A i \in Partition \ {g.vec} : bb[i] = b[i]

LEMMA PlacedBlock ==
  ASSUME memory \in Requests, NEW b \in [Partition -> BlockRecord], NEW g, NEW j \in Partition,
         NEW sub \in Nat, NEW region \in Nat, NEW nr \in Nat,
         g # Nobody => /\ g.vec \in Partition /\ g.after \in Partition
                       /\ g.nr_sec \in Nat /\ g.first \in Nat
  PROVE  PlacedAs(Placed(b, g, j, sub, region, nr), b, g, j, sub, region, nr)
<1>1. CASE g = Nobody
  BY <1>1 DEF Placed, PlacedAs
<1>2. CASE g # Nobody
  <2> DEFINE end == b[g.after].adress + (IF g.after = j THEN b[j].located ELSE sub)
             x == Block(end, sub, region, g.nr_sec, g.first, nr)
  <2>1. end \in Nat
    BY <1>2 DEF BlockRecord
  <2>2. sub * g.nr_sec \in Nat /\ end % AddressWord \in Nat
    <3>1. AddressWord \in Nat \ {0}
      BY MemoryFacts
    <3> HIDE DEF end
    <3> QED BY <1>2, <2>1, <3>1
  <2>3. x \in BlockRecord
    <3> HIDE DEF end
    <3> QED BY <1>2, <2>2 DEF Block, BlockRecord
  <2>4. Placed(b, g, j, sub, region, nr) = [b EXCEPT ![g.vec] = x]
    BY <1>2 DEF Placed
  <2> HIDE DEF x
  <2>5. /\ [b EXCEPT ![g.vec] = x] \in [Partition -> BlockRecord]
        /\ [b EXCEPT ![g.vec] = x][g.vec] = x
        /\ \A i \in Partition \ {g.vec} : [b EXCEPT ![g.vec] = x][i] = b[i]
    BY <1>2, <2>3
  <2> QED BY <1>2, <2>4, <2>5 DEF x, PlacedAs
<1> QED BY <1>1, <1>2

(* Who has been given sections has a block of them, the others as before. *)
GivenTo(bb, b, G, sub, region, nr) ==
  /\ bb \in [Partition -> BlockRecord]
  /\ \A k \in 1..3 : G[k] # Nobody =>
       \E adr \in Nat : bb[G[k].vec] = Block(adr, sub, region, G[k].nr_sec, G[k].first, nr)
  /\ \A i \in Partition :
       (\A k \in 1..3 : G[k] = Nobody \/ G[k].vec # i) => bb[i] = b[i]

LEMMA GivenBlocks ==
  ASSUME memory \in Requests, NEW b \in [Partition -> BlockRecord], NEW G, NEW j \in Partition,
         NEW sub \in Nat, NEW region \in Nat, NEW nr \in Nat,
         AreGifts(G, b, j, sub)
  PROVE  GivenTo(Given(b, G, j, sub, region, nr), b, G, sub, region, nr)
<1> DEFINE b1 == Placed(b, G[1], j, sub, region, nr)
           b2 == Placed(b1, G[2], j, sub, region, nr)
           b3 == Placed(b2, G[3], j, sub, region, nr)
           Is(x, g) == \E adr \in Nat : x = Block(adr, sub, region, g.nr_sec, g.first, nr)
<1>1. \A k \in 1..3 : G[k] # Nobody =>
         /\ G[k].vec \in Partition /\ G[k].after \in Partition
         /\ G[k].nr_sec \in Nat /\ G[k].first \in Nat
  BY DEF AreGifts, IsGift, GiftRecord
<1>2. 1 \in 1..3 /\ 2 \in 1..3 /\ 3 \in 1..3 /\ \A k \in 1..3 : k = 1 \/ k = 2 \/ k = 3
  OBVIOUS
<1>3. /\ G[1] # Nobody /\ G[2] # Nobody => G[1].vec # G[2].vec
      /\ G[1] # Nobody /\ G[3] # Nobody => G[1].vec # G[3].vec
      /\ G[2] # Nobody /\ G[3] # Nobody => G[2].vec # G[3].vec
  BY <1>2 DEF AreGifts
<1>4. ASSUME NEW c \in [Partition -> BlockRecord], NEW k \in 1..3
      PROVE  /\ Placed(c, G[k], j, sub, region, nr) \in [Partition -> BlockRecord]
             /\ G[k] = Nobody => Placed(c, G[k], j, sub, region, nr) = c
             /\ G[k] # Nobody =>
                  /\ Is(Placed(c, G[k], j, sub, region, nr)[G[k].vec], G[k])
                  /\ \A i \in Partition \ {G[k].vec} : Placed(c, G[k], j, sub, region, nr)[i] = c[i]
  <2> DEFINE g == G[k]
             end == c[g.after].adress + (IF g.after = j THEN c[j].located ELSE sub)
  <2>1. g # Nobody => /\ g.vec \in Partition /\ g.after \in Partition
                      /\ g.nr_sec \in Nat /\ g.first \in Nat
    BY <1>1
  <2>2. g # Nobody => end \in Nat
    BY <2>1 DEF BlockRecord
  <2> HIDE DEF g
  <2>3. PlacedAs(Placed(c, g, j, sub, region, nr), c, g, j, sub, region, nr)
    BY <2>1, PlacedBlock
  <2>4. g # Nobody => Placed(c, g, j, sub, region, nr)[g.vec] =
                        Block(end, sub, region, g.nr_sec, g.first, nr)
    BY <2>3 DEF PlacedAs
  <2> HIDE DEF end
  <2> QED BY <2>2, <2>3, <2>4 DEF g, PlacedAs
<1> HIDE DEF Is
<1>5. b1 \in [Partition -> BlockRecord] /\ b2 \in [Partition -> BlockRecord]
        /\ b3 \in [Partition -> BlockRecord]
  BY <1>2, <1>4
<1>6. /\ G[1] = Nobody => b1 = b
      /\ G[1] # Nobody => Is(b1[G[1].vec], G[1]) /\ \A i \in Partition \ {G[1].vec} : b1[i] = b[i]
  BY <1>2, <1>4
<1>7. /\ G[2] = Nobody => b2 = b1
      /\ G[2] # Nobody => Is(b2[G[2].vec], G[2]) /\ \A i \in Partition \ {G[2].vec} : b2[i] = b1[i]
  BY <1>2, <1>4, <1>5
<1>8. /\ G[3] = Nobody => b3 = b2
      /\ G[3] # Nobody => Is(b3[G[3].vec], G[3]) /\ \A i \in Partition \ {G[3].vec} : b3[i] = b2[i]
  BY <1>2, <1>4, <1>5
<1>9. Given(b, G, j, sub, region, nr) = b3
  BY DEF Given
<1> HIDE DEF b1, b2, b3
<1>10. \A k \in 1..3 : G[k] # Nobody => Is(b3[G[k].vec], G[k])
  <2>1. G[1] # Nobody => b2[G[1].vec] = b1[G[1].vec] /\ b3[G[1].vec] = b2[G[1].vec]
    BY <1>1, <1>2, <1>3, <1>7, <1>8
  <2>2. G[2] # Nobody => b3[G[2].vec] = b2[G[2].vec]
    BY <1>1, <1>2, <1>3, <1>8
  <2> QED BY <1>2, <1>6, <1>7, <1>8, <2>1, <2>2
<1>11. \A i \in Partition : (\A k \in 1..3 : G[k] = Nobody \/ G[k].vec # i) => b3[i] = b[i]
  BY <1>2, <1>6, <1>7, <1>8
<1> QED BY <1>5, <1>9, <1>10, <1>11 DEF GivenTo, Is

LEMMA SmallModulo ==
  ASSUME NEW m \in Nat \ {0}, NEW x \in Nat, x < m
  PROVE  x % m = x
<1>1. 0 \in Nat /\ x \in 0..(m - 1) /\ m * 0 + x = x
  OBVIOUS
<1> QED BY <1>1, ModUnique

(* Gifts in place lie where their first section is in the region at s. *)
LiesAt(bb, G, s, sub, region, nr) ==
  \A k \in 1..3 : G[k] # Nobody /\ InPlace(G, k) =>
     bb[G[k].vec] = Block(s + (G[k].first - 1) * sub, sub, region, G[k].nr_sec, G[k].first, nr)

(* The others lie at the beginning of the memory, for who has no block has *)
(* the address 0.                                                          *)
LiesAstray(bb, G, sub, region, nr) ==
  \A k \in 1..3 : G[k] # Nobody /\ ~InPlace(G, k) =>
     \E adr \in {sub, sub + sub} :
        bb[G[k].vec] = Block(adr, sub, region, G[k].nr_sec, G[k].first, nr)

LEMMA PlacesInOrder ==
  ASSUME NEW G
  PROVE  InPlace(G, 1) /\ (InPlace(G, 2) <=> Joins(G, 2))
         /\ (InPlace(G, 3) <=> Joins(G, 2) /\ Joins(G, 3))
<1>1. /\ \A l : ~(l \in 2..1)
      /\ \A l : l \in 2..2 <=> l = 2
      /\ \A l : l \in 2..3 <=> l = 2 \/ l = 3
  OBVIOUS
<1> QED BY <1>1, Zenon DEF InPlace

LEMMA GivenLinked ==
  ASSUME memory \in Requests, NEW b \in [Partition -> BlockRecord], NEW G, NEW j \in Partition,
         NEW sub \in Nat \ {0}, NEW region \in Nat, NEW nr \in Nat, NEW s \in Nat,
         NEW num_free \in 0..3, AreGifts(G, b, j, sub), Linked(G, b, j, num_free),
         \A i \in Partition : b[i].located = 0 => b[i].adress = 0,
         b[j].adress = s, b[j].located = sub * (8 - num_free), s + 8 * sub <= AddressWord
  PROVE  /\ LiesAt(Given(b, G, j, sub, region, nr), G, s, sub, region, nr)
         /\ LiesAstray(Given(b, G, j, sub, region, nr), G, sub, region, nr)
<1> DEFINE b1 == Placed(b, G[1], j, sub, region, nr)
           b2 == Placed(b1, G[2], j, sub, region, nr)
           b3 == Placed(b2, G[3], j, sub, region, nr)
           Astray(g, n) == Block(n, sub, region, g.nr_sec, g.first, nr)
           At(g) == Block(s + (g.first - 1) * sub, sub, region, g.nr_sec, g.first, nr)
<1>1. \A k \in 1..3 : G[k] # Nobody =>
         /\ G[k].vec \in Partition \ {j} /\ G[k].after \in Partition
         /\ G[k].nr_sec \in Nat /\ G[k].first \in Nat
         /\ G[k].first \in {6, 7, 8}
  BY DEF AreGifts, IsGift, GiftRecord, GiftShapes
<1>2. 1 \in 1..3 /\ 2 \in 1..3 /\ 3 \in 1..3 /\ \A k \in 1..3 : k = 1 \/ k = 2 \/ k = 3
  OBVIOUS
<1>3. /\ G[1] # Nobody /\ G[2] # Nobody => G[1].vec # G[2].vec
      /\ G[1] # Nobody /\ G[3] # Nobody => G[1].vec # G[3].vec
      /\ G[2] # Nobody /\ G[3] # Nobody => G[2].vec # G[3].vec
  BY <1>2 DEF AreGifts
<1>4. PlacedAs(b1, b, G[1], j, sub, region, nr)
  BY <1>1, <1>2, PlacedBlock
<1>5. b1 \in [Partition -> BlockRecord]
  BY <1>4 DEF PlacedAs
<1> HIDE DEF b1
<1>6. PlacedAs(b2, b1, G[2], j, sub, region, nr)
  BY <1>1, <1>2, <1>5, PlacedBlock
<1>7. b2 \in [Partition -> BlockRecord]
  BY <1>6 DEF PlacedAs
<1> HIDE DEF b2
<1>8. PlacedAs(b3, b2, G[3], j, sub, region, nr)
  BY <1>1, <1>2, <1>7, PlacedBlock
<1>9. Given(b, G, j, sub, region, nr) = b3
  BY DEF Given, b1, b2
<1> HIDE DEF b3
<1>10. /\ G[1] # Nobody => G[1].after = j /\ G[1].first = 9 - num_free
       /\ G[2] # Nobody => Joins(G, 2) \/ Loose(G, 2, b)
       /\ G[3] # Nobody => Joins(G, 3) \/ Loose(G, 3, b)
       /\ Joins(G, 2) => /\ G[1] # Nobody /\ G[2].after = G[1].vec
                         /\ G[2].first = G[1].first + 1
       /\ Joins(G, 3) => /\ G[2] # Nobody /\ G[3].after = G[2].vec
                         /\ G[3].first = G[2].first + 1
  <2>1. 2 \in 2..3 /\ 3 \in 2..3 /\ 2 - 1 = 1 /\ 3 - 1 = 2
    OBVIOUS
  <2> QED BY <2>1 DEF Linked, Joins
<1>11. ASSUME NEW g, g.first \in {6, 7, 8}
       PROVE  At(g).adress = s + (g.first - 1) * sub
  <2>1. s + (g.first - 1) * sub \in Nat /\ s + (g.first - 1) * sub < AddressWord
    <3>1. AddressWord \in Nat \ {0}
      BY MemoryFacts
    <3> QED BY <1>11, <3>1
  <2>2. AddressWord \in Nat \ {0}
    BY MemoryFacts
  <2>3. (s + (g.first - 1) * sub) % AddressWord = s + (g.first - 1) * sub
    BY <2>1, <2>2, SmallModulo
  <2> QED BY <2>3 DEF Block
<1>12. G[1] # Nobody => b1[G[1].vec] = At(G[1])
  <2> SUFFICES ASSUME G[1] # Nobody PROVE b1[G[1].vec] = At(G[1])
    OBVIOUS
  <2>1. b[j].adress + b[j].located = s + (G[1].first - 1) * sub
    BY <1>10
  <2>2. G[1].after = j
    BY <1>10
  <2> QED BY <1>4, <2>1, <2>2 DEF PlacedAs
<1>13. \A k \in 2..3 : Loose(G, k, b) /\ G[k] # Nobody =>
          /\ b[G[k].after].adress = 0 /\ G[k].after # j
          /\ \A l \in 1..3 : G[l] # Nobody => G[l].vec # G[k].after
  <2>1. \A k \in 2..3 : k \in 1..3
    OBVIOUS
  <2>2. b[j].located # 0
    <3>1. 8 - num_free \in 5..8
      OBVIOUS
    <3> QED BY <3>1
  <2> QED BY <1>1, <2>1, <2>2 DEF Loose
<1>14. sub \in Nat /\ 0 + sub = sub
  OBVIOUS
<1>15. ASSUME G[2] # Nobody, Joins(G, 2)
       PROVE  b2[G[2].vec] = At(G[2]) /\ b2[G[2].vec].adress = s + (G[2].first - 1) * sub
  <2>1. G[1] # Nobody /\ G[2].after = G[1].vec /\ G[2].first = G[1].first + 1
    BY <1>10, <1>15
  <2>2. G[1].vec \in Partition /\ G[1].vec # j /\ G[1].first \in {6, 7, 8}
    BY <1>1, <1>2, <2>1
  <2>3. b1[G[1].vec].adress = s + (G[1].first - 1) * sub
    BY <1>11, <1>12, <2>1, <2>2
  <2>4. b1[G[1].vec].adress + sub = s + (G[2].first - 1) * sub
    BY <2>1, <2>2, <2>3
  <2>5. b2[G[2].vec] = At(G[2])
    BY <1>6, <1>15, <2>1, <2>2, <2>4 DEF PlacedAs
  <2> QED BY <1>1, <1>2, <1>11, <1>15, <2>5
<1>16. sub % AddressWord = sub
  <2>1. AddressWord \in Nat \ {0}
    BY MemoryFacts
  <2>2. sub < AddressWord
    BY <2>1
  <2> QED BY <2>1, <2>2, SmallModulo
<1>17. ASSUME G[2] # Nobody, ~Joins(G, 2)
       PROVE  b2[G[2].vec] = Astray(G[2], sub) /\ b2[G[2].vec].adress = sub
  <2>1. /\ b[G[2].after].adress = 0 /\ G[2].after # j
        /\ G[1] # Nobody => G[1].vec # G[2].after
    BY <1>2, <1>10, <1>13, <1>17
  <2>2. b1[G[2].after] = b[G[2].after]
    BY <1>1, <1>2, <1>4, <1>17, <2>1 DEF PlacedAs
  <2>3. b2[G[2].vec] = Astray(G[2], sub)
    BY <1>6, <1>14, <1>17, <2>1, <2>2 DEF PlacedAs
  <2>4. Astray(G[2], sub).adress = sub
    BY <1>16 DEF Block
  <2> QED BY <2>3, <2>4
<1>18. ASSUME G[3] # Nobody, Joins(G, 3), Joins(G, 2)
       PROVE  b3[G[3].vec] = At(G[3])
  <2>1. G[2] # Nobody /\ G[3].after = G[2].vec /\ G[3].first = G[2].first + 1
    BY <1>10, <1>18
  <2>2. G[2].vec \in Partition /\ G[2].vec # j /\ G[2].first \in {6, 7, 8}
    BY <1>1, <1>2, <2>1
  <2>3. b2[G[2].vec].adress = s + (G[2].first - 1) * sub
    BY <1>15, <1>18, <2>1
  <2>4. b2[G[2].vec].adress + sub = s + (G[3].first - 1) * sub
    BY <2>1, <2>2, <2>3
  <2> QED BY <1>8, <1>18, <2>1, <2>2, <2>4 DEF PlacedAs
<1>19. ASSUME G[3] # Nobody, ~(Joins(G, 2) /\ Joins(G, 3))
       PROVE  b3[G[3].vec] = Astray(G[3], sub) \/ b3[G[3].vec] = Astray(G[3], sub + sub)
  <2>1. CASE Joins(G, 3)
    <3>1. G[2] # Nobody /\ G[3].after = G[2].vec /\ ~Joins(G, 2)
      BY <1>10, <1>19, <2>1
    <3>2. G[2].vec # j /\ b2[G[2].vec].adress = sub
      BY <1>1, <1>2, <1>17, <3>1
    <3> QED BY <1>8, <1>19, <3>1, <3>2 DEF PlacedAs
  <2>2. CASE ~Joins(G, 3)
    <3>1. /\ b[G[3].after].adress = 0 /\ G[3].after # j
          /\ G[1] # Nobody => G[1].vec # G[3].after
          /\ G[2] # Nobody => G[2].vec # G[3].after
      BY <1>2, <1>10, <1>13, <1>19, <2>2
    <3>2. b2[G[3].after] = b[G[3].after]
      <4>1. G[3].after \in Partition
        BY <1>1, <1>2, <1>19
      <4>2. b1[G[3].after] = b[G[3].after]
        BY <1>4, <3>1, <4>1 DEF PlacedAs
      <4> QED BY <1>6, <3>1, <4>1, <4>2 DEF PlacedAs
    <3> QED BY <1>8, <1>14, <1>19, <3>1, <3>2 DEF PlacedAs
  <2> QED BY <2>1, <2>2
<1>20. /\ G[1] # Nobody => b3[G[1].vec] = b1[G[1].vec]
       /\ G[2] # Nobody => b3[G[2].vec] = b2[G[2].vec]
  BY <1>1, <1>2, <1>3, <1>6, <1>8 DEF PlacedAs
<1>21. InPlace(G, 1) /\ (InPlace(G, 2) <=> Joins(G, 2))
       /\ (InPlace(G, 3) <=> Joins(G, 2) /\ Joins(G, 3))
  BY PlacesInOrder
<1>22. \A k \in 1..3 : G[k] # Nobody /\ InPlace(G, k) => b3[G[k].vec] = At(G[k])
  BY <1>2, <1>12, <1>15, <1>18, <1>20, <1>21
<1>23. \A k \in 1..3 : G[k] # Nobody /\ ~InPlace(G, k) =>
          \E adr \in {sub, sub + sub} : b3[G[k].vec] = Astray(G[k], adr)
  BY <1>2, <1>17, <1>19, <1>20, <1>21
<1> QED BY <1>9, <1>22, <1>23 DEF LiesAt, LiesAstray

-----------------------------------------------------------------------------
(* A round, for the partition it is about.                                 *)

Own(j) == [block EXCEPT ![j] = Block(pointer, Sub(memory[j]), RegionSize(memory[j]),
                                     8 - NumFree(memory[j]), 1, nr_region + 1)]
GiftsOf(j) == insertMem(NumFree(memory[j]), Own(j), j, Sub(memory[j]))

RoundOf(j) ==
  /\ j \in Partition \ Located(block)
  /\ \A i \in Partition \ Located(block) : memory[i] <= memory[j]
  /\ block' = Given(Own(j), GiftsOf(j), j, Sub(memory[j]), RegionSize(memory[j]),
                    nr_region + 1)
  /\ nr_located' = nr_located + 1 + Cardinality({k \in 1..3 : GiftsOf(j)[k] # Nobody})
  /\ nr_region' = nr_region + 1
  /\ pointer' = pointer + RegionSize(memory[j])
  /\ UNCHANGED <<memory, memory_arr>>

LEMMA FirstNumbers ==
  ASSUME NEW n \in Nat
  PROVE  IsFiniteSet(1..n) /\ Cardinality(1..n) = n
<1>1. 1 \in Int /\ n \in Int
  OBVIOUS
<1>2. /\ IsFiniteSet(1..n)
      /\ Cardinality(1..n) = IF 1 > n THEN 0 ELSE n - 1 + 1
  BY <1>1, FS_Interval, Zenon
<1>3. (IF 1 > n THEN 0 ELSE n - 1 + 1) = n
  OBVIOUS
<1> QED BY <1>2, <1>3

LEMMA LargestIs ==
  ASSUME memory \in Requests, Partition \ Located(block) # {}
  PROVE  /\ Largest \in Partition \ Located(block)
         /\ \A i \in Partition \ Located(block) : memory[i] <= memory[Largest]
<1> DEFINE U == Partition \ Located(block)
           top == PowerOf2[MaxExponent]
           M == {memory[i] : i \in U}
<1>1. /\ Partition = 1..Len(memory)
      /\ \A i \in U : memory[i] \in Nat /\ memory[i] <= top
      /\ U \in SUBSET Nat
  BY MemoryFacts DEF Asked
<1>2. PICK j \in U : \A i \in U : memory[i] <= memory[j]
  <2>1. M \in SUBSET (0..top) /\ M # {}
    BY <1>1, MaxIsNat
  <2>2. Max(M) \in M /\ \A y \in M : Max(M) >= y
    <3> HIDE DEF M, top
    <3> QED BY <2>1, MaxIsNat, MaxOfBounded DEF top
  <2> QED BY <1>1, <2>2
<1> DEFINE T == {i \in U : memory[i] = memory[j]}
<1>3. PICK k \in T : \A i \in T : k <= i
  <2>1. T \in SUBSET Nat /\ T # {}
    BY <1>1, <1>2
  <2> HIDE DEF T
  <2> QED BY <2>1, MinOfNaturals
<1>4. \A i \in U : memory[i] < memory[k] \/ (memory[i] = memory[k] /\ k <= i)
  BY <1>1, <1>2, <1>3
<1>5. /\ Largest \in U
      /\ \A i \in U : memory[i] < memory[Largest] \/ (memory[i] = memory[Largest] /\ Largest <= i)
  <2> DEFINE P(x) == \A i \in U : memory[i] < memory[x] \/ (memory[i] = memory[x] /\ x <= i)
  <2>1. Largest = CHOOSE x \in U : P(x)
    BY DEF Largest
  <2>2. \E x \in U : P(x)
    BY <1>3, <1>4
  <2> HIDE DEF P, U
  <2>3. Largest \in U /\ P(Largest)
    BY <2>1, <2>2
  <2> QED BY <2>3 DEF P
<1> QED BY <1>1, <1>5, SMTT(30)

LEMMA RoundIs ==
  ASSUME TypeInv, Round
  PROVE  \E j \in Partition : RoundOf(j)
<1>1. memory \in Requests
  BY DEF TypeInv
<1>2. Partition \ Located(block) # {}
  <2> SUFFICES ASSUME Partition \ Located(block) = {} PROVE FALSE
    OBVIOUS
  <2>1. Located(block) = 1..Len(memory) /\ Len(memory) \in Nat
    BY <1>1, MemoryFacts DEF Located
  <2>2. Cardinality(1..Len(memory)) = Len(memory)
    BY <2>1, FirstNumbers
  <2>3. nr_located = Cardinality(Located(block))
    BY DEF TypeInv
  <2>4. nr_located # Len(memory)
    BY DEF Round
  <2> QED BY <2>1, <2>2, <2>3, <2>4
<1>3. /\ Largest \in Partition \ Located(block)
      /\ \A i \in Partition \ Located(block) : memory[i] <= memory[Largest]
  BY <1>1, <1>2, LargestIs
<1> DEFINE j == Largest
<1>4. /\ block' = Given(Own(j), GiftsOf(j), j, Sub(memory[j]), RegionSize(memory[j]),
                        nr_region + 1)
      /\ nr_located' = nr_located + 1 + Cardinality({k \in 1..3 : GiftsOf(j)[k] # Nobody})
      /\ nr_region' = nr_region + 1
      /\ pointer' = pointer + RegionSize(memory[j])
      /\ UNCHANGED <<memory, memory_arr>>
  BY DEF Round, Own, GiftsOf, Sub, NumFree, NextPointer
<1> HIDE DEF j
<1>5. RoundOf(j)
  BY <1>3, <1>4 DEF RoundOf, j
<1> QED BY <1>3, <1>5 DEF j

-----------------------------------------------------------------------------
(* Types.                                                                  *)

LEMMA BlockIs ==
  ASSUME memory \in Requests, NEW j \in Partition, NEW adr \in Nat, NEW nr_sec, NEW first,
         <<first, nr_sec>> \in BlockShapes, NEW nr \in Nat \ {0}
  PROVE  IsBlock(Block(adr, Sub(memory[j]), RegionSize(memory[j]), nr_sec, first, nr), nr)
<1> DEFINE x == Block(adr, Sub(memory[j]), RegionSize(memory[j]), nr_sec, first, nr)
<1>1. Asked(memory[j]) /\ AddressWord \in Nat \ {0}
  BY MemoryFacts
<1>2. Sub(memory[j]) \in Nat \ {0} /\ RegionSize(memory[j]) = 8 * Sub(memory[j])
  BY <1>1, SectionFacts
<1>3. nr_sec \in Nat /\ first \in Nat
  BY DEF BlockShapes, GiftShapes
<1>4. Sub(memory[j]) * nr_sec \in Nat /\ adr % AddressWord \in Nat
      /\ RegionSize(memory[j]) \in Nat
  BY <1>1, <1>2, <1>3
<1>5. x \in BlockRecord
  BY <1>3, <1>4 DEF Block, BlockRecord
<1>6. /\ x.region = RegionSize(memory[j]) /\ x.first = first /\ x.nr_sec = nr_sec
      /\ x.located = Sub(memory[j]) * nr_sec /\ x.nr_region = nr
  BY DEF Block
<1> HIDE DEF x
<1>7. x.located = (x.region \div 8) * x.nr_sec
  BY <1>6 DEF Sub
<1>8. IsBlock(x, nr)
  BY <1>5, <1>6, <1>7 DEF IsBlock
<1> QED BY <1>8 DEF x

(* A block is as large as some of the sections of its region. *)
LEMMA BlockHolds ==
  ASSUME memory \in Requests, NEW x, NEW nr \in Nat, IsBlock(x, nr)
  PROVE  x.located \in 1..x.region /\ x # None
<1>1. PICK j \in Partition : x.region = RegionSize(memory[j])
  BY DEF IsBlock
<1>2. Sub(memory[j]) \in Nat \ {0} /\ RegionSize(memory[j]) = 8 * Sub(memory[j])
  BY MemoryFacts, SectionFacts
<1>3. x.located = Sub(memory[j]) * x.nr_sec
  BY <1>1 DEF IsBlock, Sub
<1>4. x.nr_sec \in {1, 2, 3, 5, 6, 7, 8}
  BY DEF IsBlock, BlockShapes, GiftShapes
<1>5. x.located \in 1..x.region
  BY <1>1, <1>2, <1>3, <1>4
<1> QED BY <1>5 DEF None

LEMMA TypeInit == Init => TypeInv
<1> SUFFICES ASSUME Init PROVE TypeInv
  OBVIOUS
<1>1. /\ memory \in Requests /\ Base \in Nat /\ Partition = 1..Len(memory)
      /\ \A i \in Partition : memory[i] \in Nat
  <2>1. memory \in Requests
    BY DEF Init
  <2> QED BY <2>1, MemoryFacts DEF Asked
<1>2. Located(block) = {}
  BY DEF Init, Located, None
<1>3. None \in BlockRecord
  BY DEF None, BlockRecord
<1>4. block \in [Partition -> BlockRecord] /\ \A i \in Partition : block[i] = None
  BY <1>3 DEF Init
<1>5. memory_arr \in [Partition -> [size : Nat, address : Nat]]
  BY <1>1 DEF Init
<1>6. nr_located = Cardinality(Located(block)) /\ nr_region \in 0..nr_located
  <2>1. Cardinality({}) = 0
    BY FS_EmptySet
  <2>2. nr_located = 0 /\ nr_region = 0
    BY DEF Init
  <2> QED BY <1>2, <2>1, <2>2
<1>7. pointer \in Nat
  BY <1>1 DEF Init
<1>8. \A i \in Partition : block[i] = None \/ IsBlock(block[i], nr_region)
  BY <1>4
<1>9. memory \in Requests /\ block \in [Partition -> BlockRecord]
  BY <1>1, <1>4
<1> QED BY <1>5, <1>6, <1>7, <1>8, <1>9, ZenonT(30) DEF TypeInv

LEMMA CountsAreNat ==
  ASSUME TypeInv
  PROVE  /\ nr_region \in Nat /\ nr_located \in Nat
         /\ Cardinality(Partition) = Len(memory) /\ IsFiniteSet(Partition)
<1>1. Partition = 1..Len(memory) /\ Len(memory) \in Nat
  BY MemoryFacts DEF TypeInv
<1>2. IsFiniteSet(Partition) /\ Cardinality(Partition) = Len(memory)
  BY <1>1, FirstNumbers
<1>3. Located(block) \in SUBSET Partition
  BY DEF Located
<1>4. Cardinality(Located(block)) \in Nat
  BY <1>2, <1>3, FS_Subset, FS_CardinalityType
<1> QED BY <1>2, <1>4 DEF TypeInv

(* The region of partition j, and whom the rest of it is given to. *)
LEMMA OwnFacts ==
  ASSUME TypeInv, NEW j \in Partition
  PROVE  /\ memory \in Requests
         /\ Asked(memory[j])
         /\ Sub(memory[j]) \in Nat \ {0}
         /\ RegionSize(memory[j]) = 8 * Sub(memory[j])
         /\ NumFree(memory[j]) \in 0..3
         /\ nr_region + 1 \in Nat \ {0}
         /\ Own(j) \in [Partition -> BlockRecord]
         /\ Own(j)[j] = Block(pointer, Sub(memory[j]), RegionSize(memory[j]),
                              8 - NumFree(memory[j]), 1, nr_region + 1)
         /\ IsBlock(Own(j)[j], nr_region + 1)
         /\ \A i \in Partition \ {j} : Own(j)[i] = block[i]
         /\ AreGifts(GiftsOf(j), Own(j), j, Sub(memory[j]))
<1> DEFINE x == Block(pointer, Sub(memory[j]), RegionSize(memory[j]),
                      8 - NumFree(memory[j]), 1, nr_region + 1)
<1>1. memory \in Requests /\ Asked(memory[j]) /\ pointer \in Nat
      /\ block \in [Partition -> BlockRecord]
  BY MemoryFacts DEF TypeInv
<1>2. /\ Sub(memory[j]) \in Nat \ {0} /\ RegionSize(memory[j]) = 8 * Sub(memory[j])
      /\ NumFree(memory[j]) \in 0..3
  BY <1>1, SectionFacts
<1>3. nr_region \in Nat
  BY CountsAreNat
<1>4. <<1, 8 - NumFree(memory[j])>> \in BlockShapes
  <2>1. 8 - NumFree(memory[j]) \in 5..8
    BY <1>2
  <2> QED BY <2>1 DEF BlockShapes
<1>5. nr_region + 1 \in Nat \ {0}
  BY <1>3
<1>6. IsBlock(x, nr_region + 1)
  BY <1>1, <1>4, <1>5, BlockIs
<1>7. x \in BlockRecord
  BY <1>6 DEF IsBlock
<1>8. Own(j) = [block EXCEPT ![j] = x]
  BY DEF Own
<1> HIDE DEF x
<1>9. /\ Own(j) \in [Partition -> BlockRecord] /\ Own(j)[j] = x
      /\ \A i \in Partition \ {j} : Own(j)[i] = block[i]
  BY <1>1, <1>7, <1>8
<1>10. x.located # 0
  <2>1. x.located \in 1..x.region
    BY <1>1, <1>5, <1>6, BlockHolds
  <2>2. x.region \in Nat
    BY <1>7 DEF BlockRecord
  <2> QED BY <2>1, <2>2
<1>11. AreGifts(GiftsOf(j), Own(j), j, Sub(memory[j]))
  BY <1>1, <1>2, <1>9, <1>10, InsertMemGifts DEF GiftsOf
<1> QED BY <1>1, <1>2, <1>5, <1>6, <1>9, <1>11 DEF x

(* Who has a block after a round. *)
GivenNow(j) == {GiftsOf(j)[k].vec : k \in {k \in 1..3 : GiftsOf(j)[k] # Nobody}}

LEMMA RoundBlocks ==
  ASSUME TypeInv, NEW j \in Partition, RoundOf(j)
  PROVE  /\ GivenTo(block', Own(j), GiftsOf(j), Sub(memory[j]), RegionSize(memory[j]),
                    nr_region + 1)
         /\ block'[j] = Own(j)[j]
         /\ GivenNow(j) \subseteq Partition
         /\ GivenNow(j) \cap (Located(block) \cup {j}) = {}
         /\ \A i \in Partition : i # j /\ i \notin GivenNow(j) => block'[i] = block[i]
<1> DEFINE G == GiftsOf(j)
           own == Own(j)
           sub == Sub(memory[j])
           region == RegionSize(memory[j])
           nr == nr_region + 1
<1>1. /\ memory \in Requests /\ sub \in Nat \ {0} /\ region = 8 * sub /\ nr \in Nat \ {0}
      /\ own \in [Partition -> BlockRecord]
      /\ \A i \in Partition \ {j} : own[i] = block[i]
      /\ AreGifts(G, own, j, sub)
  BY OwnFacts
<1>2. block' = Given(own, G, j, sub, region, nr)
  BY DEF RoundOf
<1> HIDE DEF G, own, sub, region, nr
<1>3. GivenTo(block', own, G, sub, region, nr)
  <2>1. region \in Nat /\ sub \in Nat /\ nr \in Nat
    BY <1>1
  <2> QED BY <1>1, <1>2, <2>1, GivenBlocks
<1>4. \A k \in 1..3 : G[k] # Nobody => /\ G[k].vec \in Partition /\ G[k].vec # j
                                       /\ own[G[k].vec].located = 0
  BY <1>1 DEF AreGifts, IsGift
<1>5. block'[j] = own[j]
  BY <1>3, <1>4 DEF GivenTo
<1>6. GivenNow(j) = {G[k].vec : k \in {k \in 1..3 : G[k] # Nobody}}
  BY DEF GivenNow, G
<1>7. GivenNow(j) \subseteq Partition
  BY <1>4, <1>6
<1>8. GivenNow(j) \cap (Located(block) \cup {j}) = {}
  BY <1>1, <1>4, <1>6 DEF Located
<1>9. ASSUME NEW i \in Partition, i # j, i \notin GivenNow(j) PROVE block'[i] = block[i]
  <2>1. \A k \in 1..3 : G[k] = Nobody \/ G[k].vec # i
    BY <1>6, <1>9
  <2>2. block'[i] = own[i]
    BY <1>3, <2>1 DEF GivenTo
  <2> QED BY <1>1, <1>9, <2>2
<1> QED BY <1>3, <1>5, <1>7, <1>8, <1>9 DEF G, own, sub, region, nr

LEMMA LocatedAfterRound ==
  ASSUME TypeInv, NEW j \in Partition, RoundOf(j)
  PROVE  /\ {i \in Partition : block'[i].located # 0} =
              (Located(block) \cup {j}) \cup GivenNow(j)
         /\ \A i \in Partition : block'[i] = None \/ IsBlock(block'[i], nr_region + 1)
<1> DEFINE nr == nr_region + 1
           new == {i \in Partition : block'[i].located # 0}
<1>1. /\ memory \in Requests /\ nr \in Nat \ {0} /\ Sub(memory[j]) \in Nat \ {0}
      /\ IsBlock(Own(j)[j], nr) /\ AreGifts(GiftsOf(j), Own(j), j, Sub(memory[j]))
  BY OwnFacts
<1>2. /\ GivenTo(block', Own(j), GiftsOf(j), Sub(memory[j]), RegionSize(memory[j]), nr)
      /\ block'[j] = Own(j)[j]
      /\ GivenNow(j) \subseteq Partition
      /\ GivenNow(j) \cap (Located(block) \cup {j}) = {}
      /\ \A i \in Partition : i # j /\ i \notin GivenNow(j) => block'[i] = block[i]
  BY RoundBlocks
<1>3. nr_region \in 0..nr /\ \A i \in Partition : block[i] = None \/ IsBlock(block[i], nr_region)
  BY <1>1 DEF TypeInv
<1>4. \A x : IsBlock(x, nr) => x.located # 0
  <2> SUFFICES ASSUME NEW x, IsBlock(x, nr) PROVE x.located # 0
    OBVIOUS
  <2>1. x.located \in 1..x.region /\ x.region \in Nat
    BY <1>1, BlockHolds DEF IsBlock, BlockRecord
  <2> QED BY <2>1
<1> HIDE DEF nr
<1>5. ASSUME NEW i \in GivenNow(j) PROVE IsBlock(block'[i], nr)
  <2>1. PICK k \in 1..3 : GiftsOf(j)[k] # Nobody /\ GiftsOf(j)[k].vec = i
    BY <1>5 DEF GivenNow
  <2>2. PICK adr \in Nat : block'[i] = Block(adr, Sub(memory[j]), RegionSize(memory[j]),
                              GiftsOf(j)[k].nr_sec, GiftsOf(j)[k].first, nr)
    BY <1>2, <2>1 DEF GivenTo
  <2>3. <<GiftsOf(j)[k].first, GiftsOf(j)[k].nr_sec>> \in BlockShapes
    BY <1>1, <2>1 DEF AreGifts, IsGift, BlockShapes
  <2> QED BY <1>1, <2>2, <2>3, BlockIs
<1>6. IsBlock(block'[j], nr)
  BY <1>1, <1>2 DEF nr
<1>7. ASSUME NEW i \in Partition, i # j, i \notin GivenNow(j)
      PROVE  block'[i] = None \/ IsBlock(block'[i], nr)
  <2>1. block'[i] = block[i]
    BY <1>2, <1>7
  <2>2. \A v \in 1..nr_region : v \in 1..nr
    BY <1>1, <1>3
  <2> QED BY <1>3, <2>1, <2>2 DEF IsBlock
<1>8. new = (Located(block) \cup {j}) \cup GivenNow(j)
  <2>1. Located(block) = {i \in Partition : block[i].located # 0}
    BY DEF Located
  <2>2. \A i \in GivenNow(j) \cup {j} : i \in Partition /\ block'[i].located # 0
    BY <1>2, <1>4, <1>5, <1>6
  <2> HIDE DEF GivenNow
  <2> QED BY <1>2, <2>1, <2>2
<1>9. \A i \in Partition : block'[i] = None \/ IsBlock(block'[i], nr)
  BY <1>5, <1>6, <1>7
<1> QED BY <1>8, <1>9 DEF nr

LEMMA CountAfterRound ==
  ASSUME TypeInv, NEW j \in Partition, RoundOf(j)
  PROVE  /\ nr_located' = Cardinality({i \in Partition : block'[i].located # 0})
         /\ nr_region' \in 0..nr_located'
<1> DEFINE L == Located(block)
           K == {k \in 1..3 : GiftsOf(j)[k] # Nobody}
           V == GivenNow(j)
<1>1. /\ memory \in Requests
      /\ AreGifts(GiftsOf(j), Own(j), j, Sub(memory[j]))
  BY OwnFacts
<1>2. V \subseteq Partition /\ V \cap (L \cup {j}) = {} /\ j \notin L
  BY RoundBlocks DEF RoundOf
<1>3. IsFiniteSet(Partition) /\ L \subseteq Partition
  <2>1. Partition = 1..Len(memory) /\ Len(memory) \in Nat
    BY <1>1, MemoryFacts
  <2> QED BY <2>1, FS_Interval DEF Located
<1>4. IsFiniteSet(K)
  <2>1. IsFiniteSet(1..3) /\ K \in SUBSET (1..3)
    <3>1. 1 \in Int /\ 3 \in Int
      OBVIOUS
    <3> QED BY <3>1, FS_Interval
  <2> HIDE DEF K
  <2> QED BY <2>1, FS_Subset
<1>5. Cardinality(V) = Cardinality(K) /\ IsFiniteSet(V)
  <2> DEFINE f == [k \in K |-> GiftsOf(j)[k].vec]
  <2>1. V = {GiftsOf(j)[k].vec : k \in K}
    BY DEF GivenNow
  <2>2. \A k \in K : \A l \in K : k # l => GiftsOf(j)[k].vec # GiftsOf(j)[l].vec
    <3>1. \A k \in K : \A l \in K : k # l => k < l \/ l < k
      OBVIOUS
    <3> QED BY <1>1, <3>1 DEF AreGifts
  <2> HIDE DEF K, V
  <2>3. f \in Bijection(K, V)
    BY <2>1, <2>2 DEF Bijection, Injection, Surjection, IsInjective
  <2>4. ExistsBijection(K, V)
    BY <2>3 DEF ExistsBijection
  <2> QED BY <1>4, <2>4, FS_Bijection
<1>6. {i \in Partition : block'[i].located # 0} = (L \cup {j}) \cup V
  BY LocatedAfterRound
<1> HIDE DEF L, K, V
<1>7. IsFiniteSet(L) /\ IsFiniteSet(L \cup {j}) /\ Cardinality(L \cup {j}) = Cardinality(L) + 1
  BY <1>2, <1>3, FS_Subset, FS_AddElement
<1>8. Cardinality((L \cup {j}) \cup V) = Cardinality(L) + 1 + Cardinality(K)
  <2>1. Cardinality((L \cup {j}) \cup V) =
          Cardinality(L \cup {j}) + Cardinality(V) - Cardinality((L \cup {j}) \cap V)
    BY <1>5, <1>7, FS_Union
  <2>2. (L \cup {j}) \cap V = {} /\ Cardinality({}) = 0
    BY <1>2, FS_EmptySet
  <2>3. Cardinality(L) \in Nat /\ Cardinality(K) \in Nat
    BY <1>4, <1>7, FS_CardinalityType
  <2> QED BY <1>5, <1>7, <2>1, <2>2, <2>3
<1>9. nr_located = Cardinality(L) /\ nr_region \in 0..nr_located
  BY DEF TypeInv, L
<1>10. nr_located' = nr_located + 1 + Cardinality(K) /\ nr_region' = nr_region + 1
  BY DEF RoundOf, K
<1>11. Cardinality(L) \in Nat /\ Cardinality(K) \in Nat
  BY <1>4, <1>7, FS_CardinalityType
<1> DEFINE now == {i \in Partition : block'[i].located # 0}
<1>12. Cardinality(now) = Cardinality(L) + 1 + Cardinality(K)
  BY <1>6, <1>8
<1> HIDE DEF now
<1>13. nr_located' = Cardinality(now)
  BY <1>9, <1>10, <1>12
<1>14. nr_region' \in 0..nr_located'
  BY <1>9, <1>10, <1>11
<1> QED BY <1>13, <1>14 DEF now

LEMMA TypeNext == TypeInv /\ [Next]_vars => TypeInv'
<1> SUFFICES ASSUME TypeInv, [Next]_vars PROVE TypeInv'
  OBVIOUS
<1>1. CASE Round
  <2>1. PICK j \in Partition : RoundOf(j)
    BY <1>1, RoundIs
  <2>2. /\ memory' = memory /\ memory_arr' = memory_arr /\ nr_region' = nr_region + 1
        /\ pointer' = pointer + RegionSize(memory[j])
    BY <2>1 DEF RoundOf
  <2>3. Partition' = Partition
    BY <2>2 DEF Partition
  <2>4. /\ block' \in [Partition -> BlockRecord]
        /\ \A i \in Partition : block'[i] = None \/ IsBlock(block'[i], nr_region + 1)
    BY <2>1, RoundBlocks, LocatedAfterRound DEF GivenTo
  <2>6. Located(block)' = {i \in Partition : block'[i].located # 0}
    BY <2>3 DEF Located
  <2>7. nr_located' = Cardinality(Located(block)') /\ nr_region' \in 0..nr_located'
    BY <2>1, <2>6, CountAfterRound
  <2>8. pointer' \in Nat
    <3>1. Sub(memory[j]) \in Nat \ {0} /\ RegionSize(memory[j]) = 8 * Sub(memory[j])
      BY OwnFacts
    <3> QED BY <2>2, <3>1 DEF TypeInv
  <2>9. (\A i \in Partition : block[i] = None \/ IsBlock(block[i], nr_region))'
    BY <2>2, <2>3, <2>4 DEF IsBlock
  <2> QED BY <2>2, <2>3, <2>4, <2>7, <2>8, <2>9 DEF TypeInv
<1>2. CASE WriteBack
  <2>1. /\ UNCHANGED <<memory, block, nr_located, nr_region, pointer>> /\ Partition' = Partition
    BY <1>2 DEF WriteBack, Partition
  <2>2. \A i \in Partition : [size |-> block[i].located, address |-> block[i].adress]
                               \in [size : Nat, address : Nat]
    BY DEF TypeInv, BlockRecord
  <2>3. memory_arr' \in [Partition -> [size : Nat, address : Nat]]
    BY <1>2, <2>2 DEF WriteBack
  <2> QED BY <2>1, <2>3 DEF TypeInv, IsBlock, Located
<1>3. CASE UNCHANGED vars
  BY <1>3 DEF vars, TypeInv, IsBlock, Located, Partition
<1> QED BY <1>1, <1>2, <1>3 DEF Next

LEMMA TypeInvariance == Spec => []TypeInv
BY TypeInit, TypeNext, PTL DEF Spec

(* Every variable keeps its type, and the blocks are as many as counted,   *)
(* for any tables of any number of partitions: the count meets the number  *)
(* of partitions exactly and sortMem's loop ends (mpuTest.c:300).          *)
THEOREM TypeTheorem == Spec => []TypeOK
<1>1. TypeInv => TypeOK
  <2> SUFFICES ASSUME TypeInv PROVE TypeOK
    OBVIOUS
  <2>1. nr_region \in Nat
    BY CountsAreNat
  <2>2. \A i \in Partition : block[i] = None \/ block[i].located \in 1..block[i].region
    <3>1. memory \in Requests
      BY DEF TypeInv
    <3>2. \A x : IsBlock(x, nr_region) => x.located \in 1..x.region
      BY <2>1, <3>1, BlockHolds
    <3> QED BY <3>2 DEF TypeInv
  <2> QED BY <2>2 DEF TypeInv, TypeOK
<1> QED BY <1>1, TypeInvariance, PTL

(* A sum of multiples is one. *)
LEMMA MultiplesAdd ==
  ASSUME NEW d \in Nat \ {0}, NEW a \in Nat, NEW b \in Nat, a % d = 0, b % d = 0
  PROVE  (a + b) % d = 0
<1> DEFINE p == a \div d
           q == b \div d
<1>1. p \in Nat /\ q \in Nat /\ a = d * p + 0 /\ b = d * q + 0
  BY DivMod
<1> HIDE DEF p, q
<1>2. p + q \in Nat /\ 0 \in 0..(d - 1) /\ a + b = d * (p + q) + 0
  BY <1>1
<1>3. (d * (p + q) + 0) % d = 0
  BY <1>2, ModUnique
<1> QED BY <1>2, <1>3

LEMMA RegionBound ==
  ASSUME NEW m, Asked(m)
  PROVE  RegionSize(m) \in Nat \ {0} /\ RegionSize(m) <= PowerOf2[MaxExponent]
<1>1. RegionSize(m) \in Nat \ {0} /\ RegionSize(m) <= 1048576
  BY RegionFacts, RegionOfEight, SMT
<1> QED BY <1>1, LargestPower, SMT

(* A smaller request's region divides a larger one's. *)
LEMMA SmallerDivides ==
  ASSUME NEW m, NEW n, Asked(m), Asked(n), m <= n
  PROVE  RegionSize(n) % RegionSize(m) = 0
<1>1. /\ RegionSize(m) \in Region /\ RegionSize(m) < 2 * m
      /\ RegionSize(n) \in Region /\ n <= RegionSize(n)
  BY RegionFacts
<1>2. /\ m \in Nat /\ n \in Nat /\ RegionSize(m) \in Nat /\ RegionSize(n) \in Nat
  BY RegionBound DEF Asked
<1>3. RegionSize(m) < 2 * RegionSize(n)
  BY <1>1, <1>2
<1> QED BY <1>1, <1>3, RegionsApart, RegionsDivide

-----------------------------------------------------------------------------
(* Where the blocks of a round lie.                                        *)

(* The region of j fits in. *)
RoundFits(j) ==
  /\ pointer % RegionSize(memory[j]) = 0
  /\ pointer + 8 * Sub(memory[j]) <= AddressWord
  /\ pointer + RegionSize(memory[j]) <= Base + (nr_region + 1) * PowerOf2[MaxExponent]
  /\ 8 * Sub(memory[j]) <= Base /\ Base <= pointer

LEMMA KeptSizes ==
  ASSUME memory \in Requests, SizesKept, NEW j \in Partition, NEW b, b[j].located # 0
  PROVE  Kept(b, NumFree(memory[j]) * Sub(memory[j]))
<1>1. \A i \in Partition \ {j} :
         memory[i] <= NumFree(memory[j]) * Sub(memory[j]) => memory[i] < PercWord
  BY DEF SizesKept, Partition
<1> QED BY <1>1 DEF Kept

LEMMA UndividedPairs ==
  ASSUME memory \in Requests, PairsUndivided, NEW j \in Partition, NEW b, b[j].located # 0,
         NumFree(memory[j]) = 2
  PROVE  Undivided(b, Sub(memory[j]))
<1>1. \A a, p, q \in Partition \ {j} :
        /\ a # p /\ a # q /\ p # q
        /\ Sub(memory[j]) < memory[a] /\ memory[a] <= 2 * Sub(memory[j])
        /\ memory[p] <= Sub(memory[j]) /\ memory[q] <= Sub(memory[j])
        => memory[a] < memory[p] + memory[q]
  BY DEF PairsUndivided, Partition
<1> QED BY <1>1 DEF Undivided

LEMMA RoundFitsIn ==
  ASSUME SpaceInv, BaseFits, NEW j \in Partition, RoundOf(j)
  PROVE  RoundFits(j)
<1> DEFINE T == PowerOf2[MaxExponent]
           region == RegionSize(memory[j])
           sub == Sub(memory[j])
<1>1. /\ TypeInv /\ memory \in Requests /\ Asked(memory[j])
      /\ sub \in Nat \ {0} /\ region = 8 * sub /\ NumFree(memory[j]) \in 0..3
      /\ Own(j)[j] = Block(pointer, sub, region, 8 - NumFree(memory[j]), 1, nr_region + 1)
      /\ IsBlock(Own(j)[j], nr_region + 1) /\ nr_region + 1 \in Nat \ {0}
  BY OwnFacts DEF SpaceInv
<1>2. j \in Partition \ Located(block)
  BY DEF RoundOf
<1>3. pointer % region = 0
  BY <1>2 DEF SpaceInv
<1>4. T \in Nat /\ region \in Nat \ {0} /\ region <= T
  BY <1>1, MaxIsNat, RegionBound
<1>5. pointer \in Nat /\ nr_region \in Nat /\ Base \in Nat /\ AddressWord \in Nat
      /\ Len(memory) \in Nat
  BY <1>1, CountsAreNat, MemoryFacts DEF TypeInv
<1>6. nr_region + 1 <= Len(memory)
  <2>1. IsFiniteSet(Partition) /\ Cardinality(Partition) = Len(memory)
    BY <1>1, CountsAreNat
  <2>2. Located(block) \in SUBSET Partition /\ Located(block) # Partition
    BY <1>2 DEF Located
  <2>3. Cardinality(Located(block)) < Cardinality(Partition)
    <3>1. /\ IsFiniteSet(Located(block)) /\ Cardinality(Located(block)) <= Cardinality(Partition)
          /\ Cardinality(Located(block)) # Cardinality(Partition)
      BY <2>1, <2>2, FS_Subset
    <3>2. Cardinality(Located(block)) \in Nat /\ Cardinality(Partition) \in Nat
      BY <2>1, <3>1, FS_CardinalityType
    <3> QED BY <3>1, <3>2
  <2>4. nr_located = Cardinality(Located(block)) /\ nr_region \in 0..nr_located
        /\ nr_located \in Nat
    BY <1>1, CountsAreNat DEF TypeInv
  <2> QED BY <1>5, <2>1, <2>3, <2>4
<1>7. pointer <= Base + nr_region * T /\ Base + Len(memory) * T < AddressWord
  BY <1>1 DEF SpaceInv, BaseFits
<1> HIDE DEF T, region, sub
<1>8. nr_region * T \in Nat /\ (nr_region + 1) * T = nr_region * T + T
  BY <1>4, <1>5
<1>9. (nr_region + 1) * T <= Len(memory) * T
  <2>1. PICK d \in Nat : Len(memory) = nr_region + 1 + d
    <3> DEFINE d == Len(memory) - nr_region - 1
    <3>1. d \in Nat /\ Len(memory) = nr_region + 1 + d
      BY <1>5, <1>6
    <3> QED BY <3>1
  <2>2. d * T \in Nat /\ Len(memory) * T = (nr_region + 1) * T + d * T
    BY <1>4, <1>5, <2>1
  <2> QED BY <1>4, <1>8, <2>2
<1>10. pointer + region <= Base + (nr_region + 1) * T
  BY <1>4, <1>5, <1>7, <1>8
<1>11. pointer + region <= AddressWord
  <2>1. Len(memory) * T \in Nat /\ (nr_region + 1) * T \in Nat
    BY <1>4, <1>5, <1>8
  <2> QED BY <1>4, <1>5, <1>7, <1>9, <1>10, <2>1
<1>12. 8 * sub <= Base /\ Base <= pointer
  <2>1. Base % region = 0 /\ Base \in Nat \ {0} /\ region \in Nat \ {0} /\ region = 8 * sub
    BY <1>1, <1>4, MemoryFacts DEF BaseFits, Partition, region
  <2>2. ASSUME Base < region PROVE FALSE
    <3>1. Base % region = Base
      BY <2>1, <2>2, SmallModulo
    <3> QED BY <2>1, <3>1
  <2>3. Base <= pointer
    BY DEF SpaceInv
  <2> QED BY <2>1, <2>2, <2>3
<1> QED BY <1>1, <1>3, <1>10, <1>11, <1>12 DEF RoundFits, T, region, sub

(* When sizes are kept and no pair is divided, all gifts are in place. *)
LEMMA GiftsInPlace ==
  ASSUME TypeInv, SizesKept, PairsUndivided, NEW j \in Partition
  PROVE  \A k \in 1..3 : GiftsOf(j)[k] # Nobody => InPlace(GiftsOf(j), k)
<1> DEFINE G == GiftsOf(j)
<1>1. /\ memory \in Requests /\ Sub(memory[j]) \in Nat \ {0} /\ NumFree(memory[j]) \in 0..3
      /\ IsBlock(Own(j)[j], nr_region + 1) /\ nr_region + 1 \in Nat
  BY OwnFacts
<1>2. Own(j)[j].located # 0
  <2>1. Own(j)[j].located \in 1..Own(j)[j].region /\ Own(j)[j].region \in Nat
    BY <1>1, BlockHolds DEF IsBlock, BlockRecord
  <2> QED BY <2>1
<1>3. Kept(Own(j), NumFree(memory[j]) * Sub(memory[j]))
  BY <1>1, <1>2, KeptSizes
<1>4. NumFree(memory[j]) = 2 => Undivided(Own(j), Sub(memory[j]))
  BY <1>1, <1>2, UndividedPairs
<1>5. Chained(G, j, NumFree(memory[j]))
  BY <1>1, <1>2, <1>3, <1>4, InsertMemChained DEF GiftsOf
<1> HIDE DEF G
<1>6. 2 \in 2..3 /\ 3 \in 2..3 /\ 3 - 1 = 2
      /\ \A k \in 1..3 : k = 1 \/ k = 2 \/ k = 3
  OBVIOUS
<1>7. (G[2] # Nobody => Joins(G, 2)) /\ (G[3] # Nobody => Joins(G, 3))
  BY <1>5, <1>6 DEF Chained
<1>8. Joins(G, 3) => G[2] # Nobody
  BY <1>6 DEF Joins
<1>9. \A k \in 1..3 : G[k] # Nobody => InPlace(G, k)
  BY <1>6, <1>7, <1>8, PlacesInOrder
<1> QED BY <1>9 DEF G

(* A block of j's region, which starts at the pointer. *)
OfRound(x, j) ==
  /\ <<x.first, x.nr_sec>> \in BlockShapes
  /\ x.region = 8 * Sub(memory[j])
  /\ x.located = Sub(memory[j]) * x.nr_sec
  /\ x.adress = pointer + (x.first - 1) * Sub(memory[j])

LEMMA BlockOfRound ==
  ASSUME NEW j, NEW nr_sec, NEW first, NEW nr, Sub(memory[j]) \in Nat \ {0},
         RegionSize(memory[j]) = 8 * Sub(memory[j]), pointer \in Nat, AddressWord \in Nat \ {0},
         <<first, nr_sec>> \in BlockShapes, pointer + 8 * Sub(memory[j]) <= AddressWord
  PROVE  OfRound(Block(pointer + (first - 1) * Sub(memory[j]), Sub(memory[j]),
                       RegionSize(memory[j]), nr_sec, first, nr), j)
<1> DEFINE sub == Sub(memory[j])
           adr == pointer + (first - 1) * sub
           x == Block(adr, sub, RegionSize(memory[j]), nr_sec, first, nr)
<1>1. first \in {1, 6, 7, 8}
  BY DEF BlockShapes, GiftShapes
<1> HIDE DEF sub
<1>2. sub \in Nat \ {0} /\ pointer + 8 * sub <= AddressWord
  BY DEF sub
<1>3. adr \in Nat /\ adr < AddressWord
  BY <1>1, <1>2
<1> HIDE DEF adr
<1>4. adr % AddressWord = adr
  BY <1>3, SmallModulo
<1>5. /\ x.first = first /\ x.nr_sec = nr_sec /\ x.region = 8 * sub
      /\ x.located = sub * nr_sec /\ x.adress = adr
  BY <1>4 DEF Block, sub
<1> HIDE DEF x
<1>6. OfRound(x, j)
  BY <1>5 DEF OfRound, sub, adr
<1> QED BY <1>6 DEF x, adr, sub

(* The sections of one come before those of the other. *)
SectionsApart(x, y) == x.first + x.nr_sec <= y.first \/ y.first + y.nr_sec <= x.first

(* Who has been given sections in place. *)
InRound(j) == {GiftsOf(j)[k].vec :
                 k \in {k \in 1..3 : GiftsOf(j)[k] # Nobody /\ InPlace(GiftsOf(j), k)}}

RoundLies(b, j) ==
  /\ \A i \in GivenNow(j) \cup {j} : memory[i] <= b[i].located
  /\ \A i \in GivenNow(j) \ InRound(j) : Stray(b[i])
  /\ \A i \in InRound(j) \cup {j} : OfRound(b[i], j)
  /\ \A i \in InRound(j) \cup {j} : \A k \in InRound(j) \cup {j} :
       i # k => SectionsApart(b[i], b[k])

(* A block of at most three sections at the beginning of the memory. *)
LEMMA StrayBlock ==
  ASSUME NEW sub \in Nat \ {0}, 8 * sub <= Base, Base \in Nat, AddressWord \in Nat \ {0},
         8 * sub <= AddressWord, NEW adr \in {sub, sub + sub},
         NEW nr_sec \in {1, 2, 3}, NEW region, NEW first, NEW nr
  PROVE  Stray(Block(adr, sub, region, nr_sec, first, nr))
<1> DEFINE x == Block(adr, sub, region, nr_sec, first, nr)
<1>1. adr % AddressWord = adr
  <2>1. adr \in Nat /\ adr < AddressWord
    OBVIOUS
  <2> QED BY <2>1, SmallModulo
<1>2. x.adress = adr /\ x.located = sub * nr_sec
  BY <1>1 DEF Block
<1>3. sub * nr_sec <= 3 * sub /\ sub * nr_sec \in Nat
  OBVIOUS
<1>4. adr + sub * nr_sec <= Base
  BY <1>3
<1> HIDE DEF x
<1>5. Stray(x)
  BY <1>2, <1>4 DEF Stray
<1> QED BY <1>5 DEF x

LEMMA HeldIfPlaced ==
  ASSUME TypeInv
  PROVE  \A i \in Partition : block[i] # None => block[i].located # 0
<1> SUFFICES ASSUME NEW i \in Partition, block[i] # None PROVE block[i].located # 0
  OBVIOUS
<1>1. memory \in Requests /\ nr_region \in Nat /\ IsBlock(block[i], nr_region)
  BY CountsAreNat DEF TypeInv
<1>2. block[i].located \in 1..block[i].region /\ block[i].region \in Nat
  BY <1>1, BlockHolds DEF IsBlock, BlockRecord
<1> QED BY <1>2

LEMMA RoundLiesApart ==
  ASSUME TypeInv, NEW j \in Partition, RoundOf(j), RoundFits(j)
  PROVE  RoundLies(block', j)
<1> DEFINE G == GiftsOf(j)
           sub == Sub(memory[j])
           region == RegionSize(memory[j])
           nr == nr_region + 1
           nf == NumFree(memory[j])
<1>1. /\ memory \in Requests /\ Asked(memory[j])
      /\ sub \in Nat \ {0} /\ region = 8 * sub /\ nf \in 0..3 /\ nr \in Nat \ {0}
      /\ Own(j) \in [Partition -> BlockRecord]
      /\ Own(j)[j] = Block(pointer, sub, region, 8 - nf, 1, nr)
      /\ AreGifts(G, Own(j), j, sub)
  BY OwnFacts
<1>2. pointer \in Nat /\ AddressWord \in Nat \ {0} /\ memory[j] <= sub * (8 - nf)
      /\ memory[j] \in Nat /\ pointer + 8 * sub <= AddressWord
      /\ 8 * sub <= Base /\ Base \in Nat /\ 8 * sub <= AddressWord
  <2>1. /\ pointer \in Nat /\ AddressWord \in Nat \ {0} /\ memory[j] <= sub * (8 - nf)
        /\ memory[j] \in Nat /\ pointer + 8 * sub <= AddressWord
        /\ 8 * sub <= Base /\ Base \in Nat
    BY <1>1, MemoryFacts, SectionFacts DEF TypeInv, RoundFits, Asked
  <2>2. 8 * sub <= AddressWord
    <3> HIDE DEF sub
    <3> QED BY <1>1, <2>1
  <2> QED BY <2>1, <2>2
<1>3. block' = Given(Own(j), G, j, sub, region, nr) /\ block'[j] = Own(j)[j]
  BY RoundBlocks DEF RoundOf
<1>4. /\ GivenNow(j) = {G[k].vec : k \in {k \in 1..3 : G[k] # Nobody}}
      /\ InRound(j) = {G[k].vec : k \in {k \in 1..3 : G[k] # Nobody /\ InPlace(G, k)}}
  BY DEF GivenNow, InRound
<1>5. <<1, 8 - nf>> \in BlockShapes
  <2>1. 8 - nf \in 5..8
    BY <1>1
  <2> QED BY <2>1 DEF BlockShapes
<1> HIDE DEF G, nf, nr
<1>6. OfRound(block'[j], j)
  <2> DEFINE x == Block(pointer + (1 - 1) * sub, sub, region, 8 - nf, 1, nr)
  <2>1. pointer + (1 - 1) * sub = pointer
    BY <1>1, <1>2
  <2>2. block'[j] = x
    BY <1>1, <1>3, <2>1
  <2>3. OfRound(x, j)
    BY <1>1, <1>2, <1>5, BlockOfRound
  <2> HIDE DEF x
  <2> QED BY <2>2, <2>3
<1>7. block'[j].first = 1 /\ block'[j].nr_sec = 8 - nf /\ block'[j].located = sub * (8 - nf)
      /\ Own(j)[j].adress = pointer
  <2>1. pointer % AddressWord = pointer
    <3>1. pointer < AddressWord
      <4> HIDE DEF sub
      <4> QED BY <1>1, <1>2
    <3> QED BY <1>2, <3>1, SmallModulo
  <2> QED BY <1>1, <1>3, <2>1 DEF Block
<1>8. LiesAt(block', G, pointer, sub, region, nr) /\ LiesAstray(block', G, sub, region, nr)
  <2>1. region \in Nat /\ nr \in Nat
    BY <1>1
  <2>2. Own(j)[j].located = sub * (8 - nf) /\ Own(j)[j].located # 0
    <3>1. 8 - nf \in 5..8
      BY <1>1
    <3> HIDE DEF sub
    <3> QED BY <1>1, <1>3, <1>7, <3>1
  <2>3. Linked(G, Own(j), j, nf)
    BY <1>1, <2>2, InsertMemLinked DEF G, GiftsOf, nf
  <2>4. \A i \in Partition : Own(j)[i].located = 0 => Own(j)[i].adress = 0
    <3>1. \A i \in Partition \ {j} : Own(j)[i] = block[i]
      BY OwnFacts
    <3>2. \A i \in Partition : block[i] # None => block[i].located # 0
      BY <1>1, HeldIfPlaced
    <3>3. None.adress = 0
      BY DEF None
    <3> QED BY <2>2, <3>1, <3>2, <3>3
  <2> HIDE DEF sub, region
  <2> QED BY <1>1, <1>2, <1>3, <1>7, <2>1, <2>2, <2>3, <2>4, GivenLinked
<1>9. ASSUME NEW k \in 1..3, G[k] # Nobody, InPlace(G, k)
      PROVE  /\ OfRound(block'[G[k].vec], j)
             /\ block'[G[k].vec].first = G[k].first /\ block'[G[k].vec].nr_sec = G[k].nr_sec
  <2>1. <<G[k].first, G[k].nr_sec>> \in BlockShapes
    BY <1>1, <1>9 DEF AreGifts, IsGift, BlockShapes
  <2>2. block'[G[k].vec] =
          Block(pointer + (G[k].first - 1) * sub, sub, region, G[k].nr_sec, G[k].first, nr)
    BY <1>8, <1>9 DEF LiesAt
  <2>3. OfRound(block'[G[k].vec], j)
    <3> DEFINE f == G[k].first
               n == G[k].nr_sec
               x == Block(pointer + (f - 1) * sub, sub, region, n, f, nr)
    <3>1. <<f, n>> \in BlockShapes
      BY <2>1
    <3> HIDE DEF f, n
    <3>2. OfRound(x, j)
      BY <1>1, <1>2, <3>1, BlockOfRound
    <3>3. block'[G[k].vec] = x
      BY <2>2 DEF f, n
    <3> HIDE DEF x
    <3> QED BY <3>2, <3>3
  <2> QED BY <2>1, <2>2, <2>3 DEF Block
<1>10. 1 \in 1..3 /\ 2 \in 1..3 /\ 3 \in 1..3 /\ \A k \in 1..3 : k = 1 \/ k = 2 \/ k = 3
  OBVIOUS
<1>11. \A k \in 1..3 : G[k] # Nobody => G[k].first \in Nat /\ G[k].nr_sec \in Nat
  BY <1>1 DEF AreGifts, IsGift, GiftRecord
<1>12. /\ G[1] # Nobody => G[1].first = 9 - nf
       /\ InPlace(G, 2) => G[1] # Nobody /\ G[1].nr_sec = 1 /\ G[2].first = G[1].first + 1
       /\ InPlace(G, 3) => /\ InPlace(G, 2) /\ G[2] # Nobody /\ G[2].nr_sec = 1
                           /\ G[3].first = G[2].first + 1
  <2>1. 2 - 1 = 1 /\ 3 - 1 = 2
    OBVIOUS
  <2>2. Own(j)[j].located # 0
    <3>1. 8 - nf \in 5..8
      BY <1>1
    <3> HIDE DEF sub
    <3> QED BY <1>1, <1>3, <1>7, <3>1
  <2>3. Linked(G, Own(j), j, nf)
    BY <1>1, <2>2, InsertMemLinked DEF G, GiftsOf, nf
  <2> QED BY <2>1, <2>3, PlacesInOrder DEF Linked, Joins
<1>13. \A k \in 1..3 : G[k] # Nobody /\ InPlace(G, k) => G[k].first >= 9 - nf
  BY <1>1, <1>10, <1>11, <1>12
<1>14. \A k \in 1..3 : \A l \in 1..3 :
          /\ k < l /\ G[k] # Nobody /\ InPlace(G, k) /\ G[l] # Nobody /\ InPlace(G, l)
          => G[k].first + G[k].nr_sec <= G[l].first
  BY <1>10, <1>11, <1>12
<1>15. ASSUME NEW k \in 1..3, G[k] # Nobody
       PROVE  /\ memory[G[k].vec] <= block'[G[k].vec].located
              /\ ~InPlace(G, k) => Stray(block'[G[k].vec])
  <2>1. memory[G[k].vec] <= sub * G[k].nr_sec /\ G[k].nr_sec \in {1, 2, 3}
    BY <1>1, <1>15 DEF AreGifts, IsGift, GiftShapes
  <2>2. CASE InPlace(G, k)
    <3>1. block'[G[k].vec] =
            Block(pointer + (G[k].first - 1) * sub, sub, region, G[k].nr_sec, G[k].first, nr)
      BY <1>8, <1>15, <2>2 DEF LiesAt
    <3> QED BY <2>1, <2>2, <3>1 DEF Block
  <2>3. CASE ~InPlace(G, k)
    <3>1. PICK adr \in {sub, sub + sub} :
            block'[G[k].vec] = Block(adr, sub, region, G[k].nr_sec, G[k].first, nr)
      BY <1>8, <1>15, <2>3 DEF LiesAstray
    <3>2. block'[G[k].vec].located = sub * G[k].nr_sec
      BY <3>1 DEF Block
    <3>3. Stray(block'[G[k].vec])
      <4> HIDE DEF sub, region
      <4> QED BY <1>1, <1>2, <2>1, <3>1, StrayBlock
    <3> QED BY <2>1, <3>2, <3>3
  <2> QED BY <2>2, <2>3
<1>16. ASSUME NEW k \in 1..3, G[k] # Nobody, InPlace(G, k)
       PROVE  SectionsApart(block'[j], block'[G[k].vec]) /\ SectionsApart(block'[G[k].vec], block'[j])
  <2>1. 1 + (8 - nf) <= G[k].first
    BY <1>1, <1>11, <1>13, <1>16
  <2> QED BY <1>7, <1>9, <1>16, <2>1 DEF SectionsApart
<1>17. ASSUME NEW k \in 1..3, NEW l \in 1..3, G[k] # Nobody, G[l] # Nobody, k # l,
              InPlace(G, k), InPlace(G, l)
       PROVE  SectionsApart(block'[G[k].vec], block'[G[l].vec])
  <2>1. k < l \/ l < k
    BY <1>17
  <2> QED BY <1>9, <1>14, <1>17, <2>1 DEF SectionsApart
<1>18. \A i \in InRound(j) \cup {j} : \A k \in InRound(j) \cup {j} :
          i # k => SectionsApart(block'[i], block'[k])
  BY <1>4, <1>16, <1>17
<1>19. \A i \in GivenNow(j) \cup {j} : memory[i] <= block'[i].located
  BY <1>2, <1>4, <1>7, <1>15
<1>20. \A i \in GivenNow(j) \ InRound(j) : Stray(block'[i])
  BY <1>4, <1>15
<1>21. \A i \in InRound(j) \cup {j} : OfRound(block'[i], j)
  BY <1>4, <1>6, <1>9
<1> QED BY <1>18, <1>19, <1>20, <1>21 DEF RoundLies

(* Where a block that lies in a region ends. *)
LEMMA LiesBefore ==
  ASSUME memory \in Requests, NEW x, NEW nr \in Nat, IsBlock(x, nr),
         NEW m \in Nat, NEW end \in Nat, LiesIn(x, m, end)
  PROVE  /\ x.adress \in Nat /\ x.located \in Nat /\ x.adress + x.located <= end
         /\ Base <= x.adress
<1>1. PICK i \in Partition : x.region = RegionSize(memory[i])
  BY DEF IsBlock
<1> DEFINE sub == Sub(memory[i])
<1>2. sub \in Nat \ {0} /\ x.region = 8 * sub /\ x.region \div 8 = sub
  BY <1>1, MemoryFacts, SectionFacts DEF Sub
<1> HIDE DEF sub
<1>3. PICK start \in Nat : /\ x.adress = start + (x.first - 1) * sub
                           /\ start + 8 * sub <= end /\ Base <= start
  BY <1>2 DEF LiesIn
<1>4. x.located = sub * x.nr_sec /\ x.adress \in Nat /\ x.located \in Nat
  BY <1>2 DEF IsBlock, BlockRecord
<1>5. \/ x.first = 1 /\ x.nr_sec \in 5..8
      \/ x.first = 6 /\ x.nr_sec \in {1, 3}
      \/ x.first = 7 /\ x.nr_sec \in {1, 2}
      \/ x.first = 8 /\ x.nr_sec = 1
  BY DEF IsBlock, BlockShapes, GiftShapes
<1>6. x.nr_sec \in {1, 2, 3, 5, 6, 7, 8} /\ x.first \in {1, 6, 7, 8}
      /\ x.first - 1 + x.nr_sec <= 8
  BY <1>5
<1>7. x.adress + x.located <= start + 8 * sub
  BY <1>2, <1>3, <1>4, <1>6
<1>8. Base <= x.adress
  <2>1. Base \in Nat /\ x.first - 1 \in Nat
    BY <1>6, MemoryFacts
  <2>2. (x.first - 1) * sub \in Nat
    BY <1>2, <2>1
  <2> QED BY <1>3, <2>1, <2>2
<1> QED BY <1>2, <1>3, <1>4, <1>7, <1>8

(* Where a block of the round lies. *)
LEMMA OfRoundLies ==
  ASSUME NEW j, NEW x, OfRound(x, j), NEW m \in Nat, m <= x.located,
         Sub(memory[j]) \in Nat \ {0}, RegionSize(memory[j]) = 8 * Sub(memory[j]),
         pointer \in Nat, pointer % RegionSize(memory[j]) = 0, Base <= pointer
  PROVE  /\ LiesIn(x, m, pointer + RegionSize(memory[j]))
         /\ x.adress \in Nat /\ x.located \in Nat /\ pointer <= x.adress
<1> DEFINE sub == Sub(memory[j])
<1>1. /\ x.region = 8 * sub /\ x.region = RegionSize(memory[j]) /\ x.region \div 8 = sub
      /\ x.adress = pointer + (x.first - 1) * sub
      /\ x.located = sub * x.nr_sec
  BY DEF OfRound
<1>2. x.first \in {1, 6, 7, 8} /\ x.nr_sec \in {1, 2, 3, 5, 6, 7, 8}
  BY DEF OfRound, BlockShapes, GiftShapes
<1>3. LiesIn(x, m, pointer + RegionSize(memory[j]))
  <2>1. pointer + x.region <= pointer + RegionSize(memory[j])
    BY <1>1
  <2> HIDE DEF sub
  <2> QED BY <1>1, <2>1 DEF LiesIn
<1>4. sub \in Nat \ {0}
  OBVIOUS
<1> HIDE DEF sub
<1>5. x.adress \in Nat /\ x.located \in Nat /\ pointer <= x.adress
  <2>1. x.first - 1 \in Nat /\ x.nr_sec \in Nat
    BY <1>2
  <2>2. (x.first - 1) * sub \in Nat /\ sub * x.nr_sec \in Nat
    BY <1>4, <2>1
  <2> QED BY <1>1, <2>2
<1> QED BY <1>3, <1>5

LEMMA SectionsThenBytes ==
  ASSUME NEW j, NEW x, NEW y, OfRound(x, j), OfRound(y, j), SectionsApart(x, y),
         Sub(memory[j]) \in Nat \ {0}, pointer \in Nat
  PROVE  Apart(x, y)
<1> DEFINE sub == Sub(memory[j])
<1>1. /\ x.adress = pointer + (x.first - 1) * sub /\ x.located = sub * x.nr_sec
      /\ y.adress = pointer + (y.first - 1) * sub /\ y.located = sub * y.nr_sec
      /\ x.first \in {1, 6, 7, 8} /\ x.nr_sec \in {1, 2, 3, 5, 6, 7, 8}
      /\ y.first \in {1, 6, 7, 8} /\ y.nr_sec \in {1, 2, 3, 5, 6, 7, 8}
  BY DEF OfRound, BlockShapes, GiftShapes
<1>2. sub \in Nat \ {0}
  OBVIOUS
<1> HIDE DEF sub
<1>3. CASE x.first + x.nr_sec <= y.first
  <2>1. x.adress + x.located <= y.adress
    BY <1>1, <1>2, <1>3
  <2> QED BY <2>1 DEF Apart
<1>4. CASE y.first + y.nr_sec <= x.first
  <2>1. y.adress + y.located <= x.adress
    BY <1>1, <1>2, <1>4
  <2> QED BY <2>1 DEF Apart
<1> QED BY <1>3, <1>4 DEF SectionsApart

LEMMA SpaceInit == BaseFits /\ Init => SpaceInv
<1> SUFFICES ASSUME BaseFits, Init PROVE SpaceInv
  OBVIOUS
<1>1. TypeInv
  BY TypeInit
<1>2. memory \in Requests
  BY DEF Init
<1>3. Located(block) = {} /\ \A i \in Partition : block[i] = None
  BY DEF Init, Located, None
<1>4. \A i \in Partition : pointer % RegionSize(memory[i]) = 0
  BY <1>2 DEF Init, BaseFits, Partition
<1>5. Base <= pointer /\ pointer <= Base + nr_region * PowerOf2[MaxExponent]
  <2>1. nr_region * PowerOf2[MaxExponent] = 0
    BY MaxIsNat DEF Init
  <2>2. Base \in Nat /\ pointer = Base
    BY <1>2, MemoryFacts DEF Init
  <2> QED BY <2>1, <2>2
<1> QED BY <1>1, <1>3, <1>4, <1>5 DEF SpaceInv

(* The blocks of the round lie where they should, and so do the earlier. *)
SpaceOf(b, end, located) ==
  /\ \A i \in Partition : b[i] = None \/ Sits(b[i], memory[i], end)
  /\ \A i \in located : \A k \in located :
       i # k => Stray(b[i]) \/ Stray(b[k]) \/ Apart(b[i], b[k])

LEMMA SpaceAfterRound ==
  ASSUME SpaceInv, NEW j \in Partition, RoundOf(j), RoundFits(j)
  PROVE  SpaceOf(block', pointer + RegionSize(memory[j]),
                 {i \in Partition : block'[i].located # 0})
<1> DEFINE new == GivenNow(j) \cup {j}
           here == InRound(j) \cup {j}
           end == pointer + RegionSize(memory[j])
<1>1. /\ TypeInv /\ memory \in Requests /\ Asked(memory[j])
      /\ Sub(memory[j]) \in Nat \ {0} /\ RegionSize(memory[j]) = 8 * Sub(memory[j])
      /\ nr_region \in Nat /\ nr_region + 1 \in Nat
  BY OwnFacts, CountsAreNat DEF SpaceInv
<1>2. /\ pointer \in Nat /\ end \in Nat /\ pointer <= end
      /\ \A i \in Partition : memory[i] \in Nat
      /\ pointer % RegionSize(memory[j]) = 0 /\ Base <= pointer
  <2>1. pointer \in Nat /\ pointer % RegionSize(memory[j]) = 0 /\ Base <= pointer
    BY <1>1 DEF TypeInv, RoundFits
  <2>2. \A i \in Partition : memory[i] \in Nat
    BY <1>1, MemoryFacts DEF Asked
  <2>3. RegionSize(memory[j]) \in Nat
    BY <1>1
  <2>4. end \in Nat /\ pointer <= end
    BY <2>1, <2>3
  <2> QED BY <2>1, <2>2, <2>4
<1>3. /\ new \subseteq Partition
      /\ GivenNow(j) \cap (Located(block) \cup {j}) = {}
      /\ \A i \in Partition \ new : block'[i] = block[i]
  BY <1>1, RoundBlocks
<1>4. {i \in Partition : block'[i].located # 0} = Located(block) \cup new
  BY <1>1, LocatedAfterRound
<1>5. RoundLies(block', j) /\ here \subseteq new
  BY <1>1, RoundLiesApart DEF InRound, GivenNow
<1>6. ASSUME NEW i \in here
      PROVE  /\ LiesIn(block'[i], memory[i], end)
             /\ block'[i].adress \in Nat /\ block'[i].located \in Nat
             /\ pointer <= block'[i].adress
  <2>1. OfRound(block'[i], j) /\ memory[i] <= block'[i].located /\ memory[i] \in Nat
    BY <1>2, <1>3, <1>5, <1>6 DEF RoundLies
  <2> QED BY <1>1, <1>2, <2>1, OfRoundLies
<1>7. ASSUME NEW i \in new, i \notin here
      PROVE  memory[i] <= block'[i].located /\ Stray(block'[i])
  BY <1>5, <1>7 DEF RoundLies
<1> HIDE DEF new, end, here
<1>8. ASSUME NEW i \in Partition \ new
      PROVE  block'[i] = None \/ Sits(block'[i], memory[i], end)
  <2>1. block'[i] = block[i]
    BY <1>3 DEF new
  <2>2. block[i] = None \/ Sits(block[i], memory[i], pointer)
    BY DEF SpaceInv
  <2>3. CASE block[i] = None
    BY <2>1, <2>3
  <2>4. CASE block[i] # None
    <3>1. block[i].region \in Nat
      BY <1>1 DEF TypeInv, BlockRecord
    <3>2. \A start \in Nat : start + block[i].region <= pointer => start + block[i].region <= end
      BY <1>2, <3>1
    <3>3. Sits(block[i], memory[i], end)
      BY <2>2, <2>4, <3>2 DEF LiesIn, Sits
    <3> QED BY <2>1, <3>3
  <2> QED BY <2>3, <2>4
<1>9. ASSUME NEW i \in Located(block)
      PROVE  /\ block'[i] = block[i]
             /\ ~Stray(block[i]) =>
                  /\ block[i].adress \in Nat /\ block[i].located \in Nat
                  /\ block[i].adress + block[i].located <= pointer
  <2>1. i \in Partition /\ i \notin new /\ block[i] # None
    BY <1>3 DEF Located, RoundOf, None, new
  <2>2. IsBlock(block[i], nr_region) /\ Sits(block[i], memory[i], pointer)
    BY <1>1, <2>1 DEF SpaceInv, TypeInv
  <2>3. ASSUME ~Stray(block[i])
        PROVE  /\ block[i].adress \in Nat /\ block[i].located \in Nat
               /\ block[i].adress + block[i].located <= pointer
    <3>1. LiesIn(block[i], memory[i], pointer)
      BY <2>2, <2>3 DEF Sits
    <3> QED BY <1>1, <1>2, <2>1, <2>2, <3>1, LiesBefore
  <2> QED BY <1>3, <2>1, <2>3 DEF new
<1> DEFINE Ok(i, k) == Stray(block'[i]) \/ Stray(block'[k]) \/ Apart(block'[i], block'[k])
<1>10. ASSUME NEW i \in Located(block), NEW k \in Located(block), i # k
       PROVE  Ok(i, k)
  BY <1>9, <1>10 DEF SpaceInv
<1>11. ASSUME NEW i \in Located(block), NEW k \in new
       PROVE  Ok(i, k) /\ Ok(k, i)
  <2>1. CASE Stray(block'[i]) \/ Stray(block'[k])
    BY <2>1
  <2>2. CASE ~Stray(block'[i]) /\ ~Stray(block'[k])
    <3>1. k \in here
      BY <1>7, <2>2
    <3>2. /\ block'[i].adress \in Nat /\ block'[i].located \in Nat
          /\ block'[i].adress + block'[i].located <= pointer
      BY <1>9, <2>2
    <3>3. pointer <= block'[k].adress /\ block'[k].adress \in Nat
      BY <1>6, <3>1
    <3>4. block'[i].adress + block'[i].located <= block'[k].adress
      <4> DEFINE a == block'[i].adress
                 l == block'[i].located
                 c == block'[k].adress
      <4>1. a \in Nat /\ l \in Nat /\ c \in Nat /\ a + l <= pointer /\ pointer <= c
        BY <3>2, <3>3
      <4> HIDE DEF a, l, c
      <4>2. a + l <= c
        BY <1>2, <4>1
      <4> QED BY <4>2 DEF a, l, c
    <3> QED BY <3>4 DEF Apart
  <2> QED BY <2>1, <2>2
<1>12. ASSUME NEW i \in new, NEW k \in new, i # k PROVE Ok(i, k)
  <2>1. CASE Stray(block'[i]) \/ Stray(block'[k])
    BY <2>1
  <2>2. CASE ~Stray(block'[i]) /\ ~Stray(block'[k])
    <3>1. i \in here /\ k \in here
      BY <1>7, <2>2
    <3>2. OfRound(block'[i], j) /\ OfRound(block'[k], j) /\ SectionsApart(block'[i], block'[k])
      BY <1>5, <1>12, <3>1 DEF RoundLies, here
    <3>3. Apart(block'[i], block'[k])
      BY <1>1, <1>2, <3>2, SectionsThenBytes
    <3> QED BY <3>3
  <2> QED BY <2>1, <2>2
<1>13. \A i \in Partition : block'[i] = None \/ Sits(block'[i], memory[i], end)
  BY <1>6, <1>7, <1>8 DEF Sits
<1>14. \A i \in Located(block) \cup new : \A k \in Located(block) \cup new :
          i # k => Ok(i, k)
  BY <1>10, <1>11, <1>12
<1>15. {i \in Partition : block'[i].located # 0} = Located(block) \cup new
  BY <1>4 DEF new
<1> QED BY <1>13, <1>14, <1>15 DEF SpaceOf, end

LEMMA SpaceNext ==
  ASSUME BaseFits
  PROVE  SpaceInv /\ [Next]_vars => SpaceInv'
<1> SUFFICES ASSUME SpaceInv, [Next]_vars PROVE SpaceInv'
  OBVIOUS
<1>1. TypeInv /\ TypeInv'
  BY TypeNext DEF SpaceInv
<1>2. CASE Round
  <2>1. PICK j \in Partition : RoundOf(j)
    BY <1>1, <1>2, RoundIs
  <2>2. RoundFits(j)
    BY <2>1, RoundFitsIn
  <2> DEFINE end == pointer + RegionSize(memory[j])
             now == {i \in Partition : block'[i].located # 0}
  <2>3. /\ memory' = memory /\ nr_region' = nr_region + 1 /\ pointer' = end
        /\ Partition' = Partition
        /\ \A i \in Partition \ Located(block) : memory[i] <= memory[j]
    BY <2>1 DEF RoundOf, Partition
  <2>4. now = Located(block)' /\ now = (Located(block) \cup {j}) \cup GivenNow(j)
    BY <1>1, <2>1, <2>3, LocatedAfterRound DEF Located
  <2>5. SpaceOf(block', end, now)
    BY <2>1, <2>2, SpaceAfterRound
  <2>6. pointer' <= Base + nr_region' * PowerOf2[MaxExponent] /\ Base <= pointer'
    <3>1. pointer' <= Base + nr_region' * PowerOf2[MaxExponent] /\ Base <= pointer
      BY <2>2, <2>3 DEF RoundFits
    <3>2. RegionSize(memory[j]) \in Nat /\ pointer \in Nat /\ Base \in Nat
      <4>1. Sub(memory[j]) \in Nat /\ RegionSize(memory[j]) = 8 * Sub(memory[j])
        BY <1>1, OwnFacts
      <4>2. pointer \in Nat /\ Base \in Nat
        BY <1>1, MemoryFacts DEF TypeInv
      <4> HIDE DEF end
      <4> QED BY <4>1, <4>2
    <3> QED BY <2>3, <3>1, <3>2
  <2>7. ASSUME NEW i \in Partition \ now PROVE end % RegionSize(memory[i]) = 0
    <3>1. i \in Partition \ Located(block) /\ memory[i] <= memory[j]
      BY <2>3, <2>4, <2>7
    <3>2. pointer % RegionSize(memory[i]) = 0
      BY <3>1 DEF SpaceInv
    <3>3. Asked(memory[i]) /\ Asked(memory[j])
      BY <1>1, MemoryFacts DEF TypeInv
    <3>4. RegionSize(memory[j]) % RegionSize(memory[i]) = 0
      BY <3>1, <3>3, SmallerDivides
    <3>5. RegionSize(memory[i]) \in Nat \ {0} /\ RegionSize(memory[j]) \in Nat /\ pointer \in Nat
      BY <1>1, <3>3, RegionBound DEF TypeInv
    <3> QED BY <3>2, <3>4, <3>5, MultiplesAdd
  <2> HIDE DEF end, now
  <2>8. (\A i \in Partition : block[i] = None \/ Sits(block[i], memory[i], pointer))'
    BY <2>3, <2>5 DEF SpaceOf, Sits, LiesIn, Stray
  <2>9. (\A i \in Located(block) : \A k \in Located(block) :
           i # k => Stray(block[i]) \/ Stray(block[k]) \/ Apart(block[i], block[k]))'
    BY <2>4, <2>5 DEF SpaceOf, Apart, Stray
  <2>10. (\A i \in Partition \ Located(block) : pointer % RegionSize(memory[i]) = 0)'
    BY <2>3, <2>4, <2>7
  <2> QED BY <1>1, <2>6, <2>8, <2>9, <2>10 DEF SpaceInv
<1>3. CASE WriteBack
  <2>1. UNCHANGED <<memory, block, nr_located, nr_region, pointer>> /\ Partition' = Partition
    BY <1>3 DEF WriteBack, Partition
  <2>2. Located(block)' = Located(block)
    BY <2>1 DEF Located
  <2> QED BY <1>1, <2>1, <2>2 DEF SpaceInv, Sits, LiesIn, Stray, Apart
<1>4. CASE UNCHANGED vars
  <2>1. UNCHANGED <<memory, block, nr_located, nr_region, pointer>> /\ Partition' = Partition
    BY <1>4 DEF vars, Partition
  <2>2. Located(block)' = Located(block)
    BY <2>1 DEF Located
  <2> QED BY <1>1, <2>1, <2>2 DEF SpaceInv, Sits, LiesIn, Stray, Apart
<1> QED BY <1>2, <1>3, <1>4 DEF Next

LEMMA SpaceInvariance ==
  ASSUME BaseFits
  PROVE  Spec => []SpaceInv
BY SpaceInit, SpaceNext, PTL DEF Spec

(* No block is below the regions when all gifts are in place. *)
LEMMA NoStrayNext ==
  ASSUME SizesKept, PairsUndivided, BaseFits
  PROVE  SpaceInv /\ NoStray /\ [Next]_vars => NoStray'
<1> SUFFICES ASSUME SpaceInv, NoStray, [Next]_vars PROVE NoStray'
  OBVIOUS
<1>1. TypeInv
  BY DEF SpaceInv
<1>2. CASE Round
  <2>1. PICK j \in Partition : RoundOf(j)
    BY <1>1, <1>2, RoundIs
  <2>2. RoundFits(j)
    BY <2>1, RoundFitsIn
  <2>3. RoundLies(block', j)
    BY <1>1, <2>1, <2>2, RoundLiesApart
  <2>4. GivenNow(j) = InRound(j)
    BY <1>1, GiftsInPlace DEF GivenNow, InRound
  <2>5. /\ {i \in Partition : block'[i].located # 0} =
              (Located(block) \cup {j}) \cup GivenNow(j)
        /\ GivenNow(j) \subseteq Partition /\ GivenNow(j) \cap (Located(block) \cup {j}) = {}
        /\ \A i \in Partition : i # j /\ i \notin GivenNow(j) => block'[i] = block[i]
    BY <1>1, <2>1, LocatedAfterRound, RoundBlocks
  <2>6. Partition' = Partition
    BY <2>1 DEF RoundOf, Partition
  <2>7. Located(block)' = (Located(block) \cup {j}) \cup GivenNow(j)
    BY <2>5, <2>6 DEF Located
  <2>8. ASSUME NEW i \in GivenNow(j) \cup {j} PROVE ~Stray(block'[i])
    <3>1. OfRound(block'[i], j) /\ memory[i] <= block'[i].located
      BY <2>3, <2>4 DEF RoundLies
    <3>2. i \in Partition /\ memory \in Requests /\ pointer \in Nat /\ Base \in Nat
      BY <1>1, <2>5, MemoryFacts DEF TypeInv
    <3>3. memory[i] \in Nat \ {0}
      BY <3>2, MemoryFacts DEF Asked
    <3>4. /\ Sub(memory[j]) \in Nat \ {0} /\ RegionSize(memory[j]) = 8 * Sub(memory[j])
          /\ pointer % RegionSize(memory[j]) = 0 /\ Base <= pointer
      BY <1>1, <2>2, OwnFacts DEF RoundFits
    <3>5. block'[i].adress \in Nat /\ block'[i].located \in Nat /\ pointer <= block'[i].adress
      BY <3>1, <3>2, <3>3, <3>4, OfRoundLies
    <3> DEFINE a == block'[i].adress
               l == block'[i].located
               m == memory[i]
    <3>6. /\ a \in Nat /\ l \in Nat /\ m \in Nat \ {0} /\ m <= l /\ pointer <= a
          /\ Base <= pointer
      BY <3>1, <3>3, <3>4, <3>5
    <3> HIDE DEF a, l, m
    <3>7. ~(a + l <= Base)
      BY <3>2, <3>6
    <3> QED BY <3>7 DEF Stray, a, l
  <2>9. ASSUME NEW i \in Located(block) PROVE ~Stray(block'[i])
    <3>1. i # j /\ i \notin GivenNow(j) /\ i \in Partition
      BY <2>1, <2>5 DEF RoundOf, Located
    <3> QED BY <2>5, <3>1 DEF NoStray
  <2>10. \A i \in Located(block)' : ~Stray(block'[i])
    BY <2>7, <2>8, <2>9
  <2> QED BY <2>10 DEF NoStray, Stray
<1>3. CASE WriteBack
  BY <1>3 DEF WriteBack, NoStray, Located, Partition, Stray
<1>4. CASE UNCHANGED vars
  BY <1>4 DEF vars, NoStray, Located, Partition, Stray
<1> QED BY <1>2, <1>3, <1>4 DEF Next

LEMMA NoStrayInvariance ==
  ASSUME SizesKept, PairsUndivided, BaseFits
  PROVE  Spec => []NoStray
<1>1. Init => NoStray
  BY DEF Init, NoStray, Located, None
<1>2. Spec => []SpaceInv
  BY SpaceInvariance
<1>3. SpaceInv /\ NoStray /\ [Next]_vars => NoStray'
  BY NoStrayNext
<1> QED BY <1>1, <1>2, <1>3, PTL DEF Spec

-----------------------------------------------------------------------------
(* The blocks and the memory.                                              *)

(* What the properties say of a block, from where it lies. *)
LEMMA BytesApart ==
  ASSUME TypeInv, NEW i \in Partition, NEW k \in Partition, Apart(block[i], block[k])
  PROVE  Bytes(i) \cap Bytes(k) = {}
<1> DEFINE a == block[i].adress
           l == block[i].located
           b == block[k].adress
           m == block[k].located
<1>1. a \in Nat /\ l \in Nat /\ b \in Nat /\ m \in Nat
  BY DEF TypeInv, BlockRecord
<1>2. a + l <= b \/ b + m <= a
  BY DEF Apart
<1>3. Bytes(i) = a..(a + l - 1) /\ Bytes(k) = b..(b + m - 1)
  BY DEF Bytes
<1> HIDE DEF a, l, b, m
<1> QED BY <1>1, <1>2, <1>3

LEMMA RegionLies ==
  ASSUME TypeInv, NEW i \in Partition, IsBlock(block[i], nr_region),
         LiesIn(block[i], memory[i], pointer)
  PROVE  /\ memory[i] <= block[i].located
         /\ RegionStart(i) % block[i].region = 0
         /\ Bytes(i) \subseteq RegionStart(i)..(RegionStart(i) + block[i].region - 1)
<1> DEFINE x == block[i]
<1>1. memory \in Requests /\ nr_region \in Nat
  BY CountsAreNat DEF TypeInv
<1>2. memory[i] <= x.located
  BY DEF LiesIn
<1>3. PICK start \in Nat : /\ start % x.region = 0 /\ Base <= start
                           /\ x.adress = start + (x.first - 1) * (x.region \div 8)
  BY DEF LiesIn
<1>4. x.adress \in Nat /\ x.first \in Nat /\ x.located \in Nat /\ x.region \in Nat
  BY DEF IsBlock, BlockRecord
<1>5. x.region \div 8 \in Nat
  <2>1. PICK p \in Partition : x.region = RegionSize(memory[p])
    BY DEF IsBlock
  <2>2. Sub(memory[p]) \in Nat
    BY <1>1, MemoryFacts, SectionFacts
  <2> QED BY <2>1, <2>2 DEF Sub
<1>6. memory[i] \in Nat
  BY <1>1, MemoryFacts DEF Asked
<1>7. x.adress + x.located <= start + x.region
  <2> HIDE DEF x
  <2>1. LiesIn(x, memory[i], start + x.region)
    <3>1. start + x.region <= start + x.region /\ start + x.region \in Nat
      BY <1>3, <1>4
    <3> QED BY <1>2, <1>3, <3>1 DEF LiesIn
  <2>2. start + x.region \in Nat /\ IsBlock(x, nr_region)
    BY <1>4 DEF x
  <2> QED BY <1>1, <1>6, <2>1, <2>2, LiesBefore
<1>8. RegionStart(i) = start /\ start <= x.adress
  <2> DEFINE s == (x.first - 1) * (x.region \div 8)
  <2>1. x.first - 1 \in Nat
    BY <1>4 DEF IsBlock, BlockShapes, GiftShapes
  <2>2. s \in Nat
    <3> DEFINE a == x.first - 1
               b == x.region \div 8
    <3>1. a \in Nat /\ b \in Nat
      BY <1>5, <2>1
    <3> HIDE DEF a, b
    <3>2. a * b \in Nat
      BY <3>1
    <3> QED BY <3>2 DEF a, b
  <2>3. RegionStart(i) = x.adress - s /\ x.adress = start + s
    BY <1>3 DEF RegionStart
  <2> HIDE DEF s, x
  <2> QED BY <1>4, <2>2, <2>3
<1>9. Bytes(i) = x.adress..(x.adress + x.located - 1)
  BY DEF Bytes
<1>10. Bytes(i) \subseteq start..(start + x.region - 1)
  <2> DEFINE a == x.adress
             l == x.located
             r == x.region
  <2>1. /\ a \in Nat /\ l \in Nat /\ r \in Nat /\ start <= a /\ a + l <= start + r
        /\ Bytes(i) = a..(a + l - 1)
    BY <1>4, <1>7, <1>8, <1>9
  <2> HIDE DEF a, l, r, x
  <2>2. a..(a + l - 1) \subseteq start..(start + r - 1)
    BY <2>1
  <2> QED BY <2>1, <2>2 DEF r
<1> QED BY <1>2, <1>3, <1>8, <1>10

(* No two partitions share a byte, for any tables of any number of         *)
(* partitions with sizes that perc keeps and no pair divided: the gifts of *)
(* a round follow each other from the end of the region's own block, and   *)
(* the regions follow each other (mpuTest.c:141-279, 302-322).             *)
THEOREM BlocksDisjointTheorem ==
  ASSUME SizesKept, PairsUndivided, BaseFits
  PROVE  Spec => []BlocksDisjoint
<1>1. SpaceInv /\ NoStray => BlocksDisjoint
  <2> SUFFICES ASSUME SpaceInv, NoStray, NEW i \in Located(block), NEW k \in Located(block),
                      i # k
               PROVE  Bytes(i) \cap Bytes(k) = {}
    BY DEF BlocksDisjoint
  <2>1. i \in Partition /\ k \in Partition
    BY DEF Located
  <2>2. TypeInv /\ Apart(block[i], block[k])
    BY DEF SpaceInv, NoStray
  <2> QED BY <2>1, <2>2, BytesApart
<1> QED BY <1>1, SpaceInvariance, NoStrayInvariance, PTL

(* Every block holds what was asked for, and one that is not below all     *)
(* regions lies, where its info says, in a region aligned to its size, for *)
(* any tables, pairs divided or sizes cut or not: what is left to serve is *)
(* smaller, and its region divides those before it; and a gift either has  *)
(* its place in the region or follows a partition without a block, whose   *)
(* address is 0 (mpuTest.c:141-279, 302-322).                              *)
THEOREM InAlignedRegionTheorem ==
  ASSUME BaseFits
  PROVE  Spec => []InAlignedRegion
<1>1. SpaceInv => InAlignedRegion
  <2> SUFFICES ASSUME SpaceInv, NEW i \in Located(block)
               PROVE  /\ memory[i] <= block[i].located
                      /\ block[i].adress >= Base =>
                           /\ RegionStart(i) % block[i].region = 0
                           /\ Bytes(i) \subseteq
                                RegionStart(i)..(RegionStart(i) + block[i].region - 1)
    BY DEF InAlignedRegion
  <2>1. i \in Partition /\ block[i] # None
    BY DEF Located, None
  <2>2. /\ TypeInv /\ IsBlock(block[i], nr_region)
        /\ Sits(block[i], memory[i], pointer)
    BY <2>1 DEF SpaceInv, TypeInv
  <2>3. CASE LiesIn(block[i], memory[i], pointer)
    BY <2>1, <2>2, <2>3, RegionLies
  <2>4. CASE memory[i] <= block[i].located /\ Stray(block[i])
    <3>1. block[i].adress \in Nat /\ block[i].located \in Nat \ {0} /\ Base \in Nat
      BY <2>1, <2>2, MemoryFacts DEF TypeInv, BlockRecord, Located
    <3>2. ~(block[i].adress >= Base)
      <4> DEFINE a == block[i].adress
                 l == block[i].located
      <4>1. a \in Nat /\ l \in Nat \ {0} /\ a + l <= Base
        BY <2>4, <3>1 DEF Stray
      <4> HIDE DEF a, l
      <4>2. ~(a >= Base)
        BY <3>1, <4>1
      <4> QED BY <4>2 DEF a
    <3> QED BY <2>4, <3>2
  <2> QED BY <2>2, <2>3, <2>4 DEF Sits
<1> QED BY <1>1, SpaceInvariance, PTL
=============================================================================
