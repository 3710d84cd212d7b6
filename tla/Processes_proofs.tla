-------------------------- MODULE Processes_proofs --------------------------
(***************************************************************************)
(* Proofs about Processes: for any number of partitions, slots and         *)
(* creations, whoever stops: contexts stay with their processes, stacks    *)
(* apart, a process to run is always found, and none is passed over that   *)
(* is as urgent and older.                                                 *)
(***************************************************************************)
EXTENDS Processes, FunctionTheorems, FiniteSetTheorems, WellFoundedInduction, TLAPS

-----------------------------------------------------------------------------
(* Natural numbers.                                                        *)

(* A nonempty set of naturals has the minimum Min chooses. *)
LEMMA MinOfNaturals ==
  ASSUME NEW S \in SUBSET Nat, S # {}
  PROVE  Min(S) \in S /\ \A y \in S : Min(S) <= y
<1> DEFINE I == {1..n : n \in S}
           R == StrictSubsetOrdering(Nat)
<1>1. I \subseteq FiniteSubsetsOf(Nat) /\ I # {}
  <2>1. \A n \in S : IsFiniteSet(1..n) /\ 1..n \subseteq Nat
    BY FS_Interval
  <2> QED BY <2>1 DEF FiniteSubsetsOf
<1>2. PICK X \in I : \A Y \in I : ~(<<Y, X>> \in R)
  <2> HIDE DEF I, R
  <2>1. IsWellFoundedOn(R, FiniteSubsetsOf(Nat))
    BY FS_StrictSubsetOrderingWellFounded DEF R
  <2> QED BY <1>1, <2>1, WFMin
<1>3. PICK x \in S : X = 1..x
  OBVIOUS
<1>4. ASSUME NEW y \in S, ~(x <= y) PROVE FALSE
  <2>1. 1..y \subseteq 1..x /\ 1..y # 1..x
    <3>1. x \in 1..x /\ x \notin 1..y
      BY <1>4
    <3> QED BY <1>4, <3>1
  <2>2. 1..y \in SUBSET Nat /\ 1..x \in SUBSET Nat
    OBVIOUS
  <2>3. <<1..y, 1..x>> \in R
    BY <2>1, <2>2 DEF StrictSubsetOrdering
  <2> QED BY <1>2, <1>3, <2>3
<1> QED BY <1>3, <1>4 DEF Min

LEMMA ModUnique ==
  ASSUME NEW m \in Nat \ {0}, NEW q \in Nat, NEW r \in 0..(m - 1)
  PROVE  (m * q + r) % m = r
OBVIOUS

-----------------------------------------------------------------------------

(* The region has room for main's stack and the first process that is      *)
(* created, another slot for it, and sizes do not wrap.                    *)
RoomForOne ==
    /\ NumSlots > 1
    /\ MainReserve <= DataSize
    /\ \A size \in StackSizes \cup {DefaultStack} :
         MainReserve + size <= DataSize /\ DataSize + size < Word

-----------------------------------------------------------------------------
(* The choice of a process.                                                *)

(* What the choice reads of the processes of a partition. *)
Comparable(ps) ==
    \A i \in Slots : ps[i].CURRENT_PRIORITY \in Nat /\ ps[i].tickStamp \in Nat

(* The comparisons with the best so far, and that they give a best at all  *)
(* slots.                                                                  *)
First(ps) == Min(Ready(ps))

BestAt(ps, g, i) ==
    IF i <= First(ps) THEN First(ps)
    ELSE IF Better(ps, i, g[i - 1]) THEN i ELSE g[i - 1]

Best(ps) == CHOOSE g : g = [i \in Slots |-> BestAt(ps, g, i)]

LEMMA SlotFacts ==
  /\ Slots = 0..(NumSlots - 1) /\ NumSlots \in Nat \ {0}
  /\ 0 \in Slots /\ NumSlots - 1 \in Slots
BY ProcessesAssumption DEF Slots

LEMMA FirstIsReady ==
  ASSUME NEW ps, Ready(ps) # {}
  PROVE  First(ps) \in Ready(ps) /\ \A i \in Ready(ps) : First(ps) <= i
<1>1. Ready(ps) \in SUBSET Nat
  BY SlotFacts DEF Ready
<1> QED BY <1>1, MinOfNaturals DEF First

(* The best so far is a function: shown slot by slot. *)
LEMMA BestExists ==
  ASSUME NEW ps, Ready(ps) # {}
  PROVE  \A i \in Slots : Best(ps)[i] = BestAt(ps, Best(ps), i)
<1> DEFINE first == First(ps)
           UpTo(g, n) == /\ g \in [0..n -> Slots]
                         /\ \A i \in 0..n : g[i] = BestAt(ps, g, i)
           Bad == {n \in Slots : ~ \E g : UpTo(g, n)}
<1>1. first \in Slots /\ Slots = 0..(NumSlots - 1) /\ NumSlots \in Nat \ {0}
  BY SlotFacts, FirstIsReady DEF Ready
<1>2. Bad = {}
  <2> SUFFICES ASSUME Bad # {} PROVE FALSE
    OBVIOUS
  <2> DEFINE m == Min(Bad)
  <2>1. m \in Bad /\ \A n \in Bad : m <= n
    <3>1. Bad \in SUBSET Nat
      BY <1>1
    <3> HIDE DEF Bad
    <3> QED BY <3>1, MinOfNaturals
  <2>2. m \in Slots /\ m \in Nat
    BY <1>1, <2>1
  <2> HIDE DEF m
  <2>3. CASE m = 0
    <3> DEFINE g == [i \in 0..0 |-> first]
    <3>1. g \in [0..0 -> Slots] /\ \A i \in 0..0 : g[i] = first /\ i <= first
      BY <1>1
    <3>2. UpTo(g, 0)
      <4> HIDE DEF g
      <4> QED BY <3>1 DEF BestAt
    <3> QED BY <2>1, <2>3, <3>2
  <2>4. CASE m # 0
    <3>1. m - 1 \in Slots /\ m - 1 \notin Bad
      BY <1>1, <2>1, <2>2, <2>4
    <3>2. PICK h : UpTo(h, m - 1)
      BY <3>1
    <3> DEFINE e == BestAt(ps, h, m)
               g == [i \in 0..m |-> IF i = m THEN e ELSE h[i]]
    <3>3. e \in Slots
      <4>1. h[m - 1] \in Slots
        BY <2>2, <2>4, <3>2
      <4> QED BY <1>1, <2>2, <4>1 DEF BestAt
    <3>4. g \in [0..m -> Slots]
      <4> HIDE DEF e
      <4> QED BY <2>2, <3>2, <3>3
    <3>5. g[m] = e /\ \A i \in 0..(m - 1) : g[i] = h[i]
      <4> HIDE DEF e
      <4> QED BY <2>2
    <3> HIDE DEF g
    <3>6. BestAt(ps, g, m) = e
      <4>1. g[m - 1] = h[m - 1]
        BY <2>2, <2>4, <3>5
      <4> QED BY <4>1 DEF BestAt
    <3>7. ASSUME NEW i \in 0..(m - 1) PROVE g[i] = BestAt(ps, g, i)
      <4>1. g[i] = BestAt(ps, h, i)
        BY <3>2, <3>5
      <4>2. i <= first \/ g[i - 1] = h[i - 1]
        <5>1. i <= first \/ i - 1 \in 0..(m - 1)
          BY <1>1, <2>2
        <5> QED BY <3>5, <5>1
      <4> QED BY <4>1, <4>2 DEF BestAt
    <3>8. UpTo(g, m)
      <4>1. \A i \in 0..m : i = m \/ i \in 0..(m - 1)
        BY <2>2
      <4> QED BY <3>4, <3>5, <3>6, <3>7, <4>1
    <3> QED BY <2>1, <3>8
  <2> QED BY <2>3, <2>4
<1>3. PICK g : UpTo(g, NumSlots - 1)
  <2>1. NumSlots - 1 \in Slots
    BY SlotFacts
  <2> QED BY <1>2, <2>1
<1>4. g = [i \in Slots |-> BestAt(ps, g, i)]
  BY <1>1, <1>3
<1>5. Best(ps) = [i \in Slots |-> BestAt(ps, Best(ps), i)]
  BY <1>4 DEF Best
<1> QED BY <1>5

(* As urgent, and older. *)
Dominates(ps, j, i) ==
    /\ ps[j].CURRENT_PRIORITY >= ps[i].CURRENT_PRIORITY
    /\ ps[j].tickStamp < ps[i].tickStamp

(* What is known of the best of the slots up to n. *)
BestUpTo(ps, n) ==
    /\ Best(ps)[n] \in Ready(ps) /\ First(ps) <= Best(ps)[n]
    /\ \A j \in Ready(ps) : j <= n => ~Dominates(ps, j, Best(ps)[n])
    /\ \/ Best(ps)[n] = First(ps)
       \/ ps[Best(ps)[n]].tickStamp < ps[First(ps)].tickStamp

(* The candidate is READY, no earlier than the default one, and no other   *)
(* READY process dominates it; it is the default one, or an older one.     *)
LEMMA CandidateFacts ==
  ASSUME NEW ps, Ready(ps) # {}, Comparable(ps)
  PROVE  /\ Candidate(ps) \in Ready(ps) /\ Min(Ready(ps)) <= Candidate(ps)
         /\ \A j \in Ready(ps) : ~Dominates(ps, j, Candidate(ps))
         /\ \/ Candidate(ps) = Min(Ready(ps))
            \/ ps[Candidate(ps)].tickStamp < ps[Min(Ready(ps))].tickStamp
<1> DEFINE first == First(ps)
           best == Best(ps)
           Bad == {n \in Slots : ~BestUpTo(ps, n)}
<1>1. /\ first \in Ready(ps) /\ \A i \in Ready(ps) : first <= i
      /\ Slots = 0..(NumSlots - 1) /\ NumSlots \in Nat \ {0}
      /\ Ready(ps) \subseteq Slots
  BY SlotFacts, FirstIsReady DEF Ready
<1>2. \A i \in Slots : best[i] = BestAt(ps, best, i)
  BY BestExists
<1> HIDE DEF best, first
<1>3. Bad = {}
  <2> SUFFICES ASSUME Bad # {} PROVE FALSE
    OBVIOUS
  <2> DEFINE m == Min(Bad)
  <2>1. m \in Bad /\ \A n \in Bad : m <= n
    <3>1. Bad \in SUBSET Nat
      BY <1>1
    <3> HIDE DEF Bad
    <3> QED BY <3>1, MinOfNaturals
  <2>2. m \in Slots /\ m \in Nat
    BY <1>1, <2>1
  <2> HIDE DEF m
  <2>3. CASE m <= first
    <3>1. best[m] = first
      BY <1>2, <2>2, <2>3 DEF BestAt, first
    <3>2. ASSUME NEW j \in Ready(ps), j <= m PROVE ~Dominates(ps, j, first)
      <4>1. j = first
        BY <1>1, <2>2, <2>3, <3>2
      <4>2. ps[first].tickStamp \in Nat
        BY <1>1 DEF Comparable
      <4> QED BY <4>1, <4>2 DEF Dominates
    <3>3. first <= first
      BY <1>1
    <3>4. BestUpTo(ps, m)
      BY <1>1, <3>1, <3>2, <3>3 DEF BestUpTo, best, first
    <3> QED BY <2>1, <3>4
  <2>4. CASE ~(m <= first)
    <3> DEFINE b == best[m - 1]
    <3>1. m - 1 \in Slots /\ BestUpTo(ps, m - 1)
      <4>1. m - 1 \in Slots
        BY <1>1, <2>2, <2>4
      <4>2. m - 1 \notin Bad
        BY <1>1, <2>1, <2>2
      <4> QED BY <4>1, <4>2
    <3>2. /\ b \in Ready(ps) /\ first <= b
          /\ \A j \in Ready(ps) : j <= m - 1 => ~Dominates(ps, j, b)
          /\ b = first \/ ps[b].tickStamp < ps[first].tickStamp
      BY <3>1 DEF BestUpTo, best, first
    <3>3. best[m] = IF Better(ps, m, b) THEN m ELSE b
      BY <1>2, <2>2, <2>4 DEF BestAt, first
    <3> HIDE DEF b
    <3>4. \A j \in Ready(ps) : j <= m => j <= m - 1 \/ j = m
      BY <1>1, <2>2
    <3>5. \A i \in Slots : ps[i].CURRENT_PRIORITY \in Nat /\ ps[i].tickStamp \in Nat
      BY DEF Comparable
    <3>6. CASE Better(ps, m, b)
      <4>1. /\ m \in Ready(ps)
            /\ ps[m].CURRENT_PRIORITY >= ps[b].CURRENT_PRIORITY
            /\ ps[m].tickStamp < ps[b].tickStamp
        BY <2>2, <3>6 DEF Better, Ready
      <4>2. ASSUME NEW j \in Ready(ps), j <= m PROVE ~Dominates(ps, j, m)
        <5>1. j \in Slots /\ b \in Slots
          BY <1>1, <3>2
        <5>2. CASE j = m
          BY <2>2, <3>5, <5>2 DEF Dominates
        <5>3. CASE j <= m - 1
          <6>1. ~Dominates(ps, j, b)
            BY <3>2, <5>3
          <6> QED BY <2>2, <3>5, <4>1, <5>1, <6>1 DEF Dominates
        <5> QED BY <3>4, <4>2, <5>2, <5>3
      <4>3. first <= m
        BY <1>1, <2>2, <2>4
      <4>4. ps[m].tickStamp < ps[first].tickStamp
        <5>1. b \in Slots /\ first \in Slots
          BY <1>1, <3>2
        <5> QED BY <2>2, <3>2, <3>5, <4>1, <5>1
      <4>5. BestUpTo(ps, m)
        BY <3>3, <3>6, <4>1, <4>2, <4>3, <4>4 DEF BestUpTo, best, first
      <4> QED BY <2>1, <4>5
    <3>7. CASE ~Better(ps, m, b)
      <4>1. ASSUME NEW j \in Ready(ps), j <= m PROVE ~Dominates(ps, j, b)
        <5>1. CASE j = m
          BY <3>7, <5>1 DEF Better, Dominates, Ready
        <5> QED BY <3>2, <3>4, <4>1, <5>1
      <4>2. BestUpTo(ps, m)
        BY <3>2, <3>3, <3>7, <4>1 DEF BestUpTo, best, first
      <4> QED BY <2>1, <4>2
    <3> QED BY <3>6, <3>7
  <2> QED BY <2>3, <2>4
<1>4. Candidate(ps) = best[NumSlots - 1]
  BY DEF Candidate, best, Best, BestAt, First
<1>5. BestUpTo(ps, NumSlots - 1)
  <2>1. NumSlots - 1 \in Slots
    BY SlotFacts
  <2> QED BY <1>3, <2>1
<1>6. \A j \in Ready(ps) : j <= NumSlots - 1
  BY <1>1
<1> QED BY <1>4, <1>5, <1>6 DEF BestUpTo, First, best

-----------------------------------------------------------------------------
(* The inductive invariant.                                                *)

(* Threads are numbered as they are born; the mains are the first. *)
ThreadsNumbered ==
    /\ Cardinality(Threads) \in Nat
    /\ Threads = 1..Cardinality(Threads)
    /\ \A p \in Partitions : MainOf[p] \in Threads /\ home[MainOf[p]] = <<p, 0>>

Sizes == StackSizes \cup {DefaultStack}

SizesAsked ==
    \A p \in Partitions :
        attributes[p].STACK_SIZE \in Sizes /\ mem_offset[p] <= DataSize

(* A slot holds contexts of its partition only, and the thread that runs   *)
(* is of the partition that was switched to.  Its slot is READY unless it  *)
(* has stopped itself.                                                     *)
AtHome ==
    /\ \A p \in Partitions, i \in Slots : home[stackpointer[p][i]][1] = p
    /\ active_process = None => running = 0
    /\ \A p \in Partitions, i \in Slots : active_process = <<p, i>> =>
         /\ running \in Threads /\ home[running][1] = p /\ activePartition = p
         /\ ReadyAt(p, i) \/ running \in idling

(* A READY slot goes on with the last thread created in it. *)
Newest ==
    \A p \in Partitions, i \in Slots : ReadyAt(p, i) =>
        /\ home[ThreadOf(p, i)] = <<p, i>>
        /\ \A t \in Threads : home[t] = <<p, i>> => t <= ThreadOf(p, i)

(* Stacks lie below the offset the next one will be put at. *)
Stacked ==
    \A p \in Partitions, i \in Slots :
        ReadyAt(p, i) => processes[p][i].top <= mem_offset[p] + 2

(* Only main has run in p, and it has not made a call yet. *)
Fresh(p) ==
    /\ ReadyAt(p, 0) /\ MainOf[p] \notin called
    /\ mem_offset[p] = MainReserve
    /\ \A t \in Threads : home[t][1] = p => t = MainOf[p]

(* What STOP_SELF can stop is never the last READY slot. *)
OneStays ==
    \A p \in Partitions :
        \/ \E j \in Slots : j < index_running_process[p] /\ ReadyAt(p, j)
        \/ index_running_process[p] = 0 /\ \E j \in Slots : 0 < j /\ ReadyAt(p, j)
        \/ index_running_process[p] = 0 /\ Fresh(p)

PInv ==
    /\ TypeOK /\ ThreadsNumbered /\ SizesAsked
    /\ AtHome /\ Newest
    /\ Stacked /\ StacksDisjoint
    /\ OneStays /\ ~undefined

-----------------------------------------------------------------------------
(* Facts about a state that satisfies it. *)
LEMMA TypeFacts ==
  ASSUME PInv
  PROVE  /\ \A p \in Partitions, i \in Slots :
              /\ processes[p][i] \in Status
              /\ processes[p][i].PROCESS_STATE \in {"READY", "DORMANT"}
              /\ processes[p][i].CURRENT_PRIORITY \in Nat
              /\ processes[p][i].tickStamp \in Nat
              /\ processes[p][i].top \in Nat /\ processes[p][i].size \in Nat
              /\ stackpointer[p][i] \in Threads
         /\ \A p \in Partitions : /\ index_running_process[p] \in Slots
                                  /\ mem_offset[p] \in Nat
                                  /\ Comparable(processes[p])
<1>1. ProcessesAssumption
  BY ProcessesAssumption
<1>2. /\ processes \in [Partitions -> [Slots -> Status]]
      /\ stackpointer \in [Partitions -> [Slots -> Threads]]
      /\ index_running_process \in [Partitions -> Slots]
      /\ mem_offset \in [Partitions -> 0..(Word - 1)]
  BY DEF PInv, TypeOK
<1>3. ASSUME NEW p \in Partitions, NEW i \in Slots
      PROVE  /\ processes[p][i] \in Status
             /\ processes[p][i].PROCESS_STATE \in {"READY", "DORMANT"}
             /\ processes[p][i].CURRENT_PRIORITY \in Nat
             /\ processes[p][i].tickStamp \in Nat
             /\ processes[p][i].top \in Nat /\ processes[p][i].size \in Nat
             /\ stackpointer[p][i] \in Threads
  <2>1. processes[p][i] \in Status /\ stackpointer[p][i] \in Threads
    BY <1>2
  <2>2. 0..MaxTick \subseteq Nat
    BY <1>1
  <2> QED BY <2>1, <2>2 DEF Status
<1>4. ASSUME NEW p \in Partitions
      PROVE  /\ index_running_process[p] \in Slots
             /\ mem_offset[p] \in Nat /\ Comparable(processes[p])
  BY <1>1, <1>2, <1>3 DEF Comparable
<1> QED BY <1>3, <1>4

(* What Saved holds is what each slot goes on with. *)
LEMMA SavedIs ==
  ASSUME PInv, NEW p \in Partitions, NEW i \in Slots
  PROVE  /\ Saved[p][i] = ThreadOf(p, i)
         /\ ThreadOf(p, i) \in Threads /\ home[ThreadOf(p, i)][1] = p
<1>1. /\ stackpointer \in [Partitions -> [Slots -> Threads]]
      /\ active_process \in {None} \cup (Partitions \X Slots)
  BY DEF PInv, TypeOK
<1>2. CASE active_process = None
  <2>1. <<>> # <<p, i>>
    OBVIOUS
  <2> QED BY <1>1, <1>2, <2>1 DEF Saved, ThreadOf, None, PInv, AtHome
<1>3. CASE active_process \in Partitions \X Slots
  <2>1. PICK q \in Partitions, j \in Slots : active_process = <<q, j>>
    BY <1>3
  <2>2. <<>> # <<q, j>>
    OBVIOUS
  <2>3. Saved = [stackpointer EXCEPT ![q][j] = running]
    BY <2>1, <2>2 DEF Saved, None
  <2>4. Saved[p][i] = IF q = p /\ j = i THEN running ELSE stackpointer[p][i]
    BY <1>1, <2>3
  <2>5. ThreadOf(p, i) = IF q = p /\ j = i THEN running ELSE stackpointer[p][i]
    BY <2>1 DEF ThreadOf
  <2>6. running \in Threads /\ home[running][1] = q
    BY <2>1 DEF PInv, AtHome
  <2>7. stackpointer[p][i] \in Threads /\ home[stackpointer[p][i]][1] = p
    BY <1>1 DEF PInv, AtHome
  <2> QED BY <2>4, <2>5, <2>6, <2>7
<1> QED BY <1>1, <1>2, <1>3

(* A thread that calls is of the partition whose window it is, and its     *)
(* slot is READY.                                                          *)
LEMMA CallerFacts ==
  ASSUME PInv, Calling
  PROVE  /\ running \in Threads /\ running \notin idling
         /\ activePartition \in Partitions /\ home[running][1] = activePartition
         /\ \E i \in Slots : /\ active_process = <<activePartition, i>>
                             /\ ReadyAt(activePartition, i)
<1>1. running \in Threads /\ running \notin idling
  BY DEF Calling
<1>2. running # 0
  BY <1>1 DEF PInv, ThreadsNumbered
<1>3. active_process \in Partitions \X Slots
  BY <1>2 DEF PInv, AtHome, TypeOK
<1>4. PICK q \in Partitions, i \in Slots : active_process = <<q, i>>
  BY <1>3
<1>5. home[running][1] = q /\ activePartition = q /\ ReadyAt(q, i)
  BY <1>1, <1>4 DEF PInv, AtHome
<1> QED BY <1>1, <1>4, <1>5

(* Some slot is READY. *)
LEMMA SomeReady ==
  ASSUME PInv, NEW p \in Partitions
  PROVE  Ready(processes[p]) # {}
BY SlotFacts DEF PInv, OneStays, Fresh, Ready, ReadyAt

-----------------------------------------------------------------------------
(* A tick saves, chooses and restores. *)
LEMMA TickFacts ==
  ASSUME PInv, NEW p \in Partitions, SysTick(p)
  PROVE  \E c \in Slots :
           /\ c = Candidate(processes[p]) /\ ReadyAt(p, c)
           /\ \A j \in Ready(processes[p]) : ~Dominates(processes[p], j, c)
           /\ active_process' = <<p, c>> /\ activePartition' = p
           /\ running' = ThreadOf(p, c)
           /\ index_running_process' = [index_running_process EXCEPT ![p] = IndexAfter(p)]
           /\ \/ IndexAfter(p) = index_running_process[p]
              \/ IndexAfter(p) \in Slots
                   /\ \E j \in Slots : j < IndexAfter(p) /\ ReadyAt(p, j)
           /\ stackpointer' = Saved
           /\ UNCHANGED <<processes, attributes, mem_offset, home, idling, called, undefined>>
<1> DEFINE ps == processes[p]
           c == Candidate(ps)
<1>1. Ready(ps) # {} /\ Comparable(ps)
  BY SomeReady, TypeFacts
<1>2. /\ c \in Ready(ps) /\ Min(Ready(ps)) <= c
      /\ \A j \in Ready(ps) : ~Dominates(ps, j, c)
  BY <1>1, CandidateFacts
<1>3. Min(Ready(ps)) \in Ready(ps)
  BY <1>1, FirstIsReady DEF First
<1>4. c \in Slots /\ ReadyAt(p, c) /\ Ready(ps) \subseteq Slots
  BY <1>2 DEF Ready, ReadyAt
<1>5. /\ active_process' = <<p, c>> /\ activePartition' = p
      /\ running' = Saved[p][c]
      /\ index_running_process' = [index_running_process EXCEPT ![p] = IndexAfter(p)]
      /\ stackpointer' = Saved
      /\ UNCHANGED <<processes, attributes, mem_offset, home, idling, called, undefined>>
  BY <1>1 DEF SysTick
<1>6. Saved[p][c] = ThreadOf(p, c)
  BY <1>4, SavedIs
<1>7. \/ IndexAfter(p) = index_running_process[p]
      \/ IndexAfter(p) \in Slots
           /\ \E j \in Slots : j < IndexAfter(p) /\ ReadyAt(p, j)
  <2>1. CASE c = Min(Ready(ps))
    BY <2>1 DEF IndexAfter
  <2>2. CASE c # Min(Ready(ps))
    <3> DEFINE f == Min(Ready(ps))
    <3>1. IndexAfter(p) = c
      BY <2>2 DEF IndexAfter
    <3>2. f \in Slots /\ ReadyAt(p, f) /\ f <= c /\ f # c
      BY <1>2, <1>3, <2>2 DEF Ready, ReadyAt
    <3> HIDE DEF f, c
    <3>3. f < c
      BY <1>4, <3>2, SlotFacts
    <3> QED BY <1>4, <3>1, <3>2, <3>3
  <2> QED BY <2>1, <2>2
<1> QED BY <1>2, <1>4, <1>5, <1>6, <1>7

LEMMA SysTickKeepsPInv ==
  ASSUME PInv, NEW p \in Partitions, SysTick(p)
  PROVE  PInv'
<1>1. PICK c \in Slots :
           /\ c = Candidate(processes[p]) /\ ReadyAt(p, c)
           /\ active_process' = <<p, c>> /\ activePartition' = p
           /\ running' = ThreadOf(p, c)
           /\ index_running_process' = [index_running_process EXCEPT ![p] = IndexAfter(p)]
           /\ \/ IndexAfter(p) = index_running_process[p]
              \/ IndexAfter(p) \in Slots
                   /\ \E j \in Slots : j < IndexAfter(p) /\ ReadyAt(p, j)
           /\ stackpointer' = Saved
           /\ UNCHANGED <<processes, attributes, mem_offset, home, idling, called, undefined>>
  BY TickFacts
<1>2. UNCHANGED Threads /\ \A q, i : ReadyAt(q, i)' = ReadyAt(q, i)
  BY <1>1 DEF Threads, ReadyAt
<1>3. running' \in Threads /\ home[running'][1] = p
  BY <1>1, SavedIs
<1>4. ASSUME NEW q \in Partitions, NEW i \in Slots
      PROVE  stackpointer'[q][i] = ThreadOf(q, i) /\ ThreadOf(q, i)' = ThreadOf(q, i)
  <2>1. stackpointer'[q][i] = ThreadOf(q, i)
    BY <1>1, SavedIs
  <2> QED BY <1>1, <2>1 DEF ThreadOf
<1>5. stackpointer' \in [Partitions -> [Slots -> Threads]]
  <2>1. /\ stackpointer \in [Partitions -> [Slots -> Threads]]
        /\ active_process \in {None} \cup (Partitions \X Slots)
    BY DEF PInv, TypeOK
  <2>2. \/ Saved = stackpointer
        \/ \E q \in Partitions, i \in Slots :
             running \in Threads /\ Saved = [stackpointer EXCEPT ![q][i] = running]
    <3>1. CASE active_process = None
      BY <3>1 DEF Saved
    <3>2. CASE active_process # None
      <4>1. PICK q \in Partitions, i \in Slots : active_process = <<q, i>>
        BY <2>1, <3>2
      <4>2. running \in Threads
        BY <4>1 DEF PInv, AtHome
      <4>3. Saved = [stackpointer EXCEPT ![q][i] = running]
        BY <3>2, <4>1 DEF Saved
      <4> QED BY <4>2, <4>3
    <3> QED BY <3>1, <3>2
  <2> QED BY <1>1, <2>1, <2>2
<1>6. TypeOK'
  <2>1. index_running_process' \in [Partitions -> Slots]
    BY <1>1, TypeFacts DEF PInv, TypeOK
  <2>2. uwTick' \in 0..MaxTick
    <3>1. uwTick \in 0..MaxTick /\ MaxTick \in Nat
      BY ProcessesAssumption DEF PInv, TypeOK
    <3>2. uwTick' = IF uwTick < MaxTick THEN uwTick + 1 ELSE uwTick
      BY DEF SysTick
    <3> QED BY <3>1, <3>2
  <2>3. /\ processes \in [Partitions -> [Slots -> Status]]
        /\ attributes \in [Partitions -> [STACK_SIZE : Nat]]
        /\ mem_offset \in [Partitions -> 0..(Word - 1)]
        /\ home \in [Threads -> Partitions \X Slots]
        /\ idling \subseteq Threads /\ undefined \in BOOLEAN
    BY DEF PInv, TypeOK
  <2>4. active_process' \in {None} \cup (Partitions \X Slots)
    BY <1>1
  <2> QED BY <1>1, <1>2, <1>3, <1>5, <2>1, <2>2, <2>3, <2>4 DEF TypeOK
<1>7. ThreadsNumbered' /\ SizesAsked'
  BY <1>1, <1>2 DEF PInv, ThreadsNumbered, SizesAsked
<1>8. AtHome'
  <2>1. active_process' # None
    <3>1. <<p, c>> # <<>>
      OBVIOUS
    <3> QED BY <1>1, <3>1 DEF None
  <2>2. \A q \in Partitions, i \in Slots : home'[stackpointer'[q][i]][1] = q
    BY <1>1, <1>4, SavedIs
  <2>3. \A q \in Partitions, i \in Slots : active_process' = <<q, i>> => q = p /\ i = c
    BY <1>1
  <2> QED BY <1>1, <1>2, <1>3, <2>1, <2>2, <2>3 DEF AtHome
<1>9. Newest'
  BY <1>1, <1>2, <1>4 DEF PInv, Newest
<1>10. Stacked' /\ StacksDisjoint'
  BY <1>1, <1>2 DEF PInv, Stacked, StacksDisjoint
<1>11. OneStays'
  <2> SUFFICES ASSUME NEW q \in Partitions
               PROVE  (\/ \E j \in Slots : j < index_running_process[q] /\ ReadyAt(q, j)
                       \/ index_running_process[q] = 0
                            /\ \E j \in Slots : 0 < j /\ ReadyAt(q, j)
                       \/ index_running_process[q] = 0 /\ Fresh(q))'
    BY DEF OneStays
  <2>1. UNCHANGED Fresh(q)
    BY <1>1, <1>2 DEF Fresh
  <2>2. index_running_process \in [Partitions -> Slots]
    BY DEF PInv, TypeOK
  <2>3. CASE index_running_process'[q] = index_running_process[q]
    BY <1>2, <2>1, <2>3 DEF PInv, OneStays
  <2>4. CASE index_running_process'[q] # index_running_process[q]
    <3>1. q = p /\ index_running_process'[q] = IndexAfter(p)
      BY <1>1, <2>2, <2>4
    <3> QED BY <1>1, <1>2, <2>4, <3>1
  <2> QED BY <2>3, <2>4
<1> QED BY <1>1, <1>6, <1>7, <1>8, <1>9, <1>10, <1>11 DEF PInv

-----------------------------------------------------------------------------
(* STOP_SELF makes a slot DORMANT, and changes nothing else in a slot. *)
LEMMA StopSelfKeeps ==
  ASSUME PInv, StopSelf
  PROVE  PInv'
<1> DEFINE p == activePartition
           k == index_running_process[p]
<1>1. /\ running \in Threads /\ p \in Partitions /\ home[running][1] = p
      /\ k \in Slots
  BY CallerFacts, TypeFacts DEF StopSelf
<1>2. /\ processes' = [processes EXCEPT ![p][k].PROCESS_STATE = "DORMANT"]
      /\ idling' = idling \cup {running}
      /\ UNCHANGED <<stackpointer, index_running_process, attributes,
                     mem_offset, active_process, activePartition, running, home,
                     called, uwTick, undefined>>
      /\ IsMain(running) => running \in called
  BY DEF StopSelf
<1>3. /\ processes \in [Partitions -> [Slots -> Status]]
  BY DEF PInv, TypeOK
<1> HIDE DEF p, k
<1>4. ASSUME NEW q \in Partitions, NEW i \in Slots
      PROVE  /\ processes'[q][i].top = processes[q][i].top
             /\ processes'[q][i].size = processes[q][i].size
             /\ ReadyAt(q, i)' <=> ReadyAt(q, i) /\ ~(q = p /\ i = k)
             /\ ThreadOf(q, i)' = ThreadOf(q, i)
             /\ processes'[q][i] \in Status
  <2>1. processes'[q][i] =
          IF q = p /\ i = k
            THEN [processes[q][i] EXCEPT !.PROCESS_STATE = "DORMANT"]
            ELSE processes[q][i]
    BY <1>1, <1>2, <1>3
  <2>2. processes[q][i] \in Status
    BY <1>3
  <2>3. ThreadOf(q, i)' = ThreadOf(q, i)
    BY <1>2 DEF ThreadOf
  <2>4. CASE q = p /\ i = k
    <3>1. processes'[q][i] = [processes[q][i] EXCEPT !.PROCESS_STATE = "DORMANT"]
      BY <2>1, <2>4
    <3>2. processes'[q][i].PROCESS_STATE = "DORMANT"
      BY <2>2, <3>1 DEF Status
    <3> QED BY <2>2, <2>3, <2>4, <3>1, <3>2 DEF Status, ReadyAt
  <2>5. CASE ~(q = p /\ i = k)
    BY <2>1, <2>2, <2>3, <2>5 DEF ReadyAt
  <2> QED BY <2>4, <2>5
<1>5. UNCHANGED Threads
  BY <1>2 DEF Threads
<1>6. TypeOK'
  <2>1. processes' \in [Partitions -> [Slots -> Status]]
    <3>1. \A q \in Partitions : processes'[q] = [i \in Slots |-> processes'[q][i]]
      BY <1>1, <1>2, <1>3
    <3>2. processes' = [q \in Partitions |-> processes'[q]]
      BY <1>2, <1>3
    <3>3. \A q \in Partitions : processes'[q] \in [Slots -> Status]
      BY <1>4, <3>1
    <3> QED BY <3>2, <3>3
  <2> QED BY <1>1, <1>2, <1>5, <2>1 DEF PInv, TypeOK
<1>7. ThreadsNumbered' /\ SizesAsked'
  BY <1>2, <1>5 DEF PInv, ThreadsNumbered, SizesAsked
<1>8. AtHome'
  <2>1. \A q \in Partitions, i \in Slots : active_process = <<q, i>> =>
          running \in idling'
    BY <1>2
  <2> QED BY <1>2, <1>5, <2>1 DEF PInv, AtHome
<1>9. Newest'
  BY <1>2, <1>4, <1>5 DEF PInv, Newest
<1>10. Stacked'
  BY <1>2, <1>4 DEF PInv, Stacked
<1>11. StacksDisjoint'
  BY <1>4 DEF PInv, StacksDisjoint
<1>12. OneStays'
  <2> SUFFICES ASSUME NEW q \in Partitions
               PROVE  (\/ \E j \in Slots : j < index_running_process[q] /\ ReadyAt(q, j)
                       \/ index_running_process[q] = 0
                            /\ \E j \in Slots : 0 < j /\ ReadyAt(q, j)
                       \/ index_running_process[q] = 0 /\ Fresh(q))'
    BY DEF OneStays
  <2>1. /\ index_running_process'[q] = index_running_process[q]
        /\ mem_offset' = mem_offset /\ home' = home /\ called' = called
    BY <1>2
  <2>2. \A j \in Slots : q # p \/ j # k => (ReadyAt(q, j)' <=> ReadyAt(q, j))
    BY <1>4
  <2>3. CASE q # p
    <3>1. Fresh(q) => Fresh(q)'
      BY <1>5, <2>1, <2>2, <2>3, SlotFacts DEF Fresh
    <3> QED BY <2>1, <2>2, <2>3, <3>1 DEF PInv, OneStays
  <2>4. CASE q = p
    <3>1. index_running_process[q] = k
      BY <2>4 DEF k, p
    <3>2. ~Fresh(p)
      <4> SUFFICES ASSUME Fresh(p) PROVE FALSE
        OBVIOUS
      <4>1. running = MainOf[p] /\ MainOf[p] \notin called
        BY <1>1 DEF Fresh
      <4>2. IsMain(running)
        BY <1>1, <4>1 DEF IsMain
      <4> QED BY <1>2, <4>1, <4>2
    <3>3. PICK j \in Slots : /\ ReadyAt(q, j) /\ j # k
                             /\ j < k \/ (k = 0 /\ 0 < j)
      <4>1. k \in Nat /\ Slots \subseteq Nat
        BY <1>1, SlotFacts
      <4> QED BY <2>4, <3>1, <3>2, <4>1 DEF PInv, OneStays
    <3>4. ReadyAt(q, j)'
      BY <2>2, <3>3
    <3> QED BY <2>1, <3>1, <3>3, <3>4
  <2> QED BY <2>3, <2>4
<1> QED BY <1>2, <1>6, <1>7, <1>8, <1>9, <1>10, <1>11, <1>12 DEF PInv

-----------------------------------------------------------------------------
(* CREATE_PROCESS, with attributes that ask for a size there is room for.  *)
Asking(attr, prio) ==
    /\ attr \in [STACK_SIZE : Nat] /\ attr.STACK_SIZE \in Sizes
    /\ prio \in Nat

(* What every call does, whether it succeeds or not. *)
CallLeaves ==
    UNCHANGED <<index_running_process, active_process, activePartition,
                running, idling, uwTick, undefined>>

(* The sum does not wrap; it is where the new stack ends. *)
LEMMA OffsetFacts ==
  ASSUME PInv, RoomForOne, NEW p \in Partitions, NEW size \in Sizes
  PROVE  /\ NewOffset(p, size) = mem_offset[p] + size
         /\ size \in Nat /\ mem_offset[p] \in Nat
         /\ DataSize \in Nat /\ DataSize < Word /\ Word \in Nat \ {0}
<1>1. /\ size \in Nat /\ DataSize \in Nat /\ Word \in Nat
      /\ DataSize + size < Word /\ mem_offset[p] \in Nat /\ mem_offset[p] <= DataSize
  BY ProcessesAssumption, TypeFacts DEF RoomForOne, Sizes, PInv, SizesAsked
<1>2. mem_offset[p] + size \in 0..(Word - 1) /\ Word \in Nat \ {0}
  BY <1>1
<1>3. (Word * 0 + (mem_offset[p] + size)) % Word = mem_offset[p] + size
  BY <1>2, ModUnique
<1>4. Word * 0 + (mem_offset[p] + size) = mem_offset[p] + size
  BY <1>1
<1> QED BY <1>1, <1>2, <1>3, <1>4 DEF NewOffset

(* A main of another partition makes no call in p. *)
LEMMA OtherMains ==
  ASSUME PInv, Calling, NEW q \in Partitions, q # activePartition, MainOf[q] \notin called,
         called' = called \cup ({running} \cap {MainOf[r] : r \in Partitions})
  PROVE  MainOf[q] \notin called'
<1>1. home[running][1] = activePartition /\ home[MainOf[q]][1] = q
  BY CallerFacts DEF PInv, ThreadsNumbered
<1>2. running # MainOf[q]
  BY <1>1
<1> QED BY <1>2

(* A call that finds no room or no slot: its stack may be lost, nothing    *)
(* else changes but the attributes.  The first one does not come to that.  *)
LEMMA FailedCreationKeeps ==
  ASSUME PInv, RoomForOne, Calling, CallLeaves,
         NEW attr, NEW prio, Asking(attr, prio),
         Fresh(activePartition) =>
           \E j \in Slots : 0 < j /\ ReadyAt(activePartition, j),
         UNCHANGED <<processes, stackpointer, home>>,
         attributes' = [attributes EXCEPT ![activePartition] = attr],
         \/ mem_offset' = mem_offset
         \/ /\ mem_offset' = [mem_offset EXCEPT ![activePartition] =
                                 NewOffset(activePartition, attr.STACK_SIZE)]
            /\ NewOffset(activePartition, attr.STACK_SIZE) <= DataSize,
         called' = called \cup ({running} \cap {MainOf[r] : r \in Partitions})
  PROVE  PInv'
<1> DEFINE p == activePartition
           size == attr.STACK_SIZE
<1>1. p \in Partitions /\ size \in Sizes
  BY CallerFacts DEF Asking
<1> HIDE DEF p, size
<1>2. /\ NewOffset(p, size) = mem_offset[p] + size
      /\ size \in Nat /\ DataSize \in Nat /\ DataSize < Word /\ Word \in Nat
  BY <1>1, OffsetFacts
<1>3. mem_offset \in [Partitions -> 0..(Word - 1)] /\ attributes \in [Partitions -> [STACK_SIZE : Nat]]
  BY DEF PInv, TypeOK
<1>4. ASSUME NEW q \in Partitions
      PROVE  /\ mem_offset'[q] \in 0..(Word - 1) /\ mem_offset'[q] <= DataSize
             /\ mem_offset[q] <= mem_offset'[q]
             /\ q # p => mem_offset'[q] = mem_offset[q]
             /\ attributes'[q].STACK_SIZE \in Sizes
  <2>1. mem_offset[q] \in 0..(Word - 1) /\ mem_offset[q] <= DataSize
        /\ attributes[q].STACK_SIZE \in Sizes
    BY <1>3 DEF PInv, SizesAsked
  <2>2. attributes'[q].STACK_SIZE \in Sizes
    BY <1>1, <1>3, <2>1 DEF p, size
  <2>3. CASE mem_offset' = mem_offset
    BY <1>2, <2>1, <2>2, <2>3
  <2>4. CASE /\ mem_offset' = [mem_offset EXCEPT ![p] = NewOffset(p, size)]
             /\ NewOffset(p, size) <= DataSize
    <3>1. mem_offset'[q] = IF q = p THEN mem_offset[p] + size ELSE mem_offset[q]
      BY <1>2, <1>3, <2>4
    <3> QED BY <1>2, <2>1, <2>2, <2>4, <3>1
  <2> QED BY <2>3, <2>4 DEF p, size
<1>5. /\ UNCHANGED Threads
      /\ \A q, i : (ReadyAt(q, i)' <=> ReadyAt(q, i))
      /\ \A q, i : ThreadOf(q, i)' = ThreadOf(q, i)
  BY DEF Threads, ReadyAt, ThreadOf, CallLeaves
<1>6. TypeOK'
  <2>1. mem_offset' \in [Partitions -> 0..(Word - 1)]
    <3>1. mem_offset' = [q \in Partitions |-> mem_offset'[q]]
      BY <1>3 DEF p, size
    <3> QED BY <1>4, <3>1
  <2>2. attributes' \in [Partitions -> [STACK_SIZE : Nat]]
    BY <1>3 DEF Asking
  <2> QED BY <1>5, <2>1, <2>2 DEF PInv, TypeOK, CallLeaves
<1>7. ThreadsNumbered' /\ SizesAsked' /\ AtHome' /\ Newest'
  BY <1>4, <1>5 DEF PInv, ThreadsNumbered, SizesAsked, AtHome, Newest, CallLeaves
<1>8. Stacked' /\ StacksDisjoint'
  <2>1. ASSUME NEW q \in Partitions, NEW i \in Slots, ReadyAt(q, i)
        PROVE  processes[q][i].top <= mem_offset'[q] + 2
    <3>1. processes[q][i].top <= mem_offset[q] + 2 /\ processes[q][i].top \in Nat
          /\ mem_offset[q] \in Nat
      BY <2>1, TypeFacts DEF PInv, Stacked
    <3> QED BY <1>2, <1>4, <3>1
  <2> QED BY <1>5, <2>1 DEF PInv, Stacked, StacksDisjoint
<1>9. OneStays'
  <2> SUFFICES ASSUME NEW q \in Partitions
               PROVE  (\/ \E j \in Slots : j < index_running_process[q] /\ ReadyAt(q, j)
                       \/ index_running_process[q] = 0
                            /\ \E j \in Slots : 0 < j /\ ReadyAt(q, j)
                       \/ index_running_process[q] = 0 /\ Fresh(q))'
    BY DEF OneStays
  <2>1. ASSUME Fresh(q), q # p PROVE Fresh(q)'
    <3>1. MainOf[q] \notin called'
      BY <2>1, OtherMains DEF Fresh, p
    <3> QED BY <1>4, <1>5, <2>1, <3>1 DEF Fresh
  <2>2. Fresh(p) => \E j \in Slots : 0 < j /\ ReadyAt(p, j)
    BY DEF p
  <2> QED BY <1>5, <2>1, <2>2 DEF PInv, OneStays, CallLeaves
<1> QED BY <1>6, <1>7, <1>8, <1>9 DEF PInv, CallLeaves

(* A call that succeeds: a thread is born in slot i, which was DORMANT, its *)
(* stack on top of the others.                                             *)
Creation(attr, prio, i) ==
    LET p == activePartition
        t == Cardinality(Threads) + 1
        new == NewOffset(p, attr.STACK_SIZE)
    IN  /\ new <= DataSize
        /\ mem_offset' = [mem_offset EXCEPT ![p] = new]
        /\ processes' = [processes EXCEPT ![p][i] =
                           NewProcess(prio, new, attr.STACK_SIZE)]
        /\ attributes' = [attributes EXCEPT ![p] =
                            [attr EXCEPT !.STACK_SIZE = DefaultStack]]
        /\ stackpointer' = [stackpointer EXCEPT ![p][i] = t]
        /\ home' = [u \in Threads \cup {t} |->
                      IF u = t THEN <<p, i>> ELSE home[u]]

LEMMA CreationKeeps ==
  ASSUME PInv, RoomForOne, Calling, CallLeaves,
         NEW attr, NEW prio, Asking(attr, prio),
         NEW i \in Slots, ~ReadyAt(activePartition, i), Creation(attr, prio, i),
         called' = called \cup ({running} \cap {MainOf[r] : r \in Partitions})
  PROVE  PInv'
<1> DEFINE p == activePartition
           size == attr.STACK_SIZE
           N == Cardinality(Threads)
           t == N + 1
           new == NewProcess(prio, NewOffset(p, size), size)
<1>1. p \in Partitions /\ size \in Sizes /\ ~ReadyAt(p, i)
  BY CallerFacts DEF Asking, ReadyAt
<1>2. N \in Nat /\ Threads = 1..N
  BY DEF PInv, ThreadsNumbered
<1>3. /\ NewOffset(p, size) = mem_offset[p] + size
      /\ size \in Nat /\ DataSize \in Nat /\ DataSize < Word /\ Word \in Nat
      /\ mem_offset[p] \in Nat
  BY <1>1, OffsetFacts
<1>4. /\ mem_offset \in [Partitions -> 0..(Word - 1)]
      /\ attributes \in [Partitions -> [STACK_SIZE : Nat]]
      /\ processes \in [Partitions -> [Slots -> Status]]
      /\ stackpointer \in [Partitions -> [Slots -> Threads]]
      /\ home \in [Threads -> Partitions \X Slots]
      /\ uwTick \in 0..MaxTick
  BY DEF PInv, TypeOK
<1>5. /\ new \in Status /\ new.PROCESS_STATE = "READY"
      /\ new.top = mem_offset[p] + size + 2 /\ new.size = size
  <2>1. new = [PROCESS_STATE |-> "READY", CURRENT_PRIORITY |-> prio,
               tickStamp |-> uwTick, top |-> mem_offset[p] + size + 2, size |-> size]
    BY <1>3 DEF NewProcess, Process, StackTop
  <2>2. mem_offset[p] + size + 2 \in Nat
    BY <1>3
  <2> HIDE DEF new
  <2> QED BY <1>3, <1>4, <2>1, <2>2 DEF Status, Asking
<1>proc. processes' = [processes EXCEPT ![p][i] = new]
  BY DEF Creation
<1>stack. stackpointer' = [stackpointer EXCEPT ![p][i] = t]
  BY DEF Creation
<1>home. home' = [u \in Threads \cup {t} |-> IF u = t THEN <<p, i>> ELSE home[u]]
  BY DEF Creation
<1>attr. attributes' = [attributes EXCEPT ![p] = [attr EXCEPT !.STACK_SIZE = DefaultStack]]
  BY DEF Creation
<1>mem. mem_offset' = [mem_offset EXCEPT ![p] = mem_offset[p] + size]
        /\ mem_offset[p] + size <= DataSize
  BY <1>3 DEF Creation
<1>6. Fresh(p) => 0 < i
  <2>1. i # 0 => 0 < i
    BY SlotFacts
  <2> QED BY <1>1, <2>1 DEF Fresh
<1>7. /\ Threads' = 1..t /\ Cardinality(Threads') = t /\ t \in Nat
      /\ Threads \subseteq Threads' /\ t \in Threads' /\ t \notin Threads
      /\ home'[t] = <<p, i>> /\ \A u \in Threads : home'[u] = home[u] /\ u < t
  <2> HIDE DEF N, p
  <2>1. Threads' = Threads \cup {t}
    BY <1>home DEF Threads
  <2>2. Threads' = 1..t /\ t \in Nat /\ t \notin Threads
    BY <1>2, <2>1
  <2>3. Cardinality(1..t) = t
    <3>1. 0 \in Int /\ 1 \in Int /\ t \in Int /\ 1 <= t /\ t - 1 + 1 = t
      BY <1>2
    <3> HIDE DEF t
    <3> QED BY <3>1, FS_Interval
  <2>4. home'[t] = <<p, i>> /\ \A u \in Threads : home'[u] = home[u]
    BY <1>home, <2>2
  <2>5. \A u \in Threads : u < t
    BY <1>2
  <2> QED BY <2>1, <2>2, <2>3, <2>4, <2>5
<1>8. \E k \in Slots : active_process = <<p, k>> /\ ReadyAt(p, k)
  BY CallerFacts
<1>9. active_process # <<p, i>>
  BY <1>1, <1>8
<1> HIDE DEF p, size, N, t, new
<1>10. ASSUME NEW q \in Partitions, NEW j \in Slots
       PROVE  /\ processes'[q][j] = IF q = p /\ j = i THEN new ELSE processes[q][j]
              /\ stackpointer'[q][j] = IF q = p /\ j = i THEN t ELSE stackpointer[q][j]
              /\ ThreadOf(q, j)' = IF q = p /\ j = i THEN t ELSE ThreadOf(q, j)
              /\ ReadyAt(q, j)' <=> ReadyAt(q, j) \/ (q = p /\ j = i)
  <2>1. processes'[q][j] = IF q = p /\ j = i THEN new ELSE processes[q][j]
    BY <1>1, <1>4, <1>proc
  <2>2. stackpointer'[q][j] = IF q = p /\ j = i THEN t ELSE stackpointer[q][j]
    BY <1>1, <1>4, <1>stack
  <2>3. active_process' = active_process /\ running' = running
    BY DEF CallLeaves
  <2>4. ThreadOf(q, j)' = IF q = p /\ j = i THEN t ELSE ThreadOf(q, j)
    BY <1>9, <2>2, <2>3 DEF ThreadOf
  <2>5. ReadyAt(q, j)' <=> ReadyAt(q, j) \/ (q = p /\ j = i)
    BY <1>5, <2>1 DEF ReadyAt
  <2> QED BY <2>1, <2>2, <2>4, <2>5
<1>11. ASSUME NEW q \in Partitions
       PROVE  mem_offset'[q] = IF q = p THEN mem_offset[p] + size ELSE mem_offset[q]
  BY <1>4, <1>mem
<1>12. TypeOK'
  <2>1. processes' \in [Partitions -> [Slots -> Status]]
    BY <1>1, <1>4, <1>5, <1>proc
  <2>2. stackpointer' \in [Partitions -> [Slots -> Threads']]
    <3>1. stackpointer \in [Partitions -> [Slots -> Threads']]
      <4>1. [Slots -> Threads] \subseteq [Slots -> Threads']
        <5> HIDE DEF Threads
        <5> QED BY <1>7
      <4> QED BY <1>4, <4>1
    <3> QED BY <1>1, <1>7, <1>stack, <3>1
  <2>3. attributes' \in [Partitions -> [STACK_SIZE : Nat]]
    <3>1. DefaultStack \in Nat
      BY ProcessesAssumption
    <3>2. PICK k \in Nat : attr = [STACK_SIZE |-> k]
      BY DEF Asking
    <3>3. [attr EXCEPT !.STACK_SIZE = DefaultStack] = [STACK_SIZE |-> DefaultStack]
      BY <3>2
    <3>4. [STACK_SIZE |-> DefaultStack] \in [STACK_SIZE : Nat]
      BY <3>1
    <3>5. attributes' = [attributes EXCEPT ![p] = [STACK_SIZE |-> DefaultStack]]
      BY <1>attr, <3>3
    <3> QED BY <1>4, <3>4, <3>5
  <2>4. mem_offset' \in [Partitions -> 0..(Word - 1)]
    <3>1. mem_offset[p] + size \in 0..(Word - 1)
      BY <1>3, <1>mem
    <3> QED BY <1>4, <1>mem, <3>1
  <2>5. home' \in [Threads' -> Partitions \X Slots]
    <3>1. \A u \in Threads \cup {t} : home'[u] \in Partitions \X Slots
      <4>1. <<p, i>> \in Partitions \X Slots
        BY <1>1
      <4>2. \A u \in Threads : home'[u] \in Partitions \X Slots
        BY <1>4, <1>7
      <4> QED BY <1>7, <4>1, <4>2
    <3>2. Threads' = Threads \cup {t}
      BY <1>home DEF Threads
    <3>3. home' = [u \in Threads' |-> home'[u]]
      BY <1>home, <3>2
    <3> QED BY <3>1, <3>2, <3>3
  <2>6. /\ idling' \subseteq Threads' /\ running' \in {0} \cup Threads'
        /\ index_running_process' \in [Partitions -> Slots]
        /\ active_process' \in {None} \cup (Partitions \X Slots)
        /\ activePartition' \in Partitions /\ uwTick' \in 0..MaxTick
        /\ undefined' \in BOOLEAN
    BY <1>7 DEF PInv, TypeOK, CallLeaves
  <2> QED BY <2>1, <2>2, <2>3, <2>4, <2>5, <2>6 DEF TypeOK
<1>13. ThreadsNumbered'
  <2>1. \A q \in Partitions : MainOf[q] \in Threads' /\ home'[MainOf[q]] = <<q, 0>>
    BY <1>7 DEF PInv, ThreadsNumbered
  <2> QED BY <1>7, <2>1 DEF ThreadsNumbered
<1>14. SizesAsked'
  <2> SUFFICES ASSUME NEW q \in Partitions
               PROVE  attributes'[q].STACK_SIZE \in Sizes /\ mem_offset'[q] <= DataSize
    BY DEF SizesAsked
  <2>1. attributes[q].STACK_SIZE \in Sizes /\ mem_offset[q] <= DataSize
    BY DEF PInv, SizesAsked
  <2>2. [attr EXCEPT !.STACK_SIZE = DefaultStack].STACK_SIZE \in Sizes
    <3>1. PICK k \in Nat : attr = [STACK_SIZE |-> k]
      BY DEF Asking
    <3>2. [attr EXCEPT !.STACK_SIZE = DefaultStack].STACK_SIZE = DefaultStack
      BY <3>1
    <3> QED BY <3>2 DEF Sizes
  <2>3. attributes'[q].STACK_SIZE \in Sizes
    BY <1>4, <1>attr, <2>1, <2>2
  <2> QED BY <1>mem, <1>11, <2>1, <2>3
<1>15. AtHome'
  <2>1. /\ active_process' = active_process /\ running' = running
        /\ activePartition' = activePartition /\ idling' = idling
    BY DEF CallLeaves
  <2>2. ASSUME NEW q \in Partitions, NEW j \in Slots
        PROVE  home'[stackpointer'[q][j]][1] = q
    <3>1. stackpointer[q][j] \in Threads /\ home[stackpointer[q][j]][1] = q
      BY <1>4 DEF PInv, AtHome
    <3>2. CASE q = p /\ j = i
      BY <1>7, <1>10, <3>2
    <3>3. CASE ~(q = p /\ j = i)
      <4>1. stackpointer'[q][j] = stackpointer[q][j]
        BY <1>10, <3>3
      <4> QED BY <1>7, <3>1, <4>1
    <3> QED BY <3>2, <3>3
  <2>3. ASSUME NEW q \in Partitions, NEW j \in Slots, active_process = <<q, j>>
        PROVE  /\ running \in Threads' /\ home'[running][1] = q /\ activePartition = q
               /\ ReadyAt(q, j)' \/ running \in idling
    BY <1>7, <1>10, <2>3 DEF PInv, AtHome
  <2> QED BY <2>1, <2>2, <2>3 DEF PInv, AtHome
<1>16. Newest'
  <2> SUFFICES ASSUME NEW q \in Partitions, NEW j \in Slots, ReadyAt(q, j)'
               PROVE  /\ home'[ThreadOf(q, j)'] = <<q, j>>
                      /\ \A u \in Threads' : home'[u] = <<q, j>> => u <= ThreadOf(q, j)'
    BY DEF Newest
  <2>1. CASE q = p /\ j = i
    <3>1. ThreadOf(q, j)' = t
      BY <1>10, <2>1
    <3>2. \A u \in Threads' : u <= t
      BY <1>7
    <3> QED BY <1>7, <2>1, <3>1, <3>2
  <2>2. CASE ~(q = p /\ j = i)
    <3>1. ThreadOf(q, j)' = ThreadOf(q, j) /\ ReadyAt(q, j)
      BY <1>10, <2>2
    <3>2. /\ ThreadOf(q, j) \in Threads /\ home[ThreadOf(q, j)] = <<q, j>>
          /\ \A u \in Threads : home[u] = <<q, j>> => u <= ThreadOf(q, j)
      BY <3>1, SavedIs DEF PInv, Newest
    <3>3. ASSUME NEW u \in Threads', home'[u] = <<q, j>>
          PROVE  u \in Threads /\ home[u] = <<q, j>>
      <4>1. u # t
        BY <1>7, <2>2, <3>3
      <4>2. u \in Threads
        BY <1>home, <3>3, <4>1 DEF Threads
      <4> QED BY <1>7, <3>3, <4>2
    <3> QED BY <1>7, <3>1, <3>2, <3>3
  <2> QED BY <2>1, <2>2
<1>17. Stacked'
  <2> SUFFICES ASSUME NEW q \in Partitions, NEW j \in Slots, ReadyAt(q, j)'
               PROVE  processes'[q][j].top <= mem_offset'[q] + 2
    BY DEF Stacked
  <2>1. CASE q = p /\ j = i
    BY <1>3, <1>5, <1>10, <1>11, <2>1
  <2>2. CASE ~(q = p /\ j = i)
    <3>1. ReadyAt(q, j) /\ processes'[q][j] = processes[q][j]
      BY <1>10, <2>2
    <3>2. processes[q][j].top <= mem_offset[q] + 2
          /\ processes[q][j].top \in Nat /\ mem_offset[q] \in Nat
      BY <3>1, TypeFacts DEF PInv, Stacked
    <3> QED BY <1>3, <1>11, <3>1, <3>2
  <2> QED BY <2>1, <2>2
<1>18. StacksDisjoint'
  <2>1. ASSUME NEW j \in Slots, ReadyAt(p, j)
        PROVE  processes[p][j].top <= new.top - new.size
    <3>1. processes[p][j].top <= mem_offset[p] + 2 /\ processes[p][j].top \in Nat
      BY <1>1, <2>1, TypeFacts DEF PInv, Stacked
    <3> QED BY <1>3, <1>5, <3>1
  <2> SUFFICES ASSUME NEW q \in Partitions, NEW j \in Slots, NEW k \in Slots,
                      j # k, ReadyAt(q, j)', ReadyAt(q, k)'
               PROVE  \/ processes'[q][j].top
                           <= processes'[q][k].top - processes'[q][k].size
                      \/ processes'[q][k].top
                           <= processes'[q][j].top - processes'[q][j].size
    BY DEF StacksDisjoint
  <2>2. CASE q = p /\ j = i
    BY <1>10, <2>1, <2>2
  <2>3. CASE q = p /\ k = i
    BY <1>10, <2>1, <2>3
  <2>4. CASE ~(q = p /\ j = i) /\ ~(q = p /\ k = i)
    <3>1. /\ ReadyAt(q, j) /\ processes'[q][j] = processes[q][j]
          /\ ReadyAt(q, k) /\ processes'[q][k] = processes[q][k]
      BY <1>10, <2>4
    <3> QED BY <3>1 DEF PInv, StacksDisjoint
  <2> QED BY <2>2, <2>3, <2>4
<1>19. OneStays'
  <2> SUFFICES ASSUME NEW q \in Partitions
               PROVE  (\/ \E j \in Slots : j < index_running_process[q] /\ ReadyAt(q, j)
                       \/ index_running_process[q] = 0
                            /\ \E j \in Slots : 0 < j /\ ReadyAt(q, j)
                       \/ index_running_process[q] = 0 /\ Fresh(q))'
    BY DEF OneStays
  <2>1. index_running_process' = index_running_process
    BY DEF CallLeaves
  <2>2. \A j \in Slots : ReadyAt(q, j) => ReadyAt(q, j)'
    BY <1>10
  <2>3. CASE index_running_process[q] = 0 /\ Fresh(q) /\ q = p
    <3>1. 0 < i /\ ReadyAt(q, i)'
      BY <1>6, <1>10, <2>3
    <3> QED BY <2>1, <2>3, <3>1
  <2>4. CASE index_running_process[q] = 0 /\ Fresh(q) /\ q # p
    <3>1. MainOf[q] \notin called'
      BY <2>4, OtherMains DEF Fresh, p
    <3>2. ReadyAt(q, 0)' /\ mem_offset'[q] = mem_offset[q]
      BY <1>11, <2>2, <2>4, SlotFacts DEF Fresh
    <3>3. ASSUME NEW u \in Threads', home'[u][1] = q PROVE u = MainOf[q]
      <4>1. u # t
        BY <1>7, <2>4, <3>3
      <4>2. u \in Threads
        BY <1>home, <3>3, <4>1 DEF Threads
      <4>3. home[u][1] = q
        BY <1>7, <3>3, <4>2
      <4> QED BY <2>4, <4>2, <4>3 DEF Fresh
    <3>4. Fresh(q)'
      BY <2>4, <3>1, <3>2, <3>3 DEF Fresh
    <3> QED BY <2>1, <2>4, <3>4
  <2>5. CASE ~(index_running_process[q] = 0 /\ Fresh(q))
    BY <2>1, <2>2, <2>5 DEF PInv, OneStays
  <2> QED BY <2>3, <2>4, <2>5
<1> QED BY <1>12, <1>13, <1>14, <1>15, <1>16, <1>17, <1>18, <1>19 DEF PInv, CallLeaves

(* Every call of CREATE_PROCESS. *)
LEMMA RuntimeCreateKeeps ==
  ASSUME PInv, RoomForOne, NEW attr, NEW prio, Asking(attr, prio),
         runtime_create_process(attr, prio)
  PROVE  PInv'
<1> DEFINE p == activePartition
           size == attr.STACK_SIZE
           new == NewOffset(p, size)
           dormant == {i \in Slots : processes[p][i].PROCESS_STATE = "DORMANT"}
<1>1. /\ Calling /\ CallLeaves
      /\ called' = called \cup ({running} \cap {MainOf[r] : r \in Partitions})
  BY DEF runtime_create_process, CallLeaves
<1>2. p \in Partitions /\ size \in Sizes
  BY <1>1, CallerFacts DEF Asking
<1>3. Fresh(p) => new <= DataSize
  <2>1. new = mem_offset[p] + size
    BY <1>2, OffsetFacts
  <2> QED BY <2>1 DEF Fresh, RoomForOne, Sizes, Asking
<1>4. CASE ~(new <= DataSize)
  <2>1. new > DataSize
    <3>1. new \in Nat /\ DataSize \in Nat
      BY <1>2, OffsetFacts
    <3> HIDE DEF new
    <3> QED BY <1>4, <3>1
  <2>2. /\ UNCHANGED <<processes, stackpointer, home>>
        /\ attributes' = [attributes EXCEPT ![p] = attr]
        /\ mem_offset' = mem_offset
    BY <2>1 DEF runtime_create_process
  <2> HIDE DEF new
  <2> QED BY <1>1, <1>3, <1>4, <2>2, FailedCreationKeeps
<1>5. CASE new <= DataSize
  <2>1. ~(new > DataSize)
    <3>1. new \in Nat /\ DataSize \in Nat
      BY <1>2, OffsetFacts
    <3> HIDE DEF new
    <3> QED BY <1>5, <3>1
  <2>2. /\ mem_offset' = [mem_offset EXCEPT ![p] = new]
        /\ create_process(p, new, attr, prio)
    BY <2>1 DEF runtime_create_process
  <2>3. CASE dormant = {}
    <3>1. /\ UNCHANGED <<processes, stackpointer, home>>
          /\ attributes' = [attributes EXCEPT ![p] = attr]
      BY <2>2, <2>3 DEF create_process
    <3>2. 1 \in Slots /\ ReadyAt(p, 1)
      <4>1. 1 \in Slots
        BY SlotFacts DEF RoomForOne
      <4> QED BY <1>2, <2>3, <4>1, TypeFacts DEF ReadyAt
    <3>3. Fresh(p) => \E j \in Slots : 0 < j /\ ReadyAt(p, j)
      BY <3>2
    <3> QED BY <1>1, <1>5, <2>2, <3>1, <3>3, FailedCreationKeeps
  <2>4. CASE dormant # {}
    <3> DEFINE i == Min(dormant)
    <3>1. i \in dormant
      <4>1. dormant \in SUBSET Nat
        BY SlotFacts
      <4> HIDE DEF dormant
      <4> QED BY <2>4, <4>1, MinOfNaturals
    <3>2. i \in Slots /\ ~ReadyAt(p, i)
      BY <3>1 DEF ReadyAt
    <3>3. Creation(attr, prio, i)
      BY <1>5, <2>2, <2>4 DEF Creation, create_process
    <3> HIDE DEF i
    <3> QED BY <1>1, <3>2, <3>3, CreationKeeps
  <2> QED BY <2>3, <2>4
<1> QED BY <1>4, <1>5

-----------------------------------------------------------------------------
(* The initial state: the mains are numbered one by one. *)
LEMMA MainsNumbered ==
  /\ Cardinality(Partitions) \in Nat
  /\ MainOf \in [Partitions -> 1..Cardinality(Partitions)]
  /\ \A p, q \in Partitions : p # q => MainOf[p] # MainOf[q]
  /\ \A t \in 1..Cardinality(Partitions) : \E p \in Partitions : MainOf[p] = t
<1> DEFINE n == Cardinality(Partitions)
           Numbering(f) == /\ f \in [Partitions -> 1..n]
                           /\ \A p, q \in Partitions : p # q => f[p] # f[q]
<1>1. IsFiniteSet(Partitions) /\ n \in Nat
  BY ProcessesAssumption, FS_CardinalityType
<1>2. PICK f : f \in Bijection(Partitions, 1..n)
  <2>1. ExistsBijection(1..n, Partitions)
    BY <1>1, FS_CardinalityType
  <2>2. ExistsBijection(Partitions, 1..n)
    BY <2>1, Fun_ExistsBijSymmetric
  <2> QED BY <2>2 DEF ExistsBijection
<1>3. Numbering(f)
  BY <1>2 DEF Bijection, Injection, IsInjective
<1>4. MainOf = CHOOSE g : Numbering(g)
  BY DEF MainOf
<1>5. Numbering(MainOf)
  BY <1>3, <1>4
<1>6. MainOf \in Injection(Partitions, 1..n)
  BY <1>5 DEF Injection, IsInjective
<1>7. IsFiniteSet(1..n) /\ Cardinality(1..n) = n
  <2>1. /\ IsFiniteSet(1..n)
        /\ Cardinality(1..n) = IF 1 > n THEN 0 ELSE n - 1 + 1
    BY <1>1, FS_Interval
  <2> HIDE DEF n
  <2> QED BY <1>1, <2>1
<1>8. MainOf \in Surjection(Partitions, 1..n)
  BY <1>6, <1>7, FS_Injection
<1> QED BY <1>1, <1>5, <1>8 DEF Surjection

LEMMA ProcessesStart ==
  ASSUME RoomForOne, Init
  PROVE  PInv
<1> DEFINE n == Cardinality(Partitions)
<1>1. /\ n \in Nat /\ MainOf \in [Partitions -> 1..n]
      /\ \A p, q \in Partitions : p # q => MainOf[p] # MainOf[q]
      /\ \A t \in 1..n : \E p \in Partitions : MainOf[p] = t
  BY MainsNumbered
<1>2. Threads = 1..n /\ Cardinality(Threads) = n
  <2>1. Threads = 1..n
    BY DEF Init, Threads
  <2>2. Cardinality(1..n) = IF 1 > n THEN 0 ELSE n - 1 + 1
    BY <1>1, FS_Interval
  <2> HIDE DEF n, Threads
  <2> QED BY <1>1, <2>1, <2>2
<1>3. ASSUME NEW t \in Threads
      PROVE  \E p \in Partitions : home[t] = <<p, 0>> /\ MainOf[p] = t
  <2>1. home[t] = <<CHOOSE p \in Partitions : MainOf[p] = t, 0>>
    BY <1>2 DEF Init
  <2>2. \E p \in Partitions : MainOf[p] = t
    BY <1>1, <1>2
  <2> QED BY <2>1, <2>2
<1>4. ASSUME NEW p \in Partitions
      PROVE  MainOf[p] \in Threads /\ home[MainOf[p]] = <<p, 0>>
  <2>1. MainOf[p] \in Threads
    BY <1>1, <1>2
  <2>2. PICK q \in Partitions : home[MainOf[p]] = <<q, 0>> /\ MainOf[q] = MainOf[p]
    BY <1>3, <2>1
  <2> QED BY <1>1, <2>1, <2>2
<1> HIDE DEF n
<1>5. /\ DataSize \in Nat /\ DefaultStack \in Nat /\ MainReserve \in Nat
      /\ MaxTick \in Nat /\ Word \in Nat /\ 0 \in 0..MaxTick
      /\ MainReserve <= DataSize /\ MainReserve \in 0..(Word - 1)
      /\ IdlePartition \in Partitions
  <2>1. /\ DataSize \in Nat /\ DefaultStack \in Nat /\ MainReserve \in Nat
        /\ MaxTick \in Nat /\ Word \in Nat /\ IdlePartition \in Partitions
    BY ProcessesAssumption
  <2>2. MainReserve <= DataSize /\ DataSize + DefaultStack < Word
    BY DEF RoomForOne
  <2> QED BY <2>1, <2>2
<1>6. ASSUME NEW p \in Partitions, NEW i \in Slots
      PROVE  /\ processes[p][i] =
                   IF i = 0 THEN Process("READY", 1, 0, 2, MainReserve)
                            ELSE Process("DORMANT", 1, 0, 0, 0)
             /\ processes[p][i] \in Status
             /\ ReadyAt(p, i) <=> i = 0
             /\ ThreadOf(p, i) = MainOf[p] /\ stackpointer[p][i] = MainOf[p]
  <2>1. processes[p][i] = IF i = 0 THEN Process("READY", 1, 0, 2, MainReserve)
                                   ELSE Process("DORMANT", 1, 0, 0, 0)
    BY DEF Init, StackTop
  <2>2. processes[p][i] \in Status
    BY <1>5, <2>1 DEF Process, Status
  <2>3. ReadyAt(p, i) <=> i = 0
    BY <2>1 DEF ReadyAt, Process
  <2>4. stackpointer[p][i] = MainOf[p] /\ active_process # <<p, i>>
    BY DEF Init, None
  <2> QED BY <2>1, <2>2, <2>3, <2>4 DEF ThreadOf
<1>7. TypeOK
  <2>1. processes \in [Partitions -> [Slots -> Status]]
    <3>1. processes = [p \in Partitions |-> [i \in Slots |-> processes[p][i]]]
      BY DEF Init
    <3> QED BY <1>6, <3>1
  <2>2. stackpointer \in [Partitions -> [Slots -> Threads]]
    BY <1>4 DEF Init
  <2>3. /\ index_running_process \in [Partitions -> Slots]
        /\ mem_offset \in [Partitions -> 0..(Word - 1)]
        /\ uwTick \in 0..MaxTick /\ undefined \in BOOLEAN
        /\ activePartition \in Partitions
    BY <1>5, SlotFacts DEF Init
  <2>4. attributes \in [Partitions -> [STACK_SIZE : Nat]]
    BY <1>5 DEF Init, Filled
  <2>5. home \in [Threads -> Partitions \X Slots]
    <3>1. home = [t \in Threads |-> home[t]]
      BY <1>2 DEF Init, n
    <3>2. ASSUME NEW t \in Threads PROVE home[t] \in Partitions \X Slots
      <4>1. PICK p \in Partitions : home[t] = <<p, 0>>
        BY <1>3
      <4>2. <<p, 0>> \in Partitions \X Slots
        BY SlotFacts
      <4> QED BY <4>1, <4>2
    <3> QED BY <3>1, <3>2
  <2>6. /\ active_process \in {None} \cup (Partitions \X Slots)
        /\ running \in {0} \cup Threads /\ idling \subseteq Threads
    BY DEF Init
  <2> QED BY <2>1, <2>2, <2>3, <2>4, <2>5, <2>6 DEF TypeOK
<1>8. ThreadsNumbered
  BY <1>1, <1>2, <1>4 DEF ThreadsNumbered
<1>9. SizesAsked
  BY <1>5 DEF Init, Filled, SizesAsked, Sizes
<1>10. AtHome
  <2>1. active_process = None /\ running = 0 /\ \A p, i : None # <<p, i>>
    BY DEF Init, None
  <2> QED BY <1>4, <1>6, <2>1 DEF AtHome
<1>11. Newest
  <2>1. ASSUME NEW p \in Partitions, NEW t \in Threads, home[t] = <<p, 0>>
        PROVE  t <= MainOf[p]
    <3>1. t = MainOf[p]
      BY <1>3, <2>1
    <3>2. t \in Nat
      BY <1>1, <1>2
    <3> QED BY <3>1, <3>2
  <2> QED BY <1>4, <1>6, <2>1 DEF Newest
<1>12. Stacked
  <2>1. ASSUME NEW p \in Partitions PROVE processes[p][0].top = 2 /\ mem_offset[p] = MainReserve
    BY <1>6, SlotFacts DEF Init, Process
  <2> QED BY <1>5, <1>6, <2>1 DEF Stacked
<1>13. StacksDisjoint
  BY <1>6 DEF StacksDisjoint
<1>14. OneStays
  <2>1. ASSUME NEW p \in Partitions PROVE index_running_process[p] = 0 /\ Fresh(p)
    <3>1. /\ index_running_process[p] = 0 /\ MainOf[p] \notin called
          /\ mem_offset[p] = MainReserve
      BY DEF Init
    <3>2. \A t \in Threads : home[t][1] = p => t = MainOf[p]
      BY <1>3
    <3> QED BY <1>6, <3>1, <3>2, SlotFacts DEF Fresh
  <2> QED BY <2>1 DEF OneStays
<1> QED BY <1>7, <1>8, <1>9, <1>10, <1>11, <1>12, <1>13, <1>14 DEF PInv, Init

LEMMA ProcessesStep ==
  ASSUME RoomForOne, PInv, [Next]_vars
  PROVE  PInv'
<1>1. ASSUME NEW p \in Partitions, SysTick(p) PROVE PInv'
  BY <1>1, SysTickKeepsPInv
<1>2. ASSUME NEW size \in StackSizes, NEW prio \in Priorities, CreateProcess(size, prio)
      PROVE  PInv'
  <2>1. Asking(Filled(size), prio)
    BY ProcessesAssumption DEF Asking, Filled, Sizes
  <2> QED BY <1>2, <2>1, RuntimeCreateKeeps DEF CreateProcess
<1>3. ASSUME NEW prio \in Priorities, CreateAgain(prio) PROVE PInv'
  <2>1. activePartition \in Partitions
    BY DEF PInv, TypeOK
  <2>2. Asking(attributes[activePartition], prio)
    BY <2>1, ProcessesAssumption DEF Asking, PInv, TypeOK, SizesAsked
  <2> QED BY <1>3, <2>2, RuntimeCreateKeeps DEF CreateAgain
<1>4. CASE StopSelf
  BY <1>4, StopSelfKeeps
<1>5. CASE UNCHANGED vars
  <2>1. UNCHANGED Threads
    BY <1>5 DEF vars, Threads
  <2>2. /\ \A p, i : (ReadyAt(p, i)' <=> ReadyAt(p, i))
        /\ \A p, i : ThreadOf(p, i)' = ThreadOf(p, i)
        /\ \A p : (Fresh(p)' <=> Fresh(p))
    BY <1>5, <2>1 DEF vars, ReadyAt, ThreadOf, Fresh
  <2> QED BY <1>5, <2>1, <2>2 DEF vars, PInv, TypeOK, ThreadsNumbered, SizesAsked,
                                  AtHome, Newest, Stacked, StacksDisjoint, OneStays
<1> QED BY <1>1, <1>2, <1>3, <1>4, <1>5 DEF Next, SystemCall

LEMMA ProcessesInvariant ==
  ASSUME RoomForOne
  PROVE  Spec => []PInv
<1>1. Init => PInv
  BY ProcessesStart
<1>2. PInv /\ [Next]_vars => PInv'
  BY ProcessesStep
<1> QED BY <1>1, <1>2, PTL DEF Spec

-----------------------------------------------------------------------------
(* Until it stops itself, a main is the oldest process of its partition,   *)
(* so that it alone runs there and the index stays with it.                *)
MainFirst ==
    \A p \in Partitions : MainOf[p] \notin idling =>
        /\ ReadyAt(p, 0) /\ processes[p][0].tickStamp = 0
        /\ index_running_process[p] = 0 /\ ThreadOf(p, 0) = MainOf[p]
        /\ \A i \in Slots : active_process = <<p, i>> => i = 0

(* A READY process outlives a call of CREATE_PROCESS unchanged. *)
LEMMA CreateLeavesReady ==
  ASSUME PInv, NEW attr, NEW prio, runtime_create_process(attr, prio),
         NEW q \in Partitions, NEW j \in Slots, ReadyAt(q, j)
  PROVE  /\ processes'[q][j] = processes[q][j]
         /\ ThreadOf(q, j)' = ThreadOf(q, j)
<1> DEFINE p == activePartition
           dormant == {i \in Slots : processes[p][i].PROCESS_STATE = "DORMANT"}
           i == Min(dormant)
<1>1. active_process' = active_process /\ running' = running
  BY DEF runtime_create_process
<1>2. /\ processes \in [Partitions -> [Slots -> Status]]
      /\ stackpointer \in [Partitions -> [Slots -> Threads]]
      /\ p \in Partitions
  BY DEF PInv, TypeOK
<1>3. \/ UNCHANGED <<processes, stackpointer>>
      \/ /\ dormant # {}
         /\ \E v : processes' = [processes EXCEPT ![p][i] = v]
         /\ \E t : stackpointer' = [stackpointer EXCEPT ![p][i] = t]
  BY DEF runtime_create_process, create_process
<1>4. dormant # {} => i \in dormant
  <2>1. dormant \in SUBSET Nat
    BY SlotFacts
  <2> HIDE DEF dormant
  <2> QED BY <2>1, MinOfNaturals
<1>5. dormant # {} => ~(q = p /\ j = i) /\ i \in Slots
  BY <1>4 DEF ReadyAt
<1> HIDE DEF p, i, dormant
<1>6. processes'[q][j] = processes[q][j] /\ stackpointer'[q][j] = stackpointer[q][j]
  BY <1>2, <1>3, <1>5
<1> QED BY <1>1, <1>6 DEF ThreadOf

LEMMA MainFirstStarts ==
  ASSUME RoomForOne, Init
  PROVE  MainFirst
<1> SUFFICES ASSUME NEW p \in Partitions
             PROVE  /\ ReadyAt(p, 0) /\ processes[p][0].tickStamp = 0
                    /\ index_running_process[p] = 0 /\ ThreadOf(p, 0) = MainOf[p]
                    /\ \A i \in Slots : active_process = <<p, i>> => i = 0
  BY DEF MainFirst
<1>1. \A i : active_process # <<p, i>>
  BY DEF Init, None
<1>2. processes[p][0] = Process("READY", 1, 0, StackTop(0), MainReserve)
  BY SlotFacts DEF Init
<1>3. stackpointer[p][0] = MainOf[p] /\ index_running_process[p] = 0
  BY SlotFacts DEF Init
<1> QED BY <1>1, <1>2, <1>3 DEF ReadyAt, ThreadOf, Process

LEMMA MainFirstSysTick ==
  ASSUME PInv, MainFirst, NEW p \in Partitions, SysTick(p)
  PROVE  MainFirst'
<1>1. PICK c \in Slots :
           /\ c = Candidate(processes[p])
           /\ active_process' = <<p, c>> /\ running' = ThreadOf(p, c)
           /\ index_running_process' = [index_running_process EXCEPT ![p] = IndexAfter(p)]
           /\ stackpointer' = Saved
           /\ UNCHANGED <<processes, idling>>
  BY TickFacts
<1>2. ASSUME MainOf[p] \notin idling
      PROVE  c = 0 /\ c = Min(Ready(processes[p]))
  <2> DEFINE ps == processes[p]
             f == Min(Ready(ps))
  <2>1. /\ Ready(ps) # {} /\ Comparable(ps)
    BY SomeReady, TypeFacts
  <2>2. c = f \/ ps[c].tickStamp < ps[f].tickStamp
    BY <1>1, <2>1, CandidateFacts
  <2>3. f \in Ready(ps) /\ \A i \in Ready(ps) : f <= i
    BY <2>1, FirstIsReady DEF First
  <2>4. 0 \in Ready(ps) /\ ps[0].tickStamp = 0
    BY <1>2, SlotFacts DEF MainFirst, Ready, ReadyAt
  <2>5. ps[c].tickStamp \in Nat /\ Ready(ps) \subseteq Nat
    BY <2>1, SlotFacts DEF Comparable, Ready
  <2> HIDE DEF f
  <2>6. f = 0
    BY <2>3, <2>4, <2>5
  <2>7. c = f
    BY <2>2, <2>4, <2>5, <2>6
  <2> QED BY <2>6, <2>7 DEF f
<1>3. index_running_process \in [Partitions -> Slots]
  BY DEF PInv, TypeOK
<1> SUFFICES ASSUME NEW q \in Partitions, MainOf[q] \notin idling
             PROVE  /\ ReadyAt(q, 0)' /\ processes'[q][0].tickStamp = 0
                    /\ index_running_process'[q] = 0 /\ ThreadOf(q, 0)' = MainOf[q]
                    /\ \A i \in Slots : active_process' = <<q, i>> => i = 0
  BY <1>1 DEF MainFirst
<1>4. ReadyAt(q, 0)' /\ processes'[q][0].tickStamp = 0
  BY <1>1 DEF MainFirst, ReadyAt
<1>5. index_running_process'[q] = 0
  <2>1. CASE q = p
    <3>1. IndexAfter(p) = index_running_process[p]
      BY <1>1, <1>2, <2>1 DEF IndexAfter
    <3> QED BY <1>1, <1>3, <2>1, <3>1 DEF MainFirst
  <2>2. CASE q # p
    BY <1>1, <1>3, <2>2 DEF MainFirst
  <2> QED BY <2>1, <2>2
<1>6. ThreadOf(q, 0)' = MainOf[q]
  <2>1. stackpointer'[q][0] = ThreadOf(q, 0) /\ ThreadOf(q, 0) = MainOf[q]
    BY <1>1, SavedIs, SlotFacts DEF MainFirst
  <2>2. active_process' = <<q, 0>> => running' = ThreadOf(q, 0)
    BY <1>1
  <2> QED BY <2>1, <2>2 DEF ThreadOf
<1>7. \A i \in Slots : active_process' = <<q, i>> => i = 0
  BY <1>1, <1>2
<1> QED BY <1>4, <1>5, <1>6, <1>7

(* A call of STOP_SELF in a partition whose main goes on is main's own. *)
LEMMA MainFirstStopSelf ==
  ASSUME PInv, MainFirst, StopSelf
  PROVE  MainFirst' /\ (IsMain(running) => StopsItself)
<1> DEFINE p == activePartition
<1>1. /\ running \in Threads /\ running \notin idling /\ home[running][1] = p
      /\ p \in Partitions
      /\ \E i \in Slots : active_process = <<p, i>>
  BY CallerFacts DEF StopSelf
<1>2. /\ processes' = [processes EXCEPT
                         ![p][index_running_process[p]].PROCESS_STATE = "DORMANT"]
      /\ idling' = idling \cup {running}
      /\ UNCHANGED <<stackpointer, index_running_process, active_process, running>>
  BY DEF StopSelf
<1>3. processes \in [Partitions -> [Slots -> Status]]
  BY DEF PInv, TypeOK
<1>4. MainOf[p] \notin idling => running = MainOf[p]
  BY <1>1 DEF MainFirst, ThreadOf
<1> HIDE DEF p
<1>5. MainFirst'
  <2> SUFFICES ASSUME NEW q \in Partitions, MainOf[q] \notin idling'
               PROVE  /\ ReadyAt(q, 0)' /\ processes'[q][0].tickStamp = 0
                      /\ index_running_process'[q] = 0 /\ ThreadOf(q, 0)' = MainOf[q]
                      /\ \A i \in Slots : active_process' = <<q, i>> => i = 0
    BY DEF MainFirst
  <2>1. MainOf[q] \notin idling /\ q # p
    BY <1>2, <1>4
  <2>2. processes'[q] = processes[q]
    BY <1>2, <1>3, <2>1
  <2> QED BY <1>2, <2>1, <2>2 DEF MainFirst, ReadyAt, ThreadOf
<1>6. ASSUME IsMain(running) PROVE StopsItself
  <2>1. PICK q \in Partitions : running = MainOf[q]
    BY <1>6 DEF IsMain
  <2>2. home[running] = <<q, 0>>
    BY <2>1 DEF PInv, ThreadsNumbered
  <2>3. q = p /\ index_running_process[q] = 0
    BY <1>1, <2>1, <2>2 DEF MainFirst
  <2> QED BY <1>2, <2>2, <2>3 DEF StopsItself
<1> QED BY <1>5, <1>6

LEMMA MainFirstStep ==
  ASSUME RoomForOne, PInv, MainFirst, [Next]_vars
  PROVE  MainFirst'
<1>1. ASSUME NEW p \in Partitions, SysTick(p) PROVE MainFirst'
  BY <1>1, MainFirstSysTick
<1>2. ASSUME NEW attr, NEW prio, runtime_create_process(attr, prio) PROVE MainFirst'
  <2> SUFFICES ASSUME NEW q \in Partitions, MainOf[q] \notin idling'
               PROVE  /\ ReadyAt(q, 0)' /\ processes'[q][0].tickStamp = 0
                      /\ index_running_process'[q] = 0 /\ ThreadOf(q, 0)' = MainOf[q]
                      /\ \A i \in Slots : active_process' = <<q, i>> => i = 0
    BY DEF MainFirst
  <2>1. UNCHANGED <<index_running_process, active_process, running, idling>>
    BY <1>2 DEF runtime_create_process
  <2>2. ReadyAt(q, 0)
    BY <2>1 DEF MainFirst
  <2>3. processes'[q][0] = processes[q][0] /\ ThreadOf(q, 0)' = ThreadOf(q, 0)
    BY <1>2, <2>2, CreateLeavesReady, SlotFacts
  <2> QED BY <2>1, <2>2, <2>3 DEF MainFirst, ReadyAt
<1>3. CASE StopSelf
  BY <1>3, MainFirstStopSelf
<1>4. CASE UNCHANGED vars
  BY <1>4 DEF vars, MainFirst, ReadyAt, ThreadOf
<1> QED BY <1>1, <1>2, <1>3, <1>4 DEF Next, SystemCall, CreateProcess, CreateAgain

-----------------------------------------------------------------------------
(* Every variable keeps its type, the process table and the counters that  *)
(* index it (process.c:86-120, part_scheduler.c:97-148).                   *)
THEOREM ProcessesTypeTheorem ==
  ASSUME RoomForOne
  PROVE  Spec => []TypeOK
<1>1. PInv => TypeOK
  BY DEF PInv
<1> QED BY <1>1, ProcessesInvariant, PTL

(* A READY process goes on with the last thread created in its slot, and a *)
(* call is served for the caller's partition, however ticks, creations and *)
(* stops come to follow one another (part_scheduler.c:37-57).              *)
THEOREM ContextsAtHomeTheorem ==
  ASSUME RoomForOne
  PROVE  Spec => []ContextsAtHome
<1>1. PInv => ContextsAtHome
  <2> SUFFICES ASSUME PInv PROVE ContextsAtHome
    OBVIOUS
  <2>1. running \in Threads => home[running][1] = activePartition
    <3> SUFFICES ASSUME running \in Threads PROVE home[running][1] = activePartition
      OBVIOUS
    <3>1. running # 0
      BY DEF PInv, ThreadsNumbered
    <3>2. PICK q \in Partitions, i \in Slots : active_process = <<q, i>>
      BY <3>1 DEF PInv, AtHome, TypeOK
    <3> QED BY <3>2 DEF PInv, AtHome
  <2> QED BY <2>1, SavedIs DEF ContextsAtHome, PInv, Newest
<1> QED BY <1>1, ProcessesInvariant, PTL

(* The stacks of the live processes of one partition do not overlap,       *)
(* whatever sizes are asked for that do not wrap the offset (process.c:86- *)
(* 93).  Of two partitions, whose regions the model keeps apart, it says   *)
(* nothing: a main's first stack grows down out of its region.             *)
THEOREM StacksDisjointTheorem ==
  ASSUME RoomForOne
  PROVE  Spec => []StacksDisjoint
<1>1. PInv => StacksDisjoint
  BY DEF PInv
<1> QED BY <1>1, ProcessesInvariant, PTL

(* Every tick finds a READY process in every partition, whoever has        *)
(* stopped (part_scheduler.c:106).                                         *)
THEOREM AlwaysACandidateTheorem ==
  ASSUME RoomForOne
  PROVE  Spec => []AlwaysACandidate
<1>1. PInv => AlwaysACandidate
  BY DEF PInv, AlwaysACandidate
<1> QED BY <1>1, ProcessesInvariant, PTL

(* The process a tick goes to is READY, and none that is as urgent was     *)
(* created earlier (part_scheduler.c:108-131).                             *)
THEOREM ChosenIsNotDominatedTheorem ==
  ASSUME RoomForOne
  PROVE  Spec => ChosenIsNotDominated
<1> DEFINE Chosen(p) ==
             LET chosen == processes[p][active_process'[2]] IN
             /\ chosen.PROCESS_STATE = "READY"
             /\ \A j \in Ready(processes[p]) :
                  ~ /\ processes[p][j].CURRENT_PRIORITY >= chosen.CURRENT_PRIORITY
                    /\ processes[p][j].tickStamp < chosen.tickStamp
<1>1. PInv => \A p \in Partitions : SysTick(p) /\ ~undefined' => Chosen(p)
  <2> SUFFICES ASSUME PInv, NEW p \in Partitions, SysTick(p) PROVE Chosen(p)
    OBVIOUS
  <2>1. PICK c \in Slots : /\ ReadyAt(p, c) /\ active_process' = <<p, c>>
                           /\ \A j \in Ready(processes[p]) : ~Dominates(processes[p], j, c)
    BY TickFacts
  <2>2. active_process'[2] = c
    BY <2>1
  <2> QED BY <2>1, <2>2 DEF ReadyAt, Dominates
<1> HIDE DEF Chosen
<1>2. PInv => [\A p \in Partitions : SysTick(p) /\ ~undefined' => Chosen(p)]_vars
  BY <1>1
<1>3. Spec => [][\A p \in Partitions : SysTick(p) /\ ~undefined' => Chosen(p)]_vars
  BY <1>2, ProcessesInvariant, PTL
<1> QED BY <1>3 DEF ChosenIsNotDominated, Chosen

(* A main that calls STOP_SELF stops itself and no other, whatever it has  *)
(* created before (part_scheduler.c:97 and 142-148).                       *)
THEOREM MainsStopThemselvesTheorem ==
  ASSUME RoomForOne
  PROVE  Spec => MainsStopThemselves
<1>1. Init => MainFirst
  BY MainFirstStarts
<1>2. PInv /\ MainFirst /\ [Next]_vars => MainFirst'
  BY MainFirstStep
<1>3. Spec => []MainFirst
  BY <1>1, <1>2, ProcessesInvariant, PTL DEF Spec
<1>4. PInv /\ MainFirst => [StopSelf /\ IsMain(running) => StopsItself]_vars
  BY MainFirstStopSelf
<1> QED BY <1>3, <1>4, ProcessesInvariant, PTL DEF MainsStopThemselves
=============================================================================
