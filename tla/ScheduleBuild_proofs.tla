------------------------ MODULE ScheduleBuild_proofs ------------------------
(***************************************************************************)
(* Proofs about ScheduleBuild: for every orderly configuration, whatever   *)
(* its size and times, the table under construction is ordered, has no     *)
(* hole, and gives no configured time to the idle partition.               *)
(***************************************************************************)
EXTENDS ScheduleBuild, Integers, SequenceTheorems, FiniteSetTheorems, WellFoundedInduction, TLAPS

(* A nonempty set of naturals has the minimum Min chooses. *)
LEMMA MinOfNaturals ==
  ASSUME NEW S \in SUBSET Nat, S # {}
  PROVE  Min(S) \in S /\ \A y \in S : Min(S) <= y
<1> DEFINE I == {1..n : n \in S}
           R == StrictSubsetOrdering(Nat)
<1>1. I \subseteq FiniteSubsetsOf(Nat) /\ I # {}
  <2>1. \A n \in S : IsFiniteSet(1..n) /\ 1..n \subseteq Nat
    BY FS_Interval
  <2> QED BY <2>1 DEF FiniteSubsetsOf
<1>2. PICK X \in I : \A Y \in I : ~(<<Y, X>> \in R)
  <2> HIDE DEF I, R
  <2>1. IsWellFoundedOn(R, FiniteSubsetsOf(Nat))
    BY FS_StrictSubsetOrderingWellFounded DEF R
  <2> QED BY <1>1, <2>1, WFMin
<1>3. PICK x \in S : X = 1..x
  OBVIOUS
<1>4. ASSUME NEW y \in S, ~(x <= y) PROVE FALSE
  <2>1. 1..y \subseteq 1..x /\ 1..y # 1..x
    <3>1. x \in 1..x /\ x \notin 1..y
      BY <1>4
    <3> QED BY <1>4, <3>1
  <2>2. 1..y \in SUBSET Nat /\ 1..x \in SUBSET Nat
    OBVIOUS
  <2>3. <<1..y, 1..x>> \in R
    BY <2>1, <2>2 DEF StrictSubsetOrdering
  <2> QED BY <1>2, <1>3, <2>3
<1> QED BY <1>3, <1>4 DEF Min

OrderlyConfigurations == \A c \in Configurations : Orderly(c)

-----------------------------------------------------------------------------
(* The inductive invariant.                                                *)

(* The windows whose turn is over. *)
Placed == {i \in DOMAIN windows : windows[i].start < desiredStartTime}

(* The desired time falls inside no window. *)
Aligned ==
    \A i \in DOMAIN windows :
        \/ EndOf(windows[i]) <= desiredStartTime
        \/ desiredStartTime <= windows[i].start

(* A remembered later start is a window's, and idle time lies before it:   *)
(* it cannot be overtaken by the windows placed in between.                *)
NotStale ==
    \/ earliestNextStartTime = Sentinel
    \/ /\ \E i \in DOMAIN windows : windows[i].start = earliestNextStartTime
       /\ \E t \in desiredStartTime..(earliestNextStartTime - 1) :
            ~Covered(windows, t)

(* The loop's two counters differ by the windows still to be placed. *)
Counted == numGeneratedWindows + Len(windows)
             = numTotalWindows + Cardinality(Placed)

(* The table ends where the next entry is to start. *)
EndsAtDesired ==
    IF schedule = <<>> THEN desiredStartTime = 0
    ELSE EndOf(schedule[Len(schedule)]) = desiredStartTime

IInv ==
    /\ TypeOK
    /\ desiredStartTime <= MajorFrame
    /\ Aligned
    /\ NotStale
    /\ Counted
    /\ EndsAtDesired
    /\ Ordered
    /\ IdleIsFree

-----------------------------------------------------------------------------
(* Facts about the operators                                               *)

(* What is known of a configuration: its windows are well typed. *)
LEMMA ConfigurationType ==
  ASSUME windows \in Configurations
  PROVE  /\ windows \in Seq(Window) /\ Len(windows) \in Nat
         /\ DOMAIN windows = 1..Len(windows)
         /\ \A i \in DOMAIN windows : /\ windows[i].id \in Nat
                                      /\ windows[i].start \in Nat
                                      /\ windows[i].duration \in Nat
<1>1. windows \in Seq(Window)
  BY BuildAssumption
<1>2. Len(windows) \in Nat /\ DOMAIN windows = 1..Len(windows)
  BY <1>1, LenProperties
<1>3. \A i \in DOMAIN windows : windows[i] \in Window
  BY <1>1, <1>2, ElementOfSeq
<1> QED BY <1>1, <1>2, <1>3 DEF Window

(* The earliest later start: nothing seen is missed, and it was seen. *)
LEMMA EarliestAfterFacts ==
  ASSUME windows \in Configurations, earliestNextStartTime \in Nat,
         desiredStartTime \in Nat,
         NEW S \in SUBSET (DOMAIN windows)
  PROVE  /\ EarliestAfter(S) \in Nat
         /\ EarliestAfter(S) <= earliestNextStartTime
         /\ \A i \in S : windows[i].start > desiredStartTime =>
                EarliestAfter(S) <= windows[i].start
         /\ \/ EarliestAfter(S) = earliestNextStartTime
            \/ \E i \in S : /\ windows[i].start = EarliestAfter(S)
                            /\ windows[i].start > desiredStartTime
<1> DEFINE T == {earliestNextStartTime} \cup
        {t \in {windows[i].start : i \in S} : t > desiredStartTime}
<1>1. T \in SUBSET Nat /\ T # {}
  BY ConfigurationType
<1>2. Min(T) \in T /\ \A y \in T : Min(T) <= y
  BY <1>1, MinOfNaturals
<1>3. EarliestAfter(S) = Min(T)
  BY DEF EarliestAfter
<1> QED BY <1>1, <1>2, <1>3

(* The table stays ordered when an entry that lasts is appended where the  *)
(* table ends.                                                             *)
LEMMA AppendKeepsOrder ==
  ASSUME schedule \in Seq(ScheduleEntry), Ordered, EndsAtDesired,
         NEW e \in ScheduleEntry, e.start = desiredStartTime, e.duration > 0,
         schedule' = Append(schedule, e)
  PROVE  /\ schedule' \in Seq(ScheduleEntry)
         /\ Ordered'
         /\ schedule' # <<>>
         /\ schedule'[Len(schedule')] = e
         /\ DOMAIN schedule' = 1..(Len(schedule) + 1)
         /\ \A i \in DOMAIN schedule : schedule'[i] = schedule[i]
<1> DEFINE n == Len(schedule)
<1>1. n \in Nat /\ DOMAIN schedule = 1..n
  BY LenProperties
<1>2. /\ schedule' \in Seq(ScheduleEntry) /\ schedule' # <<>>
      /\ Len(schedule') = n + 1
      /\ \A i \in 1..n : schedule'[i] = schedule[i]
      /\ schedule'[n + 1] = e
  BY AppendProperties
<1>3. DOMAIN schedule' = 1..(n + 1)
  BY <1>1, <1>2, LenProperties
<1>4. schedule'[1].start = 0
  <2>1. CASE schedule = <<>>
    BY <2>1, <1>2 DEF EndsAtDesired
  <2>2. CASE schedule # <<>>
    BY <2>2, <1>1, <1>2, EmptySeq DEF Ordered
  <2> QED BY <2>1, <2>2
<1>5. \A i \in 1..(n + 1) : schedule'[i].duration > 0
  BY <1>1, <1>2 DEF Ordered
<1>6. \A i \in 1..n : schedule'[i + 1].start = EndOf(schedule'[i])
  <2> SUFFICES ASSUME NEW i \in 1..n
               PROVE  schedule'[i + 1].start = EndOf(schedule'[i])
    OBVIOUS
  <2>1. CASE i < n
    BY <2>1, <1>1, <1>2 DEF Ordered, EndOf
  <2>2. CASE i = n
    <3>1. schedule # <<>>
      BY <2>2, <1>1, EmptySeq
    <3>2. schedule'[i + 1].start = desiredStartTime
      BY <2>2, <1>2
    <3>3. EndOf(schedule[n]) = desiredStartTime
      BY <3>1 DEF EndsAtDesired
    <3>4. schedule'[i] = schedule[n]
      BY <2>2, <1>2
    <3> QED BY <3>2, <3>3, <3>4 DEF EndOf
  <2> HIDE DEF n
  <2>3. i < n \/ i = n
    BY <1>1
  <2> QED BY <2>1, <2>2, <2>3
<1>7. Ordered'
  BY <1>1, <1>2, <1>3, <1>4, <1>5, <1>6 DEF Ordered, EndOf
<1> QED BY <1>1, <1>2, <1>3, <1>7

(* The table stays free of stolen time when the new entry is a window or   *)
(* an idle stretch that no window covers.                                  *)
LEMMA AppendKeepsIdleFree ==
  ASSUME schedule \in Seq(ScheduleEntry), IdleIsFree, UNCHANGED windows,
         NEW e,
         \/ \E k \in DOMAIN windows : e = WindowEntry(windows[k])
         \/ /\ e.partition = IdlePartition
            /\ \A t \in e.start..(EndOf(e) - 1) : ~Covered(windows, t),
         DOMAIN schedule' = 1..(Len(schedule) + 1),
         schedule'[Len(schedule')] = e,
         schedule' \in Seq(ScheduleEntry),
         \A i \in DOMAIN schedule : schedule'[i] = schedule[i]
  PROVE  IdleIsFree'
<1>1. Len(schedule) \in Nat /\ DOMAIN schedule = 1..Len(schedule)
  BY LenProperties
<1>2. Len(schedule') = Len(schedule) + 1
  BY <1>1, LenProperties
<1>3. \A i \in DOMAIN schedule' : i \in DOMAIN schedule \/ schedule'[i] = e
  BY <1>1, <1>2
<1> QED BY <1>3 DEF IdleIsFree

(* What an orderly configuration says of its windows, in one place. *)
LEMMA OrderlyFacts ==
  ASSUME OrderlyConfigurations, windows \in Configurations
  PROVE  /\ \A i \in DOMAIN windows :
              /\ windows[i].duration > 0
              /\ windows[i].start + windows[i].duration <= MajorFrame
         /\ \A i, j \in DOMAIN windows : i # j =>
              \/ windows[i].start + windows[i].duration <= windows[j].start
              \/ windows[j].start + windows[j].duration <= windows[i].start
         /\ \A i, j \in DOMAIN windows :
              i < j /\ windows[i].start > windows[j].start =>
                \E t \in EndOf(windows[j])..(windows[i].start - 1) :
                  ~Covered(windows, t)
  BY DEF OrderlyConfigurations, Orderly, WellFormed, EndOf

(* The placed windows are finitely many. *)
LEMMA PlacedFinite ==
  ASSUME windows \in Configurations
  PROVE  /\ IsFiniteSet(DOMAIN windows)
         /\ Cardinality(DOMAIN windows) = Len(windows)
         /\ IsFiniteSet(Placed)
         /\ Cardinality(Placed) \in Nat
<1>1. Len(windows) \in Nat /\ DOMAIN windows = 1..Len(windows)
  BY ConfigurationType
<1>2. IsFiniteSet(DOMAIN windows) /\ Cardinality(DOMAIN windows) = Len(windows)
  <2> DEFINE n == Len(windows)
  <2> HIDE DEF n
  <2>1. n \in Nat /\ DOMAIN windows = 1..n
    BY <1>1 DEF n
  <2>2. IsFiniteSet(1..n) /\ Cardinality(1..n) = IF 1 > n THEN 0 ELSE n - 1 + 1
    BY <2>1, FS_Interval
  <2>3. Cardinality(1..n) = n
    BY <2>1, <2>2
  <2> QED BY <2>1, <2>2, <2>3 DEF n
<1>3. Placed \in SUBSET (DOMAIN windows)
  BY DEF Placed
<1>4. IsFiniteSet(Placed)
  BY <1>2, <1>3, FS_Subset
<1> QED BY <1>2, <1>4, FS_CardinalityType

-----------------------------------------------------------------------------
(* The invariant holds at first and is kept by every step.                 *)

LEMMA InitIInv ==
  ASSUME OrderlyConfigurations, Init
  PROVE  IInv
<1>1. windows \in Configurations
  BY DEF Init
<1>2. Len(windows) \in Nat /\ \A i \in DOMAIN windows : windows[i].start \in Nat
  BY <1>1, ConfigurationType
<1>3. {MaxNumWindows, Sentinel, MajorFrame, Word} \subseteq Nat /\ Sentinel < Word
  BY BuildAssumption
<1>4. schedule \in Seq(ScheduleEntry) /\ Len(schedule) = 0 /\ DOMAIN schedule = {}
  <2>1. schedule = <<>>
    BY DEF Init
  <2> QED BY <2>1, EmptySeq
<1>5. TypeOK
  BY <1>1, <1>2, <1>3, <1>4 DEF TypeOK, Init
<1>6. Placed = {}
  BY <1>2 DEF Placed, Init
<1>7. Counted
  BY <1>2, <1>6, FS_EmptySet DEF Counted, Init
<1>8. Aligned
  BY <1>2 DEF Aligned, Init
<1>9. EndsAtDesired /\ NotStale /\ desiredStartTime <= MajorFrame
  BY <1>3 DEF EndsAtDesired, NotStale, Init
<1>10. Ordered
  BY <1>4 DEF Ordered
<1>11. IdleIsFree
  BY <1>4 DEF IdleIsFree
<1> QED BY <1>5, <1>7, <1>8, <1>9, <1>10, <1>11 DEF IInv

(* A configured window is placed: where its entry ends, the next begins.   *)
LEMMA PlaceWindowEntry ==
  ASSUME OrderlyConfigurations, IInv,
         NEW k \in DOMAIN windows, PlaceWindow(k)
  PROVE  /\ windows' = windows
         /\ windows[k].start = desiredStartTime
         /\ desiredStartTime' = desiredStartTime + windows[k].duration
         /\ desiredStartTime' = EndOf(windows[k])
         /\ schedule' = Append(schedule, WindowEntry(windows[k]))
         /\ Placed' = Placed \cup {k}
<1> DEFINE w == windows[k]
<1>1. /\ windows \in Configurations /\ windows' = windows
      /\ desiredStartTime \in Nat
  BY BuildAssumption DEF IInv, TypeOK, PlaceWindow
<1>2. /\ MajorFrame \in Nat /\ Sentinel \in Nat /\ Word \in Nat
      /\ MajorFrame <= Sentinel /\ Sentinel < Word
  BY BuildAssumption
<1>3. /\ w.start = desiredStartTime
      /\ w.duration \in Nat /\ w.duration > 0
      /\ desiredStartTime + w.duration <= MajorFrame
  BY <1>1, ConfigurationType, OrderlyFacts DEF PlaceWindow, Matches
<1>4. \A i \in DOMAIN windows : /\ windows[i].start \in Nat
                                /\ windows[i].duration \in Nat
                                /\ windows[i].duration > 0
  BY <1>1, ConfigurationType, OrderlyFacts
<1>5. desiredStartTime' = desiredStartTime + w.duration
  <2>1. desiredStartTime' = (desiredStartTime + w.duration) % Word
    BY DEF PlaceWindow
  <2>2. desiredStartTime + w.duration \in 0..(Word - 1)
    BY <1>1, <1>2, <1>3
  <2>3. \A a \in 0..(Word - 1) : a % Word = a
    BY <1>2
  <2> QED BY <2>1, <2>2, <2>3
<1>6. Placed' = Placed \cup {k}
  <2>1. ASSUME NEW i \in DOMAIN windows
        PROVE  windows[i].start < desiredStartTime'
                 <=> windows[i].start < desiredStartTime \/ i = k
    <3>1. CASE i = k
      BY <3>1, <1>1, <1>3, <1>5
    <3>2. CASE i # k
      <4>1. \/ windows[i].start + windows[i].duration <= w.start
            \/ w.start + w.duration <= windows[i].start
        BY <3>2, <2>1, <1>1, OrderlyFacts
      <4> QED BY <4>1, <3>2, <2>1, <1>1, <1>3, <1>4, <1>5
    <3> QED BY <3>1, <3>2
  <2>2. Placed' = {i \in DOMAIN windows : windows[i].start < desiredStartTime'}
    BY <1>1 DEF Placed
  <2> QED BY <2>1, <2>2 DEF Placed
<1>7. schedule' = Append(schedule, WindowEntry(w))
  BY DEF PlaceWindow, WindowEntry
<1> QED BY <1>1, <1>3, <1>5, <1>6, <1>7 DEF EndOf

LEMMA PlaceWindowIInv ==
  ASSUME OrderlyConfigurations, IInv,
         NEW k \in DOMAIN windows, PlaceWindow(k)
  PROVE  IInv'
<1> DEFINE w == windows[k]
           e == WindowEntry(w)
<1>1. /\ windows \in Configurations /\ windows' = windows
      /\ schedule \in Seq(ScheduleEntry)
      /\ desiredStartTime \in Nat /\ earliestNextStartTime \in Nat
      /\ numTotalWindows \in Nat /\ numGeneratedWindows \in Nat
      /\ earliestNextStartTime <= Sentinel
  BY BuildAssumption DEF IInv, TypeOK, PlaceWindow
<1>2. /\ MajorFrame \in Nat /\ Sentinel \in Nat /\ Word \in Nat
      /\ MajorFrame <= Sentinel /\ Sentinel < Word
  BY BuildAssumption
<1>3. /\ w.start = desiredStartTime
      /\ w.id \in Nat /\ w.duration \in Nat /\ w.duration > 0
      /\ desiredStartTime + w.duration <= MajorFrame
  BY <1>1, ConfigurationType, OrderlyFacts DEF PlaceWindow, Matches
<1>4. \A i \in DOMAIN windows : /\ windows[i].start \in Nat
                                /\ windows[i].duration \in Nat
                                /\ windows[i].duration > 0
  BY <1>1, ConfigurationType, OrderlyFacts
<1>5. desiredStartTime' = desiredStartTime + w.duration
  BY PlaceWindowEntry
<1>6. /\ e \in ScheduleEntry /\ e.start = desiredStartTime
      /\ e.duration = w.duration
      /\ schedule' = Append(schedule, e)
  BY <1>1, <1>2, <1>3
  DEF WindowEntry, Entry, ScheduleEntry, PartitionOf, PlaceWindow
<1>7. /\ schedule' \in Seq(ScheduleEntry) /\ Ordered' /\ schedule' # <<>>
      /\ schedule'[Len(schedule')] = e
      /\ DOMAIN schedule' = 1..(Len(schedule) + 1)
      /\ \A i \in DOMAIN schedule : schedule'[i] = schedule[i]
  <2> HIDE DEF e
  <2> QED BY <1>1, <1>3, <1>6, AppendKeepsOrder DEF IInv
<1>8. IdleIsFree'
  <2> HIDE DEF e
  <2>1. \E i \in DOMAIN windows : e = WindowEntry(windows[i])
    BY DEF e
  <2> QED BY <1>1, <1>7, <2>1, AppendKeepsIdleFree DEF IInv
<1>9. EndsAtDesired'
  BY <1>3, <1>5, <1>6, <1>7 DEF EndsAtDesired, EndOf
<1>10. Aligned'
  <2> SUFFICES ASSUME NEW i \in DOMAIN windows
               PROVE  \/ windows[i].start + windows[i].duration
                           <= desiredStartTime'
                      \/ desiredStartTime' <= windows[i].start
    BY <1>1 DEF Aligned, EndOf
  <2>1. CASE i = k
    BY <2>1, <1>1, <1>3, <1>5
  <2>2. CASE i # k
    BY <2>2, <1>1, <1>3, <1>4, <1>5, OrderlyFacts
  <2> QED BY <2>1, <2>2
<1>11. /\ 1..(k - 1) \in SUBSET (DOMAIN windows)
       /\ \A i \in 1..(k - 1) : i < k
  BY <1>1, ConfigurationType
<1>12. /\ earliestNextStartTime' = EarliestAfter(1..(k - 1))
       /\ earliestNextStartTime' \in Nat
       /\ earliestNextStartTime' <= earliestNextStartTime
       /\ \/ earliestNextStartTime' = earliestNextStartTime
          \/ \E i \in 1..(k - 1) :
                /\ windows[i].start = earliestNextStartTime'
                /\ windows[i].start > desiredStartTime
  BY <1>1, <1>11, EarliestAfterFacts DEF PlaceWindow
<1>13. NotStale'
  <2>1. CASE /\ earliestNextStartTime' = earliestNextStartTime
             /\ earliestNextStartTime # Sentinel
    <3>1. PICK t \in desiredStartTime..(earliestNextStartTime - 1) :
                 ~Covered(windows, t)
      BY <2>1 DEF IInv, NotStale
    <3>2. ~(w.start <= t /\ t < w.start + w.duration)
      BY <3>1 DEF Covered, EndOf
    <3>3. t \in desiredStartTime'..(earliestNextStartTime' - 1)
      BY <2>1, <3>1, <3>2, <1>1, <1>3, <1>5
    <3> QED BY <2>1, <3>1, <3>3, <1>1 DEF IInv, NotStale, Covered
  <2>2. CASE \E i \in 1..(k - 1) :
                /\ windows[i].start = earliestNextStartTime'
                /\ windows[i].start > desiredStartTime
    <3>1. PICK i \in 1..(k - 1) :
                /\ windows[i].start = earliestNextStartTime'
                /\ windows[i].start > desiredStartTime
      BY <2>2
    <3>2. i \in DOMAIN windows /\ i < k
      BY <1>11
    <3>3. PICK t \in EndOf(w)..(windows[i].start - 1) : ~Covered(windows, t)
      BY <3>1, <3>2, <1>1, <1>3, OrderlyFacts
    <3>4. EndOf(w) = desiredStartTime'
      BY <1>3, <1>5 DEF EndOf
    <3> QED BY <3>1, <3>2, <3>3, <3>4, <1>1 DEF NotStale, Covered
  <2> QED BY <2>1, <2>2, <1>12 DEF NotStale
<1>14. Counted'
  <2>1. Placed' = Placed \cup {k}
    BY PlaceWindowEntry
  <2>2. k \notin Placed
    BY <1>1, <1>3 DEF Placed
  <2>3. Cardinality(Placed \cup {k}) = Cardinality(Placed) + 1
    BY <2>2, <1>1, PlacedFinite, FS_AddElement
  <2>4. /\ numGeneratedWindows' = numGeneratedWindows + 1
        /\ numTotalWindows' = numTotalWindows
    BY DEF PlaceWindow, EndRound
  <2>5. Len(windows) \in Nat /\ Cardinality(Placed) \in Nat
    BY <1>1, ConfigurationType, PlacedFinite
  <2>6. numGeneratedWindows + 1 + Len(windows)
          = numTotalWindows + 1 + Cardinality(Placed)
    BY <2>5, <1>1 DEF IInv, Counted
  <2>7. Cardinality(Placed') = Cardinality(Placed) + 1
    BY <2>1, <2>3
  <2>8. numTotalWindows + 1 + Cardinality(Placed)
          = numTotalWindows + Cardinality(Placed')
    BY <2>5, <2>7, <1>1
  <2> QED BY <2>4, <2>6, <2>8, <1>1 DEF Counted
<1>15. TypeOK'
  <2>1. numGeneratedWindows' \in Nat /\ numTotalWindows' \in Nat
    BY <1>1 DEF PlaceWindow, EndRound
  <2>2. pc' \in {"build", "built", "panic"}
    BY DEF PlaceWindow, EndRound
  <2>3. desiredStartTime' \in 0..(Word - 1)
    BY <1>1, <1>2, <1>3, <1>5
  <2> QED BY <2>1, <2>2, <2>3, <1>1, <1>2, <1>7, <1>12 DEF TypeOK, ScheduleEntry
<1>16. desiredStartTime' <= MajorFrame
  BY <1>3, <1>5
<1> QED BY <1>7, <1>8, <1>9, <1>10, <1>13, <1>14, <1>15, <1>16 DEF IInv

(* The guard of the loop leaves a window to place when PlaceIdle is taken, *)
(* and the earliest start remembered is the start of the next one.         *)
LEMMA NextStart ==
  ASSUME OrderlyConfigurations, IInv,
         numGeneratedWindows < numTotalWindows,
         \A k \in DOMAIN windows : windows[k].start # desiredStartTime,
         NEW next, next = EarliestAfter(DOMAIN windows)
  PROVE  /\ next \in Nat /\ desiredStartTime < next /\ next <= MajorFrame
         /\ \A i \in DOMAIN windows :
              windows[i].start > desiredStartTime => next <= windows[i].start
         /\ \E i \in DOMAIN windows : windows[i].start = next
<1>1. /\ windows \in Configurations /\ desiredStartTime \in Nat
      /\ earliestNextStartTime \in Nat
      /\ numTotalWindows \in Nat /\ numGeneratedWindows \in Nat
      /\ MajorFrame \in Nat /\ Sentinel \in Nat /\ MajorFrame <= Sentinel
  BY BuildAssumption DEF IInv, TypeOK
<1>2. \A i \in DOMAIN windows :
         /\ windows[i].start \in Nat /\ windows[i].duration \in Nat
         /\ windows[i].duration > 0
         /\ windows[i].start + windows[i].duration <= MajorFrame
  BY <1>1, ConfigurationType, OrderlyFacts
<1>3. PICK j \in DOMAIN windows : windows[j].start > desiredStartTime
  <2>1. numGeneratedWindows + Len(windows)
          = numTotalWindows + Cardinality(Placed)
    BY DEF IInv, Counted
  <2>2. Len(windows) \in Nat /\ Cardinality(Placed) \in Nat
    BY <1>1, ConfigurationType, PlacedFinite
  <2>3. Cardinality(Placed) # Len(windows)
    BY <2>1, <2>2, <1>1
  <2>4. Placed # DOMAIN windows
    BY <2>3, <1>1, PlacedFinite
  <2>5. PICK j \in DOMAIN windows : ~(windows[j].start < desiredStartTime)
    BY <2>4 DEF Placed
  <2> QED BY <2>5, <1>1, <1>2
<1>4. /\ next \in Nat /\ next <= earliestNextStartTime
      /\ \A i \in DOMAIN windows :
           windows[i].start > desiredStartTime => next <= windows[i].start
      /\ \/ next = earliestNextStartTime
         \/ \E i \in DOMAIN windows : /\ windows[i].start = next
                                       /\ windows[i].start > desiredStartTime
  BY <1>1, EarliestAfterFacts
<1>5. next <= windows[j].start
  BY <1>3, <1>4
<1>6. next < MajorFrame
  BY <1>1, <1>2, <1>3, <1>4, <1>5
<1>7. desiredStartTime < next
  <2>1. CASE next = earliestNextStartTime
    <3>1. earliestNextStartTime # Sentinel
      BY <2>1, <1>1, <1>6
    <3>2. \E t \in desiredStartTime..(earliestNextStartTime - 1) : TRUE
      BY <3>1 DEF IInv, NotStale
    <3> QED BY <2>1, <3>2, <1>1
  <2>2. CASE \E i \in DOMAIN windows : /\ windows[i].start = next
                                       /\ windows[i].start > desiredStartTime
    BY <2>2
  <2> QED BY <2>1, <2>2, <1>4
<1>8. \E i \in DOMAIN windows : windows[i].start = next
  <2>1. CASE next = earliestNextStartTime
    <3>1. earliestNextStartTime # Sentinel
      BY <2>1, <1>1, <1>6
    <3> QED BY <2>1, <3>1 DEF IInv, NotStale
  <2> QED BY <2>1, <1>4
<1> QED BY <1>1, <1>4, <1>6, <1>7, <1>8

(* An idle window fills the time up to the next start, which no window has. *)
LEMMA PlaceIdleEntry ==
  ASSUME OrderlyConfigurations, IInv, PlaceIdle,
         NEW next, next = EarliestAfter(DOMAIN windows)
  PROVE  /\ windows' = windows /\ desiredStartTime' = next
         /\ schedule' = Append(schedule, Entry(IdlePartition, desiredStartTime,
                                               next - desiredStartTime))
         /\ \A t \in desiredStartTime..(next - 1) : ~Covered(windows, t)
         /\ Placed' = Placed
<1>1. /\ windows \in Configurations /\ windows' = windows
      /\ desiredStartTime \in Nat
  BY BuildAssumption DEF IInv, TypeOK, PlaceIdle
<1>2. /\ MajorFrame \in Nat /\ Sentinel \in Nat /\ Word \in Nat
      /\ MajorFrame <= Sentinel /\ Sentinel < Word
  BY BuildAssumption
<1>3. /\ next \in Nat /\ desiredStartTime < next /\ next <= MajorFrame
      /\ \A i \in DOMAIN windows :
           windows[i].start > desiredStartTime => next <= windows[i].start
  BY NextStart DEF PlaceIdle
<1>4. \A i \in DOMAIN windows : /\ windows[i].start \in Nat
                                /\ windows[i].duration \in Nat
                                /\ windows[i].start # desiredStartTime
  BY <1>1, ConfigurationType DEF PlaceIdle
<1>5. desiredStartTime' = next
  BY DEF PlaceIdle
<1>6. schedule' = Append(schedule, Entry(IdlePartition, desiredStartTime,
                                         next - desiredStartTime))
  <2>1. (Word + next - desiredStartTime) % Word = next - desiredStartTime
    <3>1. \A d \in 0..(Word - 1) : (Word + d) % Word = d
      BY <1>2
    <3>2. next - desiredStartTime \in 0..(Word - 1)
      BY <1>1, <1>2, <1>3
    <3>3. Word + next - desiredStartTime = Word + (next - desiredStartTime)
      BY <1>1, <1>2, <1>3
    <3> QED BY <3>1, <3>2, <3>3
  <2> QED BY <2>1 DEF PlaceIdle
<1>7. \A t \in desiredStartTime..(next - 1) : ~Covered(windows, t)
  <2> SUFFICES ASSUME NEW t \in desiredStartTime..(next - 1),
                      NEW i \in DOMAIN windows,
                      windows[i].start <= t, t < EndOf(windows[i])
               PROVE  FALSE
    BY DEF Covered
  <2>1. t \in Nat /\ desiredStartTime <= t /\ t < next
    BY <1>1, <1>3
  <2>2. desiredStartTime <= windows[i].start
    BY <2>1, <1>1, <1>4 DEF IInv, Aligned, EndOf
  <2> QED BY <2>1, <2>2, <1>1, <1>3, <1>4
<1>8. Placed' = Placed
  <2>1. \A i \in DOMAIN windows :
          windows[i].start < next <=> windows[i].start < desiredStartTime
    BY <1>1, <1>3, <1>4
  <2> QED BY <2>1, <1>1, <1>5 DEF Placed
<1> QED BY <1>1, <1>5, <1>6, <1>7, <1>8

LEMMA PlaceIdleIInv ==
  ASSUME OrderlyConfigurations, IInv, PlaceIdle
  PROVE  IInv'
<1> DEFINE next == EarliestAfter(DOMAIN windows)
           e == Entry(IdlePartition, desiredStartTime, next - desiredStartTime)
<1>1. /\ windows \in Configurations /\ windows' = windows
      /\ schedule \in Seq(ScheduleEntry)
      /\ desiredStartTime \in Nat
      /\ numTotalWindows \in Nat /\ numGeneratedWindows \in Nat
  BY BuildAssumption DEF IInv, TypeOK, PlaceIdle
<1>2. /\ MajorFrame \in Nat /\ Sentinel \in Nat /\ Word \in Nat
      /\ MajorFrame <= Sentinel /\ Sentinel < Word
  BY BuildAssumption
<1>3. /\ next \in Nat /\ desiredStartTime < next /\ next <= MajorFrame
      /\ \A i \in DOMAIN windows :
           windows[i].start > desiredStartTime => next <= windows[i].start
  BY NextStart DEF PlaceIdle
<1>4. \A i \in DOMAIN windows : /\ windows[i].start \in Nat
                                /\ windows[i].duration \in Nat
                                /\ windows[i].start # desiredStartTime
  BY <1>1, ConfigurationType DEF PlaceIdle
<1>5. /\ desiredStartTime' = next
      /\ earliestNextStartTime' = Sentinel
      /\ numTotalWindows' = numTotalWindows + 1
      /\ numGeneratedWindows' = numGeneratedWindows + 1
      /\ pc' \in {"build", "built", "panic"}
  BY DEF PlaceIdle, EndRound
<1>6. schedule' = Append(schedule, e)
  BY PlaceIdleEntry
<1> HIDE DEF next
<1>7. /\ e \in ScheduleEntry /\ e.start = desiredStartTime
      /\ e.duration > 0 /\ EndOf(e) = next /\ e.partition = IdlePartition
  BY <1>1, <1>2, <1>3 DEF Entry, ScheduleEntry, EndOf
<1> HIDE DEF e
<1>8. /\ schedule' \in Seq(ScheduleEntry) /\ Ordered' /\ schedule' # <<>>
      /\ schedule'[Len(schedule')] = e
      /\ DOMAIN schedule' = 1..(Len(schedule) + 1)
      /\ \A i \in DOMAIN schedule : schedule'[i] = schedule[i]
  BY <1>1, <1>6, <1>7, AppendKeepsOrder DEF IInv
<1>9. \A t \in e.start..(EndOf(e) - 1) : ~Covered(windows, t)
  BY <1>7, PlaceIdleEntry DEF next
<1>10. IdleIsFree'
  BY <1>1, <1>7, <1>8, <1>9, AppendKeepsIdleFree DEF IInv
<1>11. EndsAtDesired'
  BY <1>5, <1>7, <1>8 DEF EndsAtDesired, EndOf
<1>12. Aligned'
  <2> SUFFICES ASSUME NEW i \in DOMAIN windows
               PROVE  \/ windows[i].start + windows[i].duration <= next
                      \/ next <= windows[i].start
    BY <1>1, <1>5 DEF Aligned, EndOf
  <2> QED BY <1>1, <1>3, <1>4 DEF IInv, Aligned, EndOf
<1>13. NotStale'
  BY <1>5 DEF NotStale
<1>14. Counted'
  <2>1. Placed' = Placed
    BY PlaceIdleEntry
  <2>2. Len(windows) \in Nat /\ Cardinality(Placed) \in Nat
    BY <1>1, ConfigurationType, PlacedFinite
  <2>3. numGeneratedWindows + 1 + Len(windows)
          = numTotalWindows + 1 + Cardinality(Placed)
    BY <2>2, <1>1 DEF IInv, Counted
  <2> QED BY <2>1, <2>3, <1>1, <1>5 DEF Counted
<1>15. TypeOK'
  <2>1. desiredStartTime' \in 0..(Word - 1)
    BY <1>2, <1>3, <1>5
  <2> QED BY <2>1, <1>1, <1>2, <1>5, <1>8 DEF TypeOK, ScheduleEntry
<1> QED BY <1>3, <1>5, <1>8, <1>10, <1>11, <1>12, <1>13, <1>14, <1>15 DEF IInv

LEMMA NextIInv ==
  ASSUME OrderlyConfigurations, IInv, [Next]_vars
  PROVE  IInv'
<1>1. ASSUME NEW k \in DOMAIN windows, PlaceWindow(k)
      PROVE  IInv'
  BY <1>1, PlaceWindowIInv
<1>2. CASE PlaceIdle
  BY <1>2, PlaceIdleIInv
<1>3. CASE Finish
  BY <1>3
  DEF Finish, IInv, TypeOK, Aligned, NotStale, Counted, Placed,
      EndsAtDesired, Ordered, IdleIsFree, Covered
<1>4. CASE UNCHANGED vars
  BY <1>4
  DEF vars, IInv, TypeOK, Aligned, NotStale, Counted, Placed,
      EndsAtDesired, Ordered, IdleIsFree, Covered
<1> QED BY <1>1, <1>2, <1>3, <1>4 DEF Next

LEMMA Invariance ==
  ASSUME OrderlyConfigurations
  PROVE  Spec => []IInv
<1>1. Init => IInv
  BY InitIInv
<1>2. IInv /\ [Next]_vars => IInv'
  BY NextIInv
<1> QED BY <1>1, <1>2, PTL DEF Spec

-----------------------------------------------------------------------------

(* For every orderly configuration the table under construction is an      *)
(* ordered list of windows without holes, at every round of the loop in    *)
(* scheduler_buildSchedule (part_scheduler.c:181-254).                     *)
THEOREM OrderedTheorem ==
  ASSUME OrderlyConfigurations
  PROVE  Spec => []Ordered
<1>1. IInv => Ordered
  BY DEF IInv
<1> QED BY <1>1, Invariance, PTL

(* For every orderly configuration no idle window takes time from a        *)
(* configured one, and every other entry is a configured window.           *)
THEOREM IdleIsFreeTheorem ==
  ASSUME OrderlyConfigurations
  PROVE  Spec => []IdleIsFree
<1>1. IInv => IdleIsFree
  BY DEF IInv
<1> QED BY <1>1, Invariance, PTL

(* Types are kept, and no time of the table wraps around its machine word. *)
THEOREM TypeTheorem ==
  ASSUME OrderlyConfigurations
  PROVE  Spec => []TypeOK
<1>1. IInv => TypeOK
  BY DEF IInv
<1> QED BY <1>1, Invariance, PTL

-----------------------------------------------------------------------------
(* The finished table.                                                     *)

(* The loop has ended because all windows have their entry. *)
BuiltWhenDone == pc = "built" => numGeneratedWindows >= numTotalWindows

LEMMA BuiltWhenDoneHolds == Spec => []BuiltWhenDone
<1>1. Init => BuiltWhenDone
  BY DEF Init, BuiltWhenDone
<1>2. BuiltWhenDone /\ [Next]_vars => BuiltWhenDone'
  BY DEF BuiltWhenDone, Next, PlaceWindow, PlaceIdle, EndRound, Finish, vars
<1> QED BY <1>1, <1>2, PTL DEF Spec

FillsFrame == \E k \in DOMAIN windows : EndOf(windows[k]) = MajorFrame

(* When the loop has ended, every window has been placed. *)
LEMMA AllPlaced ==
  ASSUME IInv, BuiltWhenDone, pc = "built"
  PROVE  Placed = DOMAIN windows
<1>1. windows \in Configurations
  BY DEF IInv, TypeOK
<1>2. Len(windows) \in Nat
  BY <1>1, ConfigurationType
<1> QED
  <2>1. /\ IsFiniteSet(DOMAIN windows) /\ Cardinality(DOMAIN windows) = Len(windows)
        /\ Cardinality(Placed) \in Nat
    BY <1>1, PlacedFinite
  <2>2. /\ numGeneratedWindows >= numTotalWindows
        /\ numGeneratedWindows \in Nat /\ numTotalWindows \in Nat
        /\ numGeneratedWindows + Len(windows) = numTotalWindows + Cardinality(Placed)
    BY DEF BuiltWhenDone, IInv, Counted, TypeOK
  <2>3. Cardinality(Placed) >= Len(windows)
    BY <1>2, <2>1, <2>2
  <2>4. Placed \in SUBSET (DOMAIN windows)
    BY DEF Placed
  <2>5. /\ Cardinality(Placed) <= Cardinality(DOMAIN windows)
        /\ Cardinality(Placed) = Cardinality(DOMAIN windows) => Placed = DOMAIN windows
    BY <2>1, <2>4, FS_Subset
  <2>6. Cardinality(Placed) = Cardinality(DOMAIN windows)
    BY <1>2, <2>1, <2>3, <2>5
  <2> QED BY <2>5, <2>6

(* Every window has been placed, so the desired time is the frame's end. *)
LEMMA BuiltReachesEnd ==
  ASSUME OrderlyConfigurations, IInv, BuiltWhenDone, pc = "built", FillsFrame
  PROVE  /\ MajorFrame \in Nat \ {0} /\ Len(schedule) > 0
         /\ EndOf(schedule[Len(schedule)]) = MajorFrame
<1>1. windows \in Configurations /\ desiredStartTime \in Nat
  BY BuildAssumption DEF IInv, TypeOK
<1>2. /\ Len(windows) \in Nat
      /\ \A i \in DOMAIN windows : windows[i].start \in Nat /\ windows[i].duration \in Nat
  BY <1>1, ConfigurationType
<1>3. Placed = DOMAIN windows
  BY AllPlaced
<1>4. PICK k \in DOMAIN windows : EndOf(windows[k]) = MajorFrame
  BY DEF FillsFrame
<1>5. windows[k].duration > 0
  BY <1>1 DEF OrderlyConfigurations, Orderly, WellFormed
<1>6. windows[k].start < desiredStartTime
  BY <1>3 DEF Placed
<1>7. EndOf(windows[k]) <= desiredStartTime
  BY <1>1, <1>2, <1>6 DEF IInv, Aligned
<1>8. MajorFrame \in Nat \ {0} /\ desiredStartTime = MajorFrame
  BY <1>1, <1>2, <1>4, <1>5, <1>7, BuildAssumption DEF IInv, EndOf
<1>9. schedule # <<>> /\ EndOf(schedule[Len(schedule)]) = desiredStartTime
  BY <1>8 DEF IInv, EndsAtDesired
<1>10. Len(schedule) > 0
  <2>1. schedule \in Seq(ScheduleEntry)
    BY DEF IInv, TypeOK
  <2> QED BY <1>9, <2>1, EmptySeq, LenProperties
<1> QED BY <1>8, <1>9, <1>10

(* When the frame ends with a window, the finished table reaches its end   *)
(* (part_scheduler.c:166-168), whatever windows there are.                 *)
THEOREM CoversFrameTheorem ==
  ASSUME OrderlyConfigurations
  PROVE  Spec => []CoversFrame
<1>1. IInv /\ BuiltWhenDone => CoversFrame
  BY BuiltReachesEnd DEF CoversFrame, FillsFrame
<1> QED BY <1>1, Invariance, BuiltWhenDoneHolds, PTL

(* The partition scheduler, for what it asks of a table. *)
Dispatch == INSTANCE PartitionDispatch
              WITH Schedules <- {}, TickWord <- Word, uwTick <- 0,
                   activeWindowIndex <- 0, majorFrameStopMillis <- 0, lost <- FALSE

(* Every partition that the configurations name is one the kernel has. *)
KnownPartitions ==
    \A c \in Configurations : \A i \in DOMAIN c : c[i].id \in PartitionIds

(* In an ordered table each entry starts where the ones before have ended. *)
LEMMA OrderedEntries ==
  ASSUME NEW n \in Nat, NEW start, NEW end,
         \A i \in 1..n : start[i] \in Nat /\ end[i] \in Nat /\ start[i] < end[i],
         \A i \in 1..(n - 1) : start[i + 1] = end[i]
  PROVE  /\ \A i, j \in 1..n : i < j => end[i] <= start[j]
         /\ \A i \in 1..n : end[i] <= end[n]
<1> DEFINE Bad == {j \in 1..n : \E i \in 1..n : i < j /\ ~(end[i] <= start[j])}
<1>1. Bad = {}
  <2> SUFFICES ASSUME Bad # {} PROVE FALSE
    OBVIOUS
  <2> DEFINE m == Min(Bad)
  <2>1. m \in Bad /\ \A j \in Bad : m <= j
    <3>1. Bad \in SUBSET Nat
      OBVIOUS
    <3> HIDE DEF Bad
    <3> QED BY <3>1, MinOfNaturals
  <2> HIDE DEF m
  <2>2. PICK i \in 1..n : m \in 1..n /\ i < m /\ ~(end[i] <= start[m])
    BY <2>1
  <2>3. m - 1 \in 1..(n - 1) /\ start[m] = end[m - 1] /\ m - 1 \in 1..n
    <3>1. m - 1 \in 1..(n - 1) /\ (m - 1) + 1 = m
      BY <2>2
    <3> QED BY <3>1
  <2>4. i # m - 1
    BY <2>2, <2>3
  <2>5. i < m - 1 /\ m - 1 \notin Bad
    BY <2>1, <2>2, <2>3, <2>4
  <2>6. end[i] <= start[m - 1]
    BY <2>3, <2>5
  <2> QED BY <2>2, <2>3, <2>6
<1>2. \A i, j \in 1..n : i < j => end[i] <= start[j]
  BY <1>1
<1>3. ASSUME NEW i \in 1..n PROVE end[i] <= end[n]
  <2>1. CASE i = n
    BY <2>1
  <2>2. CASE i # n
    <3>1. i < n /\ n \in 1..n
      BY <2>2
    <3> QED BY <1>2, <3>1
  <2> QED BY <2>1, <2>2
<1> QED BY <1>2, <1>3

(* The entries of a table under construction, in one place. *)
LEMMA Entries ==
  ASSUME IInv
  PROVE  /\ Len(schedule) \in Nat /\ DOMAIN schedule = 1..Len(schedule)
         /\ \A k \in DOMAIN schedule :
              /\ schedule[k].start \in Nat /\ schedule[k].duration \in Nat
              /\ EndOf(schedule[k]) \in Nat
              /\ schedule[k].start < EndOf(schedule[k])
         /\ \A k, l \in DOMAIN schedule : k < l => EndOf(schedule[k]) <= schedule[l].start
<1> DEFINE n == Len(schedule)
           start == [k \in 1..n |-> schedule[k].start]
           end == [k \in 1..n |-> EndOf(schedule[k])]
<1>1. schedule \in Seq(ScheduleEntry)
  BY DEF IInv, TypeOK
<1>2. n \in Nat /\ DOMAIN schedule = 1..n /\ \A k \in 1..n : schedule[k] \in ScheduleEntry
  BY <1>1, LenProperties, ElementOfSeq
<1> HIDE DEF n
<1>3. \A k \in 1..n : /\ schedule[k].start \in Nat /\ schedule[k].duration \in Nat
                       /\ EndOf(schedule[k]) \in Nat
                       /\ schedule[k].start < EndOf(schedule[k])
  <2> TAKE k \in 1..n
  <2>1. schedule[k].start \in 0..(Word - 1) /\ schedule[k].duration \in Nat
    BY <1>2 DEF ScheduleEntry
  <2>2. schedule[k].duration > 0
    BY <1>2 DEF IInv, Ordered
  <2>3. schedule[k].start \in Nat
    BY <2>1
  <2> QED BY <2>1, <2>2, <2>3 DEF EndOf
<1>4. \A k \in 1..n : start[k] = schedule[k].start /\ end[k] = EndOf(schedule[k])
  OBVIOUS
<1>5. \A k \in 1..(n - 1) : start[k + 1] = end[k]
  <2>1. \A k \in 1..(n - 1) : k \in 1..n /\ k + 1 \in 1..n
    BY <1>2
  <2>2. \A k \in 1..(n - 1) : schedule[k + 1].start = EndOf(schedule[k])
    BY DEF IInv, Ordered, n
  <2> QED BY <1>4, <2>1, <2>2
<1> HIDE DEF start, end
<1>6. \A k, l \in 1..n : k < l => end[k] <= start[l]
  BY <1>2, <1>3, <1>4, <1>5, OrderedEntries
<1> QED BY <1>2, <1>3, <1>4, <1>6 DEF n

(* Every time before the desired one is in an entry. *)
LEMMA EntryAt ==
  ASSUME IInv, NEW t \in Nat, t < desiredStartTime
  PROVE  \E k \in DOMAIN schedule : schedule[k].start <= t /\ t < EndOf(schedule[k])
<1> DEFINE n == Len(schedule)
           Later == {k \in 1..n : t < EndOf(schedule[k])}
           m == Min(Later)
<1>1. /\ n \in Nat /\ DOMAIN schedule = 1..n
      /\ \A k \in 1..n : schedule[k].start \in Nat /\ EndOf(schedule[k]) \in Nat
  BY Entries
<1>2. n \in Later
  <2>1. schedule # <<>>
    BY DEF IInv, EndsAtDesired
  <2>2. schedule \in Seq(ScheduleEntry)
    BY DEF IInv, TypeOK
  <2>3. n # 0
    BY <2>1, <2>2, EmptySeq
  <2>4. EndOf(schedule[n]) = desiredStartTime
    BY <2>1 DEF IInv, EndsAtDesired
  <2> HIDE DEF n
  <2> QED BY <1>1, <2>3, <2>4
<1>3. m \in Later /\ \A k \in Later : m <= k
  <2>1. Later \in SUBSET Nat
    BY <1>1
  <2> HIDE DEF Later
  <2> QED BY <1>2, <2>1, MinOfNaturals
<1> HIDE DEF m
<1>4. CASE m = 1
  <2>1. schedule[1].start = 0
    BY <1>1, <1>3, <1>4 DEF IInv, Ordered
  <2> QED BY <1>1, <1>3, <1>4, <2>1
<1>5. CASE m # 1
  <2> HIDE DEF n
  <2>1. m - 1 \in 1..(n - 1) /\ m - 1 \in 1..n /\ (m - 1) + 1 = m /\ ~(m <= m - 1)
    BY <1>1, <1>3, <1>5
  <2>2. m - 1 \notin Later
    BY <1>3, <2>1
  <2>3. schedule[(m - 1) + 1].start = EndOf(schedule[m - 1])
    BY <2>1 DEF IInv, Ordered, n
  <2>4. schedule[m].start = EndOf(schedule[m - 1])
    BY <2>1, <2>3
  <2>5. EndOf(schedule[m - 1]) \in Nat /\ ~(t < EndOf(schedule[m - 1]))
    BY <1>1, <2>1, <2>2
  <2>6. m \in DOMAIN schedule /\ t < EndOf(schedule[m])
    BY <1>1, <1>3
  <2>7. schedule[m].start <= t
    BY <2>4, <2>5
  <2> QED BY <2>6, <2>7
<1> QED BY <1>4, <1>5

-----------------------------------------------------------------------------
(* The finished table is the one the configuration calls for.              *)

Ends == {0} \cup {EndOf(windows[i]) : i \in DOMAIN windows}
Starts == {windows[i].start : i \in DOMAIN windows}

(* A stretch from the end of a window, or the start of the frame, to the   *)
(* start of one, that no window has. *)
GapBetween(g, h) == /\ g \in Ends /\ h \in Starts /\ g < h
                    /\ \A t \in g..(h - 1) : ~Covered(windows, t)

LEMMA ExpectedIs ==
  ASSUME NEW e
  PROVE  e \in Expected(windows) <=>
           \/ \E i \in DOMAIN windows : e = WindowEntry(windows[i])
           \/ \E g, h : GapBetween(g, h) /\ e = Entry(IdlePartition, g, h - g)
<1> DEFINE Gap(g) == g[1] < g[2] /\ \A t \in g[1]..(g[2] - 1) : ~Covered(windows, t)
           Idle == {Entry(IdlePartition, g[1], g[2] - g[1]) :
                      g \in {h \in Ends \X Starts : Gap(h)}}
<1>1. Expected(windows) = {WindowEntry(windows[i]) : i \in DOMAIN windows} \cup Idle
  BY DEF Expected, Ends, Starts
<1>2. ASSUME e \in Idle
      PROVE  \E g, h : GapBetween(g, h) /\ e = Entry(IdlePartition, g, h - g)
  <2>1. PICK p \in Ends \X Starts : Gap(p) /\ e = Entry(IdlePartition, p[1], p[2] - p[1])
    BY <1>2
  <2>2. p[1] \in Ends /\ p[2] \in Starts
    BY <2>1
  <2>3. GapBetween(p[1], p[2])
    BY <2>1, <2>2 DEF GapBetween
  <2> QED BY <2>1, <2>3
<1>3. ASSUME NEW g, NEW h, GapBetween(g, h), e = Entry(IdlePartition, g, h - g)
      PROVE  e \in Idle
  <2> DEFINE p == <<g, h>>
  <2>1. p \in Ends \X Starts /\ p[1] = g /\ p[2] = h
    BY <1>3 DEF GapBetween
  <2>2. Gap(p)
    BY <1>3, <2>1 DEF GapBetween
  <2>3. e = Entry(IdlePartition, p[1], p[2] - p[1])
    BY <1>3, <2>1
  <2> HIDE DEF p, Gap
  <2> QED BY <2>1, <2>2, <2>3
<1> HIDE DEF Idle
<1> QED BY <1>1, <1>2, <1>3

(* The inductive invariant: what has been placed has its entry, the        *)
(* entries are expected ones, and the next is to start where a window does *)
(* or where one has ended.                                                 *)
Complete ==
    /\ \A i \in Placed : \E k \in DOMAIN schedule : schedule[k] = WindowEntry(windows[i])
    /\ \A k \in DOMAIN schedule : schedule[k] \in Expected(windows)
    /\ desiredStartTime \in Ends \cup Starts

(* An expected entry is appended. *)
LEMMA AppendExpected ==
  ASSUME IInv, Complete, windows' = windows,
         NEW e, e \in Expected(windows), schedule' = Append(schedule, e),
         \A i \in Placed' : i \in Placed \/ e = WindowEntry(windows[i]),
         desiredStartTime' \in Ends \cup Starts
  PROVE  Complete'
<1> DEFINE n == Len(schedule)
<1>1. schedule \in Seq({schedule[k] : k \in DOMAIN schedule} \cup {e})
  <2>1. schedule \in Seq(ScheduleEntry)
    BY DEF IInv, TypeOK
  <2>2. n \in Nat /\ DOMAIN schedule = 1..n /\ schedule = [k \in 1..n |-> schedule[k]]
    BY <2>1, LenProperties
  <2> DEFINE V == {schedule[k] : k \in DOMAIN schedule} \cup {e}
  <2>3. \A k \in 1..n : schedule[k] \in V
    BY <2>2
  <2> HIDE DEF n, V
  <2> QED BY <2>2, <2>3 DEF V
<1>2. /\ n \in Nat /\ DOMAIN schedule = 1..n /\ DOMAIN schedule' = 1..(n + 1)
      /\ \A k \in 1..n : schedule'[k] = schedule[k]
      /\ schedule'[n + 1] = e
  <2> DEFINE V == {schedule[k] : k \in DOMAIN schedule} \cup {e}
  <2>1. schedule \in Seq(V) /\ e \in V
    BY <1>1
  <2> HIDE DEF V
  <2> QED BY <2>1, AppendProperties, LenProperties
<1> HIDE DEF n
<1>3. Expected(windows)' = Expected(windows) /\ (Ends \cup Starts)' = Ends \cup Starts
  BY DEF Expected, Ends, Starts, Covered
<1>4. \A k \in DOMAIN schedule' : schedule'[k] \in Expected(windows)
  <2>1. \A k \in 1..(n + 1) : k \in 1..n \/ k = n + 1
    BY <1>2
  <2> QED BY <1>2, <2>1 DEF Complete
<1>5. \A i \in Placed' : \E k \in DOMAIN schedule' : schedule'[k] = WindowEntry(windows[i])
  <2> SUFFICES ASSUME NEW i \in Placed'
               PROVE  \E k \in DOMAIN schedule' : schedule'[k] = WindowEntry(windows[i])
    OBVIOUS
  <2>1. CASE e = WindowEntry(windows[i])
    <3>1. n + 1 \in DOMAIN schedule'
      BY <1>2
    <3> QED BY <1>2, <2>1, <3>1
  <2>2. CASE i \in Placed
    <3>1. PICK k \in 1..n : schedule[k] = WindowEntry(windows[i])
      BY <1>2, <2>2 DEF Complete
    <3>2. k \in 1..(n + 1)
      BY <1>2
    <3> QED BY <1>2, <3>1, <3>2
  <2> QED BY <2>1, <2>2
<1> QED BY <1>3, <1>4, <1>5 DEF Complete

LEMMA CompleteSteps ==
  ASSUME OrderlyConfigurations, IInv, Complete, [Next]_vars
  PROVE  Complete'
<1>1. ASSUME NEW k \in DOMAIN windows, PlaceWindow(k)
      PROVE  Complete'
  <2>1. /\ windows' = windows /\ schedule' = Append(schedule, WindowEntry(windows[k]))
        /\ Placed' = Placed \cup {k} /\ desiredStartTime' = EndOf(windows[k])
    BY <1>1, PlaceWindowEntry
  <2>2. WindowEntry(windows[k]) \in Expected(windows)
    BY ExpectedIs
  <2>3. desiredStartTime' \in Ends \cup Starts
    BY <2>1 DEF Ends
  <2>4. \A i \in Placed' : i \in Placed \/ WindowEntry(windows[k]) = WindowEntry(windows[i])
    BY <2>1
  <2> QED BY <2>1, <2>2, <2>3, <2>4, AppendExpected
<1>2. CASE PlaceIdle
  <2> DEFINE next == EarliestAfter(DOMAIN windows)
             e == Entry(IdlePartition, desiredStartTime, next - desiredStartTime)
  <2>1. /\ windows' = windows /\ desiredStartTime' = next
        /\ schedule' = Append(schedule, e) /\ Placed' = Placed
        /\ \A t \in desiredStartTime..(next - 1) : ~Covered(windows, t)
    BY <1>2, PlaceIdleEntry
  <2>2. desiredStartTime < next /\ \E i \in DOMAIN windows : windows[i].start = next
    BY <1>2, NextStart DEF PlaceIdle
  <2> HIDE DEF next
  <2>3. desiredStartTime \in Ends
    BY <1>2 DEF PlaceIdle, Complete, Starts
  <2>4. next \in Starts
    BY <2>2 DEF Starts
  <2>5. e \in Expected(windows)
    BY <2>1, <2>2, <2>3, <2>4, ExpectedIs DEF GapBetween
  <2> HIDE DEF e
  <2> QED BY <2>1, <2>4, <2>5, AppendExpected
<1>3. CASE Finish \/ UNCHANGED vars
  <2>1. UNCHANGED <<windows, schedule, desiredStartTime>>
    BY <1>3 DEF Finish, vars
  <2> QED BY <2>1 DEF Complete, Placed, Expected, Ends, Starts, Covered
<1> QED BY <1>1, <1>2, <1>3 DEF Next

LEMMA CompleteHolds ==
  ASSUME OrderlyConfigurations
  PROVE  Spec => []Complete
<1>1. Init => Complete
  <2> SUFFICES ASSUME Init PROVE Complete
    OBVIOUS
  <2>1. DOMAIN schedule = {}
    BY EmptySeq DEF Init
  <2>2. Placed = {}
    <3>1. desiredStartTime = 0 /\ windows \in Configurations
      BY DEF Init
    <3>2. \A i \in DOMAIN windows : windows[i].start \in Nat
      BY <3>1, ConfigurationType
    <3> QED BY <3>1, <3>2 DEF Placed
  <2> QED BY <2>1, <2>2 DEF Complete, Init, Ends
<1>2. IInv /\ Complete /\ [Next]_vars => Complete'
  BY CompleteSteps
<1> QED BY <1>1, <1>2, Invariance, PTL DEF Spec

(* An expected entry is in a table in which every window has its entry: an *)
(* idle stretch is met where it starts, by the only gap that can be there. *)
LEMMA ExpectedIsThere ==
  ASSUME OrderlyConfigurations, IInv, Complete, Placed = DOMAIN windows,
         NEW e \in Expected(windows)
  PROVE  \E k \in DOMAIN schedule : schedule[k] = e
<1>1. /\ windows \in Configurations /\ desiredStartTime \in Nat
      /\ \A i \in DOMAIN windows : /\ windows[i].start \in Nat
                                   /\ windows[i].duration \in Nat
                                   /\ windows[i].duration > 0
  BY BuildAssumption, ConfigurationType, OrderlyFacts DEF IInv, TypeOK
<1>2. CASE \E i \in DOMAIN windows : e = WindowEntry(windows[i])
  BY <1>2 DEF Complete
<1>3. CASE \E g, h : GapBetween(g, h) /\ e = Entry(IdlePartition, g, h - g)
  <2> PICK g, h : GapBetween(g, h) /\ e = Entry(IdlePartition, g, h - g)
    BY <1>3
  <2>1. /\ g \in Ends /\ h \in Starts /\ g < h
        /\ \A t \in g..(h - 1) : ~Covered(windows, t)
    BY DEF GapBetween
  <2>2. \A x \in Ends \cup Starts : x \in Nat
    BY <1>1 DEF Ends, Starts, EndOf
  <2>3. \A x \in Starts : Covered(windows, x) /\ x < desiredStartTime
    BY <1>1 DEF Starts, Covered, EndOf, Placed
  <2>4. \A x \in Ends : x = 0 \/ (x - 1 \in Nat /\ Covered(windows, x - 1))
    <3> SUFFICES ASSUME NEW x \in Ends, x # 0
                 PROVE  x - 1 \in Nat /\ Covered(windows, x - 1)
      OBVIOUS
    <3>1. PICK i \in DOMAIN windows : x = EndOf(windows[i])
      BY DEF Ends
    <3>2. /\ windows[i].start <= x - 1 /\ x - 1 < EndOf(windows[i]) /\ x - 1 \in Nat
      BY <1>1, <3>1 DEF EndOf
    <3> QED BY <3>2 DEF Covered
  <2>5. g \in Nat /\ h \in Nat /\ g < desiredStartTime
    BY <1>1, <2>1, <2>2, <2>3
  <2>6. PICK k \in DOMAIN schedule : schedule[k].start <= g /\ g < EndOf(schedule[k])
    BY <2>5, EntryAt
  <2>7. schedule[k] \in Expected(windows)
    BY DEF Complete
  <2>8. ~ \E i \in DOMAIN windows : schedule[k] = WindowEntry(windows[i])
    <3> SUFFICES ASSUME NEW i \in DOMAIN windows, schedule[k] = WindowEntry(windows[i])
                 PROVE  FALSE
      OBVIOUS
    <3>1. windows[i].start <= g /\ g < EndOf(windows[i])
      BY <2>6 DEF WindowEntry, Entry, EndOf
    <3>2. Covered(windows, g)
      BY <3>1 DEF Covered
    <3> QED BY <2>1, <2>5, <3>2
  <2>9. PICK a, b : GapBetween(a, b) /\ schedule[k] = Entry(IdlePartition, a, b - a)
    BY <2>7, <2>8, ExpectedIs
  <2>10. /\ a \in Ends /\ b \in Starts /\ a < b
         /\ \A t \in a..(b - 1) : ~Covered(windows, t)
    BY <2>9 DEF GapBetween
  <2>11. a \in Nat /\ b \in Nat /\ a <= g /\ g < b
    <3>1. a \in Nat /\ b \in Nat
      BY <2>2, <2>10
    <3>2. schedule[k].start = a /\ EndOf(schedule[k]) = b
      BY <2>9, <3>1 DEF Entry, EndOf
    <3> QED BY <2>6, <3>1, <3>2
  <2>12. a = g
    <3>1. CASE g = 0
      BY <2>11, <3>1
    <3>2. CASE g # 0
      <4>1. g - 1 \in Nat /\ Covered(windows, g - 1)
        BY <2>1, <2>4, <3>2
      <4>2. g - 1 \notin a..(b - 1)
        BY <2>10, <4>1
      <4> QED BY <2>5, <2>11, <4>1, <4>2
    <3> QED BY <3>1, <3>2
  <2>13. b = h
    <3>1. b \notin g..(h - 1)
      BY <2>1, <2>3, <2>10
    <3>2. h \notin a..(b - 1)
      BY <2>1, <2>3, <2>10
    <3> QED BY <2>1, <2>5, <2>10, <2>11, <2>12, <3>1, <3>2
  <2> QED BY <2>9, <2>12, <2>13
<1> QED BY <1>2, <1>3, ExpectedIs

(* For every orderly configuration the finished table is exactly the one   *)
(* it calls for: each window once, and an idle window for each gap in      *)
(* front of one (scheduler_buildSchedule, part_scheduler.c:181-254).       *)
THEOREM BuiltAsExpectedTheorem ==
  ASSUME OrderlyConfigurations
  PROVE  Spec => []BuiltAsExpected
<1>1. ASSUME IInv, Complete, BuiltWhenDone, pc = "built"
      PROVE  /\ {schedule[i] : i \in DOMAIN schedule} = Expected(windows)
             /\ Len(schedule) = Cardinality(Expected(windows))
  <2> DEFINE n == Len(schedule)
             E == Expected(windows)
  <2>1. Placed = DOMAIN windows
    BY <1>1, AllPlaced
  <2>2. \A e \in E : \E k \in DOMAIN schedule : schedule[k] = e
    BY <1>1, <2>1, ExpectedIsThere
  <2>3. \A k \in DOMAIN schedule : schedule[k] \in E
    BY <1>1 DEF Complete
  <2>4. {schedule[i] : i \in DOMAIN schedule} = E
    BY <2>2, <2>3
  <2>5. /\ n \in Nat /\ DOMAIN schedule = 1..n
        /\ \A k \in 1..n : /\ schedule[k].start \in Nat /\ EndOf(schedule[k]) \in Nat
                           /\ schedule[k].start < EndOf(schedule[k])
        /\ \A k, l \in 1..n : k < l => EndOf(schedule[k]) <= schedule[l].start
    BY <1>1, Entries
  <2> HIDE DEF n, E
  <2>6. \A k, l \in 1..n : schedule[k] = schedule[l] => k = l
    <3> SUFFICES ASSUME NEW k \in 1..n, NEW l \in 1..n, k < l
                 PROVE  schedule[k] # schedule[l]
      BY <2>5
    <3>1. schedule[k].start < schedule[l].start
      BY <2>5
    <3> QED BY <2>5, <3>1
  <2>7. schedule \in Bijection(1..n, E)
    <3>1. schedule = [k \in 1..n |-> schedule[k]]
      <4>1. schedule \in Seq(ScheduleEntry)
        BY <1>1 DEF IInv, TypeOK
      <4> QED BY <2>5, <4>1, LenProperties
    <3>2. schedule \in [1..n -> E]
      BY <2>3, <2>5, <3>1
    <3> QED BY <2>2, <2>5, <2>6, <3>2 DEF Bijection, Injection, Surjection, IsInjective
  <2>8. IsFiniteSet(1..n) /\ Cardinality(1..n) = n
    <3>1. IsFiniteSet(1..n) /\ Cardinality(1..n) = IF 1 > n THEN 0 ELSE n - 1 + 1
      BY <2>5, FS_Interval
    <3> QED BY <2>5, <3>1
  <2>9. Cardinality(E) = n
    <3>1. ExistsBijection(1..n, E)
      BY <2>7 DEF ExistsBijection
    <3> QED BY <2>8, <3>1, FS_Bijection
  <2> QED BY <2>4, <2>9 DEF n, E
<1>2. IInv /\ Complete /\ BuiltWhenDone => BuiltAsExpected
  BY <1>1 DEF BuiltAsExpected
<1> QED BY <1>2, Invariance, CompleteHolds, BuiltWhenDoneHolds, PTL

(* The table the builder leaves is one the partition scheduler is made     *)
(* for: the hypothesis of that module's theorems (part_scheduler.c:67-92). *)
THEOREM BuiltTableTiles ==
  ASSUME OrderlyConfigurations, KnownPartitions
  PROVE  Spec => [](pc = "built" /\ FillsFrame => Dispatch!TilesFrame(schedule))
<1>1. ASSUME IInv, BuiltWhenDone, pc = "built", FillsFrame
      PROVE  Dispatch!TilesFrame(schedule)
  <2> DEFINE n == Len(schedule)
             start == [i \in 1..n |-> schedule[i].start]
             end == [i \in 1..n |-> EndOf(schedule[i])]
  <2>1. /\ n \in Nat \ {0} /\ DOMAIN schedule = 1..n
        /\ MajorFrame \in Nat \ {0} /\ EndOf(schedule[n]) = MajorFrame
        /\ \A i \in 1..n : schedule[i] \in ScheduleEntry
    <3>1. schedule \in Seq(ScheduleEntry)
      BY <1>1 DEF IInv, TypeOK
    <3>2. /\ MajorFrame \in Nat \ {0} /\ n > 0
          /\ EndOf(schedule[n]) = MajorFrame
      BY <1>1, BuiltReachesEnd
    <3> HIDE DEF n
    <3>3. n \in Nat /\ DOMAIN schedule = 1..n
      BY <3>1, LenProperties DEF n
    <3> QED BY <3>1, <3>2, <3>3, ElementOfSeq
  <2>2. /\ schedule[1].start = 0
        /\ \A i \in 1..n : schedule[i].duration > 0
        /\ \A i \in 1..(n - 1) : schedule[i + 1].start = EndOf(schedule[i])
    BY <1>1, <2>1 DEF IInv, Ordered
  <2> HIDE DEF n
  <2>3. \A i \in 1..n : /\ schedule[i].start \in Nat /\ schedule[i].duration \in Nat
                         /\ EndOf(schedule[i]) \in Nat
                         /\ schedule[i].start < EndOf(schedule[i])
    BY <2>1, <2>2, BuildAssumption DEF ScheduleEntry, EndOf
  <2>4. \A i \in 1..n : start[i] = schedule[i].start /\ end[i] = EndOf(schedule[i])
    OBVIOUS
  <2>5. \A i \in 1..(n - 1) : i \in 1..n /\ i + 1 \in 1..n
    BY <2>1
  <2>6. \A i \in 1..(n - 1) : start[i + 1] = end[i]
    BY <2>2, <2>4, <2>5
  <2> HIDE DEF start, end
  <2>7. /\ \A i, j \in 1..n : i < j => end[i] <= start[j]
        /\ \A i \in 1..n : end[i] <= end[n]
    BY <2>1, <2>3, <2>4, <2>6, OrderedEntries
  <2>8. ASSUME NEW t \in 0..(MajorFrame - 1)
        PROVE  \E i \in 1..n : schedule[i].start <= t /\ t < EndOf(schedule[i])
    <3> DEFINE Later == {i \in 1..n : t < end[i]}
               m == Min(Later)
    <3>1. n \in Later
      BY <2>1, <2>4
    <3>2. m \in Later /\ \A j \in Later : m <= j
      <4>1. Later \in SUBSET Nat
        BY <2>1
      <4> HIDE DEF Later
      <4> QED BY <3>1, <4>1, MinOfNaturals
    <3> HIDE DEF m
    <3>3. CASE m = 1
      BY <2>2, <2>4, <3>2, <3>3
    <3>4. CASE m # 1
      <4>1. m - 1 \in 1..(n - 1) /\ m - 1 \in 1..n /\ (m - 1) + 1 = m
            /\ ~(m <= m - 1)
        BY <2>1, <3>2, <3>4
      <4>2. m - 1 \notin Later
        BY <3>2, <4>1
      <4>3. start[m] = end[m - 1]
        BY <2>6, <4>1
      <4>4. start[m] <= t
        BY <2>3, <2>4, <4>1, <4>2, <4>3
      <4> QED BY <2>4, <3>2, <4>4
    <3> QED BY <3>3, <3>4
  <2>9. schedule[n].partition # NoPartition
    <3>1. n \in DOMAIN schedule
      BY <2>1
    <3>2. \/ schedule[n] \in {WindowEntry(windows[k]) : k \in DOMAIN windows}
          \/ schedule[n].partition = IdlePartition
      BY <1>1, <3>1 DEF IInv, IdleIsFree
    <3>3. CASE schedule[n].partition = IdlePartition
      BY <3>3, BuildAssumption
    <3>4. ASSUME NEW k \in DOMAIN windows, schedule[n] = WindowEntry(windows[k])
          PROVE  schedule[n].partition # NoPartition
      <4>1. windows[k].id \in PartitionIds
        BY <1>1 DEF IInv, TypeOK, KnownPartitions
      <4>2. schedule[n].partition = windows[k].id
        BY <3>4, <4>1 DEF WindowEntry, Entry, PartitionOf
      <4> QED BY <4>1, <4>2, BuildAssumption
    <3> QED BY <3>2, <3>3, <3>4
  <2>10. schedule # <<>>
    BY <2>1
  <2>11. /\ \A i \in 1..n : EndOf(schedule[i]) <= MajorFrame
         /\ \A i, j \in 1..n : i < j => EndOf(schedule[i]) <= schedule[j].start
    BY <2>1, <2>4, <2>7
  <2>12. \A w : Dispatch!EndOf(w) = EndOf(w)
    BY DEF Dispatch!EndOf, EndOf
  <2>13. Len(schedule) = n
    BY DEF n
  <2> QED BY <2>1, <2>2, <2>8, <2>9, <2>10, <2>11, <2>12, <2>13 DEF Dispatch!TilesFrame
<1>2. IInv /\ BuiltWhenDone => (pc = "built" /\ FillsFrame => Dispatch!TilesFrame(schedule))
  BY <1>1
<1> QED BY <1>2, Invariance, BuiltWhenDoneHolds, PTL
=============================================================================
