--------------------------- MODULE Kernel_proofs ---------------------------
(***************************************************************************)
(* Proofs about PartitionDispatch and Kernel.  First the dispatcher alone: *)
(* for every table that tiles the major frame, however long the frame and  *)
(* however wide the tick counter, the partition that runs is the one whose *)
(* window it is, and the search for it stays inside the array.  Then the   *)
(* kernel: the same holds with its timer, its gate and the ticks they      *)
(* delay or lose; calls are served for their caller and with its           *)
(* arguments; and the time keeps pace.  For all tables that tile the       *)
(* frame, all periods, and a boot that is over before the first tick.      *)
(***************************************************************************)
EXTENDS Kernel, Integers, SequenceTheorems, FiniteSetTheorems, WellFoundedInduction, TLAPS

-----------------------------------------------------------------------------
(* Natural numbers.                                                        *)

(* A nonempty set of naturals has the minimum Min chooses. *)
LEMMA MinOfNaturals ==
  ASSUME NEW S \in SUBSET Nat, S # {}
  PROVE  Min(S) \in S /\ \A y \in S : Min(S) <= y
<1> DEFINE I == {1..n : n \in S}
           R == StrictSubsetOrdering(Nat)
<1>1. I \subseteq FiniteSubsetsOf(Nat) /\ I # {}
  <2>1. \A n \in S : IsFiniteSet(1..n) /\ 1..n \subseteq Nat
    BY FS_Interval
  <2> QED BY <2>1 DEF FiniteSubsetsOf
<1>2. PICK X \in I : \A Y \in I : ~(<<Y, X>> \in R)
  <2> HIDE DEF I, R
  <2>1. IsWellFoundedOn(R, FiniteSubsetsOf(Nat))
    BY FS_StrictSubsetOrderingWellFounded DEF R
  <2> QED BY <1>1, <2>1, WFMin
<1>3. PICK x \in S : X = 1..x
  OBVIOUS
<1>4. ASSUME NEW y \in S, ~(x <= y) PROVE FALSE
  <2>1. 1..y \subseteq 1..x /\ 1..y # 1..x
    <3>1. x \in 1..x /\ x \notin 1..y
      BY <1>4
    <3> QED BY <1>4, <3>1
  <2>2. 1..y \in SUBSET Nat /\ 1..x \in SUBSET Nat
    OBVIOUS
  <2>3. <<1..y, 1..x>> \in R
    BY <2>1, <2>2 DEF StrictSubsetOrdering
  <2> QED BY <1>2, <1>3, <2>3
<1> QED BY <1>3, <1>4 DEF Min

(* Division with remainder, and the remainder is unique. *)
LEMMA DivMod ==
  ASSUME NEW m \in Nat \ {0}, NEW u \in Nat
  PROVE  /\ u % m \in 0..(m - 1)
         /\ u \div m \in Nat
         /\ u = m * (u \div m) + (u % m)
OBVIOUS

LEMMA ModUnique ==
  ASSUME NEW m \in Nat \ {0}, NEW q \in Nat, NEW r \in 0..(m - 1)
  PROVE  (m * q + r) % m = r
OBVIOUS

(* The position of the next tick is the next position, or the first. *)
LEMMA NextPosition ==
  ASSUME NEW m \in Nat \ {0}, NEW u \in Nat
  PROVE  \/ (u + 1) % m = 0
         \/ (u + 1) % m = (u % m) + 1
<1> DEFINE q == u \div m
           r == u % m
<1>1. /\ r \in 0..(m - 1) /\ q \in Nat /\ u = m * q + r
  BY DivMod
<1> HIDE DEF q, r
<1>2. CASE r + 1 < m
  <2>1. r + 1 \in 0..(m - 1)
    BY <1>1, <1>2
  <2>2. u + 1 = m * q + (r + 1)
    BY <1>1
  <2> QED BY <2>1, <2>2, <1>1, ModUnique DEF r
<1>3. CASE r + 1 = m
  <2>1. u + 1 = m * (q + 1) + 0
    BY <1>1, <1>3
  <2>2. q + 1 \in Nat /\ 0 \in 0..(m - 1)
    BY <1>1
  <2> QED BY <2>1, <2>2, ModUnique
<1> QED BY <1>1, <1>2, <1>3

(* Division keeps the order. *)
LEMMA DivMonotone ==
  ASSUME NEW m \in Nat \ {0}, NEW a \in Nat, NEW b \in Nat, a <= b
  PROVE  a \div m <= b \div m
<1> DEFINE p == a \div m
           q == b \div m
           r == a % m
           t == b % m
<1>1. /\ p \in Nat /\ q \in Nat /\ r \in 0..(m - 1) /\ t \in 0..(m - 1)
      /\ a = m * p + r /\ b = m * q + t
  BY DivMod
<1> HIDE DEF p, q, r, t
<1>2. ASSUME q < p PROVE FALSE
  <2>1. PICK d \in Nat : p = q + 1 + d
    <3>1. p - q - 1 \in Nat /\ p = q + 1 + (p - q - 1)
      BY <1>1, <1>2
    <3> QED BY <3>1
  <2>2. m * p = m * q + m + m * d /\ m * d \in Nat /\ m * q \in Nat
    BY <1>1, <2>1
  <2> QED BY <1>1, <2>2
<1> QED BY <1>1, <1>2 DEF p, q

(* What is added to a counter that wraps round is found again. *)
LEMMA AddedModulo ==
  ASSUME NEW m \in Nat \ {0}, NEW u \in 0..(m - 1), NEW x \in 0..(m - 1)
  PROVE  (((u + x) % m) - u + m) % m = x
<1>1. CASE u + x < m
  <2>1. (m * 0 + (u + x)) % m = u + x
    BY <1>1, ModUnique
  <2>2. m * 0 + (u + x) = u + x
    OBVIOUS
  <2>3. ((u + x) % m) - u + m = m * 1 + x
    BY <2>1, <2>2
  <2> QED BY <2>3, ModUnique
<1>2. CASE u + x >= m
  <2>1. u + x - m \in 0..(m - 1)
    BY <1>2
  <2>2. (m * 1 + (u + x - m)) % m = u + x - m
    BY <2>1, ModUnique
  <2>3. m * 1 + (u + x - m) = u + x
    OBVIOUS
  <2>4. ((u + x) % m) - u + m = m * 0 + x
    BY <2>2, <2>3
  <2> QED BY <2>4, ModUnique
<1> QED BY <1>1, <1>2

-----------------------------------------------------------------------------

TilingSchedules ==
    \A s \in Schedules :
        /\ s \in Seq([partition : {s[i].partition : i \in DOMAIN s},
                      start : Nat, duration : Nat])
        /\ TilesFrame(s)

-----------------------------------------------------------------------------
(* The inductive invariant: what the counters say of the active window.    *)
ActiveWindow ==
    IF activeWindowIndex = 0
      THEN uwTick = 0
      ELSE /\ activeWindowIndex \in Used
           /\ majorFrameStopMillis = EndOf(schedule[activeWindowIndex])

(* Used windows in front of the active one are over. *)
Passed ==
    activeWindowIndex # 0 =>
        \A i \in Used : i < activeWindowIndex =>
            EndOf(schedule[i]) <= HandledPosition

IInv ==
    /\ TypeOK
    /\ NeverLost
    /\ ActiveWindow
    /\ Passed
    /\ RunsInItsWindow

-----------------------------------------------------------------------------
(* What is known of a table that tiles the frame. *)
LEMMA TilingFacts ==
  ASSUME TilingSchedules, schedule \in Schedules
  PROVE  /\ Len(schedule) \in Nat \ {0} /\ DOMAIN schedule = 1..Len(schedule)
         /\ Len(schedule) \in Used
         /\ Used \in SUBSET (1..Len(schedule))
         /\ \A i \in DOMAIN schedule :
              /\ schedule[i].start \in Nat /\ schedule[i].duration \in Nat
              /\ schedule[i].duration > 0
              /\ schedule[i].start + schedule[i].duration <= MajorFrame
         /\ \A i, j \in DOMAIN schedule : i < j =>
              schedule[i].start + schedule[i].duration <= schedule[j].start
         /\ \A t \in 0..(MajorFrame - 1) : \E i \in DOMAIN schedule :
              /\ schedule[i].start <= t
              /\ t < schedule[i].start + schedule[i].duration
<1> DEFINE E == [partition : {schedule[i].partition : i \in DOMAIN schedule},
                 start : Nat, duration : Nat]
<1>1. schedule \in Seq(E) /\ TilesFrame(schedule)
  BY DEF TilingSchedules
<1>2. schedule # <<>> /\ Len(schedule) \in Nat \ {0}
  <2> HIDE DEF E
  <2> QED BY <1>1, EmptySeq DEF TilesFrame
<1>3. DOMAIN schedule = 1..Len(schedule)
  <2> HIDE DEF E
  <2> QED BY <1>1, LenProperties
<1>4. \A i \in DOMAIN schedule :
        schedule[i].start \in Nat /\ schedule[i].duration \in Nat
  <2>1. \A i \in DOMAIN schedule : schedule[i] \in E
    <3> HIDE DEF E
    <3> QED BY <1>1, <1>3, ElementOfSeq
  <2> QED BY <2>1
<1>5. Len(schedule) \in Used /\ Used \in SUBSET (1..Len(schedule))
  BY <1>1, <1>2, <1>3 DEF TilesFrame, Used
<1> QED BY <1>1, <1>2, <1>3, <1>4, <1>5 DEF TilesFrame, EndOf

(* The tick that is about to be handled finds the position after the last  *)
(* one handled, or the start of a frame.                                   *)
LEMMA PositionSteps ==
  ASSUME uwTick \in 0..(TickWord - 1)
  PROVE  /\ PosMajorFrameMillis \in 0..(MajorFrame - 1)
         /\ HandledPosition \in 0..(MajorFrame - 1)
         /\ \/ PosMajorFrameMillis = 0
            \/ PosMajorFrameMillis = HandledPosition + 1
         /\ uwTick' = (uwTick + 1) % TickWord
              => /\ HandledPosition' = PosMajorFrameMillis
                 /\ uwTick' \in 0..(TickWord - 1)
<1>1. /\ MajorFrame \in Nat \ {0} /\ TickWord \in Nat \ {0}
      /\ uwTick \in Nat /\ uwTick < TickWord
  BY DispatchAssumption
<1>2. \A a \in Nat : a % TickWord \in 0..(TickWord - 1)
                    /\ a % MajorFrame \in 0..(MajorFrame - 1)
  BY <1>1, DivMod
<1>3. (uwTick + TickWord - 1) \in Nat
  BY <1>1
<1>4. \A a \in 0..(TickWord - 1) : a % TickWord = a /\ (a + TickWord) % TickWord = a
  <2> SUFFICES ASSUME NEW a \in 0..(TickWord - 1)
               PROVE  a % TickWord = a /\ (a + TickWord) % TickWord = a
    OBVIOUS
  <2>1. (TickWord * 0 + a) % TickWord = a
    BY <1>1, ModUnique
  <2>2. (TickWord * 1 + a) % TickWord = a
    BY <1>1, ModUnique
  <2>3. TickWord * 0 + a = a /\ TickWord * 1 + a = a + TickWord
    BY <1>1
  <2> QED BY <2>1, <2>2, <2>3
<1>5. PosMajorFrameMillis = 0 \/ PosMajorFrameMillis = HandledPosition + 1
  <2>1. CASE uwTick = 0
    <3>1. 0 % MajorFrame = 0
      BY <1>1
    <3> QED BY <2>1, <3>1 DEF PosMajorFrameMillis
  <2>2. CASE uwTick # 0
    <3>1. uwTick - 1 \in 0..(TickWord - 1) /\ uwTick - 1 \in Nat
      BY <2>2, <1>1
    <3>2. (uwTick + TickWord - 1) % TickWord = uwTick - 1
      <4>1. uwTick + TickWord - 1 = (uwTick - 1) + TickWord
        BY <1>1
      <4> QED BY <4>1, <3>1, <1>4
    <3>3. \/ (uwTick - 1 + 1) % MajorFrame = 0
          \/ (uwTick - 1 + 1) % MajorFrame = ((uwTick - 1) % MajorFrame) + 1
      BY <3>1, <1>1, NextPosition
    <3>4. uwTick - 1 + 1 = uwTick
      BY <1>1
    <3> QED BY <3>2, <3>3, <3>4 DEF PosMajorFrameMillis, HandledPosition
  <2> QED BY <2>1, <2>2
<1>6. ASSUME uwTick' = (uwTick + 1) % TickWord
      PROVE  HandledPosition' = PosMajorFrameMillis
  <2>1. CASE uwTick = TickWord - 1
    <3>1. uwTick' = 0
      <4>1. (0 + TickWord) % TickWord = 0
        BY <1>1, <1>4
      <4>2. uwTick + 1 = 0 + TickWord
        BY <2>1, <1>1
      <4> QED BY <4>1, <4>2, <1>6
    <3>2. (0 + TickWord - 1) % TickWord = TickWord - 1
      BY <1>1, <1>4
    <3> QED BY <2>1, <3>1, <3>2 DEF HandledPosition, PosMajorFrameMillis
  <2>2. CASE uwTick # TickWord - 1
    <3>1. uwTick + 1 \in 0..(TickWord - 1)
      BY <2>2, <1>1
    <3>2. uwTick' = uwTick + 1
      BY <3>1, <1>4, <1>6
    <3>3. uwTick' + TickWord - 1 = uwTick + TickWord
      BY <3>2, <1>1
    <3>4. (uwTick + TickWord) % TickWord = uwTick
      BY <1>1, <1>4
    <3> QED BY <3>3, <3>4 DEF HandledPosition, PosMajorFrameMillis
  <2> QED BY <2>1, <2>2
<1>7. PosMajorFrameMillis \in 0..(MajorFrame - 1)
  BY <1>1, <1>2 DEF PosMajorFrameMillis
<1>8. HandledPosition \in 0..(MajorFrame - 1)
  <2>1. (uwTick + TickWord - 1) % TickWord \in Nat
    BY <1>2, <1>3
  <2> QED BY <2>1, <1>2 DEF HandledPosition
<1>9. uwTick' = (uwTick + 1) % TickWord => uwTick' \in 0..(TickWord - 1)
  BY <1>1, <1>2
<1> QED BY <1>5, <1>6, <1>7, <1>8, <1>9

(* A tick that finds no window over leaves the right one active. *)
LEMMA KeepWindow ==
  ASSUME TilingSchedules, IInv, Tick, ~WindowIsOver
  PROVE  IInv'
<1> DEFINE p == PosMajorFrameMillis
           a == activeWindowIndex
<1>1. /\ schedule \in Schedules /\ schedule' = schedule
      /\ uwTick \in 0..(TickWord - 1)
      /\ uwTick' = (uwTick + 1) % TickWord
      /\ UNCHANGED <<activeWindowIndex, majorFrameStopMillis, lost>>
  BY DEF IInv, TypeOK, Tick, PartitionScheduler
<1>2. /\ p \in 0..(MajorFrame - 1) /\ HandledPosition \in 0..(MajorFrame - 1)
      /\ p = 0 \/ p = HandledPosition + 1
      /\ HandledPosition' = p /\ uwTick' \in 0..(TickWord - 1)
  BY <1>1, PositionSteps
<1>3. p # 0 /\ p = HandledPosition + 1 /\ MajorFrame \in Nat
  BY <1>2, DispatchAssumption DEF WindowIsOver
<1>4. a # 0
  <2>1. 0 % MajorFrame = 0
    BY DispatchAssumption
  <2> QED BY <2>1, <1>3 DEF IInv, ActiveWindow, PosMajorFrameMillis
<1>5. a \in Used /\ majorFrameStopMillis = EndOf(schedule[a])
  BY <1>4 DEF IInv, ActiveWindow
<1>6. Used' = Used /\ DOMAIN schedule = 1..Len(schedule)
      /\ Used \in SUBSET (1..Len(schedule)) /\ Len(schedule) \in Nat
  BY <1>1, TilingFacts DEF Used
<1>7. /\ \A i \in Used : /\ i \in DOMAIN schedule /\ i \in Nat
                         /\ EndOf(schedule[i]) \in Nat
                         /\ schedule[i].start \in Nat
      /\ \A i, j \in Used : i < j => EndOf(schedule[i]) <= schedule[j].start
  <2>1. \A i \in Used : i \in DOMAIN schedule /\ i \in Nat
    BY <1>6
  <2>2. /\ \A i \in DOMAIN schedule : /\ EndOf(schedule[i]) \in Nat
                                     /\ schedule[i].start \in Nat
        /\ \A i, j \in DOMAIN schedule :
             i < j => EndOf(schedule[i]) <= schedule[j].start
    BY <1>1, TilingFacts DEF EndOf
  <2> QED BY <2>1, <2>2
<1>8. p < EndOf(schedule[a])
  BY <1>2, <1>5, <1>7 DEF WindowIsOver
<1>9. Passed'
  <2> SUFFICES ASSUME NEW i \in Used, i < a
               PROVE  EndOf(schedule[i]) <= p
    BY <1>1, <1>2, <1>6 DEF Passed
  <2>1. EndOf(schedule[i]) <= HandledPosition
    BY <1>4 DEF IInv, Passed
  <2> QED BY <2>1, <1>2, <1>3, <1>7
<1>10. RunsInItsWindow'
  <2> SUFFICES ASSUME NEW i \in Used,
                      schedule[i].start <= p, p < EndOf(schedule[i])
               PROVE  i = a
    BY <1>1, <1>2, <1>6, <1>8 DEF RunsInItsWindow
  <2>1. ~(i < a)
    <3>1. i < a => EndOf(schedule[i]) <= HandledPosition
      BY <1>4 DEF IInv, Passed
    <3> QED BY <3>1, <1>2, <1>3, <1>7
  <2>2. ~(a < i)
    BY <1>2, <1>5, <1>7, <1>8
  <2> QED BY <2>1, <2>2, <1>5, <1>7
<1>11. TypeOK' /\ NeverLost' /\ ActiveWindow'
  BY <1>1, <1>2, <1>4, <1>5, <1>6
  DEF IInv, TypeOK, NeverLost, ActiveWindow
<1> QED BY <1>9, <1>10, <1>11 DEF IInv

(* A tick that finds the window over finds the next one. *)
LEMMA ChangeWindow ==
  ASSUME TilingSchedules, IInv, Tick, WindowIsOver
  PROVE  IInv'
<1> DEFINE p == PosMajorFrameMillis
           a == activeWindowIndex
           next == {i \in Used : i > SearchFrom}
           b == Min(next)
<1>1. /\ schedule \in Schedules /\ schedule' = schedule
      /\ uwTick \in 0..(TickWord - 1)
      /\ uwTick' = (uwTick + 1) % TickWord
      /\ ActivateNext /\ lost = FALSE
  BY DEF IInv, TypeOK, Tick, PartitionScheduler, NeverLost
<1>2. /\ p \in 0..(MajorFrame - 1) /\ HandledPosition \in 0..(MajorFrame - 1)
      /\ p = 0 \/ p = HandledPosition + 1
      /\ HandledPosition' = p /\ uwTick' \in 0..(TickWord - 1)
      /\ MajorFrame \in Nat
  BY <1>1, PositionSteps, DispatchAssumption
<1>3. /\ Used' = Used /\ DOMAIN schedule = 1..Len(schedule)
      /\ Used \in SUBSET (1..Len(schedule)) /\ Len(schedule) \in Used
      /\ Len(schedule) \in Nat \ {0}
  BY <1>1, TilingFacts DEF Used
<1>4. /\ \A i \in DOMAIN schedule :
           /\ i \in Nat \ {0} /\ i <= Len(schedule)
           /\ EndOf(schedule[i]) \in Nat /\ schedule[i].start \in Nat
           /\ schedule[i].start < EndOf(schedule[i])
           /\ EndOf(schedule[i]) <= MajorFrame
      /\ \A i, j \in DOMAIN schedule :
           i < j => EndOf(schedule[i]) <= schedule[j].start
      /\ \A i \in Used : i \in DOMAIN schedule
  BY <1>1, <1>3, TilingFacts DEF EndOf
(* Where the search starts, everything used is over. *)
<1>5. /\ SearchFrom \in Nat
      /\ \A i \in Used : i <= SearchFrom => EndOf(schedule[i]) <= p
      /\ \A i \in Used : i > SearchFrom => p < EndOf(schedule[i])
      /\ SearchFrom < Len(schedule)
  <2>1. CASE p = 0
    <3>1. SearchFrom = 0
      BY <2>1 DEF SearchFrom
    <3>2. \A i \in Used : i > 0 /\ p < EndOf(schedule[i])
      BY <2>1, <1>4
    <3>3. \A i \in Used : ~(i <= 0)
      BY <1>4
    <3> QED BY <3>1, <3>2, <3>3, <1>3
  <2>2. CASE p # 0
    <3>1. SearchFrom = a /\ p = HandledPosition + 1
      BY <2>2, <1>2 DEF SearchFrom
    <3>2. a # 0
      <4>1. 0 % MajorFrame = 0
        BY DispatchAssumption
      <4> QED BY <4>1, <2>2 DEF IInv, ActiveWindow, PosMajorFrameMillis
    <3>3. /\ a \in Used /\ majorFrameStopMillis = EndOf(schedule[a])
          /\ HandledPosition < EndOf(schedule[a])
      BY <3>2 DEF IInv, ActiveWindow, RunsInItsWindow
    <3>4. majorFrameStopMillis <= p
      BY <2>2 DEF WindowIsOver
    <3>5. EndOf(schedule[a]) = p
      BY <3>1, <3>3, <3>4, <1>2, <1>4
    <3>6. PICK c \in DOMAIN schedule :
                 schedule[c].start <= p /\ p < EndOf(schedule[c])
      BY <1>1, <1>2, TilingFacts DEF EndOf
    <3>7. a < c
      <4>1. c < a => EndOf(schedule[c]) <= schedule[a].start
        BY <3>3, <3>6, <1>4
      <4> QED BY <4>1, <3>3, <3>5, <3>6, <1>2, <1>4
    <3>8. \A i \in Used : i <= a => EndOf(schedule[i]) <= p
      <4> SUFFICES ASSUME NEW i \in Used, i < a
                   PROVE  EndOf(schedule[i]) <= p
        BY <3>3, <3>5, <1>2, <1>4
      <4>1. EndOf(schedule[i]) <= schedule[a].start
        BY <3>3, <1>4
      <4> QED BY <4>1, <3>3, <3>5, <1>2, <1>4
    <3>9. \A i \in Used : i > a => p < EndOf(schedule[i])
      <4> SUFFICES ASSUME NEW i \in Used, i > a
                   PROVE  p < EndOf(schedule[i])
        OBVIOUS
      <4>1. EndOf(schedule[a]) <= schedule[i].start
        BY <3>3, <1>4
      <4> QED BY <4>1, <3>5, <1>2, <1>4
    <3>10. a \in Nat /\ a < Len(schedule)
      BY <3>3, <3>6, <3>7, <1>3, <1>4
    <3> QED BY <3>1, <3>8, <3>9, <3>10
  <2> QED BY <2>1, <2>2
<1>6. next # {} /\ b \in next /\ \A i \in next : b <= i
  <2>1. Len(schedule) \in next
    BY <1>3, <1>5
  <2>2. next \in SUBSET Nat
    BY <1>4
  <2> HIDE DEF next
  <2> QED BY <2>1, <2>2, MinOfNaturals
<1>7. /\ activeWindowIndex' = b /\ lost' = FALSE
      /\ majorFrameStopMillis' = EndOf(schedule[b])
  <2>1. next # {}
    BY <1>6
  <2> QED BY <2>1, <1>1 DEF ActivateNext
<1>8. b \in Used /\ b > SearchFrom /\ b # 0
  BY <1>4, <1>6
<1> HIDE DEF b
<1>9. \A i \in Used : i < b => EndOf(schedule[i]) <= p
  BY <1>4, <1>5, <1>6, <1>8
<1>10. p < EndOf(schedule[b])
  BY <1>5, <1>8
<1>11. Passed'
  BY <1>1, <1>2, <1>3, <1>7, <1>9 DEF Passed
<1>12. RunsInItsWindow'
  <2> SUFFICES ASSUME NEW i \in Used,
                      schedule[i].start <= p, p < EndOf(schedule[i])
               PROVE  i = b
    BY <1>1, <1>2, <1>3, <1>7, <1>10 DEF RunsInItsWindow
  <2>1. ~(i < b)
    BY <1>2, <1>4, <1>9
  <2>2. ~(b < i)
    <3>1. b < i => EndOf(schedule[b]) <= schedule[i].start
      BY <1>4, <1>8
    <3> QED BY <3>1, <1>2, <1>4, <1>8, <1>10
  <2> QED BY <2>1, <2>2, <1>4, <1>8
<1>13. TypeOK'
  <2>1. b \in DOMAIN schedule /\ EndOf(schedule[b]) \in 0..MajorFrame
    BY <1>2, <1>4, <1>8
  <2> QED BY <2>1, <1>1, <1>2, <1>7 DEF TypeOK
<1>14. ActiveWindow' /\ NeverLost'
  BY <1>1, <1>3, <1>7, <1>8 DEF ActiveWindow, NeverLost
<1> QED BY <1>11, <1>12, <1>13, <1>14 DEF IInv

LEMMA Invariance ==
  ASSUME TilingSchedules
  PROVE  Spec => []IInv
<1>1. Init => IInv
  <2> SUFFICES ASSUME Init PROVE IInv
    OBVIOUS
  <2>1. TypeOK
    <3>1. 0 \in 0..(TickWord - 1) /\ 0 \in 0..MajorFrame
      BY DispatchAssumption
    <3> QED BY <3>1 DEF Init, TypeOK
  <2> QED BY <2>1
          DEF Init, IInv, NeverLost, ActiveWindow, Passed, RunsInItsWindow
<1>2. IInv /\ [Next]_vars => IInv'
  <2> SUFFICES ASSUME IInv, [Next]_vars PROVE IInv'
    OBVIOUS
  <2>1. CASE Tick /\ WindowIsOver
    BY <2>1, ChangeWindow
  <2>2. CASE Tick /\ ~WindowIsOver
    BY <2>2, KeepWindow
  <2>3. CASE UNCHANGED vars
    BY <2>3 DEF vars, IInv, TypeOK, NeverLost, ActiveWindow, Passed,
                RunsInItsWindow, Used, HandledPosition
  <2> QED BY <2>1, <2>2, <2>3 DEF Next
<1> QED BY <1>1, <1>2, PTL DEF Spec

-----------------------------------------------------------------------------

(* For every table that tiles the major frame, every frame length and      *)
(* every width of the tick counter: the active window is not over, and a   *)
(* window with a partition is active for the whole of its time             *)
(* (scheduler_partitionScheduler, part_scheduler.c:67-92).                 *)
THEOREM RunsInItsWindowTheorem ==
  ASSUME TilingSchedules
  PROVE  Spec => []RunsInItsWindow
<1>1. IInv => RunsInItsWindow
  BY DEF IInv
<1> QED BY <1>1, Invariance, PTL

(* ... and the search for the next window stays inside the table. *)
THEOREM NeverLostTheorem ==
  ASSUME TilingSchedules
  PROVE  Spec => []NeverLost
<1>1. IInv => NeverLost
  BY DEF IInv
<1> QED BY <1>1, Invariance, PTL
-----------------------------------------------------------------------------
(* The kernel around the dispatcher.                                       *)

(* The boot is over before the first tick, and the tables tile the frame.  *)
QuietBoot == BootTicks = FALSE /\ TilingSchedules

-----------------------------------------------------------------------------
(* The inductive invariant.                                                *)

Booting == pc \in {"reset", "clocked"}
Gate == {"svc", "serving", "served"}

(* No tick waits while the tables are not there. *)
BootIsQuiet ==
    Booting => /\ ~pending /\ ~handling
               /\ pc = "reset" => ~tickint
               /\ uwTick = 0 /\ activeWindowIndex = 0 /\ majorFrameStopMillis = 0
               /\ schedule = <<>> /\ lost = FALSE

(* The gate keeps to the window it was entered in, and to the words. *)
GateInv ==
    /\ pc \in Gate => /\ call \in Calls /\ caller = activeWindowIndex /\ caller # 0
                      /\ \E n \in Integers32, t \in TimeOuts :
                           passed = Arguments(call, n, t)
    /\ pc \in {"svc", "serving"} => stack = Reverse(Pushed(passed))
    /\ pc = "served" => servedFor = caller
    /\ ArgumentsArrive

(* What the cycle counter shows is what went by since it was cleared.      *)
TimeInv ==
    /\ CYCCNT \in 0..(CycleWord - 1)
    /\ since \in 0..MaxSince /\ dropped \in 0..MaxSince
    /\ ~handling /\ since < MaxSince =>
         dropped <= since /\ CYCCNT = (since - dropped) % CycleWord

ControlOK ==
    /\ pc \in {"reset", "clocked", "thread", "svc", "serving", "served"}
    /\ {handling, tickint, pending} \subseteq BOOLEAN
    /\ val \in 0..(Period - 1)
    /\ total \in 0..(TotalWord - 1)
    /\ call # "none" <=> pc \in Gate

KIInv ==
    /\ ControlOK
    /\ BootIsQuiet
    /\ ~Booting => IInv
    /\ GateInv
    /\ TimeInv

-----------------------------------------------------------------------------
(* A tick keeps the dispatcher's invariant. *)
LEMMA TickKeeps ==
  ASSUME TilingSchedules, IInv, Tick
  PROVE  IInv'
BY KeepWindow, ChangeWindow

LEMMA StutterKeeps ==
  ASSUME IInv, UNCHANGED vars
  PROVE  IInv'
BY DEF vars, IInv, TypeOK, NeverLost, ActiveWindow, Passed,
       RunsInItsWindow, Used, HandledPosition

(* The dispatcher starts out with its invariant, whatever the table. *)
LEMMA StartKeeps ==
  ASSUME schedule' \in Schedules, uwTick' = 0, activeWindowIndex' = 0,
         majorFrameStopMillis' = 0, lost' = FALSE
  PROVE  IInv'
<1>1. 0 \in 0..(TickWord - 1) /\ 0 \in 0..MajorFrame
  BY DispatchAssumption
<1> QED BY <1>1 DEF IInv, TypeOK, NeverLost, ActiveWindow, Passed, RunsInItsWindow

(* What the stub pushes and the handler pops comes out in its order. *)
LEMMA ReverseTwice ==
  ASSUME NEW S, NEW s \in Seq(S)
  PROVE  /\ Reverse(SubSeq(Reverse(s), 1, Len(s))) = s
         /\ SubSeq(Reverse(s), Len(s) + 1, Len(Reverse(s))) = <<>>
<1> DEFINE r == Reverse(s)
<1>1. r \in Seq(S) /\ Len(r) = Len(s) /\ \A i \in 1..Len(s) : r[i] = s[Len(s) - i + 1]
  BY DEF Reverse
<1>2. SubSeq(r, 1, Len(s)) = r
  <2> HIDE DEF r
  <2> QED BY <1>1
<1>3. Reverse(r) = s
  <2>1. Reverse(r) = [i \in 1..Len(r) |-> r[Len(r) - i + 1]]
    BY DEF Reverse
  <2> HIDE DEF r
  <2>2. \A i \in 1..Len(s) : r[Len(r) - i + 1] = s[i]
    BY <1>1
  <2> QED BY <2>1, <2>2, <1>1
<1>4. SubSeq(r, Len(s) + 1, Len(r)) = <<>>
  <2> HIDE DEF r
  <2> QED BY <1>1
<1> QED BY <1>2, <1>3, <1>4

Parameters ==
    {"&ATTRIBUTES", "&PROCESS_ID", "&RETURN_CODE", "&QUEUING_PORT_NAME",
     "MAX_MESSAGE_SIZE", "MAX_NB_MESSAGE", "PORT_DIRECTION",
     "QUEUING_DISCIPLINE", "&QUEUING_PORT_ID", "QUEUING_PORT_ID", "TIME_OUT",
     "&MESSAGE", "&LENGTH", "LENGTH", "&QUEUING_PORT_STATUS"}

LEMMA StubIsServed ==
  /\ Stub = Served
  /\ \A c \in Calls : Stub[c] \in Seq(Parameters)
  /\ "none" \notin Calls
<1>1. Stub = Served
  BY DEF Stub, Served
<1>2. Calls = {"CREATE_PROCESS", "GET_TIME", "CREATE_QUEUING_PORT",
               "RECEIVE_QUEUING_MESSAGE", "SEND_QUEUING_MESSAGE",
               "GET_QUEUING_PORT_ID", "GET_QUEUING_PORT_STATUS", "STOP_SELF"}
  BY DEF Calls, Stub
<1>3. ASSUME NEW c \in Calls PROVE Stub[c] \in Seq(Parameters)
  <2>1. CASE c = "CREATE_PROCESS"
    <3>1. <<"&ATTRIBUTES", "&PROCESS_ID", "&RETURN_CODE">> \in Seq(Parameters)
      BY DEF Parameters
    <3> QED BY <2>1, <3>1 DEF Stub
  <2>2. CASE c = "GET_TIME"
    <3>1. <<>> \in Seq(Parameters)
      BY DEF Parameters
    <3> QED BY <2>2, <3>1 DEF Stub
  <2>3. CASE c = "CREATE_QUEUING_PORT"
    <3>1. <<"&QUEUING_PORT_NAME", "MAX_MESSAGE_SIZE", "MAX_NB_MESSAGE",
            "PORT_DIRECTION", "QUEUING_DISCIPLINE", "&QUEUING_PORT_ID",
            "&RETURN_CODE">> \in Seq(Parameters)
      BY DEF Parameters
    <3> QED BY <2>3, <3>1 DEF Stub
  <2>4. CASE c = "RECEIVE_QUEUING_MESSAGE"
    <3>1. <<"QUEUING_PORT_ID", "TIME_OUT", "&MESSAGE", "&LENGTH",
            "&RETURN_CODE">> \in Seq(Parameters)
      BY DEF Parameters
    <3> QED BY <2>4, <3>1 DEF Stub
  <2>5. CASE c = "SEND_QUEUING_MESSAGE"
    <3>1. <<"QUEUING_PORT_ID", "&MESSAGE", "LENGTH", "TIME_OUT",
            "&RETURN_CODE">> \in Seq(Parameters)
      BY DEF Parameters
    <3> QED BY <2>5, <3>1 DEF Stub
  <2>6. CASE c = "GET_QUEUING_PORT_ID"
    <3>1. <<"&QUEUING_PORT_NAME", "&QUEUING_PORT_ID", "&RETURN_CODE">> \in Seq(Parameters)
      BY DEF Parameters
    <3> QED BY <2>6, <3>1 DEF Stub
  <2>7. CASE c = "GET_QUEUING_PORT_STATUS"
    <3>1. <<"QUEUING_PORT_ID", "&QUEUING_PORT_STATUS", "&RETURN_CODE">> \in Seq(Parameters)
      BY DEF Parameters
    <3> QED BY <2>7, <3>1 DEF Stub
  <2>8. CASE c = "STOP_SELF"
    <3>1. <<>> \in Seq(Parameters)
      BY DEF Parameters
    <3> QED BY <2>8, <3>1 DEF Stub
  <2> QED BY <1>2, <1>3, <2>1, <2>2, <2>3, <2>4, <2>5, <2>6, <2>7, <2>8
<1> QED BY <1>1, <1>2, <1>3

(* The remainder of a negative number that one modulus lifts. *)
LEMMA ModOfNegative ==
  ASSUME NEW m \in Nat \ {0}, NEW v \in Int, v + m \in 0..(m - 1)
  PROVE  v % m = v + m
OBVIOUS

(* A word comes out of the gate as the argument that went in, if it is a   *)
(* 32-bit one or a TIME_OUT of a register.                                 *)
LEMMA CastOfPushed ==
  ASSUME NEW parameter, NEW v \in Int,
         \/ parameter \in Signed /\ v \in -HalfRegister..(HalfRegister - 1)
         \/ parameter \notin Signed /\ v \in 0..(Register - 1)
  PROVE  Cast(parameter, v % Register) = v
<1>1. HalfRegister \in Nat \ {0} /\ Register \in Nat \ {0}
      /\ Register = HalfRegister + HalfRegister
  BY KernelAssumption DEF Register
<1>2. CASE v >= 0
  <2>1. v \in 0..(Register - 1)
    BY <1>1, <1>2
  <2>2. (Register * 0 + v) % Register = v /\ Register * 0 + v = v
    BY <1>1, <2>1, ModUnique
  <2>3. parameter \in Signed => ~(v >= HalfRegister)
    BY <1>1
  <2> QED BY <2>2, <2>3 DEF Cast
<1>3. CASE v < 0
  <2>1. parameter \in Signed /\ v \in -HalfRegister..(HalfRegister - 1)
    BY <1>3
  <2>2. v + Register \in 0..(Register - 1) /\ v + Register >= HalfRegister
    BY <1>1, <1>3, <2>1
  <2>3. v % Register = v + Register
    BY <1>1, <2>1, <2>2, ModOfNegative
  <2>4. v % Register >= HalfRegister /\ (v % Register) - Register = v
    BY <1>1, <2>2, <2>3
  <2> QED BY <2>1, <2>4 DEF Cast
<1> QED BY <1>2, <1>3

(* The arguments of a call are as many as its parameters, and integers. *)
LEMMA ArgumentsTyped ==
  ASSUME NEW c \in Calls, NEW n \in Integers32, NEW t \in TimeOuts,
         NEW a, a = Arguments(c, n, t)
  PROVE  /\ Len(Served[c]) \in Nat /\ DOMAIN Served[c] = 1..Len(Served[c])
         /\ DOMAIN a = 1..Len(Served[c])
         /\ \A i \in DOMAIN a :
              /\ a[i] \in [of : Parameters, value : Int]
              /\ a[i].of = Served[c][i]
              /\ \/ a[i].of \in Signed
                      /\ a[i].value \in -HalfRegister..(HalfRegister - 1)
                 \/ a[i].of \notin Signed
                      /\ (a[i].of # "TIME_OUT" => a[i].value = 0)
<1>1. Stub[c] \in Seq(Parameters) /\ Stub[c] = Served[c]
  BY StubIsServed
<1>2. n \in -HalfRegister..(HalfRegister - 1) /\ n \in Int /\ t \in Int
      /\ HalfRegister \in Nat
  BY KernelAssumption
<1>3. a = [i \in DOMAIN Stub[c] |->
             [of |-> Stub[c][i],
              value |-> IF Stub[c][i] \in Signed THEN n
                        ELSE IF Stub[c][i] = "TIME_OUT" THEN t ELSE 0]]
  BY DEF Arguments
<1> DEFINE p == Stub[c]
<1>4. /\ Len(p) \in Nat /\ DOMAIN p = 1..Len(p)
      /\ \A i \in DOMAIN p : p[i] \in Parameters
  <2> HIDE DEF p
  <2>1. p \in Seq(Parameters)
    BY <1>1 DEF p
  <2> QED BY <2>1, ElementOfSeq, LenProperties
<1>5. p = Served[c]
  BY <1>1
<1> HIDE DEF p
<1>6. ASSUME NEW i \in DOMAIN a
      PROVE  /\ a[i] = [of |-> p[i], value |-> IF p[i] \in Signed THEN n
                          ELSE IF p[i] = "TIME_OUT" THEN t ELSE 0]
             /\ p[i] \in Parameters
  BY <1>3, <1>4 DEF p
<1>7. DOMAIN a = DOMAIN p
  BY <1>3 DEF p
<1>8. ASSUME NEW i \in DOMAIN a
      PROVE  /\ a[i] \in [of : Parameters, value : Int]
             /\ a[i].of = Served[c][i]
             /\ \/ a[i].of \in Signed
                     /\ a[i].value \in -HalfRegister..(HalfRegister - 1)
                \/ a[i].of \notin Signed
                     /\ (a[i].of # "TIME_OUT" => a[i].value = 0)
  <2>1. a[i].of = p[i] /\ a[i].value = IF p[i] \in Signed THEN n
                          ELSE IF p[i] = "TIME_OUT" THEN t ELSE 0
    BY <1>6
  <2>2. a[i].value \in Int
    BY <1>2, <2>1
  <2>3. a[i] \in [of : Parameters, value : Int]
    BY <1>6, <2>1, <2>2
  <2> QED BY <1>2, <1>5, <2>1, <2>3
<1> QED BY <1>4, <1>5, <1>7, <1>8

-----------------------------------------------------------------------------
(* The time.                                                               *)

(* One cycle more on a counter that shows what went by since it was        *)
(* cleared.                                                                *)
LEMMA OneCycleMore ==
  ASSUME NEW w \in Nat \ {0}, NEW u \in Nat
  PROVE  ((u % w) + 1) % w = (u + 1) % w
<1> DEFINE q == u \div w
           r == u % w
<1>1. /\ r \in 0..(w - 1) /\ q \in Nat /\ u = w * q + r
  BY DivMod
<1> HIDE DEF q, r
<1>2. CASE r + 1 < w
  <2>1. r + 1 \in 0..(w - 1)
    BY <1>1, <1>2
  <2>2. (w * 0 + (r + 1)) % w = r + 1 /\ w * 0 + (r + 1) = r + 1
    BY <1>1, <2>1, ModUnique
  <2>3. (w * q + (r + 1)) % w = r + 1
    BY <1>1, <2>1, ModUnique
  <2>4. u + 1 = w * q + (r + 1)
    BY <1>1
  <2> QED BY <2>2, <2>3, <2>4 DEF r
<1>3. CASE r + 1 = w
  <2>1. (w * 1 + 0) % w = 0 /\ w * 1 + 0 = r + 1
    BY <1>1, <1>3, ModUnique
  <2>2. q + 1 \in Nat /\ 0 \in 0..(w - 1)
    BY <1>1
  <2>3. (w * (q + 1) + 0) % w = 0
    BY <2>2, ModUnique
  <2>4. u + 1 = w * (q + 1) + 0
    BY <1>1, <1>3
  <2> QED BY <2>1, <2>3, <2>4 DEF r
<1> QED BY <1>1, <1>2, <1>3

(* No remainder is more than its number. *)
LEMMA ModAtMost ==
  ASSUME NEW m \in Nat \ {0}, NEW u \in Nat
  PROVE  u % m <= u /\ u % m \in Nat /\ (u < m => u % m = u)
<1> DEFINE q == u \div m
           r == u % m
<1>1. /\ r \in 0..(m - 1) /\ q \in Nat /\ u = m * q + r
  BY DivMod
<1> HIDE DEF q, r
<1>2. m * q \in Nat
  BY <1>1
<1>3. r <= u /\ r \in Nat
  BY <1>1, <1>2
<1>4. ASSUME u < m PROVE r = u
  <2>1. (m * 0 + u) % m = u /\ m * 0 + u = u
    BY <1>4, ModUnique
  <2> QED BY <2>1 DEF r
<1> QED BY <1>3, <1>4 DEF r

(* The time is left alone. *)
LEMMA TimeStays ==
  ASSUME TimeInv, UNCHANGED time, handling' = handling
  PROVE  TimeInv'
BY DEF TimeInv, time

(* The counter is cleared after some cycles that have been counted. *)
LEMMA TimeCleared ==
  ASSUME NEW n \in 0..MaxSince, since' = n, CYCCNT' = 0, dropped' = n
  PROVE  TimeInv'
<1>1. CycleWord \in Nat \ {0} /\ MaxSince \in Nat
  BY KernelAssumption
<1>2. n \in Nat /\ n - n = 0 /\ n <= n
  BY <1>1
<1>3. 0 \in 0..(CycleWord - 1) /\ 0 % CycleWord = 0
  <2>1. 0 \in 0..(CycleWord - 1)
    BY <1>1
  <2>2. (CycleWord * 0 + 0) % CycleWord = 0
    BY <1>1, <2>1, ModUnique
  <2>3. CycleWord * 0 + 0 = 0
    BY <1>1
  <2> QED BY <2>1, <2>2, <2>3
<1> QED BY <1>2, <1>3 DEF TimeInv

-----------------------------------------------------------------------------
(* The invariant holds at reset, and every step keeps it. *)
LEMMA KernelStarts ==
  ASSUME KInit
  PROVE  KIInv
<1>1. /\ Period \in Nat \ {0} /\ MaxSince \in Nat /\ TotalWord \in Nat \ {0}
      /\ CycleWord \in Nat \ {0}
  BY KernelAssumption
<1>2. "none" \notin Calls
  BY StubIsServed
<1>3. ControlOK
  <2>1. 0 \in 0..(Period - 1) /\ 0 \in Nat /\ 0 \in 0..(TotalWord - 1)
    BY <1>1
  <2>2. pc = "reset" /\ call = "none" /\ {handling, tickint, pending} \subseteq BOOLEAN
    BY DEF KInit
  <2> QED BY <2>1, <2>2 DEF KInit, ControlOK, Gate
<1>4. BootIsQuiet
  BY DEF KInit, BootIsQuiet, Booting
<1>5. GateInv
  BY DEF KInit, GateInv, Gate, ArgumentsArrive
<1>6. TimeInv
  <2>1. (CycleWord * 0 + 0) % CycleWord = 0 /\ CycleWord * 0 + 0 = 0
    BY <1>1, ModUnique
  <2> QED BY <1>1, <2>1 DEF KInit, TimeInv
<1> QED BY <1>3, <1>4, <1>5, <1>6 DEF KIInv, KInit, Booting

LEMMA SetClockKeeps ==
  ASSUME KIInv, SetClock
  PROVE  KIInv'
<1>1. Period \in Nat \ {0}
  BY KernelAssumption
<1>2. ControlOK'
  BY <1>1 DEF KIInv, ControlOK, SetClock, time, gate, Gate
<1>3. BootIsQuiet'
  BY DEF KIInv, BootIsQuiet, Booting, SetClock, vars
<1>4. GateInv'
  BY DEF GateInv, SetClock, Gate, ArgumentsArrive
<1>5. TimeInv'
  BY TimeStays DEF KIInv, SetClock
<1>6. Booting'
  BY DEF Booting, SetClock
<1> QED BY <1>2, <1>3, <1>4, <1>5, <1>6 DEF KIInv

LEMMA BootDoneKeeps ==
  ASSUME KIInv, BootDone
  PROVE  KIInv'
<1>1. /\ Period \in Nat \ {0} /\ MaxSince \in Nat
  BY KernelAssumption
<1>2. ControlOK'
  BY DEF KIInv, ControlOK, BootDone, gate, Gate
<1>3. ~Booting'
  BY DEF Booting, BootDone
<1>4. BootIsQuiet'
  BY <1>3 DEF BootIsQuiet
<1>5. GateInv'
  BY DEF GateInv, BootDone, Gate, ArgumentsArrive
<1>6. TimeInv'
  <2>1. since' = 0 /\ CYCCNT' = 0 /\ dropped' = 0 /\ 0 \in 0..MaxSince
    BY <1>1 DEF BootDone
  <2> QED BY <2>1, TimeCleared
<1>7. IInv'
  <2>1. /\ uwTick' = 0 /\ activeWindowIndex' = 0 /\ majorFrameStopMillis' = 0
        /\ lost' = FALSE /\ schedule' \in Schedules
    BY DEF KIInv, BootIsQuiet, Booting, BootDone
  <2> QED BY <2>1, StartKeeps
<1> QED BY <1>2, <1>3, <1>4, <1>5, <1>6, <1>7 DEF KIInv

LEMMA ClockKeeps ==
  ASSUME QuietBoot, KIInv, Clock
  PROVE  KIInv'
<1>1. /\ Period \in Nat \ {0} /\ MaxSince \in Nat /\ CycleWord \in Nat \ {0}
      /\ val \in 0..(Period - 1)
  BY KernelAssumption DEF KIInv, ControlOK
<1>2. val' \in 0..(Period - 1)
  <2>1. val + 1 \in Nat
    BY <1>1
  <2> QED BY <1>1, <2>1, DivMod DEF Clock
<1>3. /\ pc' = pc /\ tickint' = tickint /\ total' = total
      /\ handling' = handling /\ dropped' = dropped
      /\ UNCHANGED vars /\ UNCHANGED gate
      /\ pending' = (pending \/ (val = Period - 1 /\ tickint))
  BY DEF Clock
<1>4. IF Booting THEN since' = since /\ CYCCNT' = CYCCNT
                 ELSE since' = OneMore(since) /\ CYCCNT' = (CYCCNT + 1) % CycleWord
  BY DEF Clock, Booting
<1>5. ControlOK'
  <2>1. pending' \in BOOLEAN
    BY <1>3
  <2> QED BY <1>2, <1>3, <2>1 DEF KIInv, ControlOK, gate, Gate
<1>6. BootIsQuiet'
  <2> SUFFICES ASSUME Booting PROVE BootIsQuiet'
    BY <1>3 DEF BootIsQuiet, Booting
  <2>1. pc = "clocked" => val # Period - 1
    BY DEF Clock, QuietBoot
  <2>2. ~pending'
    BY <1>3, <2>1 DEF KIInv, BootIsQuiet, Booting
  <2> QED BY <1>3, <2>2 DEF KIInv, BootIsQuiet, Booting, vars
<1>7. GateInv'
  BY <1>3 DEF KIInv, GateInv, ArgumentsArrive, gate, vars
<1>8. TimeInv'
  <2>1. CASE Booting
    BY <1>3, <1>4, <2>1, TimeStays DEF KIInv, time
  <2>2. CASE ~Booting
    <3>1. /\ CYCCNT \in Nat /\ since \in 0..MaxSince /\ dropped \in 0..MaxSince
      BY <1>1 DEF KIInv, TimeInv
    <3>2. since' = OneMore(since) /\ CYCCNT' = (CYCCNT + 1) % CycleWord
      BY <1>4, <2>2
    <3>3. since' \in 0..MaxSince /\ dropped' \in 0..MaxSince
      BY <1>1, <1>3, <3>1, <3>2 DEF OneMore
    <3>4. CYCCNT' \in 0..(CycleWord - 1)
      <4>1. CYCCNT + 1 \in Nat
        BY <3>1
      <4> QED BY <1>1, <3>2, <4>1, DivMod
    <3>5. ASSUME ~handling', since' < MaxSince
          PROVE  dropped' <= since' /\ CYCCNT' = (since' - dropped') % CycleWord
      <4>1. since < MaxSince /\ since' = since + 1
        BY <1>1, <3>1, <3>2, <3>5 DEF OneMore
      <4>2. dropped <= since /\ CYCCNT = (since - dropped) % CycleWord
        BY <1>3, <3>5, <4>1 DEF KIInv, TimeInv
      <4>3. since - dropped \in Nat /\ since' - dropped' = (since - dropped) + 1
        BY <1>3, <3>1, <4>1, <4>2
      <4>4. (CYCCNT + 1) % CycleWord = ((since - dropped) + 1) % CycleWord
        BY <1>1, <4>2, <4>3, OneCycleMore
      <4>5. dropped' <= since'
        BY <1>3, <3>1, <4>1, <4>2
      <4> QED BY <3>2, <4>3, <4>4, <4>5
    <3> QED BY <3>3, <3>4, <3>5 DEF TimeInv
  <2> QED BY <2>1, <2>2
<1>9. ~Booting' => IInv'
  BY <1>3, StutterKeeps DEF KIInv, Booting
<1> QED BY <1>5, <1>6, <1>7, <1>8, <1>9 DEF KIInv

(* What is read of the counter is a number of its words. *)
LEMMA ReadIsTyped ==
  ASSUME NEW cycles \in Nat
  PROVE  /\ cycles \div CyclesPerMicro \in Nat
         /\ (cycles \div CyclesPerMicro) * 1000 \in Nat
         /\ convert_cycles_to_time(cycles) \in 0..(NanoWord - 1)
<1>1. CyclesPerMicro \in Nat \ {0} /\ NanoWord \in Nat \ {0}
  BY KernelAssumption
<1>2. cycles \div CyclesPerMicro \in Nat
  BY <1>1, DivMod
<1>3. (cycles \div CyclesPerMicro) * 1000 \in Nat
  BY <1>2
<1> DEFINE n == (cycles \div CyclesPerMicro) * 1000
<1>4. n \in Nat
  BY <1>3
<1> HIDE DEF n
<1>5. n % NanoWord \in 0..(NanoWord - 1)
  BY <1>1, <1>4, DivMod
<1> QED BY <1>2, <1>3, <1>5 DEF n, convert_cycles_to_time

LEMMA SysTickKeeps ==
  ASSUME QuietBoot, KIInv, SysTick
  PROVE  KIInv'
<1>1. /\ TotalWord \in Nat \ {0} /\ NanoWord \in Nat \ {0} /\ MaxSince \in Nat
      /\ CycleWord \in Nat \ {0}
      /\ CYCCNT \in Nat /\ total \in Nat
  <2>1. CYCCNT \in 0..(CycleWord - 1) /\ total \in 0..(TotalWord - 1)
    BY DEF KIInv, ControlOK, TimeInv
  <2> QED BY <2>1, KernelAssumption
<1>2. pc = "thread" /\ pc' = "thread"
  BY DEF SysTick, Interruptible, KIInv, BootIsQuiet, Booting
<1>3. IInv'
  BY <1>2, TickKeeps DEF SysTick, KIInv, Booting, QuietBoot
<1>4. total' \in 0..(TotalWord - 1)
  <2>1. convert_cycles_to_time(CYCCNT) \in Nat
    BY <1>1, ReadIsTyped
  <2>2. total + convert_cycles_to_time(CYCCNT) \in Nat
    BY <1>1, <2>1
  <2> QED BY <1>1, <2>2, DivMod DEF SysTick, TIME_Stop_ns
<1>5. ControlOK'
  BY <1>4 DEF SysTick, KIInv, ControlOK, gate, Gate
<1>6. BootIsQuiet' /\ ~Booting'
  BY <1>2 DEF BootIsQuiet, Booting
<1>7. GateInv'
  BY <1>2 DEF GateInv, Gate, ArgumentsArrive
<1>8. TimeInv'
  <2>1. since' = 0 /\ handling' /\ CYCCNT' = CYCCNT /\ dropped' = dropped
    BY DEF SysTick
  <2> QED BY <1>1, <2>1 DEF KIInv, TimeInv
<1> QED BY <1>3, <1>5, <1>6, <1>7, <1>8 DEF KIInv

LEMMA SysTickEndsKeeps ==
  ASSUME KIInv, SysTickEnds
  PROVE  KIInv'
<1>1. /\ handling /\ handling' = FALSE /\ dropped' = since /\ CYCCNT' = 0
      /\ UNCHANGED <<vars, pc, tickint, pending, val, total, since, gate>>
  BY DEF SysTickEnds, Cleared
<1>2. ~Booting /\ ~Booting'
  BY <1>1 DEF KIInv, BootIsQuiet, Booting
<1>3. IInv'
  BY <1>1, <1>2, StutterKeeps DEF KIInv
<1>4. ControlOK'
  BY <1>1 DEF KIInv, ControlOK, gate, Gate
<1>5. GateInv'
  BY <1>1 DEF KIInv, GateInv, ArgumentsArrive, gate, vars
<1>6. TimeInv'
  BY <1>1, TimeCleared DEF KIInv, TimeInv
<1> QED BY <1>2, <1>3, <1>4, <1>5, <1>6 DEF KIInv, BootIsQuiet

(* The steps of the gate leave dispatcher and time alone. *)
LEMMA GateKeeps ==
  ASSUME KIInv, UNCHANGED <<vars, handling, pending, val, time>>,
         ~Booting, ~Booting'
  PROVE  /\ BootIsQuiet' /\ IInv' /\ TimeInv'
         /\ (val \in 0..(Period - 1) /\ total \in 0..(TotalWord - 1)
               /\ {handling, pending} \subseteq BOOLEAN)'
<1>1. BootIsQuiet'
  BY DEF BootIsQuiet
<1>2. IInv'
  BY StutterKeeps DEF KIInv
<1>3. TimeInv'
  BY TimeStays DEF KIInv
<1>4. (val \in 0..(Period - 1) /\ total \in 0..(TotalWord - 1)
         /\ {handling, pending} \subseteq BOOLEAN)'
  BY DEF KIInv, ControlOK, time
<1> QED BY <1>1, <1>2, <1>3, <1>4

LEMMA CallKeeps ==
  ASSUME KIInv, NEW c \in Calls, NEW n \in Integers32, NEW t \in TimeOuts, Call(c, n, t)
  PROVE  KIInv'
<1>1. /\ pc = "thread" /\ pc' = "svc"
      /\ UNCHANGED <<vars, handling, tickint, pending, val, time>>
      /\ call' = c /\ caller' = activeWindowIndex /\ activeWindowIndex # 0
      /\ passed' = Arguments(c, n, t) /\ stack' = Reverse(Pushed(passed'))
  BY DEF Call, timer
<1>2. ~Booting /\ ~Booting'
  BY <1>1 DEF Booting
<1>3. /\ BootIsQuiet' /\ IInv' /\ TimeInv'
      /\ (val \in 0..(Period - 1) /\ total \in 0..(TotalWord - 1)
            /\ {handling, pending} \subseteq BOOLEAN)'
  BY <1>1, <1>2, GateKeeps
<1>4. ControlOK'
  <2>1. call' # "none"
    BY <1>1, StubIsServed
  <2> QED BY <1>1, <1>3, <2>1 DEF KIInv, ControlOK, Gate
<1>5. GateInv'
  <2>1. \E m \in Integers32, u \in TimeOuts : passed' = Arguments(call', m, u)
    BY <1>1
  <2> QED BY <1>1, <2>1 DEF GateInv, Gate, ArgumentsArrive, vars
<1> QED BY <1>3, <1>4, <1>5 DEF KIInv

LEMMA DisableKeeps ==
  ASSUME KIInv, Disable
  PROVE  KIInv'
<1>1. /\ pc = "svc" /\ pc' = "serving" /\ tickint' = FALSE
      /\ UNCHANGED <<vars, handling, pending, val, time>>
      /\ UNCHANGED <<call, caller, passed, servedFor, stack, argv>>
  BY DEF Disable, gate
<1>2. ~Booting /\ ~Booting'
  BY <1>1 DEF Booting
<1>3. /\ BootIsQuiet' /\ IInv' /\ TimeInv'
      /\ (val \in 0..(Period - 1) /\ total \in 0..(TotalWord - 1)
            /\ {handling, pending} \subseteq BOOLEAN)'
  BY <1>1, <1>2, GateKeeps
<1>4. ControlOK'
  BY <1>1, <1>3 DEF KIInv, ControlOK, Gate
<1>5. GateInv'
  BY <1>1 DEF KIInv, GateInv, Gate, ArgumentsArrive, vars
<1> QED BY <1>3, <1>4, <1>5 DEF KIInv

(* The handler pops the words the stub has pushed, in their order. *)
LEMMA WordsArePopped ==
  ASSUME KIInv, pc = "serving"
  PROVE  /\ Popped(Len(Served[call])) = Pushed(passed)
         /\ SubSeq(stack, Len(Served[call]) + 1, Len(stack)) = <<>>
<1>1. call \in Calls /\ stack = Reverse(Pushed(passed))
  BY DEF KIInv, GateInv, Gate
<1>2. PICK n \in Integers32, t \in TimeOuts : passed = Arguments(call, n, t)
  BY DEF KIInv, GateInv, Gate
<1>3. /\ DOMAIN passed = 1..Len(Served[call]) /\ Len(Served[call]) \in Nat
  BY <1>1, <1>2, ArgumentsTyped
<1> DEFINE w == Pushed(passed)
           S == {w[i] : i \in DOMAIN passed}
           k == Len(Served[call])
<1>4. w = [i \in 1..k |-> w[i]] /\ \A i \in 1..k : w[i] \in S
  BY <1>3 DEF Pushed
<1> HIDE DEF w, S, k
<1>5. w \in Seq(S) /\ Len(w) = k
  BY <1>3, <1>4 DEF k
<1>6. /\ Reverse(SubSeq(Reverse(w), 1, Len(w))) = w
      /\ SubSeq(Reverse(w), Len(w) + 1, Len(Reverse(w))) = <<>>
  BY <1>5, ReverseTwice
<1> QED BY <1>1, <1>5, <1>6 DEF w, k, Popped

LEMMA ServeKeeps ==
  ASSUME KIInv, Serve
  PROVE  KIInv'
<1>1. /\ pc = "serving" /\ pc' = "served"
      /\ UNCHANGED <<vars, handling, tickint, pending, val, time>>
      /\ UNCHANGED <<call, caller, passed>> /\ servedFor' = activeWindowIndex
  BY DEF Serve, timer
<1>2. ~Booting /\ ~Booting'
  BY <1>1 DEF Booting
<1>3. /\ BootIsQuiet' /\ IInv' /\ TimeInv'
      /\ (val \in 0..(Period - 1) /\ total \in 0..(TotalWord - 1)
            /\ {handling, pending} \subseteq BOOLEAN)'
  BY <1>1, <1>2, GateKeeps
<1>4. ControlOK'
  BY <1>1, <1>3 DEF KIInv, ControlOK, Gate
<1>5. /\ call \in Calls /\ caller = activeWindowIndex /\ caller # 0
      /\ \E n \in Integers32, t \in TimeOuts : passed = Arguments(call, n, t)
  BY <1>1 DEF KIInv, GateInv, Gate
<1>6. PICK n \in Integers32, t \in TimeOuts : passed = Arguments(call, n, t)
  BY <1>5
<1>7. /\ DOMAIN Served[call] = DOMAIN passed
      /\ \A i \in DOMAIN passed :
              /\ passed[i] \in [of : Parameters, value : Int]
              /\ passed[i].of = Served[call][i]
              /\ \/ passed[i].of \in Signed
                      /\ passed[i].value \in -HalfRegister..(HalfRegister - 1)
                 \/ passed[i].of \notin Signed
                      /\ (passed[i].of # "TIME_OUT" => passed[i].value = 0)
  BY <1>5, <1>6, ArgumentsTyped
<1>8. /\ argv' = [i \in DOMAIN passed |->
             [Pushed(passed)[i] EXCEPT !.value = Cast(Served[call][i], @)]]
      /\ stack' = <<>>
  <2>1. DOMAIN Pushed(passed) = DOMAIN passed
    BY DEF Pushed
  <2> QED BY <1>1, <2>1, WordsArePopped DEF Serve
<1>9. ASSUME NEW i \in DOMAIN passed
      PROVE  /\ argv'[i].of = Served[call][i]
             /\ \/ argv'[i] = passed[i]
                \/ argv'[i].of = "TIME_OUT" /\ passed[i].value \notin 0..(Register - 1)
  <2> DEFINE v == passed[i].value
             p == passed[i].of
  <2>1. passed[i] = [of |-> p, value |-> v] /\ p = Served[call][i] /\ v \in Int
    BY <1>7
  <2>2. argv'[i] = [of |-> p, value |-> Cast(p, v % Register)]
    <3>1. Pushed(passed)[i] = [of |-> p, value |-> v % Register]
      BY <2>1 DEF Pushed
    <3> QED BY <1>8, <2>1, <3>1
  <2>3. CASE p = "TIME_OUT" /\ v \notin 0..(Register - 1)
    BY <2>1, <2>2, <2>3
  <2>4. CASE ~(p = "TIME_OUT" /\ v \notin 0..(Register - 1))
    <3>1. \/ p \in Signed /\ v \in -HalfRegister..(HalfRegister - 1)
          \/ p \notin Signed /\ v \in 0..(Register - 1)
      <4>1. 0 \in 0..(Register - 1)
        BY KernelAssumption DEF Register
      <4> QED BY <1>7, <2>4, <4>1
    <3>2. Cast(p, v % Register) = v
      <4> HIDE DEF p, v
      <4> QED BY <2>1, <3>1, CastOfPushed
    <3> QED BY <2>1, <2>2, <3>2
  <2> QED BY <2>3, <2>4
<1>10. ArgumentsArrive'
  <2>1. DOMAIN argv' = DOMAIN passed
    BY <1>8
  <2> QED BY <1>1, <1>7, <1>8, <1>9, <2>1 DEF ArgumentsArrive
<1>11. GateInv'
  BY <1>1, <1>5, <1>10 DEF GateInv, Gate, vars
<1> QED BY <1>3, <1>4, <1>11 DEF KIInv

LEMMA EnableKeeps ==
  ASSUME KIInv, Enable
  PROVE  KIInv'
<1>1. /\ pc = "served" /\ pc' = "thread" /\ tickint' = TRUE
      /\ UNCHANGED <<vars, handling, pending, val, time>> /\ call' = "none"
  BY DEF Enable
<1>2. ~Booting /\ ~Booting'
  BY <1>1 DEF Booting
<1>3. /\ BootIsQuiet' /\ IInv' /\ TimeInv'
      /\ (val \in 0..(Period - 1) /\ total \in 0..(TotalWord - 1)
            /\ {handling, pending} \subseteq BOOLEAN)'
  BY <1>1, <1>2, GateKeeps
<1>4. ControlOK'
  BY <1>1, <1>3 DEF ControlOK, Gate
<1>5. GateInv'
  BY <1>1 DEF GateInv, Gate, ArgumentsArrive
<1> QED BY <1>3, <1>4, <1>5 DEF KIInv

LEMMA KernelInvariance ==
  ASSUME QuietBoot
  PROVE  KSpec => []KIInv
<1>1. KInit => KIInv
  BY KernelStarts
<1>2. KIInv /\ [KNext]_kernel => KIInv'
  <2> SUFFICES ASSUME KIInv, [KNext]_kernel PROVE KIInv'
    OBVIOUS
  <2>1. CASE SetClock
    BY <2>1, SetClockKeeps
  <2>2. CASE BootDone
    BY <2>2, BootDoneKeeps
  <2>3. CASE Clock
    BY <2>3, ClockKeeps
  <2>4. CASE SysTick
    BY <2>4, SysTickKeeps
  <2>5. CASE SysTickEnds
    BY <2>5, SysTickEndsKeeps
  <2>6. CASE \E c \in Calls, n \in Integers32, t \in TimeOuts : Call(c, n, t)
    BY <2>6, CallKeeps
  <2>7. CASE Disable
    BY <2>7, DisableKeeps
  <2>8. CASE Serve
    BY <2>8, ServeKeeps
  <2>9. CASE Enable
    BY <2>9, EnableKeeps
  <2>10. CASE UNCHANGED kernel
    <3>1. /\ UNCHANGED vars /\ UNCHANGED <<pc, handling, tickint, pending, val>>
          /\ UNCHANGED time /\ total' = total
          /\ UNCHANGED <<call, caller, passed, servedFor, stack, argv>>
      BY <2>10 DEF kernel, timer, time, gate
    <3>2. ControlOK' /\ TimeInv'
      BY <3>1, TimeStays DEF KIInv, ControlOK, Gate
    <3>3. BootIsQuiet' /\ GateInv'
      BY <3>1 DEF KIInv, BootIsQuiet, Booting, GateInv, Gate, ArgumentsArrive, vars
    <3>4. ~Booting' => IInv'
      BY <3>1, StutterKeeps DEF KIInv, Booting
    <3> QED BY <3>2, <3>3, <3>4 DEF KIInv
  <2> QED BY <2>1, <2>2, <2>3, <2>4, <2>5, <2>6, <2>7, <2>8, <2>9, <2>10 DEF KNext
<1> QED BY <1>1, <1>2, PTL DEF KSpec

-----------------------------------------------------------------------------

(* With the timer, its lost and delayed ticks and the calls in between:    *)
(* whoever runs, runs in its window, for every table that tiles the frame  *)
(* (SysTick_Handler and scheduler_partitionScheduler).                     *)
THEOREM KernelRunsInItsWindow ==
  ASSUME QuietBoot
  PROVE  KSpec => []RunsInItsWindow
<1>1. KIInv => RunsInItsWindow
  BY DEF KIInv, BootIsQuiet, IInv, RunsInItsWindow
<1> QED BY <1>1, KernelInvariance, PTL

(* ... the search for the next window stays inside the table... *)
THEOREM KernelNeverLost ==
  ASSUME QuietBoot
  PROVE  KSpec => []NeverLost
<1>1. KIInv => NeverLost
  BY DEF KIInv, BootIsQuiet, IInv, NeverLost
<1> QED BY <1>1, KernelInvariance, PTL

(* ... a call is served for the partition whose process has made it        *)
(* (SVC_Handler, getActivePartition)...                                    *)
THEOREM ServedForCallerTheorem ==
  ASSUME QuietBoot
  PROVE  KSpec => []ServedForCaller
<1>1. KIInv => ServedForCaller
  BY DEF KIInv, GateInv, Gate, ServedForCaller
<1> QED BY <1>1, KernelInvariance, PTL

(* ... and with the arguments its stub was called with, in their order:    *)
(* every 32-bit integer with its value and sign, whatever the width of a   *)
(* register, and a TIME_OUT as far as a register holds it.                 *)
THEOREM ArgumentsArriveTheorem ==
  ASSUME QuietBoot
  PROVE  KSpec => []ArgumentsArrive
<1>1. KIInv => ArgumentsArrive
  BY DEF KIInv, GateInv
<1> QED BY <1>1, KernelInvariance, PTL

(* ... and every variable keeps its type. *)
THEOREM KTypeOKTheorem ==
  ASSUME QuietBoot
  PROVE  KSpec => []KTypeOK
<1>1. ASSUME KIInv PROVE KTypeOK
  <2>1. /\ schedule \in Schedules \cup {<<>>}
        /\ uwTick \in 0..(TickWord - 1)
        /\ activeWindowIndex \in {0} \cup DOMAIN schedule
        /\ majorFrameStopMillis \in 0..MajorFrame
        /\ lost \in BOOLEAN
    <3>1. 0 \in 0..(TickWord - 1) /\ 0 \in 0..MajorFrame
      BY DispatchAssumption
    <3> QED BY <1>1, <3>1 DEF KIInv, BootIsQuiet, IInv, TypeOK
  <2>2. call \in Calls \cup {"none"}
    BY <1>1 DEF KIInv, ControlOK, GateInv
  <2>3. {handling, tickint, pending, lost} \subseteq BOOLEAN
    BY <1>1, <2>1 DEF KIInv, ControlOK
  <2>4. CYCCNT \in 0..(CycleWord - 1) /\ {since, dropped} \subseteq 0..MaxSince
    BY <1>1 DEF KIInv, TimeInv
  <2> QED BY <1>1, <2>1, <2>2, <2>3, <2>4 DEF KIInv, ControlOK, KTypeOK, Gate
<1> QED BY <1>1, KernelInvariance, PTL

(* What is read of a counter that has counted u cycles, in time. *)
LEMMA ReadAtMost ==
  ASSUME NEW u \in Nat, NEW x, x = convert_cycles_to_time(u % CycleWord)
  PROVE  /\ x \in 0..(NanoWord - 1)
         /\ x * CyclesPerMicro <= u * 1000
         /\ u < CycleWord /\ (u \div CyclesPerMicro) * 1000 < NanoWord
              => (u - CyclesPerMicro) * 1000 < x * CyclesPerMicro
<1> DEFINE C == CyclesPerMicro
           c == u % CycleWord
           q == c \div C
           y == q * 1000
<1>1. C \in Nat \ {0} /\ CycleWord \in Nat \ {0} /\ NanoWord \in Nat \ {0}
  BY KernelAssumption
<1>2. c \in Nat /\ c <= u /\ (u < CycleWord => c = u)
  BY <1>1, ModAtMost
<1>3. x \in 0..(NanoWord - 1)
  BY <1>2, ReadIsTyped
<1>4. q \in Nat /\ c % C \in 0..(C - 1) /\ c = C * q + (c % C)
  <2> HIDE DEF c
  <2> QED BY <1>1, <1>2, DivMod
<1>5. x = y % NanoWord
  BY DEF convert_cycles_to_time
<1>6. y \in Nat /\ y * C = (C * q) * 1000 /\ C * q \in Nat
  <2> HIDE DEF q
  <2> QED BY <1>1, <1>4
<1>7. C * q <= c /\ c - C < C * q
  <2> DEFINE k == C * q
             r == c % C
  <2>1. k \in Nat /\ c = k + r /\ r \in 0..(C - 1) /\ C \in Nat
    BY <1>1, <1>4, <1>6
  <2> HIDE DEF k, r, C, c
  <2>2. k <= c /\ c - C < k
    BY <2>1
  <2> QED BY <2>2 DEF k
<1>8. x <= y /\ (y < NanoWord => x = y) /\ x \in Nat
  <2> HIDE DEF y
  <2> QED BY <1>1, <1>5, <1>6, ModAtMost
<1> DEFINE k == C * q
<1>9. k \in Nat /\ y * C = k * 1000 /\ k <= c /\ c - C < k
  BY <1>6, <1>7
<1>10. x * C <= y * C
  <2>1. PICK d \in Nat : y = x + d
    <3>1. y - x \in Nat /\ y = x + (y - x)
      <4> HIDE DEF y
      <4> QED BY <1>6, <1>8
    <3> QED BY <3>1
  <2>2. d * C \in Nat /\ y * C = x * C + d * C /\ x * C \in Nat
    <3> HIDE DEF y, C
    <3> QED BY <1>1, <1>8, <2>1
  <2> HIDE DEF y, C
  <2> QED BY <2>2
<1>11. x * C <= u * 1000
  <2>1. x * C \in Int
    <3> HIDE DEF C
    <3> QED BY <1>1, <1>8
  <2> HIDE DEF k, y, c
  <2> QED BY <1>2, <1>9, <1>10, <2>1
<1>12. ASSUME u < CycleWord, (u \div C) * 1000 < NanoWord
       PROVE  (u - C) * 1000 < x * C
  <2>1. c = u
    BY <1>2, <1>12
  <2>2. y < NanoWord
    BY <2>1, <1>12
  <2>3. x * C = k * 1000
    BY <1>8, <1>9, <2>2
  <2>4. u - C < k
    BY <1>9, <2>1
  <2> HIDE DEF k, C
  <2> QED BY <1>1, <1>9, <2>3, <2>4
<1> QED BY <1>3, <1>11, <1>12

(* ... and the time keeps pace with the cycles that pass, whatever the     *)
(* widths of counter and nanoseconds, however long calls keep the tick     *)
(* away and however long the handler takes between reading the counter     *)
(* and clearing it (TIME_Add_Count).                                       *)
THEOREM TimeKeepsPaceTheorem ==
  ASSUME QuietBoot
  PROVE  KSpec => TimeKeepsPace
<1> DEFINE added == (total' - total + TotalWord) % TotalWord
           counted == since - dropped
           Pace == /\ added * CyclesPerMicro <= since * 1000
                   /\ counted < CycleWord
                        /\ (counted \div CyclesPerMicro) * 1000 < NanoWord
                      => (counted - CyclesPerMicro) * 1000 < added * CyclesPerMicro
<1>1. ASSUME KIInv, SysTick, since < MaxSince
      PROVE  Pace
  <2>1. /\ since \in 0..MaxSince /\ dropped \in 0..MaxSince /\ MaxSince \in Nat
        /\ dropped <= since /\ CYCCNT = (since - dropped) % CycleWord
        /\ TotalWord \in Nat \ {0} /\ total \in 0..(TotalWord - 1)
        /\ NanoWord \in Nat \ {0} /\ NanoWord <= TotalWord
        /\ CyclesPerMicro \in Nat
    <3>1. ~handling
      BY <1>1 DEF SysTick, Interruptible
    <3> QED BY <1>1, <3>1, KernelAssumption DEF KIInv, ControlOK, TimeInv
  <2> DEFINE u == since - dropped
             x == convert_cycles_to_time(u % CycleWord)
  <2>2. u \in Nat /\ u <= since
    BY <2>1
  <2>3. /\ x \in 0..(NanoWord - 1)
        /\ x * CyclesPerMicro <= u * 1000
        /\ u < CycleWord /\ (u \div CyclesPerMicro) * 1000 < NanoWord
              => (u - CyclesPerMicro) * 1000 < x * CyclesPerMicro
    <3> HIDE DEF u
    <3> QED BY <2>2, ReadAtMost
  <2>4. total' = (total + x) % TotalWord
    BY <1>1, <2>1 DEF SysTick, TIME_Stop_ns
  <2>5. added = x
    <3> HIDE DEF x
    <3>1. x \in 0..(TotalWord - 1)
      BY <2>1, <2>3
    <3> QED BY <2>1, <2>4, <3>1, AddedModulo
  <2>6. x * CyclesPerMicro <= since * 1000
    <3>1. x * CyclesPerMicro \in Int /\ since \in Nat
      <4> HIDE DEF x
      <4> QED BY <2>1, <2>3
    <3> HIDE DEF x, u
    <3> QED BY <2>2, <2>3, <3>1
  <2> QED BY <2>3, <2>5, <2>6
<1>2. ASSUME KIInv, [KNext]_kernel
      PROVE  [SysTick /\ since < MaxSince => Pace]_kernel
  BY <1>1, <1>2
<1> QED BY <1>2, KernelInvariance, PTL DEF KSpec, TimeKeepsPace
=============================================================================
