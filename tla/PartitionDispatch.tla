------------------------- MODULE PartitionDispatch -------------------------
(***************************************************************************)
(* Time partitioning: scheduler_partitionScheduler of                      *)
(* kernel/part_scheduler.c, which SysTick_Handler calls once a             *)
(* millisecond to find the partition whose window it is.                   *)
(*                                                                         *)
(* Indices count from 1 here; the code's -1, "before the first window", is *)
(* 0.  The pointer activeWindow always is &schedule[activeWindowIndex], so *)
(* one variable stands for both.                                           *)
(***************************************************************************)
EXTENDS Naturals, Sequences, FiniteSetsExt

CONSTANTS
    Schedules,      \* tables scheduler_buildSchedule may have left behind
    NoPartition,    \* the NULL partition pointer
    MajorFrame,     \* majorFrameSeconds (in milliseconds, despite its name)
    TickWord        \* 2^32: the tick counter is a uint32_t

ASSUME DispatchAssumption ==
    /\ MajorFrame \in Nat \ {0}
    /\ TickWord \in Nat /\ TickWord >= MajorFrame

VARIABLES
    schedule,               \* the table; never written once built
    uwTick,                 \* HAL_GetTick()
    activeWindowIndex,
    majorFrameStopMillis,
    lost                    \* the search has left the array

vars == <<schedule, uwTick, activeWindowIndex, majorFrameStopMillis, lost>>

EndOf(w) == w.start + w.duration

(* Entries of the array with a partition; those never written have none. *)
Used == {i \in DOMAIN schedule : schedule[i].partition # NoPartition}

Init ==
    /\ schedule \in Schedules
    /\ uwTick = 0
    /\ activeWindowIndex = 0
    /\ majorFrameStopMillis = 0
    /\ lost = FALSE

-----------------------------------------------------------------------------
PosMajorFrameMillis == uwTick % MajorFrame

(* Mutants of WindowIsOver: the window is kept one tick too long; a new    *)
(* major frame is not noticed.                                             *)
WindowIsOverLate ==
    \/ majorFrameStopMillis < PosMajorFrameMillis
    \/ PosMajorFrameMillis = 0

WindowIsOverInFrame == majorFrameStopMillis <= PosMajorFrameMillis

(* The active window has ended, or a new major frame begins. *)
WindowIsOver ==
    \/ majorFrameStopMillis <= PosMajorFrameMillis
    \/ PosMajorFrameMillis = 0

(* Mutant of SearchFrom: the index is not reset for a new major frame. *)
SearchOnward == activeWindowIndex

(* A new major frame starts again from the first entry. *)
SearchFrom == IF PosMajorFrameMillis = 0 THEN 0 ELSE activeWindowIndex

(* Mutant of ActivateNext: durations are added up over the frames. *)
ActivateNextAddedUp ==
    LET next == {i \in Used : i > SearchFrom} IN
    IF next = {}
      THEN /\ lost' = TRUE
           /\ UNCHANGED <<activeWindowIndex, majorFrameStopMillis>>
      ELSE /\ activeWindowIndex' = Min(next)
           /\ majorFrameStopMillis' =
                majorFrameStopMillis + schedule[Min(next)].duration
           /\ UNCHANGED lost

(* The next entry with a partition becomes active, for its own duration. *)
ActivateNext ==
    LET next == {i \in Used : i > SearchFrom} IN
    IF next = {}
      THEN /\ lost' = TRUE      \* whatever lies behind the array is taken
           /\ UNCHANGED <<activeWindowIndex, majorFrameStopMillis>>
      ELSE /\ activeWindowIndex' = Min(next)
           /\ majorFrameStopMillis' = EndOf(schedule[Min(next)])
           /\ UNCHANGED lost

PartitionScheduler ==
    IF WindowIsOver
      THEN ActivateNext
      ELSE UNCHANGED <<activeWindowIndex, majorFrameStopMillis, lost>>

(* One SysTick: the position is read before the tick is counted. *)
Tick ==
    /\ ~lost
    /\ PartitionScheduler
    /\ uwTick' = (uwTick + 1) % TickWord
    /\ UNCHANGED schedule

Next == Tick

(* The timer never stops. *)
Spec == Init /\ [][Next]_vars /\ WF_vars(Tick)

-----------------------------------------------------------------------------
(* Tables the dispatcher is made for: in order of time, without holes up   *)
(* to the end of the frame, ending with a window that has a partition.     *)
TilesFrame(s) ==
    /\ s # <<>>
    /\ \A i \in DOMAIN s : s[i].duration > 0
    /\ \A i, j \in DOMAIN s : i < j => EndOf(s[i]) <= s[j].start
    /\ \A t \in 0..(MajorFrame - 1) :
         \E i \in DOMAIN s : s[i].start <= t /\ t < EndOf(s[i])
    /\ \A i \in DOMAIN s : EndOf(s[i]) <= MajorFrame
    /\ s[Len(s)].partition # NoPartition

(* The position the last tick was handled at. *)
HandledPosition == ((uwTick + TickWord - 1) % TickWord) % MajorFrame

-----------------------------------------------------------------------------
(* Properties                                                              *)

(* Every variable keeps its type. *)
TypeOK ==
    /\ schedule \in Schedules
    /\ uwTick \in 0..(TickWord - 1)
    /\ activeWindowIndex \in {0} \cup DOMAIN schedule
    /\ majorFrameStopMillis \in 0..MajorFrame
    /\ lost \in BOOLEAN

(* Whoever runs, runs in time: the active window is not over, and a window *)
(* whose time it is, is the active one, also in the frame the tick counter *)
(* cuts short when it wraps around (part_scheduler.c:72-88).               *)
RunsInItsWindow ==
    activeWindowIndex # 0 =>
        /\ HandledPosition < EndOf(schedule[activeWindowIndex])
        /\ \A i \in Used :
             schedule[i].start <= HandledPosition
               /\ HandledPosition < EndOf(schedule[i])
             => i = activeWindowIndex

(* The search for a window never leaves the array (part_scheduler.c:82). *)
NeverLost == ~lost

(* No partition starves: each of its windows comes round again and again,  *)
(* also across the wrap of the tick counter.                               *)
EveryWindowComesRound ==
    \A i \in 1..MajorFrame : []<>(i \in Used => activeWindowIndex = i)
=============================================================================
