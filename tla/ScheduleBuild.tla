--------------------------- MODULE ScheduleBuild ---------------------------
(***************************************************************************)
(* How the kernel turns the unordered partition windows of the XML         *)
(* configuration into the ordered table the tick handler walks:            *)
(* scheduler_buildSchedule of kernel/part_scheduler.c, called once by main *)
(* before interrupts are let in.                                           *)
(*                                                                         *)
(* One step is one round of the while loop: a search of every configured   *)
(* window for one that starts at desiredStartTime, then an append of that  *)
(* window or of an idle window.  The two nested for loops visit the        *)
(* windows in one fixed order, so a configuration is the sequence of its   *)
(* windows in that order.                                                  *)
(***************************************************************************)
EXTENDS Naturals, Sequences, FiniteSets, FiniteSetsExt

CONSTANTS
    Configurations,   \* configurations (sequences of windows) to build from
    PartitionIds,     \* ids of the partitions the kernel knows
    IdlePartition,    \* &partitions[0]
    NoPartition,      \* the NULL partition pointer
    MaxNumWindows,    \* MAX_NUM_WINDOWS: length of the static schedule array
    Sentinel,         \* 50000 in the code: "no later start seen"
    MajorFrame,       \* length of the major frame
    Word              \* 2^32: times are uint32_t

Window == [id : Nat, start : Nat, duration : Nat]

ASSUME BuildAssumption ==
    /\ {MaxNumWindows, Sentinel, MajorFrame, Word} \subseteq Nat
    /\ MajorFrame <= Sentinel
    /\ Sentinel < Word
    /\ Configurations \subseteq Seq(Window)
    /\ {IdlePartition, NoPartition} \cap PartitionIds = {}
    /\ IdlePartition # NoPartition

VARIABLES
    windows,                \* the configuration; never written
    schedule,               \* the table built so far
    desiredStartTime,
    earliestNextStartTime,
    numTotalWindows,
    numGeneratedWindows,
    pc                      \* "build", "built" or, in Error_Handler, "panic"

vars == <<windows, schedule, desiredStartTime, earliestNextStartTime,
          numTotalWindows, numGeneratedWindows, pc>>

Entry(p, s, d) == [partition |-> p, start |-> s, duration |-> d]

PartitionOf(id) == IF id \in PartitionIds THEN id ELSE NoPartition

(* Mutant of Init: no sentinel is set, "no later start" is UINT32_MAX. *)
InitNoSentinel ==
    /\ windows \in Configurations
    /\ schedule = <<>>
    /\ desiredStartTime = 0
    /\ earliestNextStartTime = Word - 1
    /\ numTotalWindows = Len(windows)
    /\ numGeneratedWindows = 0
    /\ pc = "build"

Init ==
    /\ windows \in Configurations
    /\ schedule = <<>>
    /\ desiredStartTime = 0
    /\ earliestNextStartTime = Sentinel
    /\ numTotalWindows = Len(windows)
    /\ numGeneratedWindows = 0
    /\ pc = "build"

-----------------------------------------------------------------------------
(* k is where the search stops: the first window that starts on time. *)
Matches(k) ==
    /\ windows[k].start = desiredStartTime
    /\ \A i \in 1..(k - 1) : windows[i].start # desiredStartTime

(* Mutant of EarliestAfter: windows already placed are looked at again. *)
EarliestOfAll(S) == Min({earliestNextStartTime} \cup {windows[i].start : i \in S})

(* Mutant of EarliestAfter: the latest later start seen, not the earliest. *)
LatestAfter(S) ==
    LET later == {t \in {windows[i].start : i \in S} : t > desiredStartTime}
    IN  IF later = {} THEN earliestNextStartTime ELSE Max(later)

(* The earliest later start, once the windows of S have been looked at. *)
EarliestAfter(S) ==
    Min({earliestNextStartTime} \cup
        {t \in {windows[i].start : i \in S} : t > desiredStartTime})

(* Mutant of EndRound: the panic check is off by one. *)
EndRoundEarlyPanic ==
    /\ numGeneratedWindows' = numGeneratedWindows + 1
    /\ pc' = IF numGeneratedWindows' >= MaxNumWindows THEN "panic" ELSE "build"

(* The common end of a round, in which the panic check comes after the     *)
(* write to the table.                                                     *)
EndRound ==
    /\ numGeneratedWindows' = numGeneratedWindows + 1
    /\ pc' = IF numGeneratedWindows' > MaxNumWindows THEN "panic" ELSE "build"

(* A window starts at the desired time.  The earliest start seen on the    *)
(* way to it stays for the rounds to come.                                 *)
PlaceWindow(k) ==
    /\ pc = "build" /\ numGeneratedWindows < numTotalWindows
    /\ Matches(k)
    /\ schedule' = Append(schedule, Entry(PartitionOf(windows[k].id),
                                          windows[k].start,
                                          windows[k].duration))
    /\ desiredStartTime' = (desiredStartTime + windows[k].duration) % Word
    /\ earliestNextStartTime' = EarliestAfter(1..(k - 1))
    /\ UNCHANGED <<windows, numTotalWindows>>
    /\ EndRound

(* Mutant of PlaceIdle: the idle window is not added to the total. *)
PlaceIdleUncounted ==
    /\ pc = "build" /\ numGeneratedWindows < numTotalWindows
    /\ \A k \in DOMAIN windows : windows[k].start # desiredStartTime
    /\ LET next == EarliestAfter(DOMAIN windows) IN
         /\ schedule' = Append(schedule,
                               Entry(IdlePartition, desiredStartTime,
                                     (Word + next - desiredStartTime) % Word))
         /\ desiredStartTime' = next
    /\ earliestNextStartTime' = Sentinel
    /\ UNCHANGED <<windows, numTotalWindows>>
    /\ EndRound

(* No window starts at the desired time: the stretch up to the earliest    *)
(* later start becomes an idle window.                                     *)
PlaceIdle ==
    /\ pc = "build" /\ numGeneratedWindows < numTotalWindows
    /\ \A k \in DOMAIN windows : windows[k].start # desiredStartTime
    /\ LET next == EarliestAfter(DOMAIN windows) IN
         /\ schedule' = Append(schedule,
                               Entry(IdlePartition, desiredStartTime,
                                     (Word + next - desiredStartTime) % Word))
         /\ desiredStartTime' = next
    /\ earliestNextStartTime' = Sentinel
    /\ numTotalWindows' = numTotalWindows + 1
    /\ UNCHANGED windows
    /\ EndRound

(* The loop ends: as many windows generated as there are. *)
Finish ==
    /\ pc = "build" /\ numGeneratedWindows >= numTotalWindows
    /\ pc' = "built"
    /\ UNCHANGED <<windows, schedule, desiredStartTime, earliestNextStartTime,
                   numTotalWindows, numGeneratedWindows>>

Next ==
    \/ \E k \in DOMAIN windows : PlaceWindow(k)
    \/ PlaceIdle
    \/ Finish

(* The builder runs before anything else may: main calls it and waits. *)
Spec == Init /\ [][Next]_vars /\ WF_vars(Next)

-----------------------------------------------------------------------------
(* Which configurations the search copes with.                             *)

EndOf(w) == w.start + w.duration

Covered(c, t) == \E i \in DOMAIN c : c[i].start <= t /\ t < EndOf(c[i])

(* The windows last, end within the major frame and do not overlap. *)
WellFormed(c) ==
    /\ \A i \in DOMAIN c : c[i].duration > 0 /\ EndOf(c[i]) <= MajorFrame
    /\ \A i, j \in DOMAIN c :
         i # j => EndOf(c[i]) <= c[j].start \/ EndOf(c[j]) <= c[i].start

(* A window listed before an earlier one is separated from it by idle time. *)
Orderly(c) ==
    /\ WellFormed(c)
    /\ \A i, j \in DOMAIN c :
         i < j /\ c[i].start > c[j].start =>
            \E t \in EndOf(c[j])..(c[i].start - 1) : ~Covered(c, t)

(* The table a well-formed configuration calls for: its windows, and an    *)
(* idle window for each gap in front of one.                               *)
WindowEntry(w) == Entry(PartitionOf(w.id), w.start, w.duration)

Expected(c) ==
    LET starts == {c[i].start : i \in DOMAIN c}
        ends   == {0} \cup {EndOf(c[i]) : i \in DOMAIN c}
        Gap(g) == g[1] < g[2] /\ \A t \in g[1]..(g[2] - 1) : ~Covered(c, t)
    IN  {WindowEntry(c[i]) : i \in DOMAIN c} \cup
        {Entry(IdlePartition, g[1], g[2] - g[1]) :
            g \in {h \in ends \X starts : Gap(h)}}

-----------------------------------------------------------------------------
(* Properties                                                              *)

ScheduleEntry == [partition : PartitionIds \cup {IdlePartition, NoPartition},
                  start : 0..(Word - 1), duration : Nat]

(* Every variable keeps its type; times stay within a machine word. *)
TypeOK ==
    /\ windows \in Configurations
    /\ schedule \in Seq(ScheduleEntry)
    /\ desiredStartTime \in 0..(Word - 1)
    /\ earliestNextStartTime \in 0..Sentinel
    /\ numTotalWindows \in Nat
    /\ numGeneratedWindows \in Nat
    /\ pc \in {"build", "built", "panic"}

(* The table is an ordered list of windows without holes: the first starts *)
(* with the frame, each lasts, and the next starts where it ends           *)
(* (part_scheduler.c:159, "Create an ordered list of windows").            *)
Ordered ==
    /\ Len(schedule) > 0 => schedule[1].start = 0
    /\ \A i \in DOMAIN schedule : schedule[i].duration > 0
    /\ \A i \in 1..(Len(schedule) - 1) :
         schedule[i + 1].start = EndOf(schedule[i])

(* An idle window takes no time from a configured one, and every other     *)
(* entry is a configured window (part_scheduler.c:166, the implicit idle). *)
IdleIsFree ==
    \A i \in DOMAIN schedule :
        LET e == schedule[i] IN
        \/ e \in {WindowEntry(windows[k]) : k \in DOMAIN windows}
        \/ /\ e.partition = IdlePartition
           /\ \A t \in e.start..(EndOf(e) - 1) : ~Covered(windows, t)

(* The finished table is exactly the one the configuration calls for:      *)
(* every window once, an idle window per gap, in order of time.            *)
BuiltAsExpected ==
    pc = "built" =>
        /\ {schedule[i] : i \in DOMAIN schedule} = Expected(windows)
        /\ Len(schedule) = Cardinality(Expected(windows))

(* When the frame ends with a window, the finished table reaches its end,  *)
(* so that the tick handler finds a window for every position              *)
(* (part_scheduler.c:166-168).                                             *)
CoversFrame ==
    pc = "built" /\ (\E k \in DOMAIN windows : EndOf(windows[k]) = MajorFrame)
        => /\ Len(schedule) > 0
           /\ EndOf(schedule[Len(schedule)]) = MajorFrame

(* The loop ends: with the table, or with a kernel panic if the table      *)
(* would need more entries than there is room for.                         *)
EventuallyBuiltOrPanics ==
    <>(pc = IF Cardinality(Expected(windows)) <= MaxNumWindows
            THEN "built" ELSE "panic")
=============================================================================
