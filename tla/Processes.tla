----------------------------- MODULE Processes -----------------------------
(***************************************************************************)
(* The processes of the partitions: CREATE_PROCESS and STOP_SELF as the    *)
(* kernel serves them (kernel/process.c, kernel/part_scheduler.c), the     *)
(* choice of the process that runs, and the context switch of              *)
(* SysTick_Handler.                                                        *)
(*                                                                         *)
(* System calls run at a higher priority than the tick and with its        *)
(* interrupt masked (svc_handler.c:34, 155), so each is one step.  Which   *)
(* partition a tick gives the processor to is left open here: it is        *)
(* PartitionDispatch's to say.                                             *)
(*                                                                         *)
(* A context is the thread it belongs to: a number drawn at each process   *)
(* creation.  Thread 0 is main's own loop on the kernel stack.  Memory is  *)
(* counted in units of sizeof(ARM_context_state), 64 bytes, from the base  *)
(* of the partition's DATA region.                                         *)
(***************************************************************************)
EXTENDS Integers, FiniteSetsExt

CONSTANTS
    Partitions,
    IdlePartition,      \* partitions[0]: its one process only spins
    NumSlots,           \* MAX_PROCESSES_PER_PARTITIONS
    Priorities,         \* BASE_PRIORITY values the applications ask for
    StackSizes,         \* STACK_SIZE values the applications ask for
    DataSize,           \* size of a partition's DATA region
    DefaultStack,       \* 1024: what create_process writes to its argument
    MainReserve,        \* initial mem_offset (createCStructs.py writes 1024)
    WorkersStop,        \* may processes other than main call STOP_SELF?
    MaxThreads,         \* bound on process creations, the mains included
    Word,               \* 2^32: sizes and offsets are uint32_t
    MaxTick             \* bound on the tick count: it saturates there

ASSUME ProcessesAssumption ==
    /\ IsFiniteSet(Partitions) /\ IdlePartition \in Partitions
    /\ NumSlots \in Nat \ {0}
    /\ Priorities \subseteq Nat /\ 1 \in Priorities
    /\ StackSizes \subseteq Nat
    /\ {DataSize, DefaultStack, MainReserve, MaxThreads, MaxTick, Word} \subseteq Nat
    /\ WorkersStop \in BOOLEAN

VARIABLES
    processes,              \* partition, slot: status of the process
    stackpointer,           \* partition, slot: thread whose context it holds
    index_running_process,  \* partition: slot
    attributes,             \* partition: the application's attributes
    mem_offset,             \* partition: offset of the next stack
    active_process,         \* SysTick_Handler's static: <<p, slot>> or None
    activePartition,        \* activeWindow->partition
    running,                \* the thread on the processor
    home,                   \* thread: <<p, slot>> it was created in
    idling,                 \* threads past their STOP_SELF: they only spin
    called,                 \* mains that have called CREATE_PROCESS
    uwTick,
    undefined               \* an uninitialised pointer has been followed

vars == <<processes, stackpointer, index_running_process, attributes,
          mem_offset, active_process, activePartition, running, home, idling,
          called, uwTick, undefined>>

Slots == 0..(NumSlots - 1)
Threads == DOMAIN home
None == <<>>

Process(state, priority, stamp, top, size) ==
    [PROCESS_STATE |-> state, CURRENT_PRIORITY |-> priority,
     tickStamp |-> stamp, top |-> top, size |-> size]

(* An application's PROCESS_ATTRIBUTE_TYPE, filled in for a stack size.    *)
Filled(size) == [STACK_SIZE |-> size]

(* A created process's first context lies above the address it is given,   *)
(* and restoring it leaves the stack pointer above that context.           *)
StackTopBelow(addr) == addr - 2    \* mutant: the context below the address

StackTop(addr) == addr + 2

(* What create_process makes of the slot it has found. *)
NewProcessNotStarted(prio, addr, size) ==   \* mutant: never made READY
    Process("DORMANT", prio, uwTick, StackTop(addr), size)

NewProcess(prio, addr, size) ==
    Process("READY", prio, uwTick, StackTop(addr), size)

-----------------------------------------------------------------------------
(* After init_partitions: in each partition a main, READY, in slot 0.      *)
MainOf == CHOOSE f \in [Partitions -> 1..Cardinality(Partitions)] :
              \A p, q \in Partitions : p # q => f[p] # f[q]

Init ==
    /\ processes =
         [p \in Partitions |-> [i \in Slots |->
            IF i = 0 THEN Process("READY", 1, 0, StackTop(0), MainReserve)
                     ELSE Process("DORMANT", 1, 0, 0, 0)]]
    /\ stackpointer = [p \in Partitions |-> [i \in Slots |-> MainOf[p]]]
    /\ index_running_process = [p \in Partitions |-> 0]
    /\ attributes = [p \in Partitions |-> Filled(DefaultStack)]
    /\ mem_offset = [p \in Partitions |-> MainReserve]
    /\ active_process = None
    /\ activePartition = IdlePartition
    /\ running = 0
    /\ home = [t \in 1..Cardinality(Partitions) |->
                 <<CHOOSE p \in Partitions : MainOf[p] = t, 0>>]
    /\ idling = {}
    /\ called = {}
    /\ uwTick = 0
    /\ undefined = FALSE

-----------------------------------------------------------------------------
(* scheduler_processScheduler                                              *)

Ready(ps) == {i \in Slots : ps[i].PROCESS_STATE = "READY"}

BetterIfLater(ps, i, j) ==    \* mutant: the comparison of the stamps turned round
    /\ ps[i].PROCESS_STATE = "READY"
    /\ ps[i].CURRENT_PRIORITY >= ps[j].CURRENT_PRIORITY
    /\ ps[i].tickStamp > ps[j].tickStamp

(* A later slot is a better candidate: as urgent, and created earlier. *)
Better(ps, i, j) ==
    /\ ps[i].PROCESS_STATE = "READY"
    /\ ps[i].CURRENT_PRIORITY >= ps[j].CURRENT_PRIORITY
    /\ ps[i].tickStamp < ps[j].tickStamp

CandidateFirst(ps) == 0    \* mutant: slot 0 whether READY or not

(* Compare the slots after the first READY one with the best so far. *)
Candidate(ps) ==
    LET first == Min(Ready(ps))
        best[i \in Slots] ==
            IF i <= first THEN first
            ELSE IF Better(ps, i, best[i - 1]) THEN i ELSE best[i - 1]
    IN  best[NumSlots - 1]

IndexAfterCompared(p) ==    \* mutant: the index follows the loop, not the choice
    Max(Ready(processes[p]))

(* index_running_process follows the choice only when the default          *)
(* candidate is replaced.                                                  *)
IndexAfter(p) ==
    LET i == Candidate(processes[p])
    IN  IF i # Min(Ready(processes[p])) THEN i ELSE index_running_process[p]

SavedByIndex ==    \* mutant: saved to the active partition's running process
    [stackpointer EXCEPT
       ![activePartition][index_running_process[activePartition]] = running]

(* The context of the process switched to last is saved. *)
Saved ==
    IF active_process = None THEN stackpointer
    ELSE [stackpointer EXCEPT
            ![active_process[1]][active_process[2]] = running]

(* SysTick_Handler in a window of partition p: save a context, choose a    *)
(* process of p, count the tick, and restore the chosen one's context.     *)
SysTick(p) ==
    /\ ~undefined
    /\ uwTick' = IF uwTick < MaxTick THEN uwTick + 1 ELSE uwTick
    /\ activePartition' = p
    /\ stackpointer' = Saved
    /\ IF Ready(processes[p]) = {}
         THEN /\ undefined' = TRUE   \* priority_process is uninitialised
              /\ UNCHANGED <<active_process, running, index_running_process>>
         ELSE /\ active_process' = <<p, Candidate(processes[p])>>
              /\ running' = Saved[p][Candidate(processes[p])]
              /\ index_running_process' =
                   [index_running_process EXCEPT ![p] = IndexAfter(p)]
              /\ UNCHANGED undefined
    /\ UNCHANGED <<processes, attributes, mem_offset, home, idling, called>>

-----------------------------------------------------------------------------
(* System calls of the thread that runs.                                   *)

IsMain(t) == \E p \in Partitions : t = MainOf[p]

(* Threads that call the kernel: not the idle process, not main's loop,    *)
(* and none that has stopped itself, which spins until the next tick.      *)
Calling ==
    /\ ~undefined
    /\ running \in Threads \ idling
    /\ home[running][1] # IdlePartition

(* create_process: the first DORMANT slot gets the new thread, and the     *)
(* caller's attributes are written to; without a slot the call fails.      *)
create_process(p, addr, attr, prio) ==
    LET dormant == {i \in Slots : processes[p][i].PROCESS_STATE = "DORMANT"}
        t == Cardinality(Threads) + 1
        i == Min(dormant)
    IN  IF dormant = {}
          THEN /\ attributes' = [attributes EXCEPT ![p] = attr]
               /\ UNCHANGED <<processes, stackpointer, home>>
          ELSE /\ processes' = [processes EXCEPT ![p][i] =
                     NewProcess(prio, addr, attr.STACK_SIZE)]
               /\ attributes' = [attributes EXCEPT ![p] =
                     [attr EXCEPT !.STACK_SIZE = DefaultStack]]
               /\ stackpointer' = [stackpointer EXCEPT ![p][i] = t]
               /\ home' = [u \in Threads \cup {t} |->
                             IF u = t THEN <<p, i>> ELSE home[u]]

NewOffsetDefault(p, size) ==    \* mutant: not the size that was asked for
    (mem_offset[p] + DefaultStack) % Word

NewOffset(p, size) == (mem_offset[p] + size) % Word

(* runtime_create_process: the stack is taken from the DATA region before  *)
(* it is known whether a slot is free, and is never given back.            *)
runtime_create_process(attr, prio) ==
    /\ Calling
    /\ Cardinality(Threads) < MaxThreads /\ uwTick < MaxTick
    /\ LET p == activePartition
           new == NewOffset(p, attr.STACK_SIZE)
       IN  IF new > DataSize
             THEN /\ attributes' = [attributes EXCEPT ![p] = attr]
                  /\ UNCHANGED <<processes, stackpointer, home, mem_offset>>
             ELSE /\ mem_offset' = [mem_offset EXCEPT ![p] = new]
                  /\ create_process(p, new, attr, prio)
    /\ called' = called \cup ({running} \cap {MainOf[p] : p \in Partitions})
    /\ UNCHANGED <<index_running_process, active_process, activePartition,
                   running, idling, uwTick, undefined>>

(* The application fills in its attributes and calls, or calls again with  *)
(* the attributes as its last call left them.                              *)
CreateProcess(size, prio) == runtime_create_process(Filled(size), prio)

CreateAgain(prio) ==
    runtime_create_process(attributes[activePartition], prio)

(* process_stop_self; a main calls it after its CREATE_PROCESS, whose      *)
(* return code it does not look at (red_toggler.c:30).                     *)
StopSelf ==
    /\ Calling
    /\ IsMain(running) => running \in called
    /\ ~IsMain(running) => WorkersStop
    /\ LET p == activePartition IN
         processes' = [processes EXCEPT
           ![p][index_running_process[p]].PROCESS_STATE = "DORMANT"]
    /\ idling' = idling \cup {running}
    /\ UNCHANGED <<stackpointer, index_running_process, attributes,
                   mem_offset, active_process, activePartition, running, home, called,
                   uwTick, undefined>>

SystemCall ==
    \/ \E size \in StackSizes, prio \in Priorities : CreateProcess(size, prio)
    \/ \E prio \in Priorities : CreateAgain(prio)
    \/ StopSelf

(* Once an undefined pointer is followed, there is no step to speak of. *)
Next ==
    \/ \E p \in Partitions : SysTick(p)
    \/ SystemCall

(* The timer ticks on and every partition's window comes round; a main     *)
(* that is given the processor again and again goes on with its calls.     *)
Fairness ==
    /\ \A p \in Partitions : WF_vars(SysTick(p))
    /\ \A p \in Partitions : SF_vars(running = MainOf[p] /\ SystemCall)
    /\ \A p \in Partitions : SF_vars(running = MainOf[p] /\ StopSelf)

Spec == Init /\ [][Next]_vars /\ Fairness

-----------------------------------------------------------------------------
(* Properties                                                              *)

Status == [PROCESS_STATE : {"READY", "DORMANT"}, CURRENT_PRIORITY : Nat,
           tickStamp : 0..MaxTick, top : Nat, size : Nat]

(* Every variable keeps its type. *)
TypeOK ==
    /\ processes \in [Partitions -> [Slots -> Status]]
    /\ stackpointer \in [Partitions -> [Slots -> Threads]]
    /\ index_running_process \in [Partitions -> Slots]
    /\ attributes \in [Partitions -> [STACK_SIZE : Nat]]
    /\ mem_offset \in [Partitions -> 0..(Word - 1)]
    /\ active_process \in {None} \cup (Partitions \X Slots)
    /\ activePartition \in Partitions
    /\ running \in {0} \cup Threads
    /\ home \in [Threads -> Partitions \X Slots]
    /\ idling \subseteq Threads
    /\ uwTick \in 0..MaxTick
    /\ undefined \in BOOLEAN

ReadyAt(p, i) == processes[p][i].PROCESS_STATE = "READY"

(* The thread a process goes on with when it is switched to next. *)
ThreadOf(p, i) == IF active_process = <<p, i>> THEN running
                  ELSE stackpointer[p][i]

(* No context is lost or mixed up by a switch: a READY process goes on     *)
(* with the last thread created in its slot, and the kernel serves a call  *)
(* for the partition the caller lives in (part_scheduler.c:37-57,          *)
(* getActivePartition in every system call).                               *)
ContextsAtHome ==
    /\ \A p \in Partitions, i \in Slots : ReadyAt(p, i) =>
         /\ ThreadOf(p, i) \in Threads
         /\ home[ThreadOf(p, i)] = <<p, i>>
         /\ \A t \in Threads : home[t] = <<p, i>> => t <= ThreadOf(p, i)
    /\ running \in Threads => home[running][1] = activePartition

(* The stacks of the live processes of one partition do not overlap        *)
(* (process.c:86-93).  Nothing is said of two partitions: the first stack  *)
(* of a main begins two contexts above the base of its DATA region and     *)
(* grows down out of it (partition.c:83, process.c:39).                    *)
StacksDisjoint ==
    \A p \in Partitions : \A i, j \in Slots :
        i # j /\ ReadyAt(p, i) /\ ReadyAt(p, j) =>
            LET a == processes[p][i]
                b == processes[p][j]
            IN  a.top <= b.top - b.size \/ b.top <= a.top - a.size

(* What the choice of a process does guarantee: it is READY, and none that *)
(* is as urgent was created earlier (part_scheduler.c:108-131).            *)
ChosenIsNotDominated ==
    [][\A p \in Partitions : SysTick(p) /\ ~undefined' =>
         LET chosen == processes[p][active_process'[2]] IN
         /\ chosen.PROCESS_STATE = "READY"
         /\ \A j \in Ready(processes[p]) :
              ~ /\ processes[p][j].CURRENT_PRIORITY >= chosen.CURRENT_PRIORITY
                /\ processes[p][j].tickStamp < chosen.tickStamp]_vars

(* STOP_SELF stops the process that calls it, and no other: what it is for *)
(* (process_stop_self, part_scheduler.c:97 and 142-148).                   *)
StopsItself ==
    LET p == home[running][1]
        i == home[running][2]
    IN  processes' = [processes EXCEPT ![p][i].PROCESS_STATE = "DORMANT"]

StopsCaller == [][StopSelf => StopsItself]_vars

(* It does so for a main, after whatever processes the main has created.   *)
MainsStopThemselves == [][StopSelf /\ IsMain(running) => StopsItself]_vars

(* The shipped applications stop their mains only. *)
OnlyMainsStopped == \A t \in idling : IsMain(t)

(* A tick finds a process to run in whatever partition it is for, even     *)
(* where STOP_SELF stops another process than its caller: there is room    *)
(* for the first process a main creates, and index_running_process only    *)
(* moves on to a slot while a lower one is READY (part_scheduler.c:106,    *)
(* "Find a READY partition as default candidate").                         *)
AlwaysACandidate == ~undefined

(* A partition whose main has handed over to a worker runs a worker again  *)
(* and again: the worker is not shut out by its dormant main.              *)
WorkersRun ==
    \A p \in Partitions :
        []<>(OnlyMainsStopped /\ MainOf[p] \in idling =>
                running \in Threads /\ ~IsMain(running) /\ home[running][1] = p)

(* The candidate returned has the highest priority there is among the      *)
(* READY processes (part_scheduler.c:133, "Return pointer to highest       *)
(* priority candidate process").                                           *)
ChosenIsMostUrgent ==
    [][\A p \in Partitions : SysTick(p) /\ ~undefined' =>
         \A j \in Ready(processes[p]) :
             processes[p][j].CURRENT_PRIORITY
               <= processes[p][active_process'[2]].CURRENT_PRIORITY]_vars
=============================================================================
