------------------------------ MODULE Kernel ------------------------------
(***************************************************************************)
(* The kernel round the partition scheduler: boot (kernel/main.c), the     *)
(* timer, the gate of the system calls (kernel/svc_handler.c with the      *)
(* stubs of partitions/utils/apex.c) and the time (drivers/time_get.c).    *)
(*                                                                         *)
(* The timer counts while anything else happens; interrupts come between   *)
(* the steps of the code below.  What a call does is in modules Processes  *)
(* and QueuingPorts, the choice of a process in Processes.                 *)
(***************************************************************************)
EXTENDS PartitionDispatch, Integers, SequencesExt

CONSTANTS
    Period,         \* cycles of the timer between two ticks (168000)
    CyclesPerMicro, \* 168
    CycleWord,      \* 2^32: the cycle counter is 32 bits wide
    NanoWord,       \* 2^32: nanoseconds are computed as a uint32_t
    TotalWord,      \* bound: the total, of 64 bits, is counted modulo this
    MaxSince,       \* bound: since and dropped are counted up to this
    HalfRegister,   \* 2^31: a register holds 32 bits
    Integers32,     \* values callers pass for 32-bit integers
    TimeOuts,       \* values callers pass for TIME_OUT, of 64 bits
    BootTicks       \* the boot takes longer than a period

ASSUME KernelAssumption ==
    /\ {Period, CyclesPerMicro, CycleWord, NanoWord, TotalWord, HalfRegister}
         \subseteq Nat \ {0}
    /\ NanoWord <= TotalWord
    /\ MaxSince \in Nat
    /\ Integers32 \subseteq -HalfRegister..(HalfRegister - 1)
    /\ TimeOuts \subseteq Int
    /\ BootTicks \in BOOLEAN

VARIABLES
    pc,             \* "reset", "clocked": main; "thread"; "svc", "serving", "served"
    handling,       \* SysTick_Handler is between reading CYCCNT and clearing it
    tickint,        \* TICKINT of SysTick->CTRL
    pending,        \* a tick waits to be taken
    val,            \* cycles since the timer wrapped round
    CYCCNT,         \* the cycle counter
    total,
    since,          \* history: cycles since CYCCNT was read, or started
    dropped,        \* history: how many of them were over when it was cleared
    call,           \* the system call being made, or "none"
    caller,         \* the window it was made in
    passed,         \* the arguments it was made with
    servedFor,      \* the window it was served in
    stack,          \* the words from R2 on: the stub's, the last one first
    argv            \* the arguments the kernel's function gets

timer == <<handling, tickint, pending, val>>
time == <<CYCCNT, total, since, dropped>>
gate == <<call, caller, passed, servedFor, stack, argv>>
kernel == <<vars, pc, timer, time, gate>>

Register == 2 * HalfRegister

(* The parameters of the system calls, in the order the stubs push them;   *)
(* "&" marks a pointer.                                                    *)
Stub ==
    [CREATE_PROCESS |-> <<"&ATTRIBUTES", "&PROCESS_ID", "&RETURN_CODE">>,
     GET_TIME |-> <<>>,
     CREATE_QUEUING_PORT |->
       <<"&QUEUING_PORT_NAME", "MAX_MESSAGE_SIZE", "MAX_NB_MESSAGE", "PORT_DIRECTION",
         "QUEUING_DISCIPLINE", "&QUEUING_PORT_ID", "&RETURN_CODE">>,
     RECEIVE_QUEUING_MESSAGE |->
       <<"QUEUING_PORT_ID", "TIME_OUT", "&MESSAGE", "&LENGTH", "&RETURN_CODE">>,
     SEND_QUEUING_MESSAGE |->
       <<"QUEUING_PORT_ID", "&MESSAGE", "LENGTH", "TIME_OUT", "&RETURN_CODE">>,
     GET_QUEUING_PORT_ID |-> <<"&QUEUING_PORT_NAME", "&QUEUING_PORT_ID", "&RETURN_CODE">>,
     GET_QUEUING_PORT_STATUS |->
       <<"QUEUING_PORT_ID", "&QUEUING_PORT_STATUS", "&RETURN_CODE">>,
     STOP_SELF |-> <<>>]

(* ...and in the order the handler hands them to the kernel's functions.   *)
Served ==
    [CREATE_PROCESS |-> <<"&ATTRIBUTES", "&PROCESS_ID", "&RETURN_CODE">>,
     GET_TIME |-> <<>>,
     CREATE_QUEUING_PORT |->
       <<"&QUEUING_PORT_NAME", "MAX_MESSAGE_SIZE", "MAX_NB_MESSAGE", "PORT_DIRECTION",
         "QUEUING_DISCIPLINE", "&QUEUING_PORT_ID", "&RETURN_CODE">>,
     RECEIVE_QUEUING_MESSAGE |->
       <<"QUEUING_PORT_ID", "TIME_OUT", "&MESSAGE", "&LENGTH", "&RETURN_CODE">>,
     SEND_QUEUING_MESSAGE |->
       <<"QUEUING_PORT_ID", "&MESSAGE", "LENGTH", "TIME_OUT", "&RETURN_CODE">>,
     GET_QUEUING_PORT_ID |-> <<"&QUEUING_PORT_NAME", "&QUEUING_PORT_ID", "&RETURN_CODE">>,
     GET_QUEUING_PORT_STATUS |->
       <<"QUEUING_PORT_ID", "&QUEUING_PORT_STATUS", "&RETURN_CODE">>,
     STOP_SELF |-> <<>>]

(* The signed 32-bit integers among them. *)
Signed == {"QUEUING_PORT_ID", "MAX_MESSAGE_SIZE", "MAX_NB_MESSAGE", "LENGTH"}

Calls == DOMAIN Stub

(* Arguments of a call: n for its integers, t for its TIME_OUT.  Pointers  *)
(* and enumerators, which fit a register, are told by their parameter.     *)
Arguments(c, n, t) ==
    [i \in DOMAIN Stub[c] |->
        [of |-> Stub[c][i],
         value |-> IF Stub[c][i] \in Signed THEN n
                   ELSE IF Stub[c][i] = "TIME_OUT" THEN t ELSE 0]]

(* PUSH of a register: of a TIME_OUT, that is its low word. *)
Pushed(arguments) ==
    [i \in DOMAIN arguments |-> [arguments[i] EXCEPT !.value = @ % Register]]

(* The handler casts a word to the type of the parameter: to a negative    *)
(* number where that is signed, but to a TIME_OUT without sign.            *)
Cast(parameter, word) ==
    IF parameter \in Signed /\ word >= HalfRegister THEN word - Register ELSE word

(* At reset; main disables the timer's interrupt and lets it count.        *)
KInit ==
    /\ schedule = <<>>
    /\ uwTick = 0 /\ activeWindowIndex = 0 /\ majorFrameStopMillis = 0
    /\ lost = FALSE
    /\ pc = "reset"
    /\ handling = FALSE /\ tickint = FALSE /\ pending = FALSE /\ val = 0
    /\ CYCCNT = 0 /\ total = 0 /\ since = 0 /\ dropped = 0
    /\ call = "none" /\ caller = 0 /\ servedFor = 0
    /\ passed = <<>> /\ stack = <<>> /\ argv = <<>>

-----------------------------------------------------------------------------
(* Boot                                                                    *)

(* set_system_clock_168mhz: HAL_RCC_ClockConfig ends with HAL_InitTick,    *)
(* which starts the timer anew, with its interrupt.                        *)
SetClock ==
    /\ pc = "reset"
    /\ pc' = "clocked"
    /\ tickint' = TRUE
    /\ val' = 0
    /\ UNCHANGED <<vars, handling, pending, time, gate>>

(* The ports, partitions and windows are set up, the cycle counter starts, *)
(* and the timer's interrupt is enabled.                                   *)
BootDone ==
    /\ pc = "clocked" /\ ~handling /\ ~lost
    /\ pc' = "thread"
    /\ schedule' \in Schedules
    /\ tickint' = TRUE
    /\ CYCCNT' = 0 /\ since' = 0 /\ dropped' = 0
    /\ UNCHANGED <<uwTick, activeWindowIndex, majorFrameStopMillis, lost,
                   handling, pending, val, total, gate>>

-----------------------------------------------------------------------------
(* The timer and the tick                                                  *)

InterruptibleAlways == ~handling /\ ~lost   \* mutant: the tick preempts a call

(* The tick has the lowest priority: it waits for a call to be over.       *)
Interruptible == pc \in {"clocked", "thread"} /\ ~handling /\ ~lost

(* One cycle more, as far as they are counted. *)
OneMore(cycles) == IF cycles < MaxSince THEN cycles + 1 ELSE cycles

(* A cycle of the timer.  A tick that comes due while another is pending,  *)
(* or while the timer's interrupt is off, is lost; nothing bounds how many *)
(* are lost in a row.                                                      *)
Clock ==
    /\ ~lost /\ ~(Interruptible /\ pending)
    /\ val = Period - 1 /\ pc = "clocked" => BootTicks
    /\ val' = (val + 1) % Period
    /\ pending' = (pending \/ (val = Period - 1 /\ tickint))
    /\ IF pc \in {"reset", "clocked"}       \* the counter is not running yet
         THEN UNCHANGED <<CYCCNT, since>>
         ELSE CYCCNT' = (CYCCNT + 1) % CycleWord /\ since' = OneMore(since)
    /\ UNCHANGED <<vars, pc, handling, tickint, total, dropped, gate>>

(* Nanoseconds, of whole microseconds. *)
convert_cycles_to_time(cycles) == ((cycles \div CyclesPerMicro) * 1000) % NanoWord

(* The first half of TIME_Add_Count: the counter is read and runs on.      *)
TIME_Stop_ns == total' = (total + convert_cycles_to_time(CYCCNT)) % TotalWord

ClearedNever == UNCHANGED CYCCNT        \* mutant: the counter is not cleared

(* The second half: it is cleared, with whatever it has counted since.     *)
Cleared == CYCCNT' = 0

(* SysTick_Handler, up to the sum in TIME_Add_Count. *)
SysTick ==
    /\ Interruptible /\ pending
    /\ Tick
    /\ TIME_Stop_ns
    /\ since' = 0
    /\ pending' = FALSE
    /\ handling' = TRUE
    /\ UNCHANGED <<pc, tickint, val, CYCCNT, dropped, gate>>

(* The rest of it. *)
SysTickEnds ==
    /\ handling /\ ~lost
    /\ Cleared
    /\ dropped' = since
    /\ handling' = FALSE
    /\ UNCHANGED <<vars, pc, tickint, pending, val, total, since, gate>>

-----------------------------------------------------------------------------
(* The gate                                                                *)

(* A process calls: the stub pushes the arguments, leaves the stack        *)
(* pointer in R2 and raises SVC.                                           *)
Call(c, n, t) ==
    /\ pc = "thread" /\ ~handling /\ activeWindowIndex # 0
    /\ ~(Interruptible /\ pending)
    /\ pc' = "svc"
    /\ call' = c
    /\ caller' = activeWindowIndex
    /\ passed' = Arguments(c, n, t)
    /\ stack' = Reverse(Pushed(passed'))
    /\ UNCHANGED <<vars, timer, time, servedFor, argv>>

(* SVC_Handler begins by turning the timer's interrupt off. *)
Disable ==
    /\ pc = "svc"
    /\ pc' = "serving"
    /\ tickint' = FALSE
    /\ UNCHANGED <<vars, handling, pending, val, time, gate>>

PoppedUpwards(argc) == SubSeq(stack, 1, argc)    \* mutant: argv is filled from 0

(* argc words are read at R2, which moves on, and put to argv from its end *)
(* on.                                                                     *)
Popped(argc) == Reverse(SubSeq(stack, 1, argc))

(* The call is served, for the partition whose window it is. *)
Serve ==
    /\ pc = "serving"
    /\ pc' = "served"
    /\ LET words == Popped(Len(Served[call])) IN
         argv' = [i \in DOMAIN words |->
                    [words[i] EXCEPT !.value = Cast(Served[call][i], @)]]
    /\ stack' = SubSeq(stack, Len(Served[call]) + 1, Len(stack))
    /\ servedFor' = activeWindowIndex
    /\ UNCHANGED <<vars, timer, time, call, caller, passed>>

(* The timer's interrupt is turned on again; SVC_Handler returns, and so   *)
(* does the stub, which drops the words it has pushed.                     *)
Enable ==
    /\ pc = "served"
    /\ pc' = "thread"
    /\ tickint' = TRUE
    /\ call' = "none" /\ caller' = 0 /\ servedFor' = 0
    /\ passed' = <<>> /\ stack' = <<>> /\ argv' = <<>>
    /\ UNCHANGED <<vars, handling, pending, val, time>>

KNext ==
    \/ SetClock \/ BootDone
    \/ Clock \/ SysTick \/ SysTickEnds
    \/ \E c \in Calls, n \in Integers32, t \in TimeOuts : Call(c, n, t)
    \/ Disable \/ Serve \/ Enable

(* The timer never stops; the code that is running goes on, main, a call   *)
(* and the tick's handler to their ends.  A process need not make any      *)
(* call, and may make one whenever a tick comes due.                       *)
KSpec ==
    /\ KInit /\ [][KNext]_kernel
    /\ SF_kernel(Clock)
    /\ WF_kernel(SysTick)
    /\ WF_kernel(SysTickEnds)
    /\ WF_kernel(SetClock \/ BootDone \/ Disable \/ Serve \/ Enable)

-----------------------------------------------------------------------------
(* Properties; those of PartitionDispatch are checked here too, with the   *)
(* ticks that calls delay or make the kernel lose.                         *)

(* Every variable keeps its type; a call is being made in the gate only.   *)
KTypeOK ==
    /\ schedule \in Schedules \cup {<<>>}
    /\ uwTick \in 0..(TickWord - 1)
    /\ activeWindowIndex \in {0} \cup DOMAIN schedule
    /\ majorFrameStopMillis \in 0..MajorFrame
    /\ pc \in {"reset", "clocked", "thread", "svc", "serving", "served"}
    /\ {handling, tickint, pending, lost} \subseteq BOOLEAN
    /\ val \in 0..(Period - 1)
    /\ CYCCNT \in 0..(CycleWord - 1)
    /\ total \in 0..(TotalWord - 1)
    /\ {since, dropped} \subseteq 0..MaxSince
    /\ call \in Calls \cup {"none"}
    /\ call # "none" <=> pc \in {"svc", "serving", "served"}

(* A call is served for the partition whose process has made it, also when *)
(* the tick that ends its window comes due in between                      *)
(* (svc_handler.c:34, queuing_port.c:50 getActivePartition).               *)
ServedForCaller == pc = "served" => servedFor = caller /\ caller # 0

(* What the kernel's functions get are the arguments of the call, each in  *)
(* its place and with its value, a TIME_OUT's if it fits a register        *)
(* without its sign: the handler reads as many words as the stub has       *)
(* pushed, not one more or less (apex.c with svc_handler.c:45, 68, 87,     *)
(* 104, 121, 136).                                                         *)
ArgumentsArrive ==
    pc = "served" =>
        /\ stack = <<>>
        /\ DOMAIN argv = DOMAIN Served[call]
        /\ \A i \in DOMAIN argv :
             /\ argv[i].of = Served[call][i]
             /\ \/ argv[i] = passed[i]
                \/ argv[i].of = "TIME_OUT" /\ passed[i].value \notin 0..(Register - 1)

(* What a tick adds to the total is never more than the time since the     *)
(* tick before read the counter.  And it is less by no more than what went *)
(* by until that tick cleared the counter, and less than a microsecond     *)
(* besides, as long as cycles and nanoseconds fit their words, with ticks  *)
(* lost in between or without (svc_handler.c:35, time_get.c:33-66).        *)
TimeKeepsPace ==
    [][SysTick /\ since < MaxSince =>
         LET added == (total' - total + TotalWord) % TotalWord
             counted == since - dropped
         IN  /\ added * CyclesPerMicro <= since * 1000
             /\ counted < CycleWord /\ (counted \div CyclesPerMicro) * 1000 < NanoWord
                  => (counted - CyclesPerMicro) * 1000 < added * CyclesPerMicro
      ]_kernel

(* No tick is handled before main is done with the tables the handler      *)
(* reads (main.c:21 "Disable sysTick", main.c:55 "Enable sysTick").        *)
NoTickInBoot == [][SysTick => pc \notin {"reset", "clocked"}]_kernel

(* As long as ticks come through again and again, however many are lost,   *)
(* each window comes round again and again (part_scheduler.c:67-92).       *)
WindowsComeRound == []<>pending => EveryWindowComesRound
=============================================================================
