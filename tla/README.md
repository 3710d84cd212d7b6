# A verification project for the ARINC 653 based OS

The repository is a small partitioning operating system in the manner of
ARINC 653 for an STM32F4 (ARM Cortex-M4): a kernel of some 1400 lines of C in
`src/src/kernel`, drivers, a handful of partitions, and a Python program that
makes C tables of an XML configuration. It has no tests. This directory holds
TLA+ models of the kernel, the TLC runs that check them and TLAPS proofs about
them.

Paths below are as in PROJECT.json: `src/src/kernel/...` is written
`kernel/...`.

## 1. The system

| part | state | operations | interacts with |
|---|---|---|---|
| generator (`createCStructs.py`) | none: XML to C tables | partitions, memory, schedule, ports, channels | its tables are the input of all that follows |
| boot (`kernel/main.c`) | - | set the clock, init ports, init partitions, build schedule, let the tick in | calls everything once |
| schedule builder (`part_scheduler.c:150`) | `schedule[]` | `scheduler_buildSchedule` | reads the XML's windows; leaves the table to the dispatcher |
| partition scheduler (`part_scheduler.c:67`) | `activeWindowIndex`, `majorFrameStopMillis`, `activeWindow`, the tick count | one call per tick | its `activeWindow` says which partition every system call is for |
| processes (`process.c`, `part_scheduler.c:31, 94, 142`, `partition.c`) | `processes[3]` and `index_running_process` per partition, `mem_offset`, the handler's static `active_process`, the saved contexts | `SysTick_Handler`, CREATE_PROCESS, STOP_SELF, `init_partitions` | runs in the partition the dispatcher names |
| system call gate (`svc_handler.c`, `partitions/utils/apex.c`) | the timer's TICKINT bit | `SVC_Handler` | masks the tick, dispatches, unmasks it |
| circular buffer (`circular_buffer.c`) | buffer, head, tail | push, pop, `push_item`, `pop_item` | one in each queuing port |
| queuing ports (`queuing_port.c`) | per port `activated`, `NB_MESSAGE`, ring, `channel_link` | create, send, receive, id, status | one send writes to the ports of other partitions |
| sampling ports (`sampling_port.c`) | per port `activated`, `MAX_MESSAGE_SIZE`, a message | create, write, read, id, status | built in, but no system call reaches them |
| time (`time_get.c`) | `total`, the cycle counter | add at each tick, GET_TIME | called by the tick handler |
| drivers, `syscalls.c`, `error_handlers.c` | registers | UART, LEDs, RTC, watchdog, clock, MPU | HAL |
| MPU prototype (`mpu_test/mpuTest.c`; `mpu.c` is another copy of it) | blocks, regions, addresses | `sortMem` gives each partition its block; in `mpu.c`, tables code the MPU's settings | a program of its own |
| partitions | their locals | main: CREATE_PROCESS, STOP_SELF; worker: ports, delays | system calls |

What is hard here: the tick comes between any two instructions of a partition
and switches its context, with the saved context found through a static pointer
set one tick earlier; each system call works on whatever partition
`activeWindow` names; `index_running_process` is a second record of who runs and
not always right; the tick counter wraps; the schedule builder's search carries
a minimum from one round to the next and its loop moves its own bound; a ring
of bytes carries messages with headers and must fail without a trace in the
middle of one; one send serves several ports of which some may refuse; a sampling
port keeps its limit and the length of its message in one field; and the MPU
prototype lets small requests share what a large one leaves.
PROJECT.json lists these hazards, each at its line, with the properties that
watch it.

What makes each part correct:

* builder: the table is in order, without holes, has every configured window
  once and idle windows exactly in the gaps; it ends, in time for its array;
* partition scheduler: whoever runs, runs in its window, every window comes
  round, the search stays in the table;
* processes: a process goes on with its own context and in its own partition,
  stacks do not overlap, the choice of a process is the urgent one, STOP_SELF
  stops its caller;
* rings and ports: a port is a fifo of whole messages, its count is right, a
  sender learns what happened, a channel connects the ports it names, and
  messages are served;
* sampling ports: a port is a register that holds the last message taken, whole;
* gate: a call is served for its caller's partition, with the arguments it was
  made with; boot: no tick before the tables it reads; time: the total keeps pace
  with the cycles that are counted, ticks lost or not;
* MPU prototype: blocks do not overlap and lie in aligned regions of the memory.

## 2. Modules

| module | models |
|---|---|
| `ScheduleBuild` | `scheduler_buildSchedule` |
| `PartitionDispatch` | `scheduler_partitionScheduler` and the tick count |
| `Kernel` | boot, timer, gate and time round `PartitionDispatch` |
| `Processes` | the context switch, the process scheduler, CREATE_PROCESS, STOP_SELF |
| `PortTables` | what the generator makes of ports and channels |
| `CircularBuffer` | the ring of bytes, whole calls as operators |
| `RingLoops` | the same calls a byte at a time, as the C loops run |
| `MessageFifo` | abstract: what a queuing port promises |
| `QueuingPorts` | queuing ports and the calls on them, over `PortTables` and `CircularBuffer` |
| `MessageRegister` | abstract: what a sampling port promises |
| `SamplingPorts` | sampling ports and the calls on them, over `PortTables` |
| `MpuAllocation` | the allocation of the MPU prototype, as `mpuTest.c` has it |
| `ScheduleBuild_proofs`, `Kernel_proofs` (with those of `PartitionDispatch`), `Processes_proofs`, `RingLoops_proofs`, `QueuingPorts_proofs`, `SamplingPorts_proofs`, `MpuAllocation_proofs` | theorems about the modules, and the facts about numbers each needs |
| `CircularBuffer_proofs` | the lemmas `RingLoops_proofs` and `QueuingPorts_proofs` share: what the ring's operators do, indices round a ring, induction and recursion by a measure |
| `MC*` | values of the constants for TLC |

`Kernel` extends `PartitionDispatch`: its tick is the dispatcher's `Tick`, now one
of several steps that compete. `RingLoops` shows that the loops amount to the
operators of `CircularBuffer`; `QueuingPorts` uses those operators and is shown to
implement `MessageFifo`, through the messages parsed out of the ring's bytes;
`SamplingPorts` is shown to implement `MessageRegister`, through the first bytes of
each port's buffer. Definitions named "mutant" in a comment are plausible wrong
versions of the definition that follows them; each is known to break a property.
The model itself never uses them.

**ScheduleBuild.** One step is one round of the while loop: `PlaceWindow(k)`
where the search stops at window `k`, `PlaceIdle` where it finds none, both
with the common `EndRound`, and `Finish`. The nested loops visit the windows in
one order, so a configuration is a sequence. `earliestNextStartTime` is carried
over as the code does. Times wrap at `Word`. `MaxNumWindows` is
`MAX_NUM_WINDOWS`; the entry one past the array is written in the model as it is
in the code.

*Which configurations.* `WellFormed`: windows last, end in the frame and do not
overlap. `Orderly`: in addition, a window that is listed before an earlier one
is separated from it by idle time. Orderly is what the search needs. It is not
what XML authors know of: `default_schema.xml` is well-formed and not orderly
(finding `schedule_default`). `main_schema.xml` is orderly as listed and in 11 of
the 23 other orders of its partitions.

**PartitionDispatch.** `Tick` is a SysTick: `WindowIsOver` is the condition of
line 73, `ActivateNext` the do-while search. Indices count from 1, and 0 is the
code's -1. `lost` says that the search has left the array. `TilesFrame` says
which tables the dispatcher is made for: those `Ordered` and `CoversFrame`
describe.

**Kernel.** `Clock` is a cycle of the timer; whatever else happens takes place
between cycles, so every interleaving of tick and code at that grain is there.
`SetClock` and `BootDone` are main's two steps that touch the timer:
`set_system_clock_168mhz` ends in `HAL_InitTick`, which turns the interrupt on that
main has turned off. A system call is four steps: `Call` (the stub pushes and
raises SVC), `Disable`, `Serve`, `Enable`. `Interruptible` says when the tick, which has
the lowest priority, is taken; `pending` is one bit, so that a second tick before the
first is taken is lost, as is one that comes due while `Disable` is in force, and
nothing bounds how many are lost in a row: a process may make one call after the
other, each over the end of a period. The
mask therefore protects nothing that the priorities do not protect already: what it
adds is lost ticks.

`SysTick_Handler` is two steps, for the cycle counter runs on in it: `SysTick` up to the
read of `time_get.c:57`, `SysTickEnds` from the reset of line 65 on, with any number of
cycles between (`handling`). What the counter has counted by then is dropped. `since`,
the cycles since the last read, and `dropped`, how many of them were over at the
reset, are the model's, not the code's; they are counted up to `MaxSince` and no step
waits for them.

`Stub` and `Served` are two tables, one read off `apex.c` and one off `svc_handler.c`,
and `passed`, `stack` and `argv` are the values on their way: `Pushed` is what a
register holds of an argument, for the 64-bit TIME_OUT its low word, and `Cast` what
the handler makes of the word, for TIME_OUT a number that is never negative.
`ArgumentsArrive` compares the two ends, and excepts a TIME_OUT that does not
fit a register: INFINITE_TIME_VALUE, -1, arrives as the largest word (section 3).
`HalfRegister` is half the number of values a register has. GET_TIME hands the total
back in registers, so it has no parameters
here. The stubs never pop what they push: the stack pointer comes back because the
functions are compiled with a frame pointer (no optimisation), which is what
`Enable` models. `BootTicks` is an assumption about the boot's duration: whether
the initialisation takes longer than the first period.

**Processes.** A context is the *thread* it belongs to, and a thread is born by
each creation; thread 0 is main's loop on the kernel stack. `SysTick(p)` saves
the running thread under `active_process` (nothing on the first tick), lets
`Candidate` choose among p's processes and restores; p is any partition here,
which covers every schedule. `runtime_create_process` and `create_process` keep
the order of the code: memory first, slot second; the caller's attributes are
written to. Memory counts in 64-byte contexts: a first context lies above the
address it is given, so the stack pointer starts two units above. Offsets are each
partition's own: nothing is said of where one region lies relative to another, nor,
then, of a main's first stack, which starts at its region's base and grows down
out of it. `StopSelf` marks
slot `index_running_process`; its caller then spins (`idling`) until a tick
takes the processor away. `undefined` is the uninitialised pointer of line 107,
after which nothing is said of the system. Which partition a system call is for is
`Kernel`'s `ServedForCaller`; here it is `activePartition`. `WorkersStop` allows workers to call
STOP_SELF; no shipped worker does.

**CircularBuffer, RingLoops.** A ring is a record of `buffer`, `head`, `tail`,
`maxLen`. `push_item` either writes header and data, or, when they do not fit,
leaves the bytes written behind the unmoved head; `pop_item` takes the header
and as many bytes as it says, and drains the ring if these are not there.
`RingLoops` has a step per byte with the code's own tests, and `ret`, `c` and the
bytes are compared at each return.

**QueuingPorts.** A call is one step, for `SVC_Handler` masks the tick. A port is
`<<partition, n>>`. `port_list` is what the generator makes of a channel,
`channel_link` what `init_queuing_ports` makes of that. `send_queuing_message`
tests each port of the channel (`Takes`), pushes (`Offered`) and reports
(`message_sent`); its loop over one channel is `send_over`. Turns of the loop for
different ports do not touch each other; a port that the list has in several places
has as many turns, one after the other (`Places`, `AfterTurns`), since the generator
lists the first port of a partition for every port of it that the channel names.
`undefined` says that a NULL `channel_link` was followed. Lengths are those of real
messages: a negative LENGTH is not among the inputs. All ports of its instance are
queuing ports.

**SamplingPorts.** The same tables, with queuing ports beside: a channel may name
both kinds, and a write passes over the queuing ones. A call with the id of a
queuing port is not among the inputs, since the fields of `ports.h:27` are a union
and mean something else then. The length of a message is kept in
`MAX_MESSAGE_SIZE`, as in the code, so a port shrinks with every shorter message:
`FoundUntilShrunk` says for how long a port is found by its attributes. `port_id` and
`status` only read, here as for queuing ports.

**MpuAllocation.** One step is one round of `sortMem`'s loop: the largest request
without a block gets a region and the first of its eight sections, and smaller
ones get what is left. Addresses and sizes have the widths of `mpuTest.c`
(`AddressWord`, `PercWord`). `Best` is
the comparison of a size with `perc`, request by request, as a recursive function;
`insertMem` is who is given which sections, `Given` what becomes of the blocks, in the
order of the calls of `updateMem`. A partition without a block has address 0, and
a gift that is placed after one lies at the address of one section, far below the memory.
`SizesKept`, `PairsUndivided` and `BaseFits` say of a table what the program needs for one
property or another and does not check; the tables of the run satisfy the first and the
last (`TablesFit` in `MCMpuAllocation`), and some violate the second. `mpu.c` is not
modelled: it has the same loop with addresses and regions of 8 bits, so what it
computes from them means nothing.

## 3. Runs

| run | shows | bounds |
|---|---|---|
| `schedule` | type, order, idle time, the exact table, the frame covered, the builder ends | all orderly listings of 1..3 windows of 1..3 units in a frame of 6, one id unknown; the 12 orderly orders of `main_schema.xml`; two configurations one entry too long for the array |
| `kernel` | own time for each window, search in bounds, calls for their caller and with their arguments, the total, every window comes round while ticks do | all tables of up to 3 windows that tile a frame of 3, tick counter of 5; timer of 2 cycles, a cycle counter that wraps at 5, nanoseconds that wrap at 2000, cycles counted up to 6; registers of one bit with both signed values, a time-out that fits and one that does not |
| `processes` | contexts, stacks, a candidate always, the choice, mains stop themselves, workers run | 3 partitions, 3 slots, 2 priorities, 2 stack sizes, 6 creations, 3 ticks then saturated; workers may stop |
| `ring_loops` | loops = operators = fifo, loops end | ring of 8 bytes, messages of 0..3 bytes: several laps, full at every position |
| `ports` | fifo, counts, return codes, capacity, service | 1 source and 2 destinations of different size and depth: one whose ring fills up before its count, as that of the shipped 32 by 32 does, one that its channel lists twice, and a port beside it that is in no list |
| `sampling` | register, return codes, found again | 1 source, 2 destinations of different sizes, a queuing port in the same channel; messages of 1..3 bytes |
| `mpu` | blocks apart, aligned, the loop ends | every 5 requests over 7 sizes that leave none to three sections free in regions of 32 to 256, every 5 over 7 sizes about the bounds of 32-byte sections, and the five of `mpuTest.c` |

Bounds. Bytes have two values (four with headers of one byte) and the headers of
`ring_loops` two bytes: the carry between header bytes, the wrap of the ring and a
message torn at either are all reached. Counters are bounded by guards
(`MaxThreads` in `runtime_create_process`) or saturate
(`uwTick` of `Processes` at `MaxTick`; a creation needs an unsaturated stamp; `since` and
`dropped` of `Kernel` at `MaxSince`, 0 where no property reads them). In
`Kernel` the tick counter wraps as the code's does, in the middle of a frame, since
5 is no multiple of 3; the total is counted modulo 2000, more than a step
adds. A cycle counter of 5 wraps within the 6 cycles counted, 4 cycles make
2000 ns, which do not fit either, and a call over an end of the timer's period of 2 loses a
tick while `since` is not yet at `MaxSince`; both sides of the
property's conditions are thus met. Five partitions are what `mpuTest.c:5` configures.
In `ports` the channel names both ports of a partition. The first has two places in the list
then: a message enters it twice, or once where its count leaves no room for the second
copy. The other has none, and a send from it is the end of the run.
`processes`, `ports` and the runs below of the same modules may stop (a followed
uninitialised or NULL pointer): `CHECK_DEADLOCK FALSE`; so may `schedule` (the builder's end).

Runs that end in a counterexample, each a finding of PROJECT.json:
`schedule_default` (`default_schema.xml` gives a table out of order),
`kernel_boot` (a tick is handled before the tables are there, if the boot takes longer
than a period), `processes_stop` (STOP_SELF stops another process),
`processes_urgent` (priority yields to age), `ports_full` (a ring too small for its
port).

The code does more that a reader would not expect. The models behave so as
well, without a run that says so:

* free time at the end of the frame gets no idle window
  (`part_scheduler.c:181`: the loop ends with the last configured window);
* with one window too many, the entry past `schedule[]` is written before the
  check panics (`part_scheduler.c:249`);
* a CREATE_PROCESS that finds no slot keeps its stack's memory (`process.c:92`);
* a stack ends up to two contexts above the end that was checked against the
  region (`process.c:86`, `process.c:39`), and a main's first stack begins two contexts
  above the base of its region and grows
  down out of it, towards the region before (`partition.c:83`): the regions of
  `main_schema.xml` are 8192 bytes apart and 8000 long;
* a STACK_SIZE whose sum with `mem_offset` wraps passes the check of `process.c:86`
  and is given a stack among those that are there already;
* CREATE_PROCESS writes to attributes that `apex_process.h:65` calls "in"
  (`process.c:37`);
* a main whose CREATE_PROCESS failed for want of memory and that then stops leaves
  its partition without a process, and the next tick follows an uninitialised
  pointer (`part_scheduler.c:107`). Where there is room for one worker, as in the run
  and in the shipped memory, `AlwaysACandidate` holds, even when workers stop:
  STOP_SELF then stops another slot than its caller's;
* INFINITE_TIME_VALUE, -1, arrives in the kernel as 2^32 - 1, and a longer TIME_OUT
  without its upper word: stub and handler pass one register for the 64 bits
  (`apex.c:90, 120`, `svc_handler.c:93, 112`). No function uses it yet;
* every tick drops the cycles between the read of the cycle counter and its reset
  (`time_get.c:57, 65`) and what is short of a microsecond, and `TIME_Stop_ns` does not
  stop the counter (`time_get.c:58`), so the total falls behind by as much each time;
* a send on a port that no channel lists, as `temp` of `main_schema.xml`, follows
  NULL (`queuing_port.c:91`). Nothing in the kernel forbids it; no shipped partition does it;
* the generator links a channel to the first port of each partition it names
  (`createCStructs.py:230`): what `default_schema.xml` sends to `Stat_3Dq`, the second queuing
  port of its partition, does not arrive there, and a channel that names two ports of a
  partition sends each message twice to the first;
* a sampling port that has taken a message shorter than its size is not found by
  its attributes any more, and takes no longer one (`sampling_port.c:39, 92`);
* the MPU prototype: a second small request may be placed next to a first that has no place
  yet (17, 17, 64 and 190 put a block at address 32, below the memory); `perc` compares the
  last byte of a size only (187, 256 and 1500 put a block at 256); `nr_located` is never
  reset, so a second `sortMem` does nothing; sizes below 5 would divide by zero.

Fairness. `ScheduleBuild`: main waits for the builder. `Kernel`: the
timer never stops, but its cycles alternate with other steps, so `SF(Clock)`; a tick
that can be taken is, and its handler ends (`WF(SysTick)`, `WF(SysTickEnds)`); main and a call
that has begun go on to their
end (`WF` of their steps together). No process need ever call, and a process may call so often
that every tick is lost. Whether ticks come through is therefore a condition of the
property, not of the specification: `WindowsComeRound` says that every window comes round
if `pending` is set again and again. `Processes`: ticks come for every partition
(which is `WindowsComeRound` under its condition, checked in `kernel`), and a main that gets the
processor again and again goes on with its calls, so strong fairness of its
calls. `RingLoops`: a loop that was entered goes on. `QueuingPorts`: the worker of a
destination polls for ever (`stdio_sys.c:42`), senders need not do anything; `Served` supposes
that no NULL pointer is followed, after which there are no steps.

## 4. Proofs

| theorem | for all |
|---|---|
| `TypeTheorem`, `OrderedTheorem`, `IdleIsFreeTheorem`, `CoversFrameTheorem`, `BuiltAsExpectedTheorem`, `BuiltTableTiles` (`ScheduleBuild_proofs`) | orderly configurations, frames, array lengths |
| `RunsInItsWindowTheorem`, `NeverLostTheorem` (`Kernel_proofs`, first part) | tables that tile the frame, frames, counter widths |
| `KernelRunsInItsWindow`, `KernelNeverLost`, `ServedForCallerTheorem`, `ArgumentsArriveTheorem`, `KTypeOKTheorem`, `TimeKeepsPaceTheorem` (`Kernel_proofs`) | the same, and periods, clock rates, widths of the words, integers and time-outs, numbers of lost ticks |
| `ProcessesTypeTheorem`, `ContextsAtHomeTheorem`, `StacksDisjointTheorem`, `AlwaysACandidateTheorem`, `ChosenIsNotDominatedTheorem`, `MainsStopThemselvesTheorem` (`Processes_proofs`) | partitions, slots, priorities, sizes with room for one worker, numbers of creations |
| `SamplingTypeTheorem`, `ImplementsRegisterTheorem`, `ReportsDeliveryTheorem`, `FoundUntilShrunkTheorem` (`SamplingPorts_proofs`) | ports, channels, bytes, messages |
| `PushLoopsAgreeTheorem`, `PopLoopsAgreeTheorem`, `ItemsAreFifoTheorem` (`RingLoops_proofs`) | lengths of ring, values of a byte, widths of a header, messages |
| `QueuingTypeTheorem`, `CountIsMessagesTheorem`, `ImplementsFifoTheorem`, `ReportsDeliveryTheorem`, `TakesWhatFitsTheorem` (`QueuingPorts_proofs`) | the same, and partitions, ports, channels that name a partition once or often or not at all, sizes and depths |
| `TypeTheorem`, `BlocksDisjointTheorem`, `InAlignedRegionTheorem` (`MpuAllocation_proofs`) | numbers of partitions, sizes up to 2^20, places of the memory |

*Builder.* Assumptions: `BuildAssumption` and that all configurations are orderly.
The table is in order only because `desiredStartTime` never passes a window that is
still to come, and `earliestNextStartTime` never lies at or before it. So the
inductive invariant says that the table built tiles the time up to
`desiredStartTime`, that the carried minimum is the sentinel or the start of a
window still ahead with idle time before it, and where the starts of the windows
lie relative to both. Orderliness is used in one place: a minimum met on the way to a
match must not be overtaken by it. That an idle window takes no one's time follows
from the minimum being the earliest start ahead. When the loop ends, the two counters
say that every window has been placed; if one of them ends with the frame, so does the
table (`CoversFrameTheorem`). That the finished table is the expected one needs a second
invariant, `Complete`: a window placed has its entry, every entry is an expected one,
and the next one starts where a window does or where one has ended, so that an idle
window fills its gap from one side to the other. The other inclusion goes by time: a gap
starts inside some entry (`EntryAt`), which can be no window's, and two gaps that share
a moment are the same (`ExpectedIsThere`); no entry is there twice because each starts
after the one before. With known partitions it is then a table as the
dispatcher wants it (`BuiltTableTiles`, with `TilesFrame` of `PartitionDispatch`): what
the next two groups of theorems assume of a table is what the builder delivers.

*Dispatcher.* Assumptions: `DispatchAssumption` and that all tables tile the frame.
The invariant says that after a tick the active window is the last one with a
partition that starts at or before the position handled, unless that is still to
come, and that `majorFrameStopMillis` is its end. A tick moves the position by one or
to 0 (lemma `NextPosition`, from the theory of `%`), and the last entry
has a partition, so the search finds one.

*Kernel.* Hypothesis `QuietBoot`: the boot is shorter than a period (`kernel_boot` shows
what happens otherwise) and all tables tile the frame. The invariant `KIInv` has
four parts: `ControlOK`, the types and where main stands; `BootIsQuiet`, that before
`BootDone` nothing has ticked; the dispatcher's invariant after it, which no step but
`SysTick` touches; and `GateInv`, that from `Call` to `Enable` no tick is taken, so the window
is the caller's, the stack holds what `Pushed` leaves of the call's arguments, and after `Serve`
`argv` is what `Cast` makes of it. An integer that fits a register comes back as it was by
the theory of `%`, and so does a TIME_OUT that fits without its sign: the
exception of `ArgumentsArrive` is no hypothesis of its theorem. `TimeInv` ties the cycle
counter to `since - dropped` outside the handler, while `since` is below `MaxSince`; that `MaxSince`
may be any number makes `TimeKeepsPaceTheorem` a statement about ticks any number of
cycles apart.

*Processes.* Hypothesis `RoomForOne`: there are two slots at least, the region holds
main's stack and one more of any size asked for, and no sum wraps. `PInv` says
that threads are numbered as they are born; that a slot holds contexts of its own
partition only, and a READY one the last thread created in it, with the running
thread standing in for the slot it will be saved to (`ThreadOf`); that stacks lie below
`mem_offset` of their partition, so a new one lies above all others there; and `OneStays`, on which
`AlwaysACandidate` rests: `index_running_process` is 0 until it first moves, and it only
moves to a slot while a lower one is READY, so what STOP_SELF stops is never the
last READY slot, and a main has created a process before it stops. That the choice is
not dominated is an induction over the comparison loop, done on a least
counterexample (`BestExists`, `CandidateFacts`). The same lemma shows that the candidate is
the first READY slot or an older process; main's stamp is 0 and its slot is the first, so
until it stops it is always chosen and the index stays 0 (`MainFirst`), which gives
`MainsStopThemselves`.

*Rings.* Assumptions: `ByteAssumption` and, of the messages, that their lengths fit a
header, which is a `size_t` as the length is (`circular_buffer.c:59`). The invariant of
`RingLoops` ties the middle of a call to its start: after `i` turns the ring is the one
called with, the first `i` bytes pushed (`Pushed`) or drained; a pop's wanted
length is known once the header is out. At the return this is what `push_item` and
`pop_item` say. The fifo rests on three lemmas of `CircularBuffer_proofs`: a header is
read back as the length written (`HeaderSaysLength`), the bytes stored after a push are
those before with the item's behind, and after a pop those behind the item's, wherever
the ring wraps; and bytes made of whole items parse into their messages, one for one.
`LengthOf`, `Parsed` and `Needed` are recursive functions: that they are
functions at all, with the equation of their definition, is derived from
`RecursionByMeasure`, and what they compute by `InductionByMeasure`, both proved by a
least counterexample.

*Queuing ports.* Assumptions: those of `PortTables` and `QueuingPorts`. They leave open how
often a channel names a partition, and whether a port is in any. The inductive invariant
says, port by port (`PortOK`), that its ring is one
of the length `Q_MESSAGE_BUFFER` gives it, that its bytes are whole items (`Whole`), and that
`NB_MESSAGE` counts them. It is needed as a whole: a count tells messages only if no torn
item is in the ring, and none is because a pop that finds the count positive finds an
item's bytes all there. A receive changes a port by nothing, a pop that succeeds or one that
fails; a send by as many turns as its channel has places for the port: after `n` of them
it has up to `n` copies of the message more, and one at least if it had room for it
(`Grown`, by induction over the turns). Each maps to a step of `MessageFifo`, whose `Accept` takes a message as often as a
channel has places (`Copies`), or to a stutter. `TakesWhatFits` needs that the bytes
used are those `Needed` by the messages waiting.

*Sampling ports.* Assumptions: those of `PortTables` and `SamplingPorts`. A port's
size never passes its buffer, since a message is taken only if it is no longer than
the size as it now is; so the first bytes of the buffer are a value, a write that
is taken makes it the message, and a read returns it. A writer is told NO_ERROR exactly when
some activated destination of its channel is as large as the message. `FoundUntilShrunkTheorem`
supposes that the ports of a partition have different names (`NamesDiffer`): the
first port with the name asked for is the one that is compared.

*MPU prototype.* `TypeTheorem` rests on `TypeInv`: every block is
one of a few shapes of sections in some request's region, and there are as many as
counted, because the gifts of a round go to different partitions without a block (`AreGifts`).
That is what `Listed` says of the list of the best requests, one request after the
other; it holds whatever `perc` has lost of a size. Where a block lies is `SpaceInv`:
either it lies in a region that starts at a multiple of its size and ends before the
pointer, and is apart from the other blocks there, or it is a `Stray`, below all regions;
and the pointer is a multiple of the region of every request that
is left. The last is needed for the next region, and is kept because requests
are served by size and a smaller power of two divides a larger (`SmallerDivides`). The
gifts of a round either follow each other from the end of the region's own block, or
follow one that has not been placed (`Linked`, `Loose`), and then are strays. So
`InAlignedRegionTheorem` supposes only `BaseFits`, that the memory starts at a multiple of
every region and does not reach the end of the address space; it covers the tables of the
run whose pairs are divided. That blocks are apart needs that there are no strays (`NoStray`), for two
of them may lie at the same addresses, hence two more hypotheses of `BlocksDisjointTheorem`: `SizesKept`, with
which a listed size is the size (`Exact`), and `PairsUndivided`, since with two sections free
a second request is placed next to the first even if both sections went to a third.
Two strays in one table take seven partitions, so that in the run, whose tables
satisfy `SizesKept` only, blocks are apart all the same. `MaxExponent` bounds regions to 2^20
bytes, since the provers know powers of two one by one only.

Only model-checked:

* liveness (`EventuallyBuiltOrPanics`, `WindowsComeRound`, `WorkersRun`, `LoopsEnd`,
  `Served`): TLAPS has no ENABLED here, so no step from fairness to progress;
* the runs that end in a counterexample.

## 5. Not modelled, and the plan

Not modelled: drivers and library stubs (I/O without state of the kernel's own), the
fault handlers, registers and the FPU state that the handler does not save, the MPU
driver (never switched on by the kernel), `mpu.c` of `mpu_test` (section 2), the functions of
`time_get.c` that no one calls, vendored code, the port calls that only read (id,
status), the text output of the generator.

What is left of the plan:

1. `Processes` under `Kernel`'s clock: the partition of a tick taken from the dispatcher
   instead of left open.
2. `_sbrk` and `_read` of `syscalls.c`: the heap that grows towards the kernel's stack.
