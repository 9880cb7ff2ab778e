# Formal model of switch-emu

switch-emu is a high-level emulator: it executes the AArch64 code of a guest
program on four emulated cores and answers the guest's system calls itself. Each
core is a host thread; a clock thread ends sleeps; a graphics thread shows the
frames, draws the debugger's windows and handles their keys
(`graphicsDriver.cpp:257-258`); the main thread runs the SDL loop and the shutdown. The TLA+ modules here model the parts whose
correctness depends on the order of steps of several threads, on long sequences
of calls, or on every bit of a computation, as they are in the source.

## Inventory

| Component | State | Operations | Interacts through |
|---|---|---|---|
| Cores and interrupts (`libcpu/src/cpu.cpp`, `kernel.cpp`, `emu.cpp`) | pending interrupt bits, `isActive`, one lock and one condition variable for all cores | `start`, `sendInterrupts`, `waitForInterrupt`, `checkInterrupts`, `resume`, `halt`, `join`, `interruptHandler` | everything else sends interrupts; the handler calls debugger and scheduler |
| Scheduler, threads, alarms (`scheduler.cpp`, `thread.cpp`, `alarm.cpp`, `clock.cpp`) | run list and current thread per core, status, priority, saved context, vector of alarms | create, start, yield, sleep, exit, wait; reschedule; alarm update | called from system calls and the interrupt handler; the clock thread queues without the scheduler lock |
| Debug break (`debug/debug.cpp`, keys of the disassembler window) | `gPausingCores`, `gResumingCores`, `gIsPaused`, single-step mode | `debugBreakHandler`, resume, single step | entered from interrupts and faults on every core; the graphics thread, which sees the keys, takes no lock |
| Memory map and page tables (`memoryMapper.cpp`, `libcpu/src/mem.cpp`) | list of mappings, page table, free page list | `addMapping`, `findMapping`, `allocatePage`, `protectPage`, reads and writes | system calls, loader, GPU and display services |
| System calls (`hle/svc.cpp`) | none | the table of `callSVC` | all kernel components |
| Handles and objects (`handleManager.cpp`, `types/`) | handle table, object map, reference counts | create, look up, close | threads, sessions, devices, transfer memory |
| IPC and services (`ipc.cpp`, `service.cpp`, `SmService`, `hle/nn`, `hle/nns`) | sessions, domains, named ports, registered services | parse a message, dispatch a command, build the reply | handles, guest memory |
| GPU devices (`gpu/`) | device handles, nvmap objects | open, ioctl | nvdrv service, display |
| Display (`nn/vi/display.cpp`, the binder, `graphicsDriver.cpp`) | layers, buffer queues, the screen's buffer | create a layer, set, dequeue and queue a buffer; draw | the game on core 0 and the graphics thread share the vectors without a lock |
| Decoder (`libcpu/src/decode`, `instructions.inl`) | the table | `decode`, `decode2`, `test` | interpreter, JIT |
| Interpreter (`libcpu/src/interpreter`) | registers, flags, exclusive monitor, memory | one handler per instruction, `step` | cores, memory |
| JIT (`libcpu/src/jit`) | compiled blocks | compile, run | cores |
| Loader (`kernel/loader`) | loaded modules, symbols | place, relocate, resolve | memory map |
| Debugger UI, disassembler, encoder, platform | windows | drawing, text | reads the other parts |

What is hard in this code:

- four core threads, the clock thread and the graphics thread share state under three
  different locks, or under none (alarms against the scheduler, resume against
  the debug handler, reference counts);
- sleeping and waking: lost wake-ups, requests that reach the wrong core, a
  handler entered while a request of another kind is pending;
- control that changes hands inside an instruction (a system call that switches
  threads, a fault that enters the debugger);
- two threads in the same vectors (layers, buffers, nvmap objects) with no lock;
- messages whose layout depends on everything before: numbers of handles and
  descriptors, alignment, and whether the session has become a domain;
- intervals with inclusive ends, cut and merged by long sequences of calls;
- limits: the free page list, the vector of alarms, 16-bit handle ids, the buffers
  of a queue;
- bit-exact arithmetic in many variants, and two decoders of 1106 instructions.

`PROJECT.json` lists each hazard at its line with the properties that would
notice it going wrong.

What makes each component correct:

- interrupts: none is slept through, none is dropped, shutdown ends unless the debugger
  keeps a core;
- scheduler: a core executes its current thread with that thread's context, a
  thread is queued or current once, a reschedule picks the best thread, a
  blocked thread does not execute, a runnable one does some day;
- debug break: a paused machine stands still, one step is one instruction, a
  resume lets everyone go;
- memory map: what a query reports is the latest mapping, the page table agrees
  with it, frames are not shared;
- handles: a handle names the object it was created for until it is closed;
- IPC: what the game packs is what the service reads, and the other way round;
- display: a frame on the screen is one whole frame, a buffer has one owner, and
  every layer gets its turn;
- decoder: the tree and the table agree;
- interpreter: sums, flags, bit fields, products, accesses, floats and vectors are
  those of exact arithmetic.

## Modules

| Module | Models |
|---|---|
| `CpuInterrupts` | core threads and interrupts |
| `CpuInterruptsProofs` | its proofs |
| `Scheduler` | scheduler, thread contexts, alarms, the core loop |
| `SchedulerProofs` | its proofs |
| `DebugBreak` | the stop-the-machine protocol |
| `DebugBreakProofs` | its proofs |
| `MemoryMapper` | mappings, page table, page allocator |
| `MemoryMapperProofs` | proofs about the page table, the allocator and the list of mappings |
| `BitUtils`, `InstructionTable` | bit ranges of a word; the rows of `instructions.inl` |
| `DecodeDPImm`, `DecodeDPReg`, `DecodeSystem`, `DecodeFloat`, `DecodeSIMD`, `DecodeLoadStore` | the decision trees of the files of the same names |
| `Decode` | `decode`, `decode2` and `test`, over the modules above |
| `InstUtils` | bit, flag and float helpers of `instutils.h`, `bitutils.h`, `floatutils.h` |
| `InterpreterDP`, `InterpreterLoadStore`, `InterpreterFloat`, `InterpreterSIMD` | the handlers, by file |
| `Interpreter` | the table of handlers and `step` |
| `InterpreterProperties` | what the handlers should compute, without using them |
| `HandleTable` | abstract specification of the handle table |
| `HandleManager` | the handle table |
| `Services`, `Devices` | the interfaces of the system modules, the ioctls of the devices |
| `Ipc` | messages, sessions, domains; composes `HandleManager`, `Services`, `Devices` |
| `MessageProofs` | proofs about the layout of messages and the tables of the services |
| `IpcProofs` | proofs about the handle table, the handles a game holds and the calls it makes; extends `MessageProofs` |
| `Display` | layers, buffer queues, graphics thread |
| `DisplayProofs` | its proofs |
| `SequenceLemmas` | facts about sequences and least elements that several proofs need |
| `MC*` | instances for TLC; one `.cfg` per question |

Definitions keep the names of the source; instructions are named by their mnemonics, as in
`instructions.inl`. Operators named `Mutant...` are not
part of any specification: each is a wrong version of the definition that
follows it, used to show that a property can fail.

### CpuInterrupts

`interrupts[c]` is the atomic word of core `c` as a set of bits, `lock` the holder
of `gInterruptLock`, `pc` the control point of each host thread, `todo` the
`sendInterrupts` calls a thread has still to make. One step is one access to
shared state: or-ing a bit in and notifying are two (`SendOr`, `SendNotify`), the
test of the pending bits and the start of the wait are two (`CheckNothing`,
`Sleep`), and so are the instruction and the breakpoint tests behind it. The handler
keeps the code's order: RESET ends the thread, a break enters the debugger, anything but
a break alone reschedules. The reschedule may leave the core active or idle.
`condition_variable::wait` may return without notification (`SpuriousWake`). The pause key
is seen by the graphics thread, at any time, also while the main thread shuts down.
What a core waits for in the debugger is `DebugBreak`'s subject; here it may leave at any
time and may stay for ever, since nobody need press a key and a core ended by RESET never
joins the others.

### Scheduler

`gThreadLists`, `gCurrentThreads` and `status` are the code's. A register file is
abstracted to the thread it belongs to, a PC to the thread whose code it points
into and whether it points at the yield just executed: exactly what
`saveState`/`restoreState` could mix up. `Reschedule` is `rescheduleNoLock` as one
step, since `gSchedulerLock` covers it; the clock thread's `queueThreadNoLock` is
three steps (`ClockPush`, `ClockSetReady`, `ClockInterrupt`) because it holds no
scheduler lock. If a core changes the run list between the clock thread's read of
the tail and its write, the list's behaviour is undefined, and the model lets the
node be linked or lost. `CreateAlarm` includes the vector's growth: the move
constructor and the destructors of `Alarm` are what they are in `alarm.h` and
`alarm.cpp`, so that the waiters of the alarms that move are woken (`Woken`), in the
order of the alarms and, for one alarm, of its waiters. `Thread::waitingThreads` is left out, as nothing calls
`Thread::exit`. Time is abstracted: an alarm may be due at any moment.

A thread may be started that is already started (`StartThread`, at most `MaxRestarts`
times), as nothing in the code prevents it; the history variable `restarts` counts these
starts. When a reschedule leaves the core idle, the core still executes one instruction
with the registers of the thread it left (`cpu.cpp:199-203`): an ordinary one, or a system
call. Creating and starting threads work without a current thread; the other calls
dereference a null `Thread` there, and the emulator ends. `ran[t]` counts the instructions executed
with the registers of `t` while it is blocked.

### DebugBreak

One action per step of `debugBreakHandler` that another thread can observe.
`gPausingCores` and `gResumingCores` change only under `gDebugBreakMutex`;
`gIsPaused` and `gSingleStepMode` are also written by the graphics thread, which takes
no lock, so their accesses are steps of their own. `Active` are the cores that
execute guest code; the others sleep in `waitForInterrupt`. The history variables are for
the properties only: `stepping` says that a single step was asked for and the machine was
not paused since, and whether the key fell between the pause (`debug.cpp:58`) and the
end of single-step mode (line 61), where it races with it; `executed` counts the instructions
of each core since the key.

### MemoryMapper

Addresses count half pages, so that the inclusive ends of the code are exact. Calls come
from one thread at a time, but the graphics thread reads the page table meanwhile
(`graphicsDriver.cpp:278`), so a call is several steps. `AddMapping` begins it;
`CutMapping` is one iteration of the loop over the list, at the position `iter`, with one
action per case (`PassBy`, `CutEnd`, `CutStart`, `Split`, and `Erase` with the `iter++`
after it); `InsertMapping` is `push_front` and the sort. Incrementing the end iterator is
undefined: the model has a debug build that stops and a release build whose circular list
starts again. `AllocateRegion` is one iteration of `allocateRegion` with the outcomes of
`allocatePage` (`InvalidPage` for a page that is not in the page table, `HasFrame`,
`NoFreePage`, `TakeFrame`, and `WaitForLock` for a lock that was left held),
`ProtectRegion` ends the call. `region` is the call under way. A page's
permission is the number of the call that set it.

### Decode

A word is a number below 2^32. The tree is a set of operators, one per function of
the `decode*.cpp` files, which return the id of an instruction; a row of the table
is its id, its fields with their values and the two lists of masks that must not be
all clear or all set. `Decode` is the loop of `test()`, one step per top byte
(`TestPage`); `Words` says which words of a byte the loop visits. Rows whose top byte
cannot match are dropped before the scan, which changes nothing but the time.
In `decodeLoadStore.cpp:1936-1939` a check of reserved bits has the wrong polarity
and no `return`; the model has it as it is.

### Interpreter

A core is a record with the fields of `struct Core`; a handler takes a core and an
instruction to a core (or, where the outcome is undefined in C++, to a set of cores).
The widths are parameters: `ByteBits` bits to a byte, so that W has 4 and X has 8
bytes of that size, and floats with exponents of `HalfExp`, `SingleExp` and
`DoubleExp` bits. A handler is a template with arguments in the source, and an
operator with parameters here; `Registered` is the table the `register...` functions
fill. Fetch and decode are the choice of an instruction from `Code`. A system call,
a memory breakpoint and an illegal instruction are recorded (`trap`, `interrupts`).
Host floating-point arithmetic, which the source uses for ordinary numbers, is exact
rational arithmetic rounded to the width.

The properties leave out, by name, what the source does differently from the
architecture: the sign of SBFM and the top bits of BFM, shifts of a dirty upper half
in the 32-bit shifted forms, the scale of 128-bit register offsets, the halves of a
store-pair exclusive, divisions by zero and NaN with infinity, FMADD with infinity,
comparisons of negative floats, conversions into a register whose sign was set, and
in-place pairwise sums. Each exception is an operator or a conjunct with a comment in
`InterpreterProperties`.

### HandleManager, Services, Devices, Ipc

`gHandleTable` and `gCompressedPointerMap` are the code's vector and map; `IdSpace`
stands for 2^16. Every service interface is its table of commands, in the order its
constructor registers them, and what each command hands out: a set of pairs of an id and
a function, and a stub for every id that has none of its own. A message is its header fields and its sequence of 32-bit
words: `Pack` and `Unpack` are the game's side (external), `Parse`, `ParseRaw` and
`Construct` the code's, with offsets counted as the code counts them. Descriptors are
packed bit by bit where the hardware format splits a field (the upper bits of an address
in two places, the upper bits of a size, flags, a counter), and `bitRange` cuts them out
of the word at the positions the code uses. The game uses the handles it was given (`told`
keeps what it was told they stand for). Every request of it, to a session, to an object of
a domain or for control, carries any of `Payloads` (process id, handles, descriptors,
arguments), completed by the descriptors its function reads. `shared` holds the ids that stand for more than one
thing: given out by the counter after it wrapped round, by `DuplicateSession`, as one
of the made-up handles of events, or left open when a domain gave the object up.
`doIpcCall` and `sendIoctl` cast what `lookupObject` finds without looking at its type.
A call through an object of another type is `Undefined` and not followed; a game meets
it only through an id that is shared, which is also why `MessagesArrive` is about calls
whose ids are not (`call.unambiguous`). It also leaves out, by name, what the code gets
wrong: C descriptors above 4 GB, whose upper address is dropped (`ipc.cpp:168`), and
control requests on a session that is a domain, whose reply has a domain header the game
does not expect.
Closing an object of a domain does nothing in the code (`CloseObject`), nor does a
close message (type 2).

`HandlesImplement` is a refinement. `HandleTable` is a set of open handles with the
order in which they were opened: `Open` opens the next one under the next id, `Close`
closes the one its id stands for, which is the oldest open under that id. The mapping
(`OpenHandles`) takes each entry of the vector with its object from the map, and the
compressed pointer as the place in the order.

### Display

The game's transactions and ioctls are actions; the graphics thread's walk is cut at
every access to what the game may change: the look for a queued buffer, the copy (in
two halves), the freeing. The walk goes to the layer that was the last one when it began
(`end`), as the range-for does. A transaction that finds nothing writes through the end of
a vector: the model then stops (`stopped`). A `push_back` while the graphics thread is in
the same vector (layers, the buffers of a queue, nvmap objects) moves it when there is no
room left: the model may then stop, or go on (`Grows`). The game sets a slot once, chooses
disjoint memory for its buffers and draws only in buffers it has dequeued.

## Runs

| Run | Instance | Shows |
|---|---|---|
| `interrupts` | 2 cores, clock, graphics and main thread, fair | `LockDiscipline`, `NoLostInterrupt`, `HaltJoins`, `GenericReschedules` |
| `scheduler` | 2 cores, 3 threads, 2 sleeps, 1 second start, fair | `RegistersOfCurrent`, `BlockedDoesNotRun`, `QueuedOnce`, `RescheduleRunsBest`, `RunsOwnCode`, `IdleCoreWakes`, `SleepsEnd` |
| `debug_break` | 3 executing cores | `PausedStandsStill`, `StepsOnce` |
| `memory_map` | 4 pages, 3 frames, 4 calls | `PermissionsFollow`, `FramesAreOwnedOnce`, `NewMappingIsFound`, `CallKeepsOtherMappings` |
| `decode` | 5632 words and the border of every row for each of the 256 top bytes | `DecodersAgree`, `OnlyHintOverlaps`, `EveryInstructionDecodes` |
| `interpreter` | X of 16 and W of 8 bits, ten groups of programs | the eight properties of `InterpreterProperties` |
| `ipc` | 4 handle ids, 6 handles, 4 games | `MessagesArrive`, `HandlesKeepTheirMeaning`, `HandlesImplement` |
| `display` | 2 layers, 2 slots, 2 nvmap objects of one buffer, fair | `ShowsWholeFrames`, `GameKeepsItsBuffers`, `LayersAreServed` |

The modules' type invariants are checked in their first runs. Four runs show that
the code does not do what a test program or a comment of the repository says:

| Run | Expectation | What the code does |
|---|---|---|
| `yield_returns` | a yield returns | the yielding thread is no longer RUNNING and not strictly better than itself: the core goes idle |
| `debug_single_step` | a single step is at most one instruction | a step key between `gIsPaused.store(true)` and `setSingleStepMode(false)` (`debug.cpp:58-61`) is undone by the latter: the cores run freely |
| `break_while_resuming` | no core breaks while another resumes | the last core leaves the barrier first and may empty `gResumingCores` under the others, which then stay |
| `mappings_disjoint` | mappings do not overlap | the loop skips the mapping behind one it erases |

The same models contain three more such behaviours that no run is kept for: a thread
started on another core than 0 never runs, since only core 0 is ever interrupted
(`scheduler.cpp:48`); a sleep ends early when a later one makes the vector of alarms
grow (`alarm.cpp:61`); a break sent during a pause breaks again after the resume
(`debug.cpp:71`).

`HaltJoins` and `GenericReschedules` say what happens unless a core stays in the debugger
for ever (`StaysInDebugger`), which a pause key during the shutdown can bring about.
`BlockedDoesNotRun` allows the one instruction after a core was left idle, and no second
one. `QueuedOnce` ends with the first second start of a thread; the other properties of the
scheduler do not. `RunsOwnCode` names the one step that sends a thread into another one's
code: a switch inside a yield or an exit, which is followed by the interpreter's
`PC = nextPC` and overwrites the PC that was loaded.

### Bounds

- Two cores are enough for every pair of sender and sleeper, and for a core with
  work beside one without; the theorems of `CpuInterrupts` cover any number.
- `DebugBreak` uses three cores: an initiator, a last one and one in between.
- `Scheduler`: with three threads there are two in a run list next to a current one, and
  one next to a sleeper. Main's priority is 0, as in `cpuEntry`, and the others' is 63, next
  to the 64 that stands for none: threads are better than, worse than and as good as each
  other. They go to core 0 or to core 1. Two alarms reach the vector's growth with a waiter
  in it; longer vectors are covered by the theorems, which are about any number of threads,
  priorities and alarms.
- `MemoryMapper`: four pages allow a mapping with neighbours on both sides, and a region
  may reach beyond the last page; the three frames run out; four calls reach a split, its
  halves trimmed and erased. The run that shows the overlap has five pages.
- `Decode`: the words are all combinations of the bits 10 to 15 and 21 to 23 with the
  values of bits 16 to 20 that some arm tells apart, and for each row of the table its
  match and every word one bit away; the register fields below are read by few arms,
  which the second part covers. Every instruction of the table is reached
  (`EveryInstructionDecodes`).
- `Interpreter`: two bits to a byte keep all the structure (bytes, halfwords, words,
  lanes, partial products) and leave room for all shift amounts and field positions;
  operands are the numbers around every border of sign and carry, and floats around
  every class. A program is one instruction, or a comparison and its branch.
- `Ipc`: with four ids and six handles the fifth handle gets the id of the process and
  the sixth that of the main thread, in use or closed; the sessions and objects before
  them keep theirs. A
  game has one way through the services, so four games reach every kind of answer.
  The payloads combine process id, copied and moved handles, one or two descriptors of
  every kind with all fields filled, and no or five arguments; the game sends them all
  while it has at most `PayloadBound` handles, which includes its sessions and domains,
  and the smallest one after that.
- `Display`: two layers compete, or two slots of one layer with two frames let the game
  refill one buffer while the other is shown; there is memory for two buffers.
- Deadlock is checked where the system should never stop. The scheduler's guest
  may come to an end (idle cores, all alarms used up), the memory map has a
  bounded number of calls, programs and `test()` end, a game runs out of handles, and
  undefined behaviour stops the display.

### Fairness

`FairSpec` of `CpuInterrupts` assumes that the host runs every thread and that
`gInterruptLock` starves neither a core nor the main thread (strong fairness of each
core's steps and of the main thread's sends; what disables them is only the lock), and that
the sends of the clock and graphics threads and `join` go on (weak fairness). It
assumes nothing of when alarms are due or keys pressed, of spurious wake-ups, or of
leaving the debugger (`LeaveDebugBreak`). `FairSpec` of `Scheduler` assumes that every core thread runs and
that the clock thread, which ticks every millisecond (`clock.cpp`), does. `Spec` of
`Display` assumes that the graphics thread goes on: its loop only sleeps for 20 ms and
waits for nobody (`graphicsDriver.cpp:245-264`). The game owes nothing.

## Proofs

Checked by TLAPS for every value of the constants: any number of cores, threads, ids,
handles, layers, buffers, pages, frames and calls. Each theorem is `Spec => []P` (or, for
an action property, `Spec => [][A]_vars`; for the refinement, `Spec => Table!Spec`) and
follows from an inductive invariant that every action is shown to preserve.

| Module | Theorem | States |
|---|---|---|
| `CpuInterruptsProofs` | `TypeCorrect`, `LockCorrect`, `NoInterruptIsLost` | `TypeOK`, `LockDiscipline`, `NoLostInterrupt` |
| `DebugBreakProofs` | `DebugTypeCorrect`, `PausedCorrect`, `SingleStepCorrect` | `TypeOK`, `PausedStandsStill`, `StepsOnce` |
| `SchedulerProofs` | `TypeCorrect`, `RightRegisters`, `BlockedThreads`, `ThreadsQueuedOnce`, `BestThreadRuns`, `OwnCodeKept` | `TypeOK`, `RegistersOfCurrent`, `BlockedDoesNotRun`, `QueuedOnce`, `RescheduleRunsBest`, `RunsOwnCode` |
| `DisplayProofs` | `WholeFrames`, `GameBuffers` | `ShowsWholeFrames`, `GameKeepsItsBuffers` |
| `IpcProofs` | `HandlesRefine`, `LookupRight`, `HandlesMean`, `RequestsArrive` | `HandlesImplement`, `LookupFindsOldest`, `HandlesKeepTheirMeaning`, `MessagesArrive` |
| `MemoryMapperProofs` | `TypeCorrect`, `FramesOnce`, `LatestPermissions`, `NewMappingFound`, `CallKeepsOthers` | `TypeOK`, `FramesAreOwnedOnce`, `PermissionsFollow`, `NewMappingIsFound`, `CallKeepsOtherMappings` |

`CpuInterruptsProofs`. The inductive invariant is the conjunction of the three:
`NoLostInterrupt` is preserved by `SendOr` only because no core is between test and wait
while another thread holds the lock, which is `LockDiscipline`; that in turn needs the
types of the calls still to be made, so that a notification ends with the lock free.

`DebugBreakProofs`. `PausedStandsStill` is not inductive: all cores but the last one pass
the test of `gIsPaused` before it is set, and what keeps them is that the last core has
not yet announced its resume. `DebugInv` says who holds the mutex, that cores in
`gPausingCores` are in the handler, that `gResumingCores` holds none but cores of the
break under way, and that the last core (`Last`) is outside `gResumingCores` with all
others in the barrier. `StepInv` adds, while a step is under way whose key did not race with
the pause, that single-step mode is on and that a core which has executed its instruction is on its way into the handler or has joined the break, and
`LeavesBarrier` that it cannot leave before all have joined.

`SchedulerProofs`. What holds whatever the guest starts is `Base`: types, registers, and
that no core but core 0 is ever asked to reschedule (`Others`), that there is nothing to
trigger before the main thread is made (`Fresh`), that core 0 is about to reschedule when its
current thread is blocked (`NotBlocked`), and that the callers at their control points exist
(`Calling`). `RanOnce` adds what `BlockedDoesNotRun` needs: a core that has executed an
instruction of a blocked thread has no current thread and is on its way to
`waitForInterrupt`. `QueuedOnce` needs to know where every thread is: a thread is in one list,
waits for one alarm or is being linked by the clock thread, and never two of these (`Once`); a
thread that was not started is nowhere and a RUNNING one is current and nowhere else
(`Places`); what core 0 executes is not queued (`Executes`). These three, `Tidy`, are
invariant until the first second start (`TidyUnlessRestarted`). `RescheduleRunsBest` rests on
lemmas about the search of the list for the best priority. `OwnCodeKept` goes through every
step but the switch inside a yield or an exit.

`DisplayProofs`. A frame stays whole because the buffer the graphics thread copies is
neither with the game nor free, which must be said for every point of the walk (`Shown`).
That two buffers never share memory, which is the game's choice in the model, is part of the
invariant (`Layout`), since drawing in one buffer would otherwise tear another.

`IpcProofs`. `TInv` says that the entries are in the order of their pointers, that the
pointers are in the map and below the counter, and that the two counters run in step: then
the first entry with an id, which the loops of `lookupObject` and `closeHandle` find, is the
oldest, and a new pointer is never one in use. `NextHandles` shows that a call of the game,
whatever the request, is at most one operation of the table. `Meant` is the invariant for
`HandlesKeepTheirMeaning`: an id that is not shared has one entry (`Single`), its entry backs
every promise of it (`Backed`), an entry with such an id was promised or is the process
(`OnlyPromised`, so that a counter that comes round to it is noticed as sharing it), two
promises of it are a session and itself as an object of its domain (`SameId`, so that closing
the one takes back the other), the game has the handle of every domain it has objects of
(`Base`, `Domains`), and no session is a domain without the game knowing (`KnownDomains`).

`RequestsArrive` has two halves. The layout of a message is in `MessageProofs`. The words of
a request are a concatenation of parts, and `Holds(words, at, part)` says that a part stands
at an offset; the lemmas show that each offset `doIpcCall` counts up from the header fields is
the length of the parts before (`HeaderLengths`, `RawLengths`), that a descriptor packed in two
or three words is put together again from their bits (`ReadX`, `ReadABW`, `ReadC`), and together that `Parse`
and `ParseRaw` give back what was packed (`ParseReads`, `RawReads`) and `Unpack` what was
constructed (`ReplyRead`), at every alignment; only a C descriptor must be below 4 GB. `RawReads` needs that the session is a domain
exactly when the game takes it for one. That, and that the request reaches the interface the
game means, is the other half, in `IpcProofs`: it follows from `Meant` (`SendReaches`).
`ReplyRead` needs that an answer consists of words, for which every function of the 45 tables
is shown to have its type (`TablesTyped`); so does `Meant`, as the interfaces that functions
open must exist.

`MemoryMapperProofs`. `FramesAreOwnedOnce` needs that no frame is in the free list twice;
`PermissionsFollow`, which is about the time between calls, needs `CallInv` for the time
within one: the pages of the call belong to it, pages without a frame have no permission, and
the others have that of their owner. `ListInv` is about the list. Between calls it is in the
order of the bases; in the loop, every mapping passed is `Clear` (it does not reach from before
the new interval into it), and either those to come are still in order or they are clear, too.
So the mapping that `iter++` skips behind an erased one needs no cut at its end: it begins no
earlier than the erased one, hence in the new interval or behind it. That all mappings are
whole pages (`PageAligned`) excludes the overlap of one address for which no case of the loop
cuts. `NewMappingIsFound` follows: an older mapping that holds an address of the new one begins
no earlier, and the stable sort after `push_front` puts it behind the new one. The sort is
described by the position each element goes to (`Rank`); that every position is taken
(`RankOnto`) is a cardinality argument. `CallKeepsOtherMappings` needs that each case keeps
exactly what a mapping holds outside of the new interval (`CutsAreExact`); together the two say
that a call on a list in which every page has its latest mapping leaves every page findable.

Assumptions on the constants, all named and evaluated by TLC: at least one core and distinct
model values (`NumCoresAssumption`, `ProcsAssumption`, `DebugAssumption`), priorities below
64 as in the code (`SchedulerAssumption`), a finite set of slots, at most nine buffers in an nvmap object, since the
model puts the objects ten addresses apart, and frames other than 0, which stands for a
buffer being drawn (`DisplayAssumption`), at least one id
(`HandleAssumption`; the code has 2^16), made-up handles other than 0 (`IpcAssumption`),
payloads of words with fields that fit, and with one C descriptor where its short encoding
is used (`PayloadsAssumption`), at least one page (`MapperAssumption`).

Only model-checked: all liveness properties, which are out of the prover's reach; the decoder
and the interpreter (their type invariants included), whose properties are about bits of
words of a fixed width and about recursive definitions.

## Not modelled

- Reference counts of kernel objects (`KAutoObject.h`): the unsynchronised updates
  matter only between core 0 and the clock thread, and every temporary pointer would
  have to be an action. The lifetime of objects in `HandleManager` is that of their
  handle.
- The JIT: its output is x86 code.
- The loader, the encoder of the unit tests, the disassembler's text, drawing, logging
  and the platform layer: file formats and I/O.
- `freePage`, `freeRegion`, `Thread::exit` and `stopGame` have no callers.
- The values services answer with; the contents of files; input.
- Undefined behaviour without a useful outcome: a system call other than
  create and start on a core that has just gone idle, the clock thread iterating a vector
  that a core reallocates, `findMapping`'s reference to a temporary, an ioctl on the
  file 0 of an unknown device, a handle used as an object of another type.
- The exclusive monitor across threads. `LoadStore.cpp:69` lets a store-exclusive
  succeed when memory holds `exclusiveData0` of the core, whoever loaded it, and does
  not read `exclusiveAccess`; one core without switches, as in `Interpreter`, does not
  show the difference.

## Plan

Next, in this order:

1. Proofs: the flags and bit fields of `InstUtils` for every width.
2. `Shutdown`: `CpuInterrupts` and `DebugBreak` composed (`kernel::exit`, `halt`, `join`
   during a break), and liveness of the resume (the notification that takes no
   mutex).
3. `Exclusives`: the load and store exclusive instructions of two threads with the
   scheduler's switches between them.
4. `PageMemory`: `translate`, `readRegion` and `writeRegion` over pages against a flat
   array.
5. `Loader`: placement, relocation, symbol lookup.
