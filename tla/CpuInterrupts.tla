--------------------------- MODULE CpuInterrupts ---------------------------
(***************************************************************************)
(* The emulated cores as host threads, and the interrupts sent to them:    *)
(* libcpu/src/cpu.cpp (start, halt, join, sendInterrupts, resume,          *)
(* checkInterrupts, clearInterrupts, waitForInterrupt) with the kernel's   *)
(* entry point and interrupt handler (hle/kernel/kernel.cpp) reduced to    *)
(* what they do to interrupts and to a core's control: what a reschedule   *)
(* decides is the Scheduler module's subject, what a debug break waits for *)
(* is the DebugBreak module's.                                             *)
(*                                                                         *)
(* One mutex (gInterruptLock) and one condition variable serve all cores.  *)
(* A step is one access to shared state: the or-ing in of an interrupt,    *)
(* the notification, the test of the pending set and the start of the wait *)
(* are separate, so the lost wake-up the code guards against is a          *)
(* behaviour the model could have.                                         *)
(***************************************************************************)
EXTENDS Naturals, Sequences

CONSTANTS NumCores,   \* NUM_CORES
          Clock,      \* the clock thread (alarms)
          Graphics,   \* the graphics thread: the debugger's windows and keys
          Main,       \* the main thread: SDL loop and shutdown
          Free        \* nobody holds gInterruptLock

Cores == 0 .. NumCores - 1
Hosts == {Clock, Graphics, Main}
Procs == Cores \cup Hosts

ASSUME NumCoresAssumption == NumCores \in Nat \ {0}
ASSUME ProcsAssumption ==
  /\ Clock \notin Cores /\ Graphics \notin Cores /\ Main \notin Cores
  /\ Clock # Graphics /\ Clock # Main /\ Graphics # Main
  /\ Free \notin Procs

GENERIC == "GENERIC_INTERRUPT"
DEBUG_BREAK == "DEBUG_BREAK_INTERRUPT"
RESET == "RESET_INTERRUPT"
Bits == {GENERIC, DEBUG_BREAK, RESET}
Calls == Cores \X Bits   \* the arguments of sendInterrupts

VARIABLES interrupts,  \* interrupts[c]: pending bits of core c
          lock,        \* holder of gInterruptLock, or Free
          pc,          \* control point of every host thread
          todo,        \* todo[p]: the sendInterrupts calls p has still to make
          taken,       \* taken[c]: the bits c's handler was called with
          ret,         \* ret[c]: where c's handler returns to
          isActive     \* isActive[c]: core c has a thread to run

vars == <<interrupts, lock, pc, todo, taken, ret, isActive>>

CorePcs == {"entry", "waitLock", "checking", "toWait", "asleep", "debug",
            "resched", "loop", "step", "sending", "tests", "testing", "halted"}
HostPcs == {"running", "halting", "joined"}
ReturnPcs == {"loop", "step", "tests"}   \* where the interrupt handler returns to

PcOK ==
  /\ pc \in [Procs -> CorePcs \cup HostPcs]
  /\ \A c \in Cores : pc[c] \in CorePcs
  /\ \A h \in Hosts : pc[h] \in HostPcs

TypeOK ==
  /\ interrupts \in [Cores -> SUBSET Bits]
  /\ lock \in Procs \cup {Free}
  /\ PcOK
  /\ todo \in [Procs -> Seq(Calls)]
  /\ taken \in [Cores -> SUBSET Bits]
  /\ ret \in [Cores -> ReturnPcs]
  /\ isActive \in [Cores -> BOOLEAN]

\* start() marks every core inactive and enters cpuEntry; on core 0 that
\* first creates the main thread and interrupts core 0.
Init ==
  /\ interrupts = [c \in Cores |-> {}]
  /\ lock = Free
  /\ pc = [p \in Procs |-> IF p \in Cores THEN "entry" ELSE "running"]
  /\ todo = [p \in Procs |-> IF p = 0 THEN << <<0, GENERIC>> >> ELSE <<>>]
  /\ taken = [c \in Cores |-> {}]
  /\ ret = [c \in Cores |-> "loop"]
  /\ isActive = [c \in Cores |-> FALSE]

----------------------------------------------------------------------------
(* sendInterrupts, called by any host thread.                              *)

\* A core makes its calls inside its entry point, an instruction or a handler.
SendPcs == {"entry", "sending", "testing", "debug"}
Sending(p) == p \in Hosts \/ pc[p] \in SendPcs

\* Take gInterruptLock and or the bits in.
SendOr(p) ==
  /\ Sending(p) /\ todo[p] # <<>> /\ lock = Free
  /\ lock' = p
  /\ interrupts' = [interrupts EXCEPT ![Head(todo[p])[1]] = @ \cup {Head(todo[p])[2]}]
  /\ UNCHANGED <<pc, todo, taken, ret, isActive>>

\* notify_all wakes every sleeping core; the destructor of lock releases it.
SendNotify(p) ==
  /\ Sending(p) /\ lock = p
  /\ pc' = [q \in Procs |-> IF pc[q] = "asleep" THEN "waitLock" ELSE pc[q]]
  /\ lock' = Free
  /\ todo' = [todo EXCEPT ![p] = Tail(@)]
  /\ UNCHANGED <<interrupts, taken, ret, isActive>>

\* Mutants: the loop starts or ends one core late or early.
MutantResetShifted == [i \in 1 .. NumCores |-> <<i, RESET>>]
MutantResetShort == [i \in 1 .. NumCores - 1 |-> <<i - 1, RESET>>]

\* halt(): RESET to core 0, 1, ...
ResetAll == [i \in 1 .. NumCores |-> <<i - 1, RESET>>]

----------------------------------------------------------------------------
(* kernel::interruptHandler, called by core c with bits # {}.              *)

\* debugBreakHandler: the initiating core interrupts all others.
BreakOthers(c) ==
  LET other(i) == IF i - 1 < c THEN i - 1 ELSE i
  IN  [i \in 1 .. NumCores - 1 |-> <<other(i), DEBUG_BREAK>>]

\* RESET ends the host thread, a break enters the debugger, anything else
\* goes on to the reschedule; the handler will return to back.
InterruptHandler(c, bits, back) ==
  IF RESET \in bits
  THEN /\ pc' = [pc EXCEPT ![c] = "halted"]
       /\ UNCHANGED <<todo, taken, ret>>
  ELSE /\ taken' = [taken EXCEPT ![c] = bits]
       /\ ret' = [ret EXCEPT ![c] = back]
       /\ \/ /\ DEBUG_BREAK \in bits
             /\ pc' = [pc EXCEPT ![c] = "debug"]
             /\ \E s \in {<<>>, BreakOthers(c)} : todo' = [todo EXCEPT ![c] = s]
          \/ /\ DEBUG_BREAK \notin bits
             /\ pc' = [pc EXCEPT ![c] = "resched"]
             /\ UNCHANGED todo

\* The handler returns; its argument is gone.
Return(c) ==
  /\ pc' = [pc EXCEPT ![c] = ret[c]]
  /\ taken' = [taken EXCEPT ![c] = {}]
  /\ ret' = [ret EXCEPT ![c] = "loop"]

\* Mutant: every pending interrupt is cleared.
MutantLeaveDebugBreak(c) ==
  /\ pc[c] = "debug" /\ todo[c] = <<>>
  /\ interrupts' = [interrupts EXCEPT ![c] = {}]
  /\ IF taken[c] = {DEBUG_BREAK}
     THEN Return(c)
     ELSE pc' = [pc EXCEPT ![c] = "resched"] /\ UNCHANGED <<taken, ret>>
  /\ UNCHANGED <<lock, todo, isActive>>

\* debugBreakHandler clears a break that arrived meanwhile before it leaves,
\* and only a break alone is not followed by a reschedule. What it waits for
\* (all cores to pause, a resume key, all cores to resume) is DebugBreak's
\* subject: here a core may leave at any time, and may stay for ever.
LeaveDebugBreak(c) ==
  /\ pc[c] = "debug" /\ todo[c] = <<>>
  /\ interrupts' = [interrupts EXCEPT ![c] = @ \ {DEBUG_BREAK}]
  /\ IF taken[c] = {DEBUG_BREAK}
     THEN Return(c)
     ELSE pc' = [pc EXCEPT ![c] = "resched"] /\ UNCHANGED <<taken, ret>>
  /\ UNCHANGED <<lock, todo, isActive>>

\* rescheduleNoLock finds a thread to run or leaves the core idle.
Reschedule(c) ==
  /\ pc[c] = "resched"
  /\ isActive' \in {[isActive EXCEPT ![c] = b] : b \in BOOLEAN}
  /\ Return(c)
  /\ UNCHANGED <<interrupts, lock, todo>>

----------------------------------------------------------------------------
(* waitForInterrupt: the lock is held from the test to the start of the    *)
(* wait.                                                                   *)

WaitLock(c) ==
  /\ pc[c] = "waitLock" /\ lock = Free
  /\ lock' = c
  /\ pc' = [pc EXCEPT ![c] = "checking"]
  /\ UNCHANGED <<interrupts, todo, taken, ret, isActive>>

\* Mutant: the handler is called with the lock held.
MutantCheckPending(c) ==
  /\ pc[c] = "checking" /\ interrupts[c] # {}
  /\ interrupts' = [interrupts EXCEPT ![c] = {}]
  /\ InterruptHandler(c, interrupts[c], "loop")
  /\ UNCHANGED <<lock, isActive>>

CheckPending(c) ==
  /\ pc[c] = "checking" /\ interrupts[c] # {}
  /\ interrupts' = [interrupts EXCEPT ![c] = {}]
  /\ lock' = Free
  /\ InterruptHandler(c, interrupts[c], "loop")
  /\ UNCHANGED isActive

\* Mutant: the lock is released between the test and the wait.
MutantCheckNothing(c) ==
  /\ pc[c] = "checking" /\ interrupts[c] = {}
  /\ lock' = Free
  /\ pc' = [pc EXCEPT ![c] = "toWait"]
  /\ UNCHANGED <<interrupts, todo, taken, ret, isActive>>

CheckNothing(c) ==
  /\ pc[c] = "checking" /\ interrupts[c] = {}
  /\ pc' = [pc EXCEPT ![c] = "toWait"]
  /\ UNCHANGED <<interrupts, lock, todo, taken, ret, isActive>>

\* condition_variable::wait releases the lock and sleeps in one step.
Sleep(c) ==
  /\ pc[c] = "toWait"
  /\ lock' = Free
  /\ pc' = [pc EXCEPT ![c] = "asleep"]
  /\ UNCHANGED <<interrupts, todo, taken, ret, isActive>>

\* The C++ standard lets wait return without a notification.
SpuriousWake(c) ==
  /\ pc[c] = "asleep"
  /\ pc' = [pc EXCEPT ![c] = "waitLock"]
  /\ UNCHANGED <<interrupts, lock, todo, taken, ret, isActive>>

----------------------------------------------------------------------------
(* resume and checkInterrupts.                                             *)

\* The core has nothing to run: back to cpuEntry's loop, which waits.
LeaveResume(c) ==
  /\ pc[c] = "loop" /\ ~isActive[c]
  /\ pc' = [pc EXCEPT ![c] = "waitLock"]
  /\ UNCHANGED <<interrupts, lock, todo, taken, ret, isActive>>

\* checkInterrupts: fetch_and(0) without the lock, then the handler if any
\* bit was set. The instruction that follows is executed in either case.
CheckInterrupts(c) ==
  /\ pc[c] = "loop" /\ isActive[c]
  /\ interrupts' = [interrupts EXCEPT ![c] = {}]
  /\ IF interrupts[c] = {}
     THEN pc' = [pc EXCEPT ![c] = "step"] /\ UNCHANGED <<todo, taken, ret>>
     ELSE InterruptHandler(c, interrupts[c], "step")
  /\ UNCHANGED <<lock, isActive>>

\* What an instruction sends: it may ask for a reschedule of core 0 (sleep,
\* wait), break into the debugger on core 0, or halt the machine
\* (svcExitProcess).
InstructionSends == { <<>>, << <<0, GENERIC>> >>, << <<0, DEBUG_BREAK>> >>, ResetAll }
BreakpointSends(c) == { <<>>, << <<c, DEBUG_BREAK>> >> }

\* The instruction's sendInterrupts calls, if it makes any ...
Step(c) ==
  /\ pc[c] = "step"
  /\ \E i \in InstructionSends : todo' = [todo EXCEPT ![c] = i]
  /\ pc' = [pc EXCEPT ![c] = "sending"]
  /\ UNCHANGED <<interrupts, lock, taken, ret, isActive>>

\* ... or yieldThread or exitThread, which reschedule inside the instruction ...
StepReschedules(c) ==
  /\ pc[c] = "step"
  /\ isActive' \in {[isActive EXCEPT ![c] = b] : b \in BOOLEAN}
  /\ pc' = [pc EXCEPT ![c] = "tests"]
  /\ UNCHANGED <<interrupts, lock, todo, taken, ret>>

\* ... or a fault: segFaultHandler enters the debugger inside the instruction.
StepFaults(c) ==
  /\ pc[c] = "step"
  /\ InterruptHandler(c, {DEBUG_BREAK}, "tests")
  /\ UNCHANGED <<interrupts, lock, isActive>>

\* The breakpoint tests after the instruction may break on its own core.
BreakpointTests(c) ==
  /\ pc[c] = "tests"
  /\ \E b \in BreakpointSends(c) : todo' = [todo EXCEPT ![c] = b]
  /\ pc' = [pc EXCEPT ![c] = "testing"]
  /\ UNCHANGED <<interrupts, lock, taken, ret, isActive>>

----------------------------------------------------------------------------
(* Where a core's calls are made, and the host threads.                    *)

\* cpuEntry, the instruction or the breakpoint test has made its sendInterrupts calls.
SendsDone(c) ==
  /\ pc[c] \in {"entry", "sending", "testing"} /\ todo[c] = <<>>
  /\ pc' = [pc EXCEPT ![c] = CASE @ = "entry" -> "waitLock"
                               [] @ = "sending" -> "tests"
                               [] @ = "testing" -> "loop"]
  /\ UNCHANGED <<interrupts, lock, todo, taken, ret, isActive>>

\* An alarm has triggered.
Tick ==
  /\ todo[Clock] = <<>>
  /\ todo' = [todo EXCEPT ![Clock] = << <<0, GENERIC>> >>]
  /\ UNCHANGED <<interrupts, lock, pc, taken, ret, isActive>>

\* The debugger's pause key, seen while the graphics thread draws the
\* debugger's windows: it may fall into the shutdown.
PauseKey ==
  /\ todo[Graphics] = <<>>
  /\ todo' = [todo EXCEPT ![Graphics] = << <<0, DEBUG_BREAK>> >>]
  /\ UNCHANGED <<interrupts, lock, pc, taken, ret, isActive>>

\* The window was closed: cpu::halt ...
Halt ==
  /\ pc[Main] = "running" /\ todo[Main] = <<>>
  /\ todo' = [todo EXCEPT ![Main] = ResetAll]
  /\ pc' = [pc EXCEPT ![Main] = "halting"]
  /\ UNCHANGED <<interrupts, lock, taken, ret, isActive>>

\* ... then cpu::join, which returns when every core's thread has ended.
Join ==
  /\ pc[Main] = "halting" /\ todo[Main] = <<>>
  /\ \A c \in Cores : pc[c] = "halted"
  /\ pc' = [pc EXCEPT ![Main] = "joined"]
  /\ UNCHANGED <<interrupts, lock, todo, taken, ret, isActive>>

----------------------------------------------------------------------------
CoreStep(c) ==
  \/ WaitLock(c) \/ CheckPending(c) \/ CheckNothing(c) \/ Sleep(c)
  \/ LeaveResume(c) \/ CheckInterrupts(c) \/ Step(c) \/ StepReschedules(c)
  \/ StepFaults(c) \/ BreakpointTests(c) \/ Reschedule(c) \/ SendsDone(c)

Send(p) == SendOr(p) \/ SendNotify(p)

Next ==
  \/ \E c \in Cores : CoreStep(c) \/ LeaveDebugBreak(c) \/ SpuriousWake(c)
  \/ \E p \in Procs : Send(p)
  \/ Tick \/ PauseKey \/ Halt \/ Join

Spec == Init /\ [][Next]_vars

\* The host schedules its threads, and gInterruptLock starves neither a core
\* nor the main thread: the only step of theirs that others can disable is
\* taking the lock, so strong fairness says no more than weak fairness and a
\* fair mutex. Nothing is assumed of spurious wake-ups, of when alarms trigger
\* or keys are pressed, or of leaving the debugger: nobody need ever press
\* resume, and a core that waits there for a core ended by RESET stays.
Fairness ==
  /\ \A c \in Cores : SF_vars(CoreStep(c) \/ Send(c))
  /\ SF_vars(Send(Main))
  /\ WF_vars(Send(Clock)) /\ WF_vars(Send(Graphics))
  /\ WF_vars(Join)

FairSpec == Spec /\ Fairness

----------------------------------------------------------------------------
(* Properties.                                                             *)

\* Whoever holds gInterruptLock is inside waitForInterrupt or between the
\* or-ing in and the notification of sendInterrupts, and a core inside
\* waitForInterrupt's critical section holds it: no return path leaks it.
LockDiscipline ==
  /\ \A c \in Cores : pc[c] \in {"checking", "toWait"} => lock = c
  /\ \A p \in Procs : lock = p =>
       \/ p \in Cores /\ pc[p] \in {"checking", "toWait"}
       \/ Sending(p) /\ todo[p] # <<>>

\* waitForInterrupt takes the lock "so no interrupts come between checking
\* and waiting" (cpu.cpp:244): a core that is going to sleep has nothing
\* pending, and a core sleeps on a pending interrupt only while the sender
\* still holds the lock and has not notified yet.
NoLostInterrupt ==
  \A c \in Cores :
    /\ pc[c] = "toWait" => interrupts[c] = {}
    /\ pc[c] = "asleep" /\ interrupts[c] # {} =>
         \E p \in Procs : lock = p /\ Sending(p) /\ todo[p] # <<>>

\* Core c enters debugBreakHandler and never leaves it.
StaysInDebugger(c) == <>[](pc[c] = "debug")

\* Closing the window ends the program unless the debugger keeps a core:
\* cpu::halt's RESET reaches every core that does not wait in
\* debugBreakHandler for ever, whatever the core is doing and whatever else
\* is sent to it, pause keys included, and cpu::join returns.
HaltJoins ==
  [](pc[Main] = "halting" =>
       <>(pc[Main] = "joined") \/ \E c \in Cores : StaysInDebugger(c))

\* A reschedule request is never dropped: a pending GENERIC on a core is
\* followed by a reschedule of that core, by its halt, or by a debug break
\* it never leaves.
GenericReschedules ==
  \A c \in Cores :
    [](GENERIC \in interrupts[c] =>
         <>(pc[c] \in {"resched", "halted"}) \/ StaysInDebugger(c))
============================================================================
