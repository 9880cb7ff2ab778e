----------------------------- MODULE Scheduler -----------------------------
(***************************************************************************)
(* The emulated kernel's scheduler: hle/kernel/scheduler.cpp and           *)
(* thread.cpp, driven by the loop of every core (kernel.cpp cpuEntry,      *)
(* cpu.cpp resume) and by the clock thread that ends a sleep (alarm.cpp).  *)
(*                                                                         *)
(* Concurrency. gSchedulerLock makes a reschedule atomic, but the clock    *)
(* thread queues a woken thread (queueThreadNoLock) without it: the link   *)
(* into the run list, the status and the interrupt are separate steps that *)
(* interleave with core 0. Every reschedule request goes to core 0.        *)
(*                                                                         *)
(* Abstraction. A register file is the thread it belongs to; a PC is the   *)
(* thread whose code it points into, and whether it points at the yield    *)
(* that thread has just executed. Time is abstracted: an alarm that has    *)
(* not triggered may be due at any moment. RESET and DEBUG_BREAK are in    *)
(* CpuInterrupts and DebugBreak: a debug break alone does not reschedule   *)
(* (kernel.cpp:39). Thread::waitingThreads is left out: only Thread::exit  *)
(* reads it, which nothing calls.                                          *)
(***************************************************************************)
EXTENDS Naturals, Sequences, SequencesExt

CONSTANTS NumCores,     \* NUM_CORES
          Threads,      \* thread handles
          Main,         \* the handle cpuEntry creates on core 0
          Priorities,   \* priorities the guest passes to svcCreateThread
          Affinities,   \* cores it passes, DEFAULT_CORE possibly among them
          DEFAULT_CORE,
          Svcs,         \* the system calls the guest program makes
          MaxAlarms,    \* bound on the number of sleeps
          MaxRestarts,  \* bound on the starts of a thread that is already started
          INVALID       \* INVALID_THREAD

Cores == 0 .. NumCores - 1
NO_PRIORITY == 64
SvcNames == {"create", "start", "yield", "exit", "sleep", "wait"}

ASSUME SchedulerAssumption ==
  /\ NumCores \in Nat \ {0}
  /\ Main \in Threads /\ INVALID \notin Threads
  /\ Priorities \subseteq 0 .. 63
  /\ DEFAULT_CORE \notin Cores /\ Affinities \subseteq Cores \cup {DEFAULT_CORE}
  /\ Svcs \subseteq SvcNames
  /\ MaxAlarms \in Nat /\ MaxRestarts \in Nat

VARIABLES
  status,           \* Thread::status, or "NONE" before createThread
  priority, affinity,
  gThreadLists,     \* gThreadLists[c]: queued handles of core c, oldest first
  gCurrentThreads,  \* gCurrentThreads[c]
  isActive,         \* Core::isActive
  pending,          \* pending[c]: GENERIC_INTERRUPT is set
  hpc,              \* control point of core c's host thread
  regs,             \* regs[c]: whose registers core c holds
  pc,               \* pc[c]: what core c's PC points at
  context,          \* context[t]: the saved registers and PC
  gAlarms,          \* the alarms: hasTriggered and the waiting thread, if any
  capacity,         \* capacity of the vector gAlarms
  clock,            \* what the clock thread is doing, to which thread and alarm
  restarts,         \* history: how often a thread was started that was started before
  ran               \* history: ran[t]: instructions executed with t's registers
                    \* since t blocked, 2 standing for more than one

threadVars == <<status, priority, affinity>>
coreVars == <<isActive, hpc, regs, pc, context>>
alarmVars == <<gAlarms, capacity>>
vars == <<threadVars, gThreadLists, gCurrentThreads, coreVars, pending, alarmVars, clock,
          restarts, ran>>

Statuses == {"NONE", "UNINITIATED", "INITIALIZED", "READY", "RUNNING", "WAITING"}
Code(t) == [of |-> t, at |-> "code"]
Pcs == [of : Threads \cup {INVALID}, at : {"code", "yield"}]
ClockPcs == {"idle", "linking", "status", "interrupt"}
CorePcs == {"entry", "wait", "rescheduleIdle", "loop", "rescheduleRunning", "step", "alarm"}
Alarms == [hasTriggered : BOOLEAN, waiting : Threads \cup {INVALID}]
NewAlarm == [hasTriggered |-> FALSE, waiting |-> INVALID]
ClockIdle == [pc |-> "idle", thread |-> INVALID, alarm |-> 0, raced |-> FALSE]

TypeOK ==
  /\ status \in [Threads -> Statuses]
  /\ priority \in [Threads -> Nat]
  /\ affinity \in [Threads -> Cores]
  /\ gThreadLists \in [Cores -> Seq(Threads)]
  /\ gCurrentThreads \in [Cores -> Threads \cup {INVALID}]
  /\ isActive \in [Cores -> BOOLEAN]
  /\ pending \in [Cores -> BOOLEAN]
  /\ hpc \in [Cores -> CorePcs]
  /\ regs \in [Cores -> Threads \cup {INVALID}]
  /\ pc \in [Cores -> Pcs]
  /\ context \in [Threads -> [regs : Threads \cup {INVALID}, pc : Pcs]]
  /\ gAlarms \in Seq(Alarms)
  /\ capacity \in Nat
  /\ clock \in [pc : ClockPcs, thread : Threads \cup {INVALID}, alarm : Nat, raced : BOOLEAN]
  /\ restarts \in Nat
  /\ ran \in [Threads -> 0 .. 2]

Init ==
  /\ status = [t \in Threads |-> "NONE"]
  /\ priority = [t \in Threads |-> 0]
  /\ affinity = [t \in Threads |-> 0]
  /\ gThreadLists = [c \in Cores |-> <<>>]
  /\ gCurrentThreads = [c \in Cores |-> INVALID]
  /\ isActive = [c \in Cores |-> FALSE]
  /\ pending = [c \in Cores |-> FALSE]
  /\ hpc = [c \in Cores |-> "entry"]
  /\ regs = [c \in Cores |-> INVALID]
  /\ pc = [c \in Cores |-> Code(INVALID)]
  /\ context = [t \in Threads |-> [regs |-> t, pc |-> Code(t)]]
  /\ gAlarms = <<>>
  /\ capacity = 0
  /\ clock = ClockIdle
  /\ restarts = 0
  /\ ran = [t \in Threads |-> 0]

----------------------------------------------------------------------------
(* scheduler.cpp: the run lists.                                           *)

\* Mutant: the first better thread instead of the best one.
MutantBestIndices(list, minPriority) ==
  {i \in DOMAIN list : /\ priority[list[i]] < minPriority
                       /\ \A j \in 1 .. i - 1 : priority[list[j]] >= minPriority}

\* Where popBest finds its thread: the first of the best queued priorities,
\* if that is strictly better (smaller) than minPriority. At most one index.
BestIndices(list, minPriority) ==
  {i \in DOMAIN list :
     /\ priority[list[i]] < minPriority
     /\ \A j \in DOMAIN list : priority[list[i]] <= priority[list[j]]
     /\ \A j \in 1 .. i - 1 : priority[list[i]] < priority[list[j]]}

\* queueThreadNoLock's push_back on the list of the thread's core.
Pushed(lists, t) == [lists EXCEPT ![affinity[t]] = Append(@, t)]

\* Mutant: load the next thread, then save.
MutantContextSwitch(c, next, inYield, inSvc) ==
  LET cur == gCurrentThreads[c] IN
  /\ regs' = IF next # INVALID THEN [regs EXCEPT ![c] = context[next].regs] ELSE regs
  /\ pc' = IF next # INVALID THEN [pc EXCEPT ![c] = context[next].pc] ELSE pc
  /\ context' = IF cur # INVALID THEN [context EXCEPT ![cur] = [regs |-> regs'[c], pc |-> pc'[c]]]
                                 ELSE context

\* Mutant: the saved PC is not restored.
MutantKeepsPc(c, next, inYield, inSvc) ==
  LET cur == gCurrentThreads[c] IN
  /\ context' = IF cur # INVALID THEN [context EXCEPT ![cur] = [regs |-> regs[c], pc |-> pc[c]]]
                                 ELSE context
  /\ regs' = IF next # INVALID THEN [regs EXCEPT ![c] = context[next].regs] ELSE regs
  /\ UNCHANGED pc

\* contextSwitch: save the core into the current thread, load the next one.
\* Inside a system call the PC still points at the call, and the step that
\* executes the call ends with PC = nextPC, whichever thread was loaded.
ContextSwitch(c, next, inYield, inSvc) ==
  LET cur == gCurrentThreads[c]
      saved == [regs |-> regs[c], pc |-> [pc[c] EXCEPT !.at = IF inYield THEN "yield" ELSE @]]
  IN  /\ context' = IF cur # INVALID THEN [context EXCEPT ![cur] = saved] ELSE context
      /\ regs' = IF next # INVALID THEN [regs EXCEPT ![c] = context[next].regs] ELSE regs
      /\ pc' = IF inSvc THEN [pc EXCEPT ![c].at = "code"]
               ELSE IF next # INVALID THEN [pc EXCEPT ![c] = context[next].pc] ELSE pc

\* The priority a queued thread has to beat: that of the current thread,
\* whether or not it can still run.
MutantMinPriority(c) == IF gCurrentThreads[c] # INVALID THEN priority[gCurrentThreads[c]] ELSE 0
MinPriority(c) ==
  IF gCurrentThreads[c] # INVALID THEN priority[gCurrentThreads[c]] ELSE NO_PRIORITY

\* The current thread is queued again if it was running and loses the core.
MutantPreempts(c, next, st) == gCurrentThreads[c] # INVALID /\ next # gCurrentThreads[c]
Preempts(c, next, st) ==
  /\ gCurrentThreads[c] # INVALID /\ next # gCurrentThreads[c]
  /\ st[gCurrentThreads[c]] = "RUNNING"

\* rescheduleNoLock on core c, with the run lists and statuses its caller left.
Reschedule(c, lists, st, inYield, inSvc) ==
  LET cur == gCurrentThreads[c]
      best == BestIndices(lists[c], MinPriority(c))
      running == cur # INVALID /\ st[cur] = "RUNNING"
      i == CHOOSE k \in best : TRUE
      next == IF best # {} THEN lists[c][i] ELSE IF running THEN cur ELSE INVALID
      popped == IF best # {} THEN [lists EXCEPT ![c] = RemoveAt(@, i)] ELSE lists
      preempted == Preempts(c, next, st)
  IN  /\ gThreadLists' = IF preempted THEN Pushed(popped, cur) ELSE popped
      /\ status' = [t \in Threads |-> IF t = next THEN "RUNNING"
                                      ELSE IF preempted /\ t = cur THEN "READY" ELSE st[t]]
      /\ IF next # cur THEN ContextSwitch(c, next, inYield, inSvc)
                       ELSE UNCHANGED <<regs, pc, context>>
      /\ isActive' = [isActive EXCEPT ![c] = next # INVALID]
      /\ gCurrentThreads' = [gCurrentThreads EXCEPT ![c] = next]

----------------------------------------------------------------------------
(* The core's loop.                                                        *)

\* cpuEntry: core 0 creates, starts and asks for the main thread.
Entry(c) ==
  /\ hpc[c] = "entry"
  /\ hpc' = [hpc EXCEPT ![c] = "wait"]
  /\ IF c = 0
     THEN /\ status' = [status EXCEPT ![Main] = "READY"]
          /\ gThreadLists' = [gThreadLists EXCEPT ![0] = Append(@, Main)]
          /\ pending' = [pending EXCEPT ![0] = TRUE]
     ELSE UNCHANGED <<status, gThreadLists, pending>>
  /\ UNCHANGED <<priority, affinity, gCurrentThreads, isActive, regs, pc, context, alarmVars, restarts>>

\* waitForInterrupt returns through the handler, which reschedules.
TakeInterrupt(c) ==
  /\ hpc[c] = "wait" /\ pending[c]
  /\ pending' = [pending EXCEPT ![c] = FALSE]
  /\ hpc' = [hpc EXCEPT ![c] = "rescheduleIdle"]
  /\ UNCHANGED <<threadVars, gThreadLists, gCurrentThreads, isActive, regs, pc, context, alarmVars, restarts>>

\* resume: leave when inactive, else checkInterrupts and execute.
Loop(c) ==
  /\ hpc[c] = "loop"
  /\ hpc' = [hpc EXCEPT ![c] = IF ~isActive[c] THEN "wait"
                               ELSE IF pending[c] THEN "rescheduleRunning" ELSE "step"]
  /\ pending' = [pending EXCEPT ![c] = @ /\ ~isActive[c]]
  /\ UNCHANGED <<threadVars, gThreadLists, gCurrentThreads, isActive, regs, pc, context, alarmVars, restarts>>

\* interruptHandler: lockScheduler, rescheduleNoLock, unlockScheduler. From
\* checkInterrupts an instruction follows even if the core went idle.
HandleInterrupt(c) ==
  /\ hpc[c] \in {"rescheduleIdle", "rescheduleRunning"}
  /\ Reschedule(c, gThreadLists, status, FALSE, FALSE)
  /\ hpc' = [hpc EXCEPT ![c] = IF @ = "rescheduleIdle" THEN "loop" ELSE "step"]
  /\ UNCHANGED <<priority, affinity, pending, alarmVars, restarts>>

----------------------------------------------------------------------------
(* One guest instruction of core c: an ordinary one, or a system call.     *)

\* A core that has just gone idle still executes one instruction of the thread
\* it has left, with no current thread.
Ordinary(c) ==
  /\ hpc[c] = "step" /\ pc[c].at = "code"
  /\ hpc' = [hpc EXCEPT ![c] = "loop"]
  /\ UNCHANGED <<threadVars, gThreadLists, gCurrentThreads, isActive, pending, regs, pc,
                 context, alarmVars, restarts>>

\* The instruction is the system call svc, which is yield if the PC still
\* points at one. Without a current thread all calls but create and start
\* dereference a null Thread, and the emulator ends.
Calls(c, svc) ==
  /\ hpc[c] = "step"
  /\ gCurrentThreads[c] # INVALID \/ svc \in {"create", "start"}
  /\ svc \in Svcs /\ (pc[c].at = "yield" => svc = "yield")
  /\ hpc' = [hpc EXCEPT ![c] = "loop"]

\* The Thread constructor's choice of a core.
MutantCoreOf(a) == a
CoreOf(a) == IF a = DEFAULT_CORE THEN 0 ELSE a

\* svcCreateThread.
CreateThread(c) ==
  /\ Calls(c, "create")
  /\ \E t \in Threads, p \in Priorities, a \in Affinities :
       /\ status[t] = "NONE" /\ t # Main
       /\ status' = [status EXCEPT ![t] = "INITIALIZED"]
       /\ priority' = [priority EXCEPT ![t] = p]
       /\ affinity' = [affinity EXCEPT ![t] = CoreOf(a)]
  /\ UNCHANGED <<gThreadLists, gCurrentThreads, isActive, pending, regs, pc, context, alarmVars, restarts>>

\* svcStartThread of any thread there is: queued, nobody interrupted. Nothing
\* checks that it was not started before.
StartThread(c) ==
  /\ Calls(c, "start")
  /\ \E t \in Threads :
       LET again == status[t] \notin {"INITIALIZED", "UNINITIATED"} IN
       /\ status[t] # "NONE"
       /\ again => restarts < MaxRestarts
       /\ restarts' = IF again THEN restarts + 1 ELSE restarts
       /\ status' = [status EXCEPT ![t] = "READY"]
       /\ gThreadLists' = Pushed(gThreadLists, t)
  /\ UNCHANGED <<priority, affinity, gCurrentThreads, isActive, pending, regs, pc, context, alarmVars>>

\* svcSleepThread(0): queue the caller, then reschedule in the same critical
\* section. The caller is no longer RUNNING when rescheduleNoLock looks.
YieldThread(c) ==
  LET cur == gCurrentThreads[c] IN
  /\ Calls(c, "yield")
  /\ Reschedule(c, Pushed(gThreadLists, cur), [status EXCEPT ![cur] = "READY"], TRUE, TRUE)
  /\ UNCHANGED <<priority, affinity, pending, alarmVars, restarts>>

\* svcExitThread.
ExitThread(c) ==
  LET cur == gCurrentThreads[c] IN
  /\ Calls(c, "exit")
  /\ Reschedule(c, gThreadLists, [status EXCEPT ![cur] = "UNINITIATED"], FALSE, TRUE)
  /\ UNCHANGED <<priority, affinity, pending, alarmVars, restarts>>

\* The elements of a finite set of numbers from the smallest to the largest.
Ascending(S) ==
  CHOOSE f \in [1 .. Cardinality(S) -> S] :
    \A i, j \in 1 .. Cardinality(S) : i < j => f[i] < f[j]

\* The alarms with a waiter of core d, and those waiters in the order of the alarms.
WaitersOn(d) ==
  {i \in DOMAIN gAlarms : gAlarms[i].waiting # INVALID /\ affinity[gAlarms[i].waiting] = d}
Woken(d) ==
  [k \in 1 .. Cardinality(WaitersOn(d)) |-> gAlarms[Ascending(WaitersOn(d))[k]].waiting]

\* svcSleepThread(n): createAlarm appends to a vector. When it is full the
\* vector grows by half: the move constructor copies only the trigger time,
\* so a copy has no waiter and may trigger again, and the destructor of each
\* old alarm queues its waiter. (A destructor waits for the mutex the clock
\* thread holds during an update.)
CreateAlarm(c) ==
  LET n == Len(gAlarms)
      moves == n = capacity
  IN  /\ hpc[c] = "step" /\ gCurrentThreads[c] # INVALID /\ pc[c].at = "code"
      /\ "sleep" \in Svcs /\ n < MaxAlarms
      /\ IF moves
         THEN /\ clock.pc = "idle"
              /\ gAlarms' = Append([i \in 1 .. n |-> NewAlarm], NewAlarm)
              /\ capacity' = IF n < 2 THEN n + 1 ELSE n + n \div 2
              /\ gThreadLists' = [d \in Cores |-> gThreadLists[d] \o Woken(d)]
              /\ status' = [t \in Threads |->
                              IF \E i \in 1 .. n : gAlarms[i].waiting = t THEN "READY" ELSE status[t]]
         ELSE /\ gAlarms' = Append(gAlarms, NewAlarm)
              /\ UNCHANGED <<capacity, gThreadLists, status>>
      /\ hpc' = [hpc EXCEPT ![c] = "alarm"]
      /\ UNCHANGED <<priority, affinity, gCurrentThreads, isActive, pending, regs, pc, context,
                     restarts>>

\* Mutant: the caller waits for an alarm that has already triggered.
MutantAlarmWait(c) ==
  /\ hpc[c] = "alarm" /\ clock.alarm # Len(gAlarms)
  /\ gAlarms' = [gAlarms EXCEPT ![Len(gAlarms)].waiting = gCurrentThreads[c]]
  /\ status' = [status EXCEPT ![gCurrentThreads[c]] = "WAITING"]
  /\ pending' = [pending EXCEPT ![0] = TRUE]
  /\ hpc' = [hpc EXCEPT ![c] = "loop"]
  /\ UNCHANGED <<priority, affinity, gThreadLists, gCurrentThreads, isActive, regs, pc, context,
                 capacity, restarts>>

\* ... and then Alarm::wait, under the alarm's mutex. If the clock thread has
\* triggered the alarm in between, the caller is queued at once.
AlarmWait(c) ==
  LET cur == gCurrentThreads[c]
      n == Len(gAlarms)
  IN  /\ hpc[c] = "alarm" /\ clock.alarm # n
      /\ IF gAlarms[n].hasTriggered
         THEN /\ status' = [status EXCEPT ![cur] = "READY"]
              /\ gThreadLists' = Pushed(gThreadLists, cur)
              /\ UNCHANGED gAlarms
         ELSE /\ gAlarms' = [gAlarms EXCEPT ![n].waiting = cur]
              /\ status' = [status EXCEPT ![cur] = "WAITING"]
              /\ UNCHANGED gThreadLists
      /\ pending' = [pending EXCEPT ![0] = TRUE]
      /\ hpc' = [hpc EXCEPT ![c] = "loop"]
      /\ UNCHANGED <<priority, affinity, gCurrentThreads, isActive, regs, pc, context, capacity, restarts>>

\* Mutant: nobody is interrupted.
MutantWaitSynchronization(c) ==
  /\ Calls(c, "wait")
  /\ status' = [status EXCEPT ![gCurrentThreads[c]] = "WAITING"]
  /\ UNCHANGED <<priority, affinity, gThreadLists, gCurrentThreads, isActive, pending, regs, pc,
                 context, alarmVars, restarts>>

\* svcWaitSynchronization on thread handles: Thread::sync makes the caller
\* wait for each (no thread is ever EXITED) and interrupts core 0.
WaitSynchronization(c) ==
  LET cur == gCurrentThreads[c] IN
  /\ Calls(c, "wait")
  /\ status' = [status EXCEPT ![cur] = "WAITING"]
  /\ pending' = [pending EXCEPT ![0] = TRUE]
  /\ UNCHANGED <<priority, affinity, gThreadLists, gCurrentThreads, isActive, regs, pc,
                 context, alarmVars, restarts>>

----------------------------------------------------------------------------
(* Alarm::update on the clock thread, under the alarm's mutex but not      *)
(* gSchedulerLock.                                                         *)

clockFrame == <<priority, affinity, gCurrentThreads, coreVars, capacity, restarts>>

\* updateAlarms finds an alarm that is due; queueThreadNoLock's push_back of
\* its waiter reads the tail of the run list.
ClockTrigger ==
  /\ clock.pc = "idle"
  /\ \E i \in DOMAIN gAlarms :
       /\ ~gAlarms[i].hasTriggered
       /\ gAlarms' = [gAlarms EXCEPT ![i] = [hasTriggered |-> TRUE, waiting |-> INVALID]]
       /\ clock' = [pc |-> IF gAlarms[i].waiting = INVALID THEN "interrupt" ELSE "linking",
                    thread |-> gAlarms[i].waiting, alarm |-> i, raced |-> FALSE]
  /\ UNCHANGED <<clockFrame, status, gThreadLists, pending>>

\* push_back links the node. If a core changed the list meanwhile (a data
\* race) the node may hang off one that is no longer in the list.
ClockPush ==
  /\ clock.pc = "linking"
  /\ \/ gThreadLists' = Pushed(gThreadLists, clock.thread)
     \/ clock.raced /\ UNCHANGED gThreadLists
  /\ clock' = [clock EXCEPT !.pc = "status", !.raced = FALSE]
  /\ UNCHANGED <<clockFrame, status, pending, gAlarms>>

ClockSetReady ==
  /\ clock.pc = "status"
  /\ status' = [status EXCEPT ![clock.thread] = "READY"]
  /\ clock' = [clock EXCEPT !.pc = "interrupt"]
  /\ UNCHANGED <<clockFrame, gThreadLists, pending, gAlarms>>

ClockInterrupt ==
  /\ clock.pc = "interrupt"
  /\ pending' = [pending EXCEPT ![0] = TRUE]
  /\ clock' = ClockIdle
  /\ UNCHANGED <<clockFrame, status, gThreadLists, gAlarms>>

----------------------------------------------------------------------------
CoreAction(c) ==
  \/ Entry(c) \/ TakeInterrupt(c) \/ Loop(c) \/ HandleInterrupt(c)
  \/ Ordinary(c) \/ CreateThread(c) \/ StartThread(c) \/ YieldThread(c)
  \/ ExitThread(c) \/ CreateAlarm(c) \/ AlarmWait(c) \/ WaitSynchronization(c)

\* Core c executes an instruction with the registers of t, which is blocked.
RunsBlocked(c, t) == hpc[c] = "step" /\ regs[c] = t /\ status[t] = "WAITING"

\* A core's step races with a push_back that is in progress.
CoreStep(c) ==
  /\ CoreAction(c)
  /\ clock' = [clock EXCEPT !.raced =
                @ \/ /\ clock.pc = "linking"
                     /\ LET d == affinity[clock.thread] IN gThreadLists'[d] # gThreadLists[d]]
  /\ ran' = [t \in Threads |-> IF status'[t] # "WAITING" THEN 0
                               ELSE IF RunsBlocked(c, t) /\ ran[t] < 2 THEN ran[t] + 1
                               ELSE ran[t]]

ClockStep ==
  /\ ClockTrigger \/ ClockPush \/ ClockSetReady \/ ClockInterrupt
  /\ ran' = [t \in Threads |-> IF status'[t] # "WAITING" THEN 0 ELSE ran[t]]

Next == (\E c \in Cores : CoreStep(c)) \/ ClockStep

Spec == Init /\ [][Next]_vars

\* The host runs every core thread and the clock thread; the clock ticks
\* every millisecond, so every sleep ends.
FairSpec == Spec /\ (\A c \in Cores : WF_vars(CoreStep(c))) /\ WF_vars(ClockStep)

----------------------------------------------------------------------------
(* Properties.                                                             *)

\* Registers are saved into and loaded from the right thread: a core with a
\* current thread holds that thread's registers, every saved context is its
\* own thread's, and a core is active exactly when it has a current thread
\* (rescheduleNoLock with contextSwitch).
RegistersOfCurrent ==
  /\ \A c \in Cores : /\ gCurrentThreads[c] # INVALID => regs[c] = gCurrentThreads[c]
                      /\ isActive[c] <=> gCurrentThreads[c] # INVALID
  /\ \A t \in Threads : context[t].regs = t

\* A blocking system call only sends an interrupt and returns (Alarm::wait,
\* Thread::sync), but the core reaches the reschedule before the caller's next
\* instruction: no core executes for a current thread that is blocked. A core
\* that the reschedule leaves idle executes one instruction of the blocked
\* thread all the same (cpu.cpp:199-203), and never a second one.
BlockedDoesNotRun ==
  /\ \A c \in Cores :
       hpc[c] = "step" /\ gCurrentThreads[c] # INVALID => status[gCurrentThreads[c]] # "WAITING"
  /\ \A t \in Threads : ran[t] <= 1

\* A handle is queued at most once over all run lists, and a RUNNING thread is
\* current on exactly one core and not queued, in spite of the clock thread's
\* unlocked queueing, as long as the guest starts no thread that it has
\* already started: startThread (scheduler.cpp:41) would queue it again.
QueuedOnce ==
  restarts = 0 =>
    /\ \A c, d \in Cores : \A i \in DOMAIN gThreadLists[c], j \in DOMAIN gThreadLists[d] :
         gThreadLists[c][i] = gThreadLists[d][j] => c = d /\ i = j
    /\ \A t \in Threads : status[t] = "RUNNING" =>
         /\ \E c \in Cores : gCurrentThreads[c] = t
         /\ \A c \in Cores : ~Contains(gThreadLists[c], t)
    /\ \A c, d \in Cores : gCurrentThreads[c] = gCurrentThreads[d] /\ gCurrentThreads[c] # INVALID
                           => c = d

\* After a reschedule no queued thread of the core is better than the one
\* that runs, and a thread that keeps or gains the core is the best one.
RescheduleRunsBest ==
  [][\A c \in Cores : HandleInterrupt(c) =>
       LET next == gCurrentThreads'[c] IN
       \A i \in DOMAIN gThreadLists'[c] :
          /\ next # INVALID => priority[next] <= priority[gThreadLists'[c][i]]
          /\ next = INVALID => gCurrentThreads[c] # INVALID /\
               priority[gCurrentThreads[c]] <= priority[gThreadLists'[c][i]]]_vars

\* An idle core 0 that is asked to reschedule while threads are queued runs one.
IdleCoreWakes ==
  pending[0] /\ gCurrentThreads[0] = INVALID /\ gThreadLists[0] # <<>>
    ~> gCurrentThreads[0] # INVALID

\* A yield returns: the main thread runs again after it gave up the core.
YieldReturns == status[Main] = "READY" ~> status[Main] = "RUNNING"

\* Every core's PC is in the code of its current thread, every saved PC in
\* the code of the thread it is saved for.
OwnCode ==
  /\ \A c \in Cores : gCurrentThreads[c] # INVALID => pc[c].of = gCurrentThreads[c]
  /\ \A t \in Threads : context[t].pc.of = t

\* Core c switches to another thread inside a yield or an exit.
SwitchesInCall(c) ==
  /\ YieldThread(c) \/ ExitThread(c)
  /\ gCurrentThreads'[c] \notin {gCurrentThreads[c], INVALID}

\* Threads execute their own code, over any number of reschedules, until a
\* yield or an exit loads another thread: only there does the interpreter's
\* final PC = nextPC send the loaded thread into the caller's code.
RunsOwnCode == [][OwnCode => OwnCode' \/ \E c \in Cores : SwitchesInCall(c)]_vars

\* Every sleep ends: a thread that waits for an alarm is made READY, although
\* the alarm may trigger before Alarm::wait has entered the waiter, and the
\* vector's growth replaces alarms that have waiters.
SleepsEnd ==
  \A t \in Threads : (\E i \in DOMAIN gAlarms : gAlarms[i].waiting = t) ~> status[t] # "WAITING"
============================================================================
