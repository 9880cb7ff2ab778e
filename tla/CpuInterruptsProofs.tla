------------------------ MODULE CpuInterruptsProofs ------------------------
(***************************************************************************)
(* No interrupt is lost by a core that goes to sleep, for any number of    *)
(* cores. NoLostInterrupt is not inductive: it needs that the holder of    *)
(* gInterruptLock is where LockDiscipline says.                            *)
(***************************************************************************)
EXTENDS CpuInterrupts, TLAPS

IInv == TypeOK /\ LockDiscipline /\ NoLostInterrupt

\* The steps of core c's own thread, sends and spurious wake-ups apart.
CoreMoves(c) == CoreStep(c) \/ LeaveDebugBreak(c)

\* Short lists are sequences.
LEMMA ShortSeq ==
  ASSUME NEW S, NEW x \in S
  PROVE  <<>> \in Seq(S) /\ <<x>> \in Seq(S)
OBVIOUS

\* A function on 1 .. n is a sequence.
LEMMA FunctionSeq ==
  ASSUME NEW S, NEW n \in Nat, NEW f \in [1 .. n -> S]
  PROVE  f \in Seq(S)
OBVIOUS

\* Every send the code makes names a core and a bit.
LEMMA CallTypes ==
  /\ 0 \in Cores
  /\ <<0, GENERIC>> \in Calls /\ <<0, DEBUG_BREAK>> \in Calls
  /\ \A c \in Cores : <<c, DEBUG_BREAK>> \in Calls /\ <<c, RESET>> \in Calls
<1>1. 0 \in Cores
  BY NumCoresAssumption DEF Cores
<1> QED BY <1>1 DEF Calls, Bits

\* The interrupt lists halt and a debug break send are lists of calls.
LEMMA SendLists ==
  /\ ResetAll \in Seq(Calls)
  /\ \A c \in Cores : BreakOthers(c) \in Seq(Calls)
<1>1. ResetAll \in Seq(Calls)
  <2>1. \A i \in 1 .. NumCores : i - 1 \in Cores
    BY NumCoresAssumption DEF Cores
  <2>2. ResetAll \in [1 .. NumCores -> Calls]
    BY <2>1, CallTypes DEF ResetAll
  <2> QED BY <2>2, FunctionSeq, NumCoresAssumption
<1>2. ASSUME NEW c \in Cores PROVE BreakOthers(c) \in Seq(Calls)
  <2>1. \A i \in 1 .. NumCores - 1 : (IF i - 1 < c THEN i - 1 ELSE i) \in Cores
    BY <1>2, NumCoresAssumption DEF Cores
  <2>2. NumCores - 1 \in Nat
    BY NumCoresAssumption
  <2>3. BreakOthers(c) \in [1 .. NumCores - 1 -> Calls]
    BY <2>1, CallTypes DEF BreakOthers
  <2> QED BY <2>2, <2>3, FunctionSeq
<1> QED BY <1>1, <1>2

\* What one instruction may send is a list of calls.
LEMMA StepLists ==
  ASSUME NEW c \in Cores
  PROVE  /\ \A b \in BreakpointSends(c) : b \in Seq(Calls)
         /\ \A i \in InstructionSends : i \in Seq(Calls)
<1>1. \A b \in BreakpointSends(c) : b \in Seq(Calls)
  BY CallTypes, ShortSeq, Zenon DEF BreakpointSends
<1>2. \A i \in InstructionSends : i \in Seq(Calls)
  BY CallTypes, ShortSeq, SendLists, Zenon DEF InstructionSends
<1> QED BY <1>1, <1>2

\* Initially no core sleeps and nobody holds the lock.
LEMMA InitIInv == Init => IInv
<1> SUFFICES ASSUME Init PROVE IInv
  OBVIOUS
<1>1. 0 \in Cores
  BY NumCoresAssumption DEF Cores
<1>2. TypeOK
  <2>1. << <<0, GENERIC>> >> \in Seq(Calls) /\ <<>> \in Seq(Calls)
    BY CallTypes, ShortSeq
  <2>2. todo \in [Procs -> Seq(Calls)]
    BY <2>1 DEF Init
  <2> QED BY <1>1, <2>2, ProcsAssumption DEF Init, TypeOK, PcOK, Procs, Hosts, CorePcs, HostPcs,
          ReturnPcs
<1>3. LockDiscipline /\ NoLostInterrupt
  BY ProcsAssumption DEF Init, LockDiscipline, NoLostInterrupt, Procs, Hosts
<1> QED BY <1>2, <1>3 DEF IInv

\* Moving one core, or the main thread, to another control point.
LEMMA PcMove ==
  ASSUME PcOK
  PROVE  /\ \A c \in Cores, v \in CorePcs : pc' = [pc EXCEPT ![c] = v] => PcOK'
         /\ \A v \in HostPcs : pc' = [pc EXCEPT ![Main] = v] => PcOK'
<1>1. ASSUME NEW c \in Cores, NEW v \in CorePcs, pc' = [pc EXCEPT ![c] = v] PROVE PcOK'
  <2>1. c \in Procs /\ c \notin Hosts
    BY ProcsAssumption DEF Procs, Hosts
  <2> QED BY <1>1, <2>1 DEF PcOK
<1>2. ASSUME NEW v \in HostPcs, pc' = [pc EXCEPT ![Main] = v] PROVE PcOK'
  <2>1. Main \in Procs /\ Main \notin Cores
    BY ProcsAssumption DEF Procs, Hosts
  <2> QED BY <1>2, <2>1 DEF PcOK
<1> QED BY <1>1, <1>2

\* The handler leaves its four variables well typed.
LEMMA HandlerType ==
  ASSUME TypeOK, NEW c \in Cores, NEW bits \in SUBSET Bits,
         NEW back \in ReturnPcs, InterruptHandler(c, bits, back)
  PROVE  /\ PcOK'
         /\ todo' \in [Procs -> Seq(Calls)]
         /\ taken' \in [Cores -> SUBSET Bits]
         /\ ret' \in [Cores -> ReturnPcs]
<1>1. c \in Procs
  BY DEF Procs
<1>2. todo' \in [Procs -> Seq(Calls)]
  <2>1. <<>> \in Seq(Calls) /\ BreakOthers(c) \in Seq(Calls)
    BY SendLists
  <2>2. todo' = todo \/ \E s \in Seq(Calls) : todo' = [todo EXCEPT ![c] = s]
    BY <2>1 DEF InterruptHandler
  <2> QED BY <1>1, <2>2 DEF TypeOK
<1>3. PcOK'
  <2>1. \E v \in {"halted", "debug", "resched"} : pc' = [pc EXCEPT ![c] = v]
    BY DEF InterruptHandler
  <2> QED BY <2>1, PcMove DEF CorePcs, TypeOK
<1>4. taken' \in [Cores -> SUBSET Bits] /\ ret' \in [Cores -> ReturnPcs]
  BY DEF InterruptHandler, TypeOK
<1> QED BY <1>2, <1>3, <1>4

\* Every step keeps the types.
LEMMA TypeStep == TypeOK /\ LockDiscipline /\ [Next]_vars => TypeOK'
<1> SUFFICES ASSUME TypeOK, LockDiscipline, [Next]_vars PROVE TypeOK'
  OBVIOUS
<1>1. Cores \subseteq Procs /\ Clock \in Procs /\ Graphics \in Procs /\ Main \in Procs
  BY DEF Procs, Hosts
<1>2. << <<0, GENERIC>> >> \in Seq(Calls) /\ << <<0, DEBUG_BREAK>> >> \in Seq(Calls)
  BY CallTypes, ShortSeq
<1>3. ASSUME NEW c \in Cores, CoreMoves(c) PROVE TypeOK'
  <2>1. CASE WaitLock(c) \/ CheckNothing(c) \/ Sleep(c) \/ LeaveResume(c) \/ SendsDone(c)
    <3>1. \E v \in CorePcs : pc' = [pc EXCEPT ![c] = v]
      BY <2>1 DEF WaitLock, CheckNothing, Sleep, LeaveResume, SendsDone, CorePcs
    <3>2. PcOK'
      BY <3>1, PcMove DEF TypeOK
    <3> QED BY <1>1, <2>1, <3>2
            DEF WaitLock, CheckNothing, Sleep, LeaveResume, SendsDone, TypeOK
  <2>2. CASE CheckPending(c)
    <3>1. interrupts[c] \in SUBSET Bits
      BY DEF TypeOK
    <3>2. InterruptHandler(c, interrupts[c], "loop")
      BY <2>2 DEF CheckPending
    <3> QED BY <2>2, <3>1, <3>2, HandlerType DEF CheckPending, TypeOK, ReturnPcs
  <2>3. CASE CheckInterrupts(c)
    <3>1. interrupts[c] \in SUBSET Bits
      BY DEF TypeOK
    <3>2. CASE interrupts[c] = {}
      <4>1. PcOK'
        BY <2>3, <3>2, PcMove DEF CheckInterrupts, TypeOK, CorePcs
      <4> QED BY <2>3, <3>2, <4>1 DEF CheckInterrupts, TypeOK
    <3>3. CASE interrupts[c] # {}
      <4>1. InterruptHandler(c, interrupts[c], "step")
        BY <2>3, <3>3 DEF CheckInterrupts
      <4> QED BY <2>3, <3>1, <4>1, HandlerType DEF CheckInterrupts, TypeOK, ReturnPcs
    <3> QED BY <3>2, <3>3
  <2>4. CASE Step(c) \/ StepReschedules(c) \/ BreakpointTests(c)
    <3>1. todo' = todo \/ \E s \in Seq(Calls) : todo' = [todo EXCEPT ![c] = s]
      BY <2>4, StepLists DEF Step, StepReschedules, BreakpointTests
    <3>2. todo' \in [Procs -> Seq(Calls)]
      BY <1>1, <3>1 DEF TypeOK
    <3>3. \E v \in {"sending", "tests", "testing"} : pc' = [pc EXCEPT ![c] = v]
      BY <2>4 DEF Step, StepReschedules, BreakpointTests
    <3>4. PcOK'
      BY <3>3, PcMove DEF TypeOK, CorePcs
    <3>5. isActive' \in [Cores -> BOOLEAN]
      BY <2>4 DEF Step, StepReschedules, BreakpointTests, TypeOK
    <3> QED BY <2>4, <3>2, <3>4, <3>5 DEF Step, StepReschedules, BreakpointTests, TypeOK
  <2>5. CASE StepFaults(c)
    <3>1. {DEBUG_BREAK} \in SUBSET Bits
      BY DEF Bits
    <3> QED BY <2>5, <3>1, HandlerType DEF StepFaults, TypeOK, ReturnPcs
  <2>6. CASE LeaveDebugBreak(c) \/ Reschedule(c)
    <3>1. \E v \in {"loop", "step", "tests", "resched"} : pc' = [pc EXCEPT ![c] = v]
      BY <2>6 DEF LeaveDebugBreak, Reschedule, Return, ReturnPcs, TypeOK
    <3>2. PcOK'
      BY <3>1, PcMove DEF TypeOK, CorePcs
    <3>3. /\ taken' \in [Cores -> SUBSET Bits] /\ ret' \in [Cores -> ReturnPcs]
          /\ interrupts' \in [Cores -> SUBSET Bits]
      BY <2>6 DEF LeaveDebugBreak, Reschedule, Return, ReturnPcs, TypeOK
    <3>4. isActive' \in [Cores -> BOOLEAN]
      BY <2>6 DEF LeaveDebugBreak, Reschedule, TypeOK
    <3> QED BY <2>6, <3>2, <3>3, <3>4 DEF LeaveDebugBreak, Reschedule, TypeOK
  <2> QED BY <1>3, <2>1, <2>2, <2>3, <2>4, <2>5, <2>6 DEF CoreMoves, CoreStep
<1>4. ASSUME NEW c \in Cores, SpuriousWake(c) PROVE TypeOK'
  <2>1. PcOK'
    BY <1>4, PcMove DEF SpuriousWake, TypeOK, CorePcs
  <2> QED BY <1>4, <2>1 DEF SpuriousWake, TypeOK
<1>5. ASSUME NEW p \in Procs, SendOr(p) PROVE TypeOK'
  <2>1. Head(todo[p]) \in Calls
    BY <1>5 DEF SendOr, TypeOK
  <2>2. Head(todo[p])[1] \in Cores /\ Head(todo[p])[2] \in Bits
    BY <2>1 DEF Calls
  <2> QED BY <1>5, <2>2 DEF SendOr, TypeOK, PcOK
<1>6. ASSUME NEW p \in Procs, SendNotify(p) PROVE TypeOK'
  <2>1. todo[p] # <<>>
    BY <1>6, ProcsAssumption DEF SendNotify, LockDiscipline, Sending, SendPcs, Hosts
  <2>2. Tail(todo[p]) \in Seq(Calls)
    BY <1>6, <2>1 DEF TypeOK
  <2>3. todo' \in [Procs -> Seq(Calls)] /\ lock' \in Procs \cup {Free}
    BY <1>6, <2>2 DEF SendNotify, TypeOK
  <2>4. \A q \in Procs : pc'[q] = IF pc[q] = "asleep" THEN "waitLock" ELSE pc[q]
    BY <1>6 DEF SendNotify
  <2>5. \A c \in Cores : pc'[c] \in CorePcs
    BY <1>1, <2>4 DEF TypeOK, PcOK, CorePcs
  <2>6. \A h \in Hosts : pc'[h] \in HostPcs
    BY <1>1, <2>4 DEF TypeOK, PcOK, HostPcs, Hosts
  <2>7. PcOK'
    BY <1>6, <2>5, <2>6 DEF SendNotify, PcOK, Procs
  <2> QED BY <1>6, <2>3, <2>7 DEF SendNotify, TypeOK
<1>7. CASE Tick \/ PauseKey
  <2>1. todo' \in [Procs -> Seq(Calls)]
    BY <1>1, <1>2, <1>7 DEF Tick, PauseKey, TypeOK
  <2> QED BY <1>7, <2>1 DEF Tick, PauseKey, TypeOK, PcOK
<1>8. CASE Halt \/ Join
  <2>1. todo' \in [Procs -> Seq(Calls)]
    BY <1>1, <1>8, SendLists DEF Halt, Join, TypeOK
  <2>2. PcOK'
    BY <1>8, PcMove DEF Halt, Join, HostPcs, TypeOK
  <2> QED BY <1>8, <2>1, <2>2 DEF Halt, Join, TypeOK
<1>9. CASE UNCHANGED vars
  BY <1>9 DEF vars, TypeOK, PcOK
<1> QED BY <1>3, <1>4, <1>5, <1>6, <1>7, <1>8, <1>9 DEF Next, Send, CoreMoves

\* Core c is outside waitForInterrupt and sendInterrupts.
Outside(c) == \/ pc[c] \in {"loop", "step", "tests", "resched", "asleep"}
              \/ pc[c] \in SendPcs /\ todo[c] = <<>>

\* Such a core does not hold the lock, so moving it to a point outside
\* waitForInterrupt keeps the discipline.
LEMMA OutsideMove ==
  ASSUME TypeOK, LockDiscipline, NEW c \in Cores, Outside(c), lock' = lock,
         \A p \in Procs : p # c => pc'[p] = pc[p] /\ todo'[p] = todo[p],
         pc'[c] \notin {"checking", "toWait"}
  PROVE  LockDiscipline'
<1>1. lock # c
  BY ProcsAssumption DEF Outside, LockDiscipline, Sending, SendPcs, Procs, Hosts
<1> QED BY <1>1 DEF LockDiscipline, Sending, SendPcs, Procs

\* Every step keeps the lock's discipline.
LEMMA LockStep == TypeOK /\ LockDiscipline /\ [Next]_vars => LockDiscipline'
<1> SUFFICES ASSUME TypeOK, LockDiscipline, [Next]_vars PROVE LockDiscipline'
  OBVIOUS
<1>1. ASSUME NEW c \in Cores, CoreMoves(c) PROVE LockDiscipline'
  <2>0. c \in Procs /\ c \notin Hosts /\ Free \notin Procs
    BY ProcsAssumption DEF Procs, Hosts
  <2>1. CASE WaitLock(c)
    BY <2>0, <2>1 DEF WaitLock, LockDiscipline, Sending, SendPcs, TypeOK, PcOK, Procs
  <2>2. CASE CheckNothing(c)
    BY <2>0, <2>2 DEF CheckNothing, LockDiscipline, Sending, SendPcs, TypeOK, PcOK, Procs
  <2>3. CASE Sleep(c)
    BY <2>0, <2>3 DEF Sleep, LockDiscipline, Sending, SendPcs, TypeOK, PcOK, Procs
  <2>4. CASE CheckPending(c)
    <3>1. lock = c /\ lock' = Free
      BY <2>4 DEF CheckPending, LockDiscipline
    <3>2. \E v \in {"halted", "debug", "resched"} : pc' = [pc EXCEPT ![c] = v]
      BY <2>4 DEF CheckPending, InterruptHandler
    <3> QED BY <2>0, <3>1, <3>2 DEF LockDiscipline, TypeOK, PcOK
  <2>5. CASE CheckInterrupts(c) \/ StepFaults(c)
    <3>1. \E v \in {"halted", "debug", "resched", "step"} : pc' = [pc EXCEPT ![c] = v]
      BY <2>5 DEF CheckInterrupts, StepFaults, InterruptHandler
    <3>2. \A p \in Procs : p # c => pc'[p] = pc[p] /\ todo'[p] = todo[p]
      BY <2>5, <3>1 DEF CheckInterrupts, StepFaults, InterruptHandler, TypeOK, PcOK
    <3>3. pc'[c] \notin {"checking", "toWait"}
      BY <2>0, <3>1 DEF TypeOK, PcOK
    <3>4. Outside(c) /\ lock' = lock
      BY <2>5 DEF CheckInterrupts, StepFaults, Outside
    <3> QED BY <3>2, <3>3, <3>4, OutsideMove
  <2>6. CASE LeaveResume(c) \/ Step(c) \/ StepReschedules(c) \/ BreakpointTests(c) \/ SendsDone(c)
    <3>1. \E v \in {"waitLock", "sending", "tests", "testing", "loop"} :
            pc' = [pc EXCEPT ![c] = v]
      BY <2>6 DEF LeaveResume, Step, StepReschedules, BreakpointTests, SendsDone
    <3>2. \A p \in Procs : p # c => pc'[p] = pc[p] /\ todo'[p] = todo[p]
      BY <2>6, <3>1 DEF LeaveResume, Step, StepReschedules, BreakpointTests, SendsDone, TypeOK, PcOK
    <3>3. pc'[c] \notin {"checking", "toWait"}
      BY <2>0, <3>1 DEF TypeOK, PcOK
    <3>4. Outside(c) /\ lock' = lock
      BY <2>6 DEF LeaveResume, Step, StepReschedules, BreakpointTests, SendsDone, Outside, SendPcs
    <3> QED BY <3>2, <3>3, <3>4, OutsideMove
  <2>7. CASE LeaveDebugBreak(c) \/ Reschedule(c)
    <3>1. \E v \in {"loop", "step", "tests", "resched"} : pc' = [pc EXCEPT ![c] = v]
      BY <2>7 DEF LeaveDebugBreak, Reschedule, Return, ReturnPcs, TypeOK
    <3>2. \A p \in Procs : p # c => pc'[p] = pc[p] /\ todo'[p] = todo[p]
      BY <2>7, <3>1 DEF LeaveDebugBreak, Reschedule, TypeOK, PcOK
    <3>3. pc'[c] \notin {"checking", "toWait"}
      BY <2>0, <3>1 DEF TypeOK, PcOK
    <3>4. Outside(c) /\ lock' = lock
      BY <2>7 DEF LeaveDebugBreak, Reschedule, Outside, SendPcs
    <3> QED BY <3>2, <3>3, <3>4, OutsideMove
  <2> QED BY <1>1, <2>1, <2>2, <2>3, <2>4, <2>5, <2>6, <2>7 DEF CoreMoves, CoreStep
<1>2. ASSUME NEW c \in Cores, SpuriousWake(c) PROVE LockDiscipline'
  <2>1. \A p \in Procs : p # c => pc'[p] = pc[p] /\ todo'[p] = todo[p]
    BY <1>2 DEF SpuriousWake, TypeOK, PcOK
  <2>2. pc'[c] = "waitLock"
    BY <1>2 DEF SpuriousWake, TypeOK, PcOK, Procs
  <2> QED BY <1>2, <2>1, <2>2, OutsideMove DEF SpuriousWake, Outside
<1>3. ASSUME NEW p \in Procs, SendOr(p) PROVE LockDiscipline'
  BY <1>3, ProcsAssumption DEF SendOr, LockDiscipline, Sending, SendPcs, Procs
<1>4. ASSUME NEW p \in Procs, SendNotify(p) PROVE LockDiscipline'
  <2>1. lock' = Free /\ lock = p /\ Free \notin Procs
    BY <1>4, ProcsAssumption DEF SendNotify
  <2>2. \A c \in Cores : pc'[c] \in {"checking", "toWait"} => pc[c] = pc'[c]
    BY <1>4 DEF SendNotify, Procs
  <2>3. ASSUME NEW c \in Cores, pc[c] \in {"checking", "toWait"} PROVE FALSE
    BY <1>4, <2>1, <2>3, ProcsAssumption DEF LockDiscipline, SendNotify, Sending, SendPcs, Hosts
  <2> QED BY <2>1, <2>2, <2>3 DEF LockDiscipline
<1>5. CASE Tick
  BY <1>5 DEF Tick, LockDiscipline, Sending, SendPcs, TypeOK, Procs, Hosts
<1>6. CASE PauseKey
  BY <1>6 DEF PauseKey, LockDiscipline, Sending, SendPcs, TypeOK, Procs, Hosts
<1>7. CASE Halt \/ Join
  <2>1. lock' = lock /\ lock # Main
    BY <1>7, ProcsAssumption DEF Halt, Join, LockDiscipline, Sending, SendPcs, Procs, Hosts
  <2>2. \A p \in Procs : p # Main => pc'[p] = pc[p] /\ todo'[p] = todo[p]
    BY <1>7 DEF Halt, Join, TypeOK, PcOK
  <2> QED BY <2>1, <2>2, ProcsAssumption DEF LockDiscipline, Sending, SendPcs, Procs
<1>8. CASE UNCHANGED vars
  BY <1>8 DEF vars, LockDiscipline, Sending, SendPcs
<1> QED BY <1>1, <1>2, <1>3, <1>4, <1>5, <1>6, <1>7, <1>8 DEF Next, Send, CoreMoves

\* A sender that has or-ed in but not notified.
Notifying == \E p \in Procs : lock = p /\ Sending(p) /\ todo[p] # <<>>

\* Every step keeps NoLostInterrupt: interrupts of a core grow only under the
\* lock, which the core itself holds from its test to its sleep, and the step
\* that ends the sender's hold wakes every sleeper.
LEMMA NoLostStep ==
  TypeOK /\ LockDiscipline /\ NoLostInterrupt /\ [Next]_vars => NoLostInterrupt'
<1> SUFFICES ASSUME TypeOK, LockDiscipline, NoLostInterrupt, [Next]_vars,
                    NEW d \in Cores
             PROVE  /\ pc'[d] = "toWait" => interrupts'[d] = {}
                    /\ pc'[d] = "asleep" /\ interrupts'[d] # {} => Notifying'
  BY DEF NoLostInterrupt, Notifying
<1>0. /\ pc[d] = "toWait" => interrupts[d] = {}
      /\ pc[d] = "asleep" /\ interrupts[d] # {} => Notifying
  BY DEF NoLostInterrupt, Notifying
<1>1. ASSUME NEW c \in Cores, CoreMoves(c)
      PROVE  /\ pc'[d] = "toWait" => interrupts'[d] = {}
             /\ pc'[d] = "asleep" /\ interrupts'[d] # {} => Notifying'
  <2>0. c \in Procs /\ d \in Procs /\ c \notin Hosts /\ Free \notin Procs
    BY ProcsAssumption DEF Procs, Hosts
  <2>1. interrupts'[d] \subseteq interrupts[d]
    BY <1>1 DEF CoreMoves, CoreStep, WaitLock, CheckPending, CheckNothing, Sleep, LeaveResume,
       CheckInterrupts, Step, StepReschedules, StepFaults, BreakpointTests, LeaveDebugBreak, Reschedule,
       SendsDone, TypeOK
  <2>2. \E v \in CorePcs : pc' = [pc EXCEPT ![c] = v]
    BY <1>1 DEF CoreMoves, CoreStep, WaitLock, CheckPending, CheckNothing, Sleep, LeaveResume,
       CheckInterrupts, Step, StepReschedules, StepFaults, BreakpointTests, LeaveDebugBreak, Reschedule,
       SendsDone, InterruptHandler, Return, ReturnPcs, TypeOK, CorePcs
  <2>3. CASE d # c
    <3>1. pc'[d] = pc[d]
      BY <2>2, <2>3 DEF TypeOK, PcOK
    <3>2. ASSUME NEW p \in Procs, lock = p, Sending(p), todo[p] # <<>> PROVE Notifying'
      <4>1. p = c => pc[c] \in SendPcs
        BY <2>0, <3>2 DEF Sending, SendPcs
      <4>2. p # c
        BY <1>1, <3>2, <4>1 DEF CoreMoves, CoreStep, WaitLock, CheckPending, CheckNothing, Sleep,
           LeaveResume, CheckInterrupts, Step, StepReschedules, StepFaults, BreakpointTests,
           LeaveDebugBreak, Reschedule, SendsDone, SendPcs
      <4>5. pc[c] \notin {"checking", "toWait"} /\ lock # Free
        BY <2>0, <3>2, <4>2 DEF LockDiscipline
      <4>6. lock' = lock
        BY <1>1, <4>5 DEF CoreMoves, CoreStep, WaitLock, CheckPending, CheckNothing, Sleep,
           LeaveResume, CheckInterrupts, Step, StepReschedules, StepFaults, BreakpointTests,
           LeaveDebugBreak, Reschedule, SendsDone
      <4>3. pc'[p] = pc[p]
        BY <2>2, <4>2 DEF TypeOK, PcOK
      <4>4. todo'[p] = todo[p]
        BY <1>1, <4>2 DEF CoreMoves, CoreStep, WaitLock, CheckPending, CheckNothing, Sleep,
           LeaveResume, CheckInterrupts, Step, StepReschedules, StepFaults, BreakpointTests,
           LeaveDebugBreak, Reschedule, SendsDone, InterruptHandler, Return, TypeOK
      <4> QED BY <3>2, <4>3, <4>4, <4>6 DEF Notifying, Sending, SendPcs
    <3> QED BY <1>0, <2>1, <3>1, <3>2 DEF Notifying
  <2>4. CASE d = c
    <3>1. pc'[d] = "toWait" => CheckNothing(c)
      BY <1>1, <2>0, <2>4 DEF CoreMoves, CoreStep, WaitLock, CheckPending, CheckNothing, Sleep,
         LeaveResume, CheckInterrupts, Step, StepReschedules, StepFaults, BreakpointTests,
         LeaveDebugBreak, Reschedule, SendsDone, InterruptHandler, Return, ReturnPcs, TypeOK, PcOK
    <3>2. pc'[d] = "asleep" => Sleep(c)
      BY <1>1, <2>0, <2>4 DEF CoreMoves, CoreStep, WaitLock, CheckPending, CheckNothing, Sleep,
         LeaveResume, CheckInterrupts, Step, StepReschedules, StepFaults, BreakpointTests,
         LeaveDebugBreak, Reschedule, SendsDone, InterruptHandler, Return, ReturnPcs, TypeOK, PcOK
    <3> QED BY <1>0, <2>1, <2>4, <3>1, <3>2 DEF CheckNothing, Sleep
  <2> QED BY <2>3, <2>4
<1>2. ASSUME NEW c \in Cores, SpuriousWake(c)
      PROVE  /\ pc'[d] = "toWait" => interrupts'[d] = {}
             /\ pc'[d] = "asleep" /\ interrupts'[d] # {} => Notifying'
  BY <1>0, <1>2 DEF SpuriousWake, Notifying, Sending, SendPcs, TypeOK, PcOK, Procs
<1>3. ASSUME NEW p \in Procs, SendOr(p)
      PROVE  /\ pc'[d] = "toWait" => interrupts'[d] = {}
             /\ pc'[d] = "asleep" /\ interrupts'[d] # {} => Notifying'
  <2>1. Notifying'
    BY <1>3 DEF SendOr, Notifying, Sending, SendPcs
  <2>2. pc[d] # "toWait"
    BY <1>3, ProcsAssumption DEF SendOr, LockDiscipline, Procs
  <2> QED BY <1>3, <2>1, <2>2 DEF SendOr
<1>4. ASSUME NEW p \in Procs, SendNotify(p)
      PROVE  /\ pc'[d] = "toWait" => interrupts'[d] = {}
             /\ pc'[d] = "asleep" /\ interrupts'[d] # {} => Notifying'
  BY <1>0, <1>4 DEF SendNotify, Procs
<1>5. CASE Tick \/ PauseKey \/ Halt \/ Join
  <2>1. interrupts' = interrupts /\ lock' = lock
    BY <1>5 DEF Tick, PauseKey, Halt, Join
  <2>2. \A p \in Cores : pc'[p] = pc[p] /\ todo'[p] = todo[p]
    BY <1>5, ProcsAssumption DEF Tick, PauseKey, Halt, Join, TypeOK, PcOK, Procs
  <2>3. \A h \in Hosts : todo[h] # <<>> => todo'[h] = todo[h]
    BY <1>5, ProcsAssumption DEF Tick, PauseKey, Halt, Join, TypeOK, Procs, Hosts
  <2> QED BY <1>0, <2>1, <2>2, <2>3 DEF Notifying, Sending, SendPcs, Procs
<1>6. CASE UNCHANGED vars
  BY <1>0, <1>6 DEF vars, Notifying, Sending, SendPcs
<1> QED BY <1>1, <1>2, <1>3, <1>4, <1>5, <1>6 DEF Next, Send, CoreMoves

----------------------------------------------------------------------------
\* The variables of cpu.cpp stay in their types.
THEOREM TypeCorrect == Spec => []TypeOK
<1>1. IInv /\ [Next]_vars => IInv'
  BY TypeStep, LockStep, NoLostStep DEF IInv
<1> QED BY <1>1, InitIInv, PTL DEF Spec, IInv

\* gInterruptLock is held only inside waitForInterrupt and sendInterrupts, and
\* a core between its test and its sleep holds it.
THEOREM LockCorrect == Spec => []LockDiscipline
<1>1. IInv /\ [Next]_vars => IInv'
  BY TypeStep, LockStep, NoLostStep DEF IInv
<1> QED BY <1>1, InitIInv, PTL DEF Spec, IInv

\* No core sleeps through an interrupt (cpu.cpp:244), for any number of cores.
THEOREM NoInterruptIsLost == Spec => []NoLostInterrupt
<1>1. IInv /\ [Next]_vars => IInv'
  BY TypeStep, LockStep, NoLostStep DEF IInv
<1> QED BY <1>1, InitIInv, PTL DEF Spec, IInv
============================================================================
