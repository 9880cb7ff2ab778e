-------------------------- MODULE DebugBreakProofs --------------------------
(***************************************************************************)
(* A paused machine stands still, for any number of cores: the inductive   *)
(* invariant says who holds gDebugBreakMutex, that only cores inside the   *)
(* handler are in gPausingCores, that gResumingCores holds none but cores  *)
(* of the break under way, and that the last core to arrive keeps all      *)
(* others in the barrier because it is not in gResumingCores itself.       *)
(***************************************************************************)
EXTENDS DebugBreak, TLAPS

HoldsMutex == {"sending", "pausing", "test", "toWait", "barrier"}
InBarrier == {"asleepBarrier", "wokenBarrier"}
Joined(c) == hpc[c] \in {"sending", "pausing"} \cup Leaving

\* The core that arrived last: it is declaring the pause, or it is on its way
\* from there to the barrier, with gPausingCores empty again.
Last(c) ==
  \/ hpc[c] \in {"pausing", "asleepPaused", "wokenPaused"}
  \/ hpc[c] \in {"test", "toWait", "barrier"} /\ c \notin gPausingCores

MutexInv == \A c \in Cores : hpc[c] \in HoldsMutex <=> mutex = c
PausingInv == \A c \in gPausingCores : Joined(c)
SendingInv == \A c \in Cores : hpc[c] = "sending" => c \in gPausingCores /\ c \notin gResumingCores
ResumingInv == gPausingCores # {} => gResumingCores \subseteq gPausingCores
LastInv ==
  \A c \in Cores : Last(c) =>
    /\ c \notin gResumingCores
    /\ \A d \in Cores \ {c} : hpc[d] \in InBarrier
    /\ IF hpc[c] = "pausing" THEN gPausingCores = Cores ELSE gPausingCores = {}
PausedInv == gIsPaused => \E c \in Cores : Last(c)
WaitInv ==
  \A c \in Cores : /\ hpc[c] = "toWait" => c \notin gPausingCores
                   /\ hpc[c] = "barrier" => ~gIsPaused
FullInv == gPausingCores = Cores => \E c \in Cores : hpc[c] \in {"sending", "pausing"}

DebugInv == /\ MutexInv /\ PausingInv /\ SendingInv /\ ResumingInv
            /\ LastInv /\ PausedInv /\ WaitInv /\ FullInv
IInv == TypeOK /\ DebugInv

----------------------------------------------------------------------------
(* What the shared operators do to a control point.                        *)

\* notify_all moves sleeping cores and no others.
LEMMA NotifiedPc ==
  ASSUME NEW pcs, NEW d \in Cores
  PROVE  Notified(pcs)[d] = IF pcs[d] = "asleepPaused" THEN "wokenPaused"
                            ELSE IF pcs[d] = "asleepBarrier" THEN "wokenBarrier"
                            ELSE pcs[d]
  BY DEF Notified

\* Core 0, which the pause key breaks, exists.
LEMMA ZeroCore == 0 \in Cores
  BY DebugAssumption DEF Cores

\* The initial state: no core is in the handler.
LEMMA InitIInv == Init => IInv
<1> SUFFICES ASSUME Init PROVE IInv
  OBVIOUS
<1>1. TypeOK
  <2>1. pending \in [Cores -> BOOLEAN] /\ gIsPaused \in BOOLEAN /\ gSingleStepMode \in BOOLEAN
        /\ stepping \in {"no", "step", "raced"}
    BY Zenon DEF Init
  <2>2. hpc \in [Cores -> Outside \cup Arriving \cup Leaving]
    BY DEF Init, Outside
  <2>3. ret \in [Cores -> {"loop", "after", "step"}] /\ executed \in [Cores -> 0 .. 2]
    BY DEF Init
  <2> QED
    BY <2>1, <2>2, <2>3 DEF Init, TypeOK
<1>2. MutexInv
  BY DebugAssumption DEF Init, MutexInv, HoldsMutex
<1>3. PausingInv /\ SendingInv /\ ResumingInv
  BY DEF Init, PausingInv, SendingInv, ResumingInv
<1>4. LastInv /\ PausedInv /\ WaitInv /\ FullInv
  BY ZeroCore DEF Init, LastInv, PausedInv, WaitInv, FullInv, Last
<1> QED
  BY <1>1, <1>2, <1>3, <1>4 DEF IInv, DebugInv

\* Core d has been notified, or was not asleep.
Woken(d) == hpc'[d] = IF hpc[d] = "asleepPaused" THEN "wokenPaused"
                      ELSE IF hpc[d] = "asleepBarrier" THEN "wokenBarrier" ELSE hpc[d]

\* What the last core to resume does to the control points.
LEMMA LastResumes ==
  ASSUME TypeOK, NEW c \in Cores, Resume(c), gResumingCores \cup {c} = Cores
  PROVE  /\ hpc'[c] \in {"loop", "after", "step"}
         /\ \A d \in Cores \ {c} : Woken(d)
<1>1. hpc' = Notified([hpc EXCEPT ![c] = ret[c]])
  BY DEF Resume
<1>2. hpc'[c] \in {"loop", "after", "step"}
  BY <1>1, NotifiedPc DEF TypeOK
<1>3. \A d \in Cores \ {c} : Woken(d)
  BY <1>1, NotifiedPc DEF TypeOK, Woken
<1> QED
  BY <1>2, <1>3

\* notify_all keeps the control points in range.
LEMMA NotifiedType ==
  ASSUME NEW pcs \in [Cores -> Outside \cup Arriving \cup Leaving]
  PROVE  Notified(pcs) \in [Cores -> Outside \cup Arriving \cup Leaving]
  BY DEF Notified, Leaving

\* Type correctness is preserved.
LEMMA TypeStep == TypeOK /\ [Next]_vars => TypeOK'
<1> SUFFICES ASSUME TypeOK, [Next]_vars PROVE TypeOK'
  OBVIOUS
<1> USE DebugAssumption DEF TypeOK, Outside, Arriving, Leaving, At
<1>1. ASSUME NEW c \in Cores, TakeBreak(c) PROVE TypeOK'
  BY <1>1 DEF TakeBreak, Break, Counted, Others, history
<1>2. ASSUME NEW c \in Cores, NoBreak(c) PROVE TypeOK'
  BY <1>2 DEF NoBreak, Break, Counted, Others, history
<1>3. ASSUME NEW c \in Cores, Step(c) PROVE TypeOK'
  BY <1>3, ZeroCore DEF Step, Break, Counted, Others, history
<1>4. ASSUME NEW c \in Cores, StepFaults(c) PROVE TypeOK'
  BY <1>4 DEF StepFaults, Break, Counted, Others, history
<1>5. ASSUME NEW c \in Cores, AfterStep(c) PROVE TypeOK'
  BY <1>5 DEF AfterStep, Break, Counted, Others, history
<1>6. ASSUME NEW c \in Cores, Arrive(c) PROVE TypeOK'
  BY <1>6 DEF Arrive, Break, Counted, Others, history
<1>7. ASSUME NEW c \in Cores, SendBreak(c) PROVE TypeOK'
  BY <1>7 DEF SendBreak, Break, Counted, Others, history
<1>8. ASSUME NEW c \in Cores, Arrived(c) PROVE TypeOK'
  BY <1>8, ZenonT(40) DEF Arrived, Break, Counted, Others, history
<1>9. ASSUME NEW c \in Cores, AllPaused(c) PROVE TypeOK'
  BY <1>9 DEF AllPaused, Break, Counted, Others, history
<1>10. ASSUME NEW c \in Cores, TestPaused(c) PROVE TypeOK'
  BY <1>10 DEF TestPaused, Break, Counted, Others, history
<1>11. ASSUME NEW c \in Cores, WaitPaused(c) PROVE TypeOK'
  BY <1>11 DEF WaitPaused, Break, Counted, Others, history
<1>12. ASSUME NEW c \in Cores, WakePaused(c) PROVE TypeOK'
  BY <1>12 DEF WakePaused, Break, Counted, Others, history
<1>13. ASSUME NEW c \in Cores, Resume(c) PROVE TypeOK'
  <2> DEFINE pcs == [hpc EXCEPT ![c] = ret[c]]
  <2>1. Notified(pcs) \in [Cores -> Outside \cup Arriving \cup Leaving]
    <3>1. pcs \in [Cores -> Outside \cup Arriving \cup Leaving]
      OBVIOUS
    <3> QED
      BY <3>1, NotifiedType
  <2> QED
    BY <1>13, <2>1 DEF Resume, history
<1>14. ASSUME NEW c \in Cores, WakeBarrier(c) PROVE TypeOK'
  BY <1>14 DEF WakeBarrier, Break, Counted, Others, history
<1>15. ASSUME NEW c \in Cores, SpuriousWake(c) PROVE TypeOK'
  BY <1>15 DEF SpuriousWake, Break, Counted, Others, history
<1>16. CASE PauseKey
  BY <1>16 DEF PauseKey, Break, coreVars, history, Cores
<1>17. CASE ResumeKey
  BY <1>17 DEF ResumeKey, Break, coreVars, history, Cores
<1>18. CASE StepKey
  BY <1>18 DEF StepKey, Break, coreVars, history, Cores
<1>19. CASE Exchange
  BY <1>19 DEF Exchange, Break, coreVars, history, Cores
<1>20. CASE Notify
  BY <1>20, NotifiedType DEF Notify, history
<1>21. CASE UNCHANGED vars
  BY <1>21 DEF vars, coreVars, history
<1> QED
  BY <1>1, <1>2, <1>3, <1>4, <1>5, <1>6, <1>7, <1>8, <1>9, <1>10, <1>11, <1>12, <1>13, <1>14, <1>15, <1>16, <1>17, <1>18, <1>19, <1>20, <1>21 DEF Next, CoreStep

----------------------------------------------------------------------------
(* The other conjuncts, action by action.                                  *)

\* Outside the handler a core disturbs nothing: its control point moves among
\* those no conjunct mentions.
LEMMA OutsideMove ==
  ASSUME TypeOK, DebugInv, NEW c \in Cores, NEW p \in Outside \cup {"entry"},
         hpc[c] \in Outside, hpc' = [hpc EXCEPT ![c] = p],
         UNCHANGED <<mutex, gPausingCores, gResumingCores, gIsPaused>>
  PROVE  DebugInv'
  BY DebugAssumption DEF TypeOK, DebugInv, MutexInv, PausingInv, SendingInv, ResumingInv, LastInv,
       PausedInv, WaitInv, FullInv, Last, Joined, HoldsMutex, InBarrier, Outside, Arriving, Leaving

\* The steps of debugBreakHandler.
HandlerStep(c) ==
  \/ Arrive(c) \/ SendBreak(c) \/ Arrived(c) \/ AllPaused(c) \/ TestPaused(c)
  \/ WaitPaused(c) \/ WakePaused(c) \/ Resume(c) \/ WakeBarrier(c) \/ SpuriousWake(c)

\* Every step of debugBreakHandler keeps the handler's invariant.
LEMMA HandlerMove ==
  ASSUME TypeOK, DebugInv, NEW c \in Cores, HandlerStep(c) PROVE DebugInv'
<1> USE DebugAssumption DEF At, TypeOK, DebugInv, MutexInv, PausingInv, SendingInv, ResumingInv,
      LastInv, PausedInv, WaitInv, FullInv, Last, Joined, HoldsMutex, InBarrier, Outside,
      Arriving, Leaving
<1>1. CASE Arrive(c)
  BY <1>1 DEF Arrive
<1>2. CASE SendBreak(c)
  BY <1>2 DEF SendBreak
<1>3. CASE Arrived(c)
  BY <1>3 DEF Arrived
<1>4. CASE AllPaused(c)
  BY <1>4 DEF AllPaused
<1>5. CASE TestPaused(c)
  BY <1>5 DEF TestPaused
<1>6. CASE WaitPaused(c)
  BY <1>6 DEF WaitPaused
<1>7. CASE WakePaused(c)
  BY <1>7 DEF WakePaused
<1>8. CASE Resume(c)
  <2>1. CASE gResumingCores \cup {c} # Cores
    BY <1>8, <2>1 DEF Resume
  <2>2. CASE gResumingCores \cup {c} = Cores
    <3>1. hpc'[c] \in {"loop", "after", "step"} /\ \A d \in Cores \ {c} : Woken(d)
      BY <1>8, <2>2, LastResumes
    <3>2. /\ \A d \in Cores \ {c} : hpc[d] \notin HoldsMutex /\ ~Last(d)
          /\ c \notin gPausingCores /\ ~gIsPaused
      BY <1>8, <2>2 DEF Resume
    <3>3. \A d \in Cores : hpc'[d] \notin HoldsMutex /\ ~Last(d)'
      <4>1. gPausingCores' = gPausingCores
        BY <1>8 DEF Resume
      <4>2. hpc'[c] \notin HoldsMutex /\ ~Last(c)'
        BY <3>1
      <4>3. \A d \in Cores \ {c} : hpc'[d] \notin HoldsMutex /\ ~Last(d)'
        BY <3>1, <3>2, <4>1 DEF Woken
      <4> QED
        BY <4>2, <4>3
    <3>4. MutexInv' /\ SendingInv' /\ LastInv' /\ PausedInv' /\ WaitInv'
      <4>1. MutexInv' /\ LastInv'
        <5>1. MutexInv'
          BY <1>8, <3>2, <3>3 DEF Resume
        <5>2. LastInv'
          BY <1>8, <3>2, <3>3 DEF Resume
        <5> QED
          BY <5>1, <5>2
      <4>2. SendingInv' /\ WaitInv'
        BY <1>8, <3>2, <3>3 DEF Resume
      <4>3. PausedInv'
        BY <1>8, <3>2, <3>3 DEF Resume
      <4> QED
        BY <4>1, <4>2, <4>3
    <3>5. PausingInv' /\ ResumingInv' /\ FullInv'
      BY <1>8, <3>1, <3>2 DEF Resume, Woken
    <3> QED
      BY <3>4, <3>5
  <2> QED
    BY <2>1, <2>2
<1>9. CASE WakeBarrier(c)
  BY <1>9 DEF WakeBarrier
<1>10. CASE SpuriousWake(c)
  BY <1>10 DEF SpuriousWake
<1> QED
  BY <1>1, <1>2, <1>3, <1>4, <1>5, <1>6, <1>7, <1>8, <1>9, <1>10 DEF HandlerStep

\* The steps of the graphics thread, and stuttering.
LEMMA UiMove ==
  ASSUME TypeOK, DebugInv,
         PauseKey \/ ResumeKey \/ StepKey \/ Exchange \/ Notify \/ UNCHANGED vars
  PROVE  DebugInv'
<1> USE DebugAssumption DEF TypeOK, DebugInv, MutexInv, PausingInv, SendingInv, ResumingInv,
      LastInv, PausedInv, WaitInv, FullInv, Last, Joined, HoldsMutex, InBarrier, Outside,
      Arriving, Leaving
<1>1. CASE PauseKey
  BY <1>1 DEF PauseKey, coreVars
<1>2. CASE ResumeKey
  BY <1>2 DEF ResumeKey, coreVars
<1>3. CASE StepKey
  BY <1>3 DEF StepKey, coreVars
<1>4. CASE Exchange
  BY <1>4 DEF Exchange, coreVars
<1>5. CASE Notify
  <2>1. \A d \in Cores : Woken(d)
    BY <1>5, NotifiedPc DEF Notify, Woken
  <2> QED
    BY <1>5, <2>1 DEF Notify, Woken
<1>6. CASE UNCHANGED vars
  BY <1>6 DEF vars, coreVars
<1> QED
  BY <1>1, <1>2, <1>3, <1>4, <1>5, <1>6

\* Every step of a core or the graphics thread keeps the handler's invariant.
LEMMA DebugStep == TypeOK /\ DebugInv /\ [Next]_vars => DebugInv'
<1> SUFFICES ASSUME TypeOK, DebugInv, [Next]_vars PROVE DebugInv'
  OBVIOUS
<1>1. ASSUME NEW c \in Cores, TakeBreak(c) PROVE DebugInv'
  BY <1>1, OutsideMove DEF TakeBreak, At, Outside
<1>2. ASSUME NEW c \in Cores, NoBreak(c) PROVE DebugInv'
  BY <1>2, OutsideMove DEF NoBreak, At, Outside
<1>3. ASSUME NEW c \in Cores, Step(c) PROVE DebugInv'
  BY <1>3, OutsideMove DEF Step, At, Outside
<1>4. ASSUME NEW c \in Cores, StepFaults(c) PROVE DebugInv'
  BY <1>4, OutsideMove DEF StepFaults, At, Outside
<1>5. ASSUME NEW c \in Cores, AfterStep(c) PROVE DebugInv'
  BY <1>5, OutsideMove DEF AfterStep, At, Outside
<1>6. ASSUME NEW c \in Cores, HandlerStep(c) PROVE DebugInv'
  BY <1>6, HandlerMove
<1>7. CASE PauseKey \/ ResumeKey \/ StepKey \/ Exchange \/ Notify \/ UNCHANGED vars
  BY <1>7, UiMove
<1> QED
  BY <1>1, <1>2, <1>3, <1>4, <1>5, <1>6, <1>7 DEF Next, CoreStep, HandlerStep

----------------------------------------------------------------------------
\* The inductive invariant is inductive.
LEMMA IInvStep == IInv /\ [Next]_vars => IInv'
  BY TypeStep, DebugStep DEF IInv

\* The type invariant of the debug-break protocol (debugBreakHandler, the
\* resume functions and the cores' loop) holds for any number of cores.
THEOREM DebugTypeCorrect == Spec => []TypeOK
<1>1. IInv => TypeOK
  BY DEF IInv
<1> QED
  BY <1>1, InitIInv, IInvStep, PTL DEF Spec

\* Whatever keys are pressed and wherever the cores break, gIsPaused means that
\* every core is held inside debugBreakHandler, for any number of cores.
THEOREM PausedCorrect == Spec => []PausedStandsStill
<1>1. IInv => PausedStandsStill
  BY DEF IInv, DebugInv, PausedInv, LastInv, Last, PausedStandsStill, Leaving, InBarrier
<1> QED
  BY <1>1, InitIInv, IInvStep, PTL DEF Spec

----------------------------------------------------------------------------
(* Single stepping.                                                        *)

\* A core that has executed its instruction is on its way into the handler,
\* or has joined the break and cannot leave before all cores have.
StepInv ==
  stepping = "step" =>
    /\ gSingleStepMode
    /\ \A c \in Cores :
         /\ hpc[c] # "pausing"
         /\ executed[c] <= 1
         /\ executed[c] = 1 => \/ hpc[c] \in {"after", "entry"}
                               \/ hpc[c] = "loop" /\ pending[c]
                               \/ c \in gPausingCores

\* A core leaves the barrier only when it is in no break under way.
LEMMA LeavesBarrier ==
  ASSUME TypeOK, DebugInv, NEW c \in Cores, gResumingCores \cup {c} = Cores,
         mutex \in {c, Free}, hpc[c] \in {"barrier", "wokenBarrier"}
  PROVE  c \notin gPausingCores
  BY DebugAssumption DEF TypeOK, DebugInv, MutexInv, ResumingInv, FullInv, HoldsMutex

\* A core about to execute an instruction has joined no break, so while a step
\* is under way the instruction is its first.
LEMMA CountsFirst ==
  ASSUME TypeOK, PausingInv, StepInv, NEW c \in Cores, hpc[c] = "step"
  PROVE  /\ stepping = "step" => Counted(c)[c] = 1
         /\ \A d \in Cores \ {c} : Counted(c)[d] = executed[d]
<1>1. c \notin gPausingCores
  BY DEF PausingInv, Joined, Leaving
<1>2. stepping = "step" => executed[c] = 0
  BY <1>1 DEF TypeOK, StepInv
<1> QED
  BY <1>2 DEF Counted, TypeOK

\* Every step of a core or the graphics thread keeps the single-step invariant.
LEMMA StepInvStep == TypeOK /\ DebugInv /\ StepInv /\ [Next]_vars => StepInv'
<1> SUFFICES ASSUME TypeOK, DebugInv, StepInv, [Next]_vars PROVE StepInv'
  OBVIOUS
<1> USE DEF At, StepInv, TypeOK
<1>1. ASSUME NEW c \in Cores, TakeBreak(c) PROVE StepInv'
  BY <1>1 DEF TakeBreak, history
<1>2. ASSUME NEW c \in Cores, NoBreak(c) PROVE StepInv'
  BY <1>2 DEF NoBreak, history
<1>3. ASSUME NEW c \in Cores, Step(c) PROVE StepInv'
  <2>1. executed' = Counted(c) /\ hpc[c] = "step" /\ hpc'[c] = "after"
        /\ \A d \in Cores \ {c} : hpc'[d] = hpc[d]
    BY <1>3 DEF Step
  <2>2. UNCHANGED <<gPausingCores, gSingleStepMode, stepping>>
        /\ \A d \in Cores : pending[d] => pending'[d]
    BY <1>3 DEF Step, Break
  <2> QED
    BY <2>1, <2>2, CountsFirst DEF DebugInv
<1>4. ASSUME NEW c \in Cores, StepFaults(c) PROVE StepInv'
  <2>1. executed' = Counted(c) /\ hpc[c] = "step" /\ hpc'[c] = "entry"
        /\ \A d \in Cores \ {c} : hpc'[d] = hpc[d]
    BY <1>4 DEF StepFaults
  <2>2. UNCHANGED <<pending, gPausingCores, gSingleStepMode, stepping>>
    BY <1>4 DEF StepFaults
  <2> QED
    BY <2>1, <2>2, CountsFirst DEF DebugInv
<1>5. ASSUME NEW c \in Cores, AfterStep(c) PROVE StepInv'
  BY <1>5 DEF AfterStep, Break, history
<1>6. ASSUME NEW c \in Cores, Arrive(c) PROVE StepInv'
  BY <1>6 DEF Arrive, history
<1>7. ASSUME NEW c \in Cores, SendBreak(c) PROVE StepInv'
  BY <1>7 DEF SendBreak, Break, history
<1>8. ASSUME NEW c \in Cores, Arrived(c) PROVE StepInv'
  BY <1>8 DEF Arrived, history
<1>9. ASSUME NEW c \in Cores, AllPaused(c) PROVE StepInv'
  BY <1>9 DEF AllPaused, history
<1>10. ASSUME NEW c \in Cores, TestPaused(c) PROVE StepInv'
  BY <1>10 DEF TestPaused, history
<1>11. ASSUME NEW c \in Cores, WaitPaused(c) PROVE StepInv'
  BY <1>11 DEF WaitPaused, history
<1>12. ASSUME NEW c \in Cores, WakePaused(c) PROVE StepInv'
  BY <1>12 DEF WakePaused, history
<1>13. ASSUME NEW c \in Cores, Resume(c) PROVE StepInv'
  <2>1. mutex = c /\ hpc[c] = "barrier"
    BY <1>13 DEF Resume, DebugInv, MutexInv, HoldsMutex
  <2>2. /\ UNCHANGED <<gPausingCores, gSingleStepMode, stepping, executed>>
        /\ pending' = [pending EXCEPT ![c] = FALSE]
    BY <1>13 DEF Resume, history
  <2>3. CASE gResumingCores \cup {c} # Cores
    <3>1. hpc' = [hpc EXCEPT ![c] = "asleepBarrier"]
      BY <1>13, <2>3 DEF Resume
    <3> QED
      BY <2>1, <2>2, <3>1
  <2>4. CASE gResumingCores \cup {c} = Cores
    <3>1. c \notin gPausingCores
      BY <2>1, <2>4, LeavesBarrier
    <3>2. hpc'[c] \in {"loop", "after", "step"} /\ \A d \in Cores \ {c} : Woken(d)
      BY <1>13, <2>4, LastResumes
    <3> QED
      BY <2>1, <2>2, <3>1, <3>2 DEF Woken
  <2> QED
    BY <2>3, <2>4
<1>14. ASSUME NEW c \in Cores, WakeBarrier(c) PROVE StepInv'
  <2>1. /\ UNCHANGED <<pending, gPausingCores, gSingleStepMode, stepping, executed>>
        /\ hpc[c] = "wokenBarrier" /\ mutex = Free
        /\ \A d \in Cores \ {c} : hpc'[d] = hpc[d]
    BY <1>14 DEF WakeBarrier, history
  <2>2. CASE gResumingCores \cup {c} # Cores
    <3>1. hpc' = [hpc EXCEPT ![c] = "asleepBarrier"]
      BY <1>14, <2>2 DEF WakeBarrier
    <3> QED
      BY <2>1, <3>1
  <2>3. CASE gResumingCores \cup {c} = Cores
    <3>1. c \notin gPausingCores
      BY <2>1, <2>3, LeavesBarrier
    <3>2. hpc'[c] \in {"loop", "after", "step"}
      BY <1>14, <2>3 DEF WakeBarrier
    <3> QED
      BY <2>1, <3>1, <3>2
  <2> QED
    BY <2>2, <2>3
<1>15. ASSUME NEW c \in Cores, SpuriousWake(c) PROVE StepInv'
  BY <1>15 DEF SpuriousWake, history
<1>16. CASE PauseKey
  BY <1>16 DEF PauseKey, Break, coreVars, history
<1>17. CASE ResumeKey
  BY <1>17 DEF ResumeKey, coreVars, history
<1>18. CASE StepKey
  BY <1>18 DEF StepKey, coreVars, history
<1>19. CASE Exchange
  BY <1>19 DEF Exchange, coreVars, history
<1>20. CASE Notify
  BY <1>20, NotifiedPc DEF Notify, coreVars, history
<1>21. CASE UNCHANGED vars
  BY <1>21 DEF vars, coreVars, history
<1> QED
  BY <1>1, <1>2, <1>3, <1>4, <1>5, <1>6, <1>7, <1>8, <1>9, <1>10, <1>11, <1>12, <1>13, <1>14, <1>15, <1>16, <1>17, <1>18, <1>19, <1>20, <1>21 DEF Next, CoreStep

\* From the step key until the machine is paused again no core executes more
\* than one instruction (debug.cpp:59 with the test of gSingleStepMode after
\* each instruction), for any number of cores and any keys, unless the step
\* key fell between debug.cpp:58 and 61.
THEOREM SingleStepCorrect == Spec => []StepsOnce
<1>1. Init => StepInv
  BY DEF Init, StepInv
<1>2. IInv /\ StepInv /\ [Next]_vars => (IInv /\ StepInv)'
  BY IInvStep, StepInvStep DEF IInv
<1>3. StepInv => StepsOnce
  BY DEF StepInv, StepsOnce
<1> QED
  BY <1>1, <1>2, <1>3, InitIInv, PTL DEF Spec
=============================================================================
