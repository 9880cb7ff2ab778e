----------------------------- MODULE DebugBreak -----------------------------
(***************************************************************************)
(* The debugger's stop-the-machine protocol: debugBreakHandler and the     *)
(* resume functions of debug/debug.cpp, the cores that enter it (cpu.cpp   *)
(* resume, waitForInterrupt; kernel.cpp interruptHandler and               *)
(* segFaultHandler) and the keys of the disassembler window that pause,    *)
(* resume and single-step.                                                 *)
(*                                                                         *)
(* gDebugBreakMutex and the condition variable gResumeIndicator serve two  *)
(* waits: for the resume (gIsPaused) and for the other cores               *)
(* (gResumingCores). The graphics thread, which draws the debugger's       *)
(* windows and sees their keys, takes no lock. What only cores touch       *)
(* under the mutex (gPausingCores, gResumingCores) changes together with   *)
(* it; gIsPaused, gSingleStepMode and the pending breaks are read and      *)
(* written in steps of their own.                                          *)
(*                                                                         *)
(* Abstraction. Of the interrupts only DEBUG_BREAK is kept, its delivery   *)
(* is CpuInterrupts' subject. A breakpoint is hit whenever it likes. The   *)
(* stack trace and gSingleStepping, which only mutes it, are left out.     *)
(***************************************************************************)
EXTENDS Naturals

CONSTANTS NumCores,   \* NUM_CORES, as in CorePausedState::ALL_CORES
          Active,     \* the cores that have a guest thread
          Free        \* nobody holds gDebugBreakMutex

Cores == 0 .. NumCores - 1

ASSUME DebugAssumption ==
  NumCores \in Nat \ {0} /\ Active \subseteq Cores /\ Free \notin Cores

VARIABLES
  pending,          \* pending[c]: DEBUG_BREAK_INTERRUPT is set
  hpc,              \* control point of core c
  ret,              \* where c's handler returns to
  toSend,           \* cores the initiating core has still to break
  mutex,            \* holder of gDebugBreakMutex, or Free
  gPausingCores, gResumingCores, gIsPaused, gSingleStepMode,
  ui,               \* control point of the graphics thread in the windows' code
  stepping,         \* history: a single step was asked for and the machine was not
                    \* paused since; "raced" if the key fell into a pause
  executed          \* history: instructions core c has started while stepping

coreVars == <<hpc, ret, toSend, mutex, gPausingCores, gResumingCores>>
history == <<stepping, executed>>
vars == <<pending, coreVars, gIsPaused, gSingleStepMode, ui, history>>

Outside == {"loop", "step", "after"}
Arriving == {"entry", "sending", "pausing"}
Leaving == {"test", "toWait", "asleepPaused", "wokenPaused", "barrier",
            "asleepBarrier", "wokenBarrier"}

TypeOK ==
  /\ pending \in [Cores -> BOOLEAN]
  /\ hpc \in [Cores -> Outside \cup Arriving \cup Leaving]
  /\ ret \in [Cores -> {"loop", "after", "step"}]
  /\ toSend \subseteq Cores
  /\ mutex \in Cores \cup {Free}
  /\ gPausingCores \subseteq Cores /\ gResumingCores \subseteq Cores
  /\ gIsPaused \in BOOLEAN /\ gSingleStepMode \in BOOLEAN
  /\ ui \in {"idle", "exchange", "notify"}
  /\ stepping \in {"no", "step", "raced"} /\ executed \in [Cores -> 0 .. 2]

Init ==
  /\ pending = [c \in Cores |-> FALSE]
  /\ hpc = [c \in Cores |-> "loop"]
  /\ ret = [c \in Cores |-> "loop"]
  /\ toSend = {}
  /\ mutex = Free
  /\ gPausingCores = {} /\ gResumingCores = {}
  /\ gIsPaused = FALSE /\ gSingleStepMode = FALSE
  /\ ui = "idle"
  /\ stepping = "no" /\ executed = [c \in Cores |-> 0]

At(c, p) == hpc' = [hpc EXCEPT ![c] = p]

\* sendInterrupts(d, DEBUG_BREAK_INTERRUPT) for every d of S.
Break(S) ==
  /\ pending' = [d \in Cores |-> pending[d] \/ d \in S]

\* gResumeIndicator.notify_all, by a core that then goes to p.
Notified(pcs) == [d \in Cores |-> CASE pcs[d] = "asleepPaused" -> "wokenPaused"
                                    [] pcs[d] = "asleepBarrier" -> "wokenBarrier"
                                    [] OTHER -> pcs[d]]

----------------------------------------------------------------------------
(* A core outside the handler.                                             *)

\* checkInterrupts or waitForInterrupt takes the break; from the former the
\* loop goes on with an instruction after the handler.
TakeBreak(c) ==
  /\ hpc[c] = "loop" /\ pending[c]
  /\ pending' = [pending EXCEPT ![c] = FALSE]
  /\ ret' = [ret EXCEPT ![c] = IF c \in Active THEN "step" ELSE "loop"]
  /\ At(c, "entry")
  /\ UNCHANGED <<toSend, mutex, gPausingCores, gResumingCores, gIsPaused, gSingleStepMode,
                 ui, history>>

NoBreak(c) ==
  /\ hpc[c] = "loop" /\ ~pending[c] /\ c \in Active
  /\ At(c, "step")
  /\ UNCHANGED <<pending, ret, toSend, mutex, gPausingCores, gResumingCores, gIsPaused,
                 gSingleStepMode, ui, history>>

Counted(c) == [executed EXCEPT ![c] = IF stepping # "no" /\ @ < 2 THEN @ + 1 ELSE @]

\* An instruction may break on its own core (svcBreak, an undefined
\* instruction) or on core 0 (decoder, log service).
Step(c) ==
  /\ hpc[c] = "step"
  /\ executed' = Counted(c)
  /\ \E S \in {{}, {c}, {0}} : Break(S)
  /\ At(c, "after")
  /\ UNCHANGED <<ret, toSend, mutex, gPausingCores, gResumingCores, gIsPaused,
                 gSingleStepMode, ui, stepping>>

\* segFaultHandler calls debugBreakHandler from inside the instruction.
StepFaults(c) ==
  /\ hpc[c] = "step"
  /\ executed' = Counted(c)
  /\ ret' = [ret EXCEPT ![c] = "after"]
  /\ At(c, "entry")
  /\ UNCHANGED <<pending, toSend, mutex, gPausingCores, gResumingCores, gIsPaused,
                 gSingleStepMode, ui, stepping>>

\* The tests after the instruction: breakpoints, then single-step mode.
AfterStep(c) ==
  /\ hpc[c] = "after"
  /\ \E hit \in BOOLEAN : Break(IF hit \/ gSingleStepMode THEN {c} ELSE {})
  /\ At(c, "loop")
  /\ UNCHANGED <<ret, toSend, mutex, gPausingCores, gResumingCores, gIsPaused,
                 gSingleStepMode, ui, history>>

----------------------------------------------------------------------------
(* debugBreakHandler.                                                      *)

\* The cores the initiator breaks.
MutantOthers(c) == (0 .. NumCores) \ {c}
Others(c) == Cores \ {c}

\* Mutant: gResumingCores keeps the previous break's cores.
MutantArrive(c) ==
  /\ hpc[c] = "entry" /\ mutex = Free
  /\ mutex' = c
  /\ gPausingCores' = gPausingCores \cup {c}
  /\ toSend' = IF gPausingCores = {} THEN Others(c) ELSE toSend
  /\ At(c, "sending")
  /\ UNCHANGED <<pending, ret, gResumingCores, gIsPaused, gSingleStepMode, ui, history>>

\* Mutant: every core that arrives leaves single-step mode.
MutantArriveUnsteps(c) ==
  /\ hpc[c] = "entry" /\ mutex = Free
  /\ mutex' = c
  /\ gPausingCores' = gPausingCores \cup {c}
  /\ IF gPausingCores = {}
     THEN toSend' = Others(c) /\ gResumingCores' = {}
     ELSE UNCHANGED <<toSend, gResumingCores>>
  /\ gSingleStepMode' = FALSE
  /\ At(c, "sending")
  /\ UNCHANGED <<pending, ret, gIsPaused, ui, history>>

\* Take the mutex and join the break; the first core is its initiator, which
\* empties gResumingCores after it has broken the others.
Arrive(c) ==
  /\ hpc[c] = "entry" /\ mutex = Free
  /\ mutex' = c
  /\ gPausingCores' = gPausingCores \cup {c}
  /\ IF gPausingCores = {}
     THEN toSend' = Others(c) /\ gResumingCores' = {}
     ELSE UNCHANGED <<toSend, gResumingCores>>
  /\ At(c, "sending")
  /\ UNCHANGED <<pending, ret, gIsPaused, gSingleStepMode, ui, history>>

SendBreak(c) ==
  /\ hpc[c] = "sending" /\ toSend # {}
  /\ \E d \in toSend : /\ \A e \in toSend : d <= e
                       /\ toSend' = toSend \ {d}
                       /\ Break({d})
  /\ UNCHANGED <<hpc, ret, mutex, gPausingCores, gResumingCores, gIsPaused,
                 gSingleStepMode, ui, history>>

\* The last core to arrive declares the machine paused, which ends the step
\* that was asked for ...
Arrived(c) ==
  /\ hpc[c] = "sending" /\ toSend = {}
  /\ IF gPausingCores = Cores
     THEN gIsPaused' = TRUE /\ At(c, "pausing") /\ stepping' = "no"
     ELSE At(c, "test") /\ UNCHANGED <<gIsPaused, stepping>>
  /\ UNCHANGED <<pending, ret, toSend, mutex, gPausingCores, gResumingCores,
                 gSingleStepMode, ui, executed>>

\* ... and then leaves single-step mode, whoever asked for it meanwhile.
AllPaused(c) ==
  /\ hpc[c] = "pausing"
  /\ gSingleStepMode' = FALSE
  /\ gPausingCores' = {}
  /\ At(c, "test")
  /\ UNCHANGED <<pending, ret, toSend, mutex, gResumingCores, gIsPaused, ui, history>>

\* while (gIsPaused.load()): the test, and the wait that releases the mutex.
TestPaused(c) ==
  /\ hpc[c] = "test"
  /\ At(c, IF gIsPaused THEN "toWait" ELSE "barrier")
  /\ UNCHANGED <<pending, ret, toSend, mutex, gPausingCores, gResumingCores, gIsPaused,
                 gSingleStepMode, ui, history>>

WaitPaused(c) ==
  /\ hpc[c] = "toWait"
  /\ mutex' = Free
  /\ At(c, "asleepPaused")
  /\ UNCHANGED <<pending, ret, toSend, gPausingCores, gResumingCores, gIsPaused,
                 gSingleStepMode, ui, history>>

WakePaused(c) ==
  /\ hpc[c] = "wokenPaused" /\ mutex = Free
  /\ mutex' = c
  /\ At(c, "test")
  /\ UNCHANGED <<pending, ret, toSend, gPausingCores, gResumingCores, gIsPaused,
                 gSingleStepMode, ui, history>>

\* clearInterrupts(DEBUG_BREAK_INTERRUPT), then announce the resume: the last
\* core notifies and returns, the others wait for it.
Resume(c) ==
  LET all == gResumingCores \cup {c} = Cores IN
  /\ hpc[c] = "barrier"
  /\ pending' = [pending EXCEPT ![c] = FALSE]
  /\ gResumingCores' = gResumingCores \cup {c}
  /\ mutex' = Free
  /\ hpc' = IF all THEN Notified([hpc EXCEPT ![c] = ret[c]])
                   ELSE [hpc EXCEPT ![c] = "asleepBarrier"]
  /\ ret' = IF all THEN [ret EXCEPT ![c] = "loop"] ELSE ret
  /\ UNCHANGED <<toSend, gPausingCores, gIsPaused, gSingleStepMode, ui, history>>

\* The wait returns; the condition is tested again.
WakeBarrier(c) ==
  LET all == gResumingCores \cup {c} = Cores IN
  /\ hpc[c] = "wokenBarrier" /\ mutex = Free
  /\ At(c, IF all THEN ret[c] ELSE "asleepBarrier")
  /\ ret' = IF all THEN [ret EXCEPT ![c] = "loop"] ELSE ret
  /\ UNCHANGED <<pending, toSend, mutex, gPausingCores, gResumingCores, gIsPaused,
                 gSingleStepMode, ui, history>>

\* condition_variable::wait may return without a notification.
SpuriousWake(c) ==
  /\ hpc[c] \in {"asleepPaused", "asleepBarrier"}
  /\ At(c, IF hpc[c] = "asleepPaused" THEN "wokenPaused" ELSE "wokenBarrier")
  /\ UNCHANGED <<pending, ret, toSend, mutex, gPausingCores, gResumingCores, gIsPaused,
                 gSingleStepMode, ui, history>>

----------------------------------------------------------------------------
(* The keys of the windows: Z (pause), X and V (resume), A (single step).  *)

PauseKey ==
  /\ ui = "idle"
  /\ Break({0})
  /\ UNCHANGED <<coreVars, gIsPaused, gSingleStepMode, ui, history>>

ResumeKey ==
  /\ ui = "idle"
  /\ ui' = "exchange"
  /\ UNCHANGED <<pending, coreVars, gIsPaused, gSingleStepMode, history>>

StepKey ==
  /\ ui = "idle"
  /\ ui' = "exchange"
  /\ gSingleStepMode' = TRUE
  /\ stepping' = IF \E c \in Cores : hpc[c] = "pausing" THEN "raced" ELSE "step"
  /\ executed' = IF stepping = "step" THEN executed ELSE [c \in Cores |-> 0]
  /\ UNCHANGED <<pending, coreVars, gIsPaused>>

\* resumeFromDebugBreak: exchange, and notify_all if the machine was paused.
Exchange ==
  /\ ui = "exchange"
  /\ gIsPaused' = FALSE
  /\ ui' = IF gIsPaused THEN "notify" ELSE "idle"
  /\ UNCHANGED <<pending, coreVars, gSingleStepMode, history>>

Notify ==
  /\ ui = "notify"
  /\ hpc' = Notified(hpc)
  /\ ui' = "idle"
  /\ UNCHANGED <<pending, ret, toSend, mutex, gPausingCores, gResumingCores, gIsPaused,
                 gSingleStepMode, history>>

----------------------------------------------------------------------------
CoreStep(c) ==
  \/ TakeBreak(c) \/ NoBreak(c) \/ Step(c) \/ StepFaults(c) \/ AfterStep(c)
  \/ Arrive(c) \/ SendBreak(c) \/ Arrived(c) \/ AllPaused(c)
  \/ TestPaused(c) \/ WaitPaused(c) \/ WakePaused(c) \/ Resume(c) \/ WakeBarrier(c)

Next ==
  \/ \E c \in Cores : CoreStep(c) \/ SpuriousWake(c)
  \/ PauseKey \/ ResumeKey \/ StepKey \/ Exchange \/ Notify

Spec == Init /\ [][Next]_vars

----------------------------------------------------------------------------
(* Properties.                                                             *)

\* A paused machine stands still: while gIsPaused is set every core is inside
\* debugBreakHandler, past the point where it joined the break, although all
\* but the last core pass the test of gIsPaused before it is set and are held
\* only by the barrier at the end.
PausedStandsStill ==
  gIsPaused => \A c \in Cores : hpc[c] \in {"pausing"} \cup Leaving

\* From the step key until the machine is paused again no core starts a
\* second instruction, unless the key fell between the pause and the end of
\* single-step mode (debug.cpp:58 and 61): a core that has executed its
\* instruction joins the break and cannot leave before all cores have.
StepsOnce == stepping = "step" => \A c \in Cores : executed[c] <= 1

\* "so a core doesn't execute more than one instruction" (debug.cpp:60),
\* whenever the step key is pressed.
SingleStepsOnce == stepping # "no" => \A c \in Cores : executed[c] <= 1

\* "so we don't have one core breaking while another is still resuming"
\* (debug.cpp:73): when a break is under way, every core in the handler's
\* waits has joined it.
NoBreakWhileResuming ==
  gPausingCores # {} => \A c \in Cores : hpc[c] \in Leaving => c \in gPausingCores
=============================================================================
