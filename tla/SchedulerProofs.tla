--------------------------- MODULE SchedulerProofs ---------------------------
(***************************************************************************)
(* The scheduler for any number of cores, threads, alarms and restarts.    *)
(* Base holds whatever the guest does: types, registers, and that the      *)
(* current thread of a core that executes is not blocked. It rests on      *)
(* every reschedule request going to core 0, so that no other core leaves  *)
(* its first wait (Others). Tidy holds as long as no thread is started     *)
(* twice: every thread is in at most one place, once in a run list, or     *)
(* waiting for one alarm, or in the clock thread's hands (Once), because a *)
(* thread that has put itself into such a place executes nothing before it *)
(* has lost the core (Executes).                                           *)
(***************************************************************************)
EXTENDS Scheduler, SequenceLemmas, FiniteSetTheorems, SequenceTheorems, TLAPS

\* Where a thread can be: in the run lists, behind an alarm, with the clock thread.
Listed(lists, t) == \E c \in Cores : \E i \in 1 .. Len(lists[c]) : lists[c][i] = t
Awaits(alarms, t) == \E i \in 1 .. Len(alarms) : alarms[i].waiting = t
Links(clk, t) == clk.pc = "linking" /\ clk.thread = t
Busy(t) == Listed(gThreadLists, t) \/ Awaits(gAlarms, t) \/ Links(clock, t)

ListedOnce(lists) ==
  \A c, d \in Cores : \A i \in 1 .. Len(lists[c]), j \in 1 .. Len(lists[d]) :
     lists[c][i] = lists[d][j] => c = d /\ i = j

Once ==
  /\ ListedOnce(gThreadLists)
  /\ \A i, j \in 1 .. Len(gAlarms) :
       gAlarms[i].waiting = gAlarms[j].waiting /\ gAlarms[i].waiting # INVALID => i = j
  /\ \A t \in Threads : /\ Awaits(gAlarms, t) => ~Listed(gThreadLists, t) /\ ~Links(clock, t)
                        /\ Links(clock, t) => ~Listed(gThreadLists, t)

\* No core but core 0 is ever asked to reschedule.
Others ==
  \A c \in Cores \ {0} : /\ hpc[c] \in {"entry", "wait"} /\ ~pending[c]
                         /\ gCurrentThreads[c] = INVALID /\ ~isActive[c]

\* Before the main thread is created there is nothing to trigger.
Fresh == hpc[0] = "entry" => /\ status[Main] = "NONE" /\ affinity[Main] = 0
                             /\ gAlarms = <<>> /\ clock.pc = "idle"

\* The current thread of core 0 is not blocked if the core executes, or will without a
\* reschedule in between.
NotBlocked ==
  /\ hpc[0] \in {"step", "alarm"} \/ (hpc[0] = "loop" /\ ~pending[0])
  /\ gCurrentThreads[0] # INVALID
  => status[gCurrentThreads[0]] # "WAITING"

\* The thread of an alarm call stays current until the call is over, and so does the
\* clock thread's waiter.
Calling ==
  /\ hpc[0] = "alarm" => gCurrentThreads[0] # INVALID /\ gAlarms # <<>>
  /\ clock.pc \in {"linking", "status"} => clock.thread # INVALID

PrioritiesInv == priority \in [Threads -> 0 .. 63]

Base == /\ TypeOK /\ PrioritiesInv /\ RegistersOfCurrent
        /\ Others /\ Fresh /\ NotBlocked /\ Calling

\* A blocked thread whose instruction a core has executed: no core is about to execute
\* another one.
RanOnce ==
  \A t \in Threads : ran[t] # 0 =>
    /\ ran[t] = 1 /\ status[t] = "WAITING"
    /\ regs[0] = t => gCurrentThreads[0] = INVALID /\ hpc[0] \in {"loop", "wait", "rescheduleIdle"}

\* Threads that were not started, or have exited, are nowhere, and a RUNNING thread is the
\* current one and nowhere else.
NotStarted == {"NONE", "INITIALIZED", "UNINITIATED"}
Places ==
  \A t \in Threads :
    /\ status[t] \in NotStarted => ~Busy(t) /\ t # gCurrentThreads[0]
    /\ status[t] = "RUNNING" => ~Busy(t) /\ t = gCurrentThreads[0]

\* Core 0 executes, or will without a reschedule in between: its thread can run and is
\* nowhere else.
Executes ==
  /\ hpc[0] \in {"step", "alarm"} \/ (hpc[0] = "loop" /\ ~pending[0])
  /\ gCurrentThreads[0] # INVALID
  => /\ status[gCurrentThreads[0]] \in {"READY", "RUNNING"}
     /\ ~Busy(gCurrentThreads[0])

Tidy == Once /\ Places /\ Executes
IInv == Base /\ Tidy

----------------------------------------------------------------------------
(* The run lists.                                                          *)

Lists == [Cores -> Seq(Threads)]
Handles == Threads \cup {INVALID}

\* Core 0 is a core.
LEMMA CoreZero == 0 \in Cores
BY SchedulerAssumption DEF Cores

\* push_back of a thread that is in no list.
LEMMA PushFacts ==
  ASSUME affinity \in [Threads -> Cores], NEW lists \in Lists, NEW t \in Threads
  PROVE  /\ Pushed(lists, t) \in Lists
         /\ \A x : Listed(Pushed(lists, t), x) <=> Listed(lists, x) \/ x = t
         /\ \A c \in Cores : \A i \in 1 .. Len(Pushed(lists, t)[c]) :
              \/ Pushed(lists, t)[c][i] = t
              \/ i \in 1 .. Len(lists[c]) /\ Pushed(lists, t)[c][i] = lists[c][i]
         /\ ListedOnce(lists) /\ ~Listed(lists, t) => ListedOnce(Pushed(lists, t))
<1> DEFINE a == affinity[t]
           p == Pushed(lists, t)
<1>1. a \in Cores /\ lists[a] \in Seq(Threads)
  BY DEF Lists
<1>2. /\ Append(lists[a], t) \in Seq(Threads) /\ Len(Append(lists[a], t)) = Len(lists[a]) + 1
      /\ \A i \in 1 .. Len(lists[a]) : Append(lists[a], t)[i] = lists[a][i]
      /\ Append(lists[a], t)[Len(lists[a]) + 1] = t
      /\ Len(lists[a]) \in Nat
  BY <1>1
<1>3. p \in Lists /\ \A c \in Cores : p[c] = IF c = a THEN Append(lists[a], t) ELSE lists[c]
  BY <1>1, <1>2 DEF Lists, Pushed
<1> DEFINE ap == Append(lists[a], t)
<1>0. /\ Len(ap) = Len(lists[a]) + 1 /\ Len(lists[a]) \in Nat
      /\ \A i \in 1 .. Len(lists[a]) : ap[i] = lists[a][i]
      /\ ap[Len(lists[a]) + 1] = t
      /\ \A c \in Cores : p[c] = IF c = a THEN ap ELSE lists[c]
  BY <1>2, <1>3
<1> HIDE DEF p, a, ap
<1>4. ASSUME NEW c \in Cores, NEW i \in 1 .. Len(p[c])
      PROVE  \/ c = a /\ i = Len(lists[a]) + 1 /\ p[c][i] = t
             \/ i \in 1 .. Len(lists[c]) /\ p[c][i] = lists[c][i]
  <2>1. CASE c = a
    <3>1. p[c] = ap /\ i \in 1 .. Len(lists[a]) + 1
      BY <1>0, <2>1
    <3> QED BY <1>0, <2>1, <3>1
  <2>2. CASE c # a
    BY <1>0, <2>2
  <2> QED BY <2>1, <2>2
<1>5. ASSUME NEW c \in Cores, NEW i \in 1 .. Len(lists[c])
      PROVE  i \in 1 .. Len(p[c]) /\ p[c][i] = lists[c][i]
  <2>1. CASE c = a
    <3>1. p[c] = ap /\ i \in 1 .. Len(lists[a]) + 1
      BY <1>0, <2>1
    <3> QED BY <1>0, <2>1, <3>1
  <2>2. CASE c # a
    BY <1>0, <2>2
  <2> QED BY <2>1, <2>2
<1>6. Len(lists[a]) + 1 \in 1 .. Len(p[a]) /\ p[a][Len(lists[a]) + 1] = t
  <2>1. p[a] = ap
    BY <1>0, <1>1
  <2> QED BY <1>0, <2>1
<1>7. \A x : Listed(p, x) <=> Listed(lists, x) \/ x = t
  BY <1>1, <1>4, <1>5, <1>6, ZenonT(40) DEF Listed
<1>8. ASSUME ListedOnce(lists), ~Listed(lists, t) PROVE ListedOnce(p)
  BY <1>4, <1>8, SMTT(30) DEF Listed, ListedOnce
<1> QED BY <1>3, <1>4, <1>7, <1>8 DEF p

Popped(lists, c, k) == [lists EXCEPT ![c] = RemoveAt(@, k)]

\* Taking the thread at position k of core c's list leaves only threads that were there.
LEMMA PopElements ==
  ASSUME NEW lists \in Lists, NEW c \in Cores, NEW k \in 1 .. Len(lists[c])
  PROVE  /\ Popped(lists, c, k) \in Lists
         /\ \A i \in 1 .. Len(Popped(lists, c, k)[c]) :
              \E j \in 1 .. Len(lists[c]) : Popped(lists, c, k)[c][i] = lists[c][j]
<1>1. lists[c] \in Seq(Threads) /\ Len(lists[c]) \in Nat /\ k \in Nat
  BY DEF Lists
<1>2. /\ RemoveAt(lists[c], k) \in Seq(Threads)
      /\ Len(RemoveAt(lists[c], k)) = Len(lists[c]) - 1
      /\ \A i \in 1 .. Len(lists[c]) - 1 :
           RemoveAt(lists[c], k)[i] = IF i < k THEN lists[c][i] ELSE lists[c][i + 1]
  BY <1>1, RemoveAtElements
<1>3. Popped(lists, c, k) \in Lists /\ Popped(lists, c, k)[c] = RemoveAt(lists[c], k)
  BY <1>2 DEF Lists, Popped
<1>4. \A i \in 1 .. Len(lists[c]) - 1 : i \in 1 .. Len(lists[c]) /\ i + 1 \in 1 .. Len(lists[c])
  BY <1>1
<1> QED BY <1>2, <1>3, <1>4

\* A thread that was in the lists once is gone when it is taken.
LEMMA PopFacts ==
  ASSUME NEW lists \in Lists, ListedOnce(lists), NEW c \in Cores, NEW k \in 1 .. Len(lists[c])
  PROVE  /\ ListedOnce(Popped(lists, c, k))
         /\ \A x : Listed(Popped(lists, c, k), x) <=> Listed(lists, x) /\ x # lists[c][k]
<1> DEFINE p == Popped(lists, c, k)
<1>1. lists[c] \in Seq(Threads) /\ Len(lists[c]) \in Nat /\ k \in Nat
  BY DEF Lists
<1>2. /\ RemoveAt(lists[c], k) \in Seq(Threads)
      /\ Len(RemoveAt(lists[c], k)) = Len(lists[c]) - 1
      /\ \A i \in 1 .. Len(lists[c]) - 1 :
           RemoveAt(lists[c], k)[i] = IF i < k THEN lists[c][i] ELSE lists[c][i + 1]
  BY <1>1, RemoveAtElements
<1>3. p \in Lists /\ \A d \in Cores : p[d] = IF d = c THEN RemoveAt(lists[c], k) ELSE lists[d]
  BY <1>2 DEF Lists, Popped
<1> HIDE DEF p
<1> DEFINE From(d, i) == IF d = c /\ i >= k THEN i + 1 ELSE i
<1>4. \A d \in Cores : \A i \in 1 .. Len(p[d]) :
         /\ From(d, i) \in 1 .. Len(lists[d]) /\ p[d][i] = lists[d][From(d, i)]
         /\ d = c => From(d, i) # k
  BY <1>1, <1>2, <1>3, SMTT(30)
<1>5. \A d \in Cores : \A i, j \in 1 .. Len(p[d]) : From(d, i) = From(d, j) => i = j
  BY <1>1, <1>2, <1>3
<1>6. \A d \in Cores : \A j \in 1 .. Len(lists[d]) :
         d # c \/ j # k => \E i \in 1 .. Len(p[d]) : p[d][i] = lists[d][j]
  <2>1. ASSUME NEW d \in Cores, NEW j \in 1 .. Len(lists[d]), d # c
        PROVE  \E i \in 1 .. Len(p[d]) : p[d][i] = lists[d][j]
    BY <1>3, <2>1
  <2>2. ASSUME NEW j \in 1 .. Len(lists[c]), j < k
        PROVE  j \in 1 .. Len(p[c]) /\ p[c][j] = lists[c][j]
    <3>1. p[c] = RemoveAt(lists[c], k)
      BY <1>3
    <3>2. j \in 1 .. Len(lists[c]) - 1
      BY <1>1, <2>2
    <3> QED BY <1>2, <2>2, <3>1, <3>2
  <2>3. ASSUME NEW j \in 1 .. Len(lists[c]), j > k
        PROVE  j - 1 \in 1 .. Len(p[c]) /\ p[c][j - 1] = lists[c][j]
    <3>1. p[c] = RemoveAt(lists[c], k)
      BY <1>3
    <3>2. j - 1 \in 1 .. Len(lists[c]) - 1 /\ ~(j - 1 < k) /\ (j - 1) + 1 = j
      BY <1>1, <2>3
    <3> QED BY <1>2, <3>1, <3>2
  <2>4. ASSUME NEW j \in 1 .. Len(lists[c]), j # k
        PROVE  \E i \in 1 .. Len(p[c]) : p[c][i] = lists[c][j]
    <3>1. j < k \/ j > k
      BY <1>1, <2>4
    <3> QED BY <2>2, <2>3, <3>1
  <2> QED BY <2>1, <2>4
<1> HIDE DEF From
<1>7. ListedOnce(p)
  <2>1. ASSUME NEW d \in Cores, NEW e \in Cores, NEW i \in 1 .. Len(p[d]), NEW j \in 1 .. Len(p[e]),
               p[d][i] = p[e][j]
        PROVE  d = e /\ i = j
    <3>1. /\ From(d, i) \in 1 .. Len(lists[d]) /\ From(e, j) \in 1 .. Len(lists[e])
          /\ lists[d][From(d, i)] = lists[e][From(e, j)]
      BY <1>4, <2>1
    <3>2. d = e /\ From(d, i) = From(e, j)
      BY <3>1 DEF ListedOnce
    <3> QED BY <1>5, <3>2
  <2> QED BY <2>1 DEF ListedOnce
<1>8. ASSUME NEW x PROVE Listed(p, x) <=> Listed(lists, x) /\ x # lists[c][k]
  <2>1. Listed(p, x) => Listed(lists, x) /\ x # lists[c][k]
    <3>1. ASSUME NEW d \in Cores, NEW i \in 1 .. Len(p[d])
          PROVE  Listed(lists, p[d][i]) /\ p[d][i] # lists[c][k]
      <4>1. From(d, i) \in 1 .. Len(lists[d]) /\ p[d][i] = lists[d][From(d, i)] /\ (d = c => From(d, i) # k)
        BY <1>4
      <4> QED BY <4>1 DEF Listed, ListedOnce
    <3> QED BY <3>1 DEF Listed
  <2>2. Listed(lists, x) /\ x # lists[c][k] => Listed(p, x)
    BY <1>6 DEF Listed
  <2> QED BY <2>1, <2>2
<1> QED BY <1>7, <1>8 DEF p

----------------------------------------------------------------------------
(* The order in which a growing vector of alarms wakes its waiters.        *)

Sorted(S) ==
  {f \in [1 .. Cardinality(S) -> S] : \A i, j \in 1 .. Cardinality(S) : i < j => f[i] < f[j]}

\* Every set of positions can be listed in ascending order: by induction on the
\* number of positions, as the absence of a least counterexample.
LEMMA AscendingFacts ==
  ASSUME NEW n \in Nat, NEW S \in SUBSET (1 .. n)
  PROVE  Ascending(S) \in Sorted(S) /\ Cardinality(S) \in Nat
<1> DEFINE Bad == {m \in Nat : \E T \in SUBSET (1 .. m) : Sorted(T) = {}}
<1>1. ASSUME NEW m \in Nat, NEW T \in SUBSET (1 .. m) PROVE IsFiniteSet(T) /\ Cardinality(T) \in Nat
  <2>1. IsFiniteSet(1 .. m)
    BY FS_Interval
  <2>2. IsFiniteSet(T)
    BY <2>1, FS_Subset
  <2> QED BY <2>2, FS_CardinalityType
<1>2. ASSUME NEW m \in Bad PROVE \E k \in Bad : k < m
  <2>1. m \in Nat
    OBVIOUS
  <2>2. PICK T \in SUBSET (1 .. m) : Sorted(T) = {}
    OBVIOUS
  <2>3. IsFiniteSet(T) /\ Cardinality(T) \in Nat
    BY <1>1, <2>1
  <2>4. T # {}
    <3>1. ASSUME T = {} PROVE FALSE
      <4>1. Cardinality(T) = 0
        BY <3>1, FS_EmptySet
      <4>2. [i \in 1 .. 0 |-> 0] \in Sorted(T)
        BY <3>1, <4>1 DEF Sorted
      <4> QED BY <2>2, <4>2
    <3> QED BY <3>1
  <2>5. m - 1 \in Nat /\ m - 1 < m /\ m \in 1 .. m
    <3>1. PICK x \in T : x \in 1 .. m
      BY <2>4
    <3> QED BY <2>1, <3>1
  <2>6. CASE m \notin T
    <3>1. T \in SUBSET (1 .. m - 1)
      BY <2>1, <2>6
    <3> QED BY <2>2, <2>5, <3>1
  <2>7. CASE m \in T
    <3> DEFINE U == T \ {m}
    <3>1. U \in SUBSET (1 .. m - 1)
      BY <2>1
    <3>2. Cardinality(T) = Cardinality(U) + 1 /\ Cardinality(U) \in Nat
      <4>1. Cardinality(U) = Cardinality(T) - 1
        BY <2>3, <2>7, FS_RemoveElement
      <4>2. Cardinality(U) \in Nat
        BY <1>1, <2>5, <3>1
      <4> QED BY <2>3, <4>1, <4>2
    <3>3. ASSUME NEW f \in Sorted(U) PROVE FALSE
      <4> DEFINE g == [i \in 1 .. Cardinality(T) |-> IF i = Cardinality(T) THEN m ELSE f[i]]
      <4>1. \A i \in 1 .. Cardinality(U) : f[i] \in U /\ f[i] < m /\ f[i] \in T
        <5>1. \A i \in 1 .. Cardinality(U) : f[i] \in U
          BY DEF Sorted
        <5>2. \A x \in U : x < m /\ x \in T
          BY <2>1, <3>1
        <5> QED BY <5>1, <5>2
      <4>2. \A i \in 1 .. Cardinality(T) : i = Cardinality(T) \/ i \in 1 .. Cardinality(U)
        BY <3>2
      <4>3. g \in [1 .. Cardinality(T) -> T]
        BY <2>7, <4>1, <4>2
      <4>4. ASSUME NEW i \in 1 .. Cardinality(T), NEW j \in 1 .. Cardinality(T), i < j
            PROVE  g[i] < g[j]
        <5>1. i \in 1 .. Cardinality(U) /\ g[i] = f[i]
          BY <3>2, <4>4
        <5>2. CASE j = Cardinality(T)
          BY <4>1, <5>1, <5>2
        <5>3. CASE j \in 1 .. Cardinality(U)
          <6>1. g[j] = f[j]
            BY <3>2, <5>3
          <6> QED BY <4>4, <5>1, <5>3, <6>1 DEF Sorted
        <5> QED BY <4>2, <5>2, <5>3
      <4> HIDE DEF g
      <4>5. g \in Sorted(T)
        BY <4>3, <4>4 DEF Sorted
      <4> QED BY <2>2, <4>5
    <3>4. Sorted(U) = {}
      BY <3>3
    <3> QED BY <2>5, <3>1, <3>4
  <2> QED BY <2>6, <2>7
<1>3. Bad = {}
  <2>1. ASSUME Bad # {} PROVE FALSE
    <3>1. Min(Bad) \in Bad /\ \A y \in Bad : Min(Bad) <= y
      BY <2>1, MinIsLeast
    <3>2. PICK k \in Bad : k < Min(Bad)
      BY <1>2, <3>1
    <3>3. Min(Bad) \in Nat /\ k \in Nat
      BY <3>1
    <3> QED BY <3>1, <3>2, <3>3
  <2> QED BY <2>1
<1>4. Sorted(S) # {}
  BY <1>3
<1>5. Ascending(S) = CHOOSE f \in Sorted(S) : TRUE
  BY DEF Ascending, Sorted
<1> QED BY <1>1, <1>4, <1>5

----------------------------------------------------------------------------
(* rescheduleNoLock.                                                       *)

Contexts == [regs : Handles, pc : Pcs]

\* contextSwitch saves the core's registers into the current thread's context and
\* loads those of the next one.
LEMMA SwitchFacts ==
  ASSUME TypeOK, RegistersOfCurrent, NEW c \in Cores, NEW next \in Handles,
         next # gCurrentThreads[c], NEW y \in BOOLEAN, NEW s \in BOOLEAN,
         ContextSwitch(c, next, y, s)
  PROVE  /\ regs' \in [Cores -> Handles] /\ pc' \in [Cores -> Pcs]
         /\ context' \in [Threads -> Contexts]
         /\ \A d \in Cores : d # c => regs'[d] = regs[d]
         /\ IF next # INVALID THEN regs'[c] = next ELSE regs' = regs
         /\ \A t \in Threads : context'[t].regs = t
<1> DEFINE cur == gCurrentThreads[c]
           at == IF y THEN "yield" ELSE pc[c].at
           saved == [regs |-> regs[c], pc |-> [pc[c] EXCEPT !.at = at]]
<1>1. /\ regs \in [Cores -> Handles] /\ pc \in [Cores -> Pcs] /\ cur \in Handles
      /\ context \in [Threads -> Contexts]
  BY DEF TypeOK, Handles, Contexts
<1>2. pc[c] \in Pcs /\ at \in {"code", "yield"}
  BY <1>1 DEF Pcs
<1>3. saved \in Contexts /\ saved.regs = regs[c]
  BY <1>1, <1>2 DEF Contexts, Pcs
<1>4. /\ context' = IF cur # INVALID THEN [context EXCEPT ![cur] = saved] ELSE context
      /\ regs' = IF next # INVALID THEN [regs EXCEPT ![c] = context[next].regs] ELSE regs
      /\ pc' = IF s THEN [pc EXCEPT ![c].at = "code"]
               ELSE IF next # INVALID THEN [pc EXCEPT ![c] = context[next].pc] ELSE pc
  BY DEF ContextSwitch
<1> HIDE DEF saved, at
<1>5. next # INVALID => next \in Threads /\ context[next] \in Contexts /\ context[next].regs = next
  BY <1>1 DEF Handles, RegistersOfCurrent
<1>6. next # INVALID => context[next].pc \in Pcs
  BY <1>5 DEF Contexts
<1>7. regs' \in [Cores -> Handles] /\ (IF next # INVALID THEN regs'[c] = next ELSE regs' = regs)
      /\ \A d \in Cores : d # c => regs'[d] = regs[d]
  BY <1>1, <1>4, <1>5
<1>8. pc' \in [Cores -> Pcs]
  <2>1. [pc[c] EXCEPT !.at = "code"] \in Pcs
    BY <1>2 DEF Pcs
  <2> QED BY <1>1, <1>4, <1>6, <2>1
<1>9. context' \in [Threads -> Contexts] /\ \A t \in Threads : context'[t].regs = t
  <2>1. cur # INVALID => cur \in Threads /\ regs[c] = cur
    BY <1>1 DEF Handles, RegistersOfCurrent
  <2>2. \A t \in Threads : context[t].regs = t
    BY DEF RegistersOfCurrent
  <2> HIDE DEF cur
  <2> QED BY <1>1, <1>3, <1>4, <2>1, <2>2
<1> QED BY <1>7, <1>8, <1>9

\* The two outcomes of popBest, and what follows from the thread it finds.
Outcome(c, next, popped, lists, st, y, s) ==
  LET cur == gCurrentThreads[c] IN
  /\ \/ /\ next # INVALID /\ next # cur
        /\ \E i \in 1 .. Len(lists[c]) : next = lists[c][i] /\ popped = Popped(lists, c, i)
     \/ /\ next = IF cur # INVALID /\ st[cur] = "RUNNING" THEN cur ELSE INVALID
        /\ popped = lists
  /\ gThreadLists' = IF Preempts(c, next, st) THEN Pushed(popped, cur) ELSE popped
  /\ status' = [t \in Threads |-> IF t = next THEN "RUNNING"
                                  ELSE IF Preempts(c, next, st) /\ t = cur THEN "READY" ELSE st[t]]
  /\ IF next # cur THEN ContextSwitch(c, next, y, s) ELSE UNCHANGED <<regs, pc, context>>
  /\ isActive' = [isActive EXCEPT ![c] = next # INVALID]
  /\ gCurrentThreads' = [gCurrentThreads EXCEPT ![c] = next]

\* rescheduleNoLock has one of the two outcomes.
LEMMA RescheduleOutcome ==
  ASSUME TypeOK, NEW c \in Cores, NEW lists \in Lists, NEW st, NEW y, NEW s,
         Reschedule(c, lists, st, y, s)
  PROVE  \E next \in Handles, popped \in Lists : Outcome(c, next, popped, lists, st, y, s)
<1> DEFINE cur == gCurrentThreads[c]
           best == BestIndices(lists[c], MinPriority(c))
           running == cur # INVALID /\ st[cur] = "RUNNING"
           i == CHOOSE k \in best : TRUE
           next == IF best # {} THEN lists[c][i] ELSE IF running THEN cur ELSE INVALID
           popped == IF best # {} THEN [lists EXCEPT ![c] = RemoveAt(@, i)] ELSE lists
<1>1. /\ gThreadLists' = IF Preempts(c, next, st) THEN Pushed(popped, cur) ELSE popped
      /\ status' = [t \in Threads |-> IF t = next THEN "RUNNING"
                                      ELSE IF Preempts(c, next, st) /\ t = cur THEN "READY" ELSE st[t]]
      /\ IF next # cur THEN ContextSwitch(c, next, y, s)
                       ELSE UNCHANGED <<regs, pc, context>>
      /\ isActive' = [isActive EXCEPT ![c] = next # INVALID]
      /\ gCurrentThreads' = [gCurrentThreads EXCEPT ![c] = next]
  BY DEF Reschedule
<1>2. cur \in Handles /\ lists[c] \in Seq(Threads) /\ priority \in [Threads -> Nat]
      /\ INVALID \notin Threads
  BY SchedulerAssumption DEF TypeOK, Handles, Lists
<1>3. best # {} => /\ i \in 1 .. Len(lists[c]) /\ lists[c][i] \in Threads
                   /\ priority[lists[c][i]] < MinPriority(c)
  <2>1. best # {} => i \in best
    OBVIOUS
  <2>2. \A k \in best : k \in 1 .. Len(lists[c]) /\ priority[lists[c][k]] < MinPriority(c)
    BY <1>2 DEF BestIndices
  <2>3. \A k \in 1 .. Len(lists[c]) : lists[c][k] \in Threads
    BY <1>2
  <2> HIDE DEF best, i
  <2> QED BY <2>1, <2>2, <2>3
<1>4. best # {} => lists[c][i] # cur
  BY <1>2, <1>3 DEF MinPriority
<1> HIDE DEF best, i
<1>5. /\ best # {} => next = lists[c][i] /\ next # INVALID /\ next # cur /\ popped = Popped(lists, c, i)
      /\ best = {} => next = (IF running THEN cur ELSE INVALID) /\ popped = lists
  BY <1>2, <1>3, <1>4 DEF Popped
<1>6. next \in Handles
  BY <1>2, <1>3 DEF Handles
<1>7. popped \in Lists
  <2>1. CASE best # {}
    BY <1>3, <1>5, <2>1, PopElements
  <2>2. CASE best = {}
    BY <1>5, <2>2
  <2> QED BY <2>1, <2>2
<1>8. \/ /\ next # INVALID /\ next # cur
         /\ \E k \in 1 .. Len(lists[c]) : next = lists[c][k] /\ popped = Popped(lists, c, k)
      \/ /\ next = IF running THEN cur ELSE INVALID
         /\ popped = lists
  BY <1>3, <1>5
<1> HIDE DEF next, popped
<1>9. Outcome(c, next, popped, lists, st, y, s)
  BY <1>1, <1>8 DEF Outcome
<1> QED BY <1>6, <1>7, <1>9

\* What a reschedule changes on its core, with whatever lists and statuses: the next thread
\* is RUNNING and its registers are loaded.
Switches(c, next, st) ==
  /\ gCurrentThreads' = [gCurrentThreads EXCEPT ![c] = next]
  /\ isActive' = [isActive EXCEPT ![c] = next # INVALID]
  /\ gThreadLists' \in Lists /\ status' \in [Threads -> Statuses]
  /\ \A t \in Threads : status'[t] = "WAITING" => st[t] = "WAITING"
  /\ next # INVALID => next \in Threads /\ status'[next] = "RUNNING" /\ regs'[c] = next
  /\ next = INVALID => regs'[c] = regs[c]
  /\ regs' \in [Cores -> Handles] /\ pc' \in [Cores -> Pcs] /\ context' \in [Threads -> Contexts]
  /\ RegistersOfCurrent'

\* rescheduleNoLock keeps the types and the registers with their threads.
LEMMA RescheduleTypes ==
  ASSUME TypeOK, RegistersOfCurrent, NEW c \in Cores, NEW lists \in Lists,
         NEW st \in [Threads -> Statuses], NEW y \in BOOLEAN, NEW s \in BOOLEAN,
         Reschedule(c, lists, st, y, s)
  PROVE  \E next \in Handles : Switches(c, next, st)
<1> DEFINE cur == gCurrentThreads[c]
<1>1. PICK next \in Handles, popped \in Lists : Outcome(c, next, popped, lists, st, y, s)
  BY RescheduleOutcome
<1> DEFINE preempted == Preempts(c, next, st)
<1>2. /\ gThreadLists' = IF preempted THEN Pushed(popped, cur) ELSE popped
      /\ status' = [t \in Threads |-> IF t = next THEN "RUNNING"
                                      ELSE IF preempted /\ t = cur THEN "READY" ELSE st[t]]
      /\ IF next # cur THEN ContextSwitch(c, next, y, s) ELSE UNCHANGED <<regs, pc, context>>
      /\ isActive' = [isActive EXCEPT ![c] = next # INVALID]
      /\ gCurrentThreads' = [gCurrentThreads EXCEPT ![c] = next]
  BY <1>1 DEF Outcome
<1>3. /\ cur \in Handles /\ affinity \in [Threads -> Cores] /\ INVALID \notin Threads
      /\ preempted => cur # INVALID
  BY SchedulerAssumption DEF TypeOK, Handles, Preempts
<1> HIDE DEF preempted
<1>4. gThreadLists' \in Lists
  <2>1. cur # INVALID => cur \in Threads
    BY <1>3 DEF Handles
  <2> HIDE DEF cur
  <2> QED BY <1>2, <1>3, <2>1, PushFacts
<1>5. /\ status' \in [Threads -> Statuses]
      /\ \A t \in Threads : status'[t] = "WAITING" => st[t] = "WAITING"
      /\ next # INVALID => next \in Threads /\ status'[next] = "RUNNING"
  BY <1>2 DEF Statuses, Handles
<1>6. /\ regs' \in [Cores -> Handles] /\ pc' \in [Cores -> Pcs]
      /\ context' \in [Threads -> Contexts]
      /\ \A d \in Cores : d # c => regs'[d] = regs[d]
      /\ next # INVALID => regs'[c] = next
      /\ next = INVALID => regs'[c] = regs[c]
      /\ \A t \in Threads : context'[t].regs = t
  <2>1. CASE next # cur
    <3>1. ContextSwitch(c, next, y, s)
      BY <1>2, <2>1
    <3> QED BY <2>1, <3>1, SwitchFacts
  <2>2. CASE next = cur
    BY <1>2, <2>2 DEF TypeOK, Handles, Contexts, RegistersOfCurrent
  <2> QED BY <2>1, <2>2
<1>7. RegistersOfCurrent'
  BY <1>2, <1>6 DEF RegistersOfCurrent, TypeOK
<1>8. Switches(c, next, st)
  BY <1>2, <1>4, <1>5, <1>6, <1>7 DEF Switches
<1> QED BY <1>8

\* The thread a reschedule picks, and what it does to the lists and statuses.
Picks(c, next, lists, st) ==
  LET cur == gCurrentThreads[c] IN
  /\ gCurrentThreads' = [gCurrentThreads EXCEPT ![c] = next]
  /\ ListedOnce(gThreadLists')
  /\ next # INVALID => \/ next = cur /\ st[cur] = "RUNNING"
                       \/ next # cur /\ Listed(lists, next)
  /\ \A t \in Threads : Listed(gThreadLists', t) <=>
                          t # next /\ (Listed(lists, t) \/ (t = cur /\ st[t] = "RUNNING"))
  /\ status' = [t \in Threads |-> IF t = next THEN "RUNNING"
                                  ELSE IF st[t] = "RUNNING" THEN "READY" ELSE st[t]]

\* rescheduleNoLock picks a thread as Picks says, if the lists hold every thread once, only
\* the current thread was RUNNING and it was not queued.
LEMMA RescheduleFacts ==
  ASSUME TypeOK, NEW c \in Cores, NEW lists \in Lists, ListedOnce(lists),
         NEW st \in [Threads -> Statuses], NEW y \in BOOLEAN, NEW s \in BOOLEAN,
         Reschedule(c, lists, st, y, s),
         \A t \in Threads : st[t] = "RUNNING" => t = gCurrentThreads[c] /\ ~Listed(lists, t)
  PROVE  \E next \in Handles : Picks(c, next, lists, st)
<1> DEFINE cur == gCurrentThreads[c]
           running == cur # INVALID /\ st[cur] = "RUNNING"
<1>1. PICK next \in Handles, popped \in Lists : Outcome(c, next, popped, lists, st, y, s)
  BY RescheduleOutcome
<1> DEFINE preempted == Preempts(c, next, st)
<1>2. /\ \/ /\ next # INVALID /\ next # cur
            /\ \E i \in 1 .. Len(lists[c]) : next = lists[c][i] /\ popped = Popped(lists, c, i)
         \/ /\ next = IF running THEN cur ELSE INVALID
            /\ popped = lists
      /\ gThreadLists' = IF preempted THEN Pushed(popped, cur) ELSE popped
      /\ status' = [t \in Threads |-> IF t = next THEN "RUNNING"
                                      ELSE IF preempted /\ t = cur THEN "READY" ELSE st[t]]
      /\ gCurrentThreads' = [gCurrentThreads EXCEPT ![c] = next]
  BY <1>1 DEF Outcome
<1>3. cur \in Handles /\ affinity \in [Threads -> Cores] /\ INVALID \notin Threads
  BY SchedulerAssumption DEF TypeOK, Handles
<1>4. preempted <=> cur # INVALID /\ next # cur /\ st[cur] = "RUNNING"
  BY DEF Preempts
<1> HIDE DEF preempted
<1>5. /\ ListedOnce(popped)
      /\ \A t \in Threads : Listed(popped, t) <=> Listed(lists, t) /\ t # next
      /\ next # INVALID => (next = cur /\ st[cur] = "RUNNING") \/ (next # cur /\ Listed(lists, next))
  <2>1. CASE /\ next # INVALID /\ next # cur
             /\ \E i \in 1 .. Len(lists[c]) : next = lists[c][i] /\ popped = Popped(lists, c, i)
    <3>1. PICK i \in 1 .. Len(lists[c]) : next = lists[c][i] /\ popped = Popped(lists, c, i)
      BY <2>1
    <3>2. /\ ListedOnce(popped)
          /\ \A x : Listed(popped, x) <=> Listed(lists, x) /\ x # next
      BY <3>1, PopFacts
    <3>3. Listed(lists, next)
      BY <3>1 DEF Listed
    <3> QED BY <2>1, <3>2, <3>3
  <2>2. CASE next = (IF running THEN cur ELSE INVALID) /\ popped = lists
    <3>1. next = INVALID \/ (next = cur /\ st[cur] = "RUNNING" /\ cur \in Threads /\ ~Listed(lists, cur))
      BY <1>3, <2>2 DEF Handles
    <3> QED BY <1>3, <2>2, <3>1
  <2> QED BY <1>2, <2>1, <2>2
<1>6. /\ ListedOnce(gThreadLists')
      /\ \A t \in Threads : Listed(gThreadLists', t) <=>
                              t # next /\ (Listed(lists, t) \/ (t = cur /\ st[t] = "RUNNING"))
  <2>1. CASE preempted
    <3>1. cur \in Threads /\ cur # next /\ st[cur] = "RUNNING" /\ ~Listed(popped, cur)
      BY <1>3, <1>4, <1>5, <2>1 DEF Handles
    <3>2. gThreadLists' = Pushed(popped, cur)
      BY <1>2, <2>1
    <3>3. /\ ListedOnce(Pushed(popped, cur))
          /\ \A x : Listed(Pushed(popped, cur), x) <=> Listed(popped, x) \/ x = cur
      BY <1>3, <1>5, <3>1, PushFacts
    <3> QED BY <1>5, <3>1, <3>2, <3>3
  <2>2. CASE ~preempted
    <3>1. \A t \in Threads : t = cur /\ st[t] = "RUNNING" => t = next
      BY <1>3, <1>4, <2>2
    <3> QED BY <1>2, <1>5, <2>2, <3>1
  <2> QED BY <2>1, <2>2
<1>7. status' = [t \in Threads |-> IF t = next THEN "RUNNING"
                                   ELSE IF st[t] = "RUNNING" THEN "READY" ELSE st[t]]
  <2>1. \A t \in Threads : t # next => (preempted /\ t = cur <=> st[t] = "RUNNING")
    BY <1>3, <1>4
  <2> QED BY <1>2, <2>1
<1>8. Picks(c, next, lists, st)
  BY <1>2, <1>5, <1>6, <1>7 DEF Picks
<1> QED BY <1>8

----------------------------------------------------------------------------
(* What holds whatever the guest does.                                     *)

Clocks == [pc : ClockPcs, thread : Handles, alarm : Nat, raced : BOOLEAN]

\* A core's step leaves the clock thread where it is.
ClockStays == clock' \in Clocks /\ clock'.pc = clock.pc /\ clock'.thread = clock.thread

\* A step of a core is one of its actions and leaves the clock thread where it is.
LEMMA CoreStepClock ==
  ASSUME TypeOK, NEW c \in Cores, CoreStep(c)
  PROVE  CoreAction(c) /\ ClockStays /\ ran' \in [Threads -> 0 .. 2]
<1>1. clock \in Clocks /\ ran \in [Threads -> 0 .. 2]
  BY DEF TypeOK, Handles, Clocks
<1>2. CoreAction(c) /\ \E b \in BOOLEAN : clock' = [clock EXCEPT !.raced = b]
  BY <1>1 DEF CoreStep
<1>3. ran' \in [Threads -> 0 .. 2]
  <2> DEFINE r(t) == IF status'[t] # "WAITING" THEN 0
                     ELSE IF RunsBlocked(c, t) /\ ran[t] < 2 THEN ran[t] + 1 ELSE ran[t]
  <2>1. ASSUME NEW t \in Threads PROVE r(t) \in 0 .. 2
    <3>1. ran[t] \in 0 .. 2
      BY <1>1
    <3> QED BY <3>1
  <2>2. ran' = [t \in Threads |-> r(t)]
    BY DEF CoreStep
  <2> HIDE DEF r
  <2> QED BY <2>1, <2>2
<1> QED BY <1>1, <1>2, <1>3 DEF ClockStays, Clocks

\* No core but core 0 does anything after cpuEntry.
LEMMA OnlyCoreZero ==
  ASSUME Base, NEW c \in Cores, CoreAction(c), c # 0
  PROVE  Entry(c)
<1>1. hpc[c] \in {"entry", "wait"} /\ ~pending[c]
  BY DEF Base, Others
<1> QED
  BY <1>1 DEF CoreAction, TakeInterrupt, Loop, HandleInterrupt, Ordinary, Calls, CreateThread,
              StartThread, YieldThread, ExitThread, CreateAlarm, AlarmWait, WaitSynchronization

\* Steps after which every core has the thread and the registers it had before.
LEMMA BaseMove ==
  ASSUME Base, status' \in [Threads -> Statuses], priority' \in [Threads -> 0 .. 63],
         affinity' \in [Threads -> Cores], gThreadLists' \in Lists,
         pending' \in [Cores -> BOOLEAN], hpc' \in [Cores -> CorePcs],
         \A c \in Cores \ {0} : pending'[c] = pending[c] /\ hpc'[c] \in {hpc[c], "wait"},
         gAlarms' \in Seq(Alarms), capacity' \in Nat, clock' \in Clocks,
         restarts' \in Nat, ran' \in [Threads -> 0 .. 2],
         UNCHANGED <<gCurrentThreads, isActive, regs, pc, context>>,
         Fresh', NotBlocked', Calling'
  PROVE  Base'
<1>1. TypeOK' /\ PrioritiesInv'
  <2>1. priority' \in [Threads -> Nat]
    <3>1. \A n \in 0 .. 63 : n \in Nat
      OBVIOUS
    <3> QED BY ONLY <3>1, priority' \in [Threads -> 0 .. 63]
  <2> QED BY <2>1 DEF Base, TypeOK, PrioritiesInv, Lists, Handles, Clocks
<1>2. RegistersOfCurrent' /\ Others'
  BY DEF Base, RegistersOfCurrent, Others
<1> QED BY <1>1, <1>2 DEF Base

\* The types that the invariant gives.
LEMMA BaseTypes ==
  ASSUME Base
  PROVE  /\ 0 \in Cores /\ Main \in Threads /\ INVALID \notin Threads
         /\ status \in [Threads -> Statuses] /\ priority \in [Threads -> 0 .. 63]
         /\ affinity \in [Threads -> Cores] /\ gThreadLists \in Lists
         /\ gCurrentThreads \in [Cores -> Handles]
         /\ pending \in [Cores -> BOOLEAN] /\ hpc \in [Cores -> CorePcs]
         /\ gAlarms \in Seq(Alarms) /\ capacity \in Nat /\ clock \in Clocks /\ restarts \in Nat
BY CoreZero, SchedulerAssumption DEF Base, TypeOK, PrioritiesInv, Lists, Handles, Clocks

\* cpuEntry, on any core.
LEMMA BaseEntry ==
  ASSUME Base, ClockStays, ran' \in [Threads -> 0 .. 2], NEW c \in Cores, Entry(c)
  PROVE  Base'
<1>1. /\ hpc[c] = "entry" /\ hpc' = [hpc EXCEPT ![c] = "wait"]
      /\ UNCHANGED <<priority, affinity, gCurrentThreads, isActive, regs, pc, context, gAlarms,
                     capacity, restarts>>
      /\ c = 0 => /\ status' = [status EXCEPT ![Main] = "READY"]
                  /\ gThreadLists' = [gThreadLists EXCEPT ![0] = Append(@, Main)]
                  /\ pending' = [pending EXCEPT ![0] = TRUE]
      /\ c # 0 => UNCHANGED <<status, gThreadLists, pending>>
  BY DEF Entry, alarmVars
<1>2. /\ hpc' \in [Cores -> CorePcs]
      /\ hpc'[c] = "wait" /\ \A d \in Cores \ {c} : hpc'[d] = hpc[d]
  BY <1>1, BaseTypes DEF CorePcs
<1>3. /\ status' \in [Threads -> Statuses] /\ pending' \in [Cores -> BOOLEAN]
      /\ \A d \in Cores \ {0} : pending'[d] = pending[d] /\ hpc'[d] \in {hpc[d], "wait"}
  BY <1>1, <1>2, BaseTypes DEF Statuses
<1>4. gThreadLists' \in Lists
  <2>1. \A l \in Seq(Threads) : Append(l, Main) \in Seq(Threads)
    BY SchedulerAssumption
  <2>2. gThreadLists[0] \in Seq(Threads) /\ gThreadLists \in Lists
    BY BaseTypes DEF Lists
  <2>3. c = 0 => gThreadLists' = [gThreadLists EXCEPT ![0] = Append(gThreadLists[0], Main)]
    BY <1>1
  <2>4. c = 0 => gThreadLists' \in Lists
    BY <2>1, <2>2, <2>3 DEF Lists
  <2> QED BY <1>1, <2>2, <2>4
<1>5. Calling' /\ Fresh' /\ NotBlocked'
  <2>1. hpc'[0] = "wait" \/ (c # 0 /\ hpc'[0] = hpc[0])
    BY <1>2, CoreZero
  <2> QED BY <1>1, <2>1 DEF Base, Calling, Fresh, NotBlocked, ClockStays
<1>6. /\ priority' \in [Threads -> 0 .. 63] /\ affinity' \in [Threads -> Cores]
      /\ gAlarms' \in Seq(Alarms) /\ capacity' \in Nat /\ restarts' \in Nat
      /\ clock' \in Clocks /\ UNCHANGED <<gCurrentThreads, isActive, regs, pc, context>>
  BY <1>1, BaseTypes DEF ClockStays
<1> QED BY <1>2, <1>3, <1>4, <1>5, <1>6, BaseMove

\* The steps of core 0 that change nothing but its control point and its interrupt.
LEMMA BaseControl ==
  ASSUME Base, ClockStays, ran' \in [Threads -> 0 .. 2],
         TakeInterrupt(0) \/ Loop(0) \/ Ordinary(0)
  PROVE  Base'
<1>1. /\ UNCHANGED <<status, priority, affinity, gThreadLists, gAlarms, capacity, restarts>>
      /\ UNCHANGED <<gCurrentThreads, isActive, regs, pc, context>>
  BY DEF TakeInterrupt, Loop, Ordinary, threadVars, alarmVars
<1>2. PICK v \in {"wait", "rescheduleIdle", "loop", "rescheduleRunning", "step"} :
        /\ hpc' = [hpc EXCEPT ![0] = v]
        /\ v = "loop" => hpc[0] = "step"
        /\ v = "step" => hpc[0] = "loop" /\ ~pending[0]
  BY DEF TakeInterrupt, Loop, Ordinary
<1>3. pending' \in [Cores -> BOOLEAN] /\ \A d \in Cores \ {0} : pending'[d] = pending[d]
  BY BaseTypes DEF TakeInterrupt, Loop, Ordinary
<1>4. /\ hpc' \in [Cores -> CorePcs] /\ hpc'[0] = v
      /\ \A d \in Cores \ {0} : pending'[d] = pending[d] /\ hpc'[d] \in {hpc[d], "wait"}
  BY <1>2, <1>3, BaseTypes DEF CorePcs
<1>5. Calling' /\ Fresh' /\ NotBlocked'
  BY <1>1, <1>2, <1>4 DEF Base, Calling, Fresh, NotBlocked, ClockStays
<1>6. /\ status' \in [Threads -> Statuses] /\ gThreadLists' \in Lists
      /\ priority' \in [Threads -> 0 .. 63] /\ affinity' \in [Threads -> Cores]
      /\ gAlarms' \in Seq(Alarms) /\ capacity' \in Nat /\ restarts' \in Nat /\ clock' \in Clocks
  BY <1>1, BaseTypes DEF ClockStays
<1> QED BY <1>1, <1>3, <1>4, <1>5, <1>6, BaseMove

\* What a system call of core 0 has to show.
LEMMA BaseCall ==
  ASSUME Base, ClockStays, ran' \in [Threads -> 0 .. 2], hpc[0] \in {"step", "alarm"},
         NEW v \in {"loop", "alarm"}, hpc' = [hpc EXCEPT ![0] = v],
         NEW i \in {"none", "zero"},
         pending' = IF i = "zero" THEN [pending EXCEPT ![0] = TRUE] ELSE pending,
         status' \in [Threads -> Statuses], priority' \in [Threads -> 0 .. 63],
         affinity' \in [Threads -> Cores], gThreadLists' \in Lists, restarts' \in Nat,
         gAlarms' \in Seq(Alarms), capacity' \in Nat,
         v = "alarm" => i = "none" /\ gCurrentThreads[0] # INVALID /\ gAlarms' # <<>>,
         UNCHANGED <<gCurrentThreads, isActive, regs, pc, context>>,
         \A t \in Threads : i = "zero" \/ status[t] = "WAITING" \/ status'[t] # "WAITING"
  PROVE  Base'
<1>1. /\ hpc' \in [Cores -> CorePcs] /\ hpc'[0] = v
      /\ pending' \in [Cores -> BOOLEAN] /\ (i = "zero" => pending'[0])
      /\ \A c \in Cores \ {0} : pending'[c] = pending[c] /\ hpc'[c] \in {hpc[c], "wait"}
  BY BaseTypes DEF CorePcs
<1>2. clock' \in Clocks
  BY DEF ClockStays
<1>3. gCurrentThreads[0] # INVALID => /\ gCurrentThreads[0] \in Threads
                                      /\ status[gCurrentThreads[0]] # "WAITING"
  BY BaseTypes DEF Base, NotBlocked, Handles
<1>4. Fresh' /\ Calling'
  BY <1>1 DEF Base, Fresh, Calling, ClockStays
<1>5. NotBlocked'
  <2>1. CASE v = "loop"
    BY <1>1, <1>3, <2>1 DEF NotBlocked
  <2>2. CASE v = "alarm" /\ i = "none"
    BY <1>1, <1>3, <2>2 DEF NotBlocked
  <2> QED BY <2>1, <2>2
<1> QED BY <1>1, <1>2, <1>4, <1>5, BaseMove

\* svcWaitSynchronization.
LEMMA BaseWait ==
  ASSUME Base, ClockStays, ran' \in [Threads -> 0 .. 2], WaitSynchronization(0) PROVE Base'
<1>1. /\ hpc[0] = "step" /\ hpc' = [hpc EXCEPT ![0] = "loop"]
      /\ status' = [status EXCEPT ![gCurrentThreads[0]] = "WAITING"]
      /\ pending' = [pending EXCEPT ![0] = TRUE]
      /\ UNCHANGED <<priority, affinity, gThreadLists, gAlarms, capacity, restarts>>
      /\ UNCHANGED <<gCurrentThreads, isActive, regs, pc, context>>
  BY DEF WaitSynchronization, Calls, alarmVars
<1>2. /\ status' \in [Threads -> Statuses] /\ priority' \in [Threads -> 0 .. 63]
      /\ affinity' \in [Threads -> Cores] /\ gThreadLists' \in Lists /\ restarts' \in Nat
      /\ gAlarms' \in Seq(Alarms) /\ capacity' \in Nat
  BY <1>1, BaseTypes DEF Statuses
<1>3. pending' = IF "zero" = "zero" THEN [pending EXCEPT ![0] = TRUE] ELSE pending
  BY <1>1
<1> QED BY <1>1, <1>2, <1>3, BaseCall

\* svcCreateThread.
LEMMA BaseCreate ==
  ASSUME Base, ClockStays, ran' \in [Threads -> 0 .. 2], CreateThread(0) PROVE Base'
<1>1. /\ hpc[0] = "step" /\ hpc' = [hpc EXCEPT ![0] = "loop"] /\ pending' = pending
      /\ UNCHANGED <<gThreadLists, gAlarms, capacity, restarts>>
      /\ UNCHANGED <<gCurrentThreads, isActive, regs, pc, context>>
  BY DEF CreateThread, Calls, alarmVars
<1>2. PICK t \in Threads, p \in Priorities, a \in Affinities :
        /\ status' = [status EXCEPT ![t] = "INITIALIZED"]
        /\ priority' = [priority EXCEPT ![t] = p]
        /\ affinity' = [affinity EXCEPT ![t] = CoreOf(a)]
  BY DEF CreateThread
<1>3. p \in 0 .. 63 /\ CoreOf(a) \in Cores
  BY SchedulerAssumption, CoreZero DEF CoreOf
<1>4. /\ status' \in [Threads -> Statuses] /\ priority' \in [Threads -> 0 .. 63]
      /\ affinity' \in [Threads -> Cores] /\ gThreadLists' \in Lists /\ restarts' \in Nat
      /\ gAlarms' \in Seq(Alarms) /\ capacity' \in Nat
      /\ \A x \in Threads : status[x] = "WAITING" \/ status'[x] # "WAITING"
  BY <1>1, <1>2, <1>3, BaseTypes DEF Statuses
<1>5. pending' = IF "none" = "zero" THEN [pending EXCEPT ![0] = TRUE] ELSE pending
  BY <1>1
<1> QED BY <1>1, <1>4, <1>5, BaseCall

\* svcStartThread, of whatever thread.
LEMMA BaseStart ==
  ASSUME Base, ClockStays, ran' \in [Threads -> 0 .. 2], StartThread(0) PROVE Base'
<1>1. /\ hpc[0] = "step" /\ hpc' = [hpc EXCEPT ![0] = "loop"] /\ pending' = pending
      /\ UNCHANGED <<priority, affinity, gAlarms, capacity>>
      /\ UNCHANGED <<gCurrentThreads, isActive, regs, pc, context>>
  BY DEF StartThread, Calls, alarmVars
<1>2. PICK t \in Threads : /\ restarts' = restarts + 1 \/ restarts' = restarts
                           /\ status' = [status EXCEPT ![t] = "READY"]
                           /\ gThreadLists' = Pushed(gThreadLists, t)
  BY DEF StartThread
<1>3. gThreadLists' \in Lists
  BY <1>2, BaseTypes, PushFacts
<1>4. /\ status' \in [Threads -> Statuses] /\ priority' \in [Threads -> 0 .. 63]
      /\ affinity' \in [Threads -> Cores] /\ restarts' \in Nat
      /\ gAlarms' \in Seq(Alarms) /\ capacity' \in Nat
      /\ \A x \in Threads : status[x] = "WAITING" \/ status'[x] # "WAITING"
  BY <1>1, <1>2, BaseTypes DEF Statuses
<1>5. pending' = IF "none" = "zero" THEN [pending EXCEPT ![0] = TRUE] ELSE pending
  BY <1>1
<1> QED BY <1>1, <1>3, <1>4, <1>5, BaseCall

\* The newest alarm gets a waiter.
LEMMA WaiterFacts ==
  ASSUME NEW alarms \in Seq(Alarms), alarms # <<>>, NEW t \in Threads, NEW new,
         new = [alarms EXCEPT ![Len(alarms)].waiting = t]
  PROVE  /\ Len(alarms) \in 1 .. Len(alarms)
         /\ new \in Seq(Alarms) /\ Len(new) = Len(alarms)
         /\ \A i \in 1 .. Len(alarms) :
              new[i].waiting = IF i = Len(alarms) THEN t ELSE alarms[i].waiting
<1> DEFINE n == Len(alarms)
<1>1. n \in Nat /\ n \in 1 .. n
  OBVIOUS
<1>2. alarms[n] \in Alarms
  BY <1>1
<1>3. /\ [alarms[n] EXCEPT !.waiting = t] \in Alarms
      /\ [alarms[n] EXCEPT !.waiting = t].waiting = t
  BY <1>2 DEF Alarms
<1>4. new = [alarms EXCEPT ![n] = [alarms[n] EXCEPT !.waiting = t]]
  OBVIOUS
<1> QED BY <1>1, <1>3, <1>4

\* Alarm::wait.
LEMMA BaseAlarmWait ==
  ASSUME Base, ClockStays, ran' \in [Threads -> 0 .. 2], AlarmWait(0) PROVE Base'
<1> DEFINE cur == gCurrentThreads[0]
<1>1. /\ hpc[0] = "alarm" /\ hpc' = [hpc EXCEPT ![0] = "loop"]
      /\ pending' = [pending EXCEPT ![0] = TRUE]
      /\ UNCHANGED <<priority, affinity, capacity, restarts>>
      /\ UNCHANGED <<gCurrentThreads, isActive, regs, pc, context>>
      /\ \/ /\ status' = [status EXCEPT ![cur] = "READY"]
            /\ gThreadLists' = Pushed(gThreadLists, cur)
            /\ UNCHANGED gAlarms
         \/ /\ gAlarms' = [gAlarms EXCEPT ![Len(gAlarms)].waiting = cur]
            /\ status' = [status EXCEPT ![cur] = "WAITING"]
            /\ UNCHANGED gThreadLists
  BY DEF AlarmWait
<1>2. cur \in Threads /\ gAlarms # <<>>
  BY <1>1, BaseTypes DEF Base, Calling, Handles
<1> HIDE DEF cur
<1>3. gThreadLists' \in Lists
  BY <1>1, <1>2, BaseTypes, PushFacts
<1>4. gAlarms' \in Seq(Alarms)
  BY <1>1, <1>2, BaseTypes, WaiterFacts
<1>5. /\ status' \in [Threads -> Statuses] /\ priority' \in [Threads -> 0 .. 63]
      /\ affinity' \in [Threads -> Cores] /\ restarts' \in Nat /\ capacity' \in Nat
  BY <1>1, BaseTypes DEF Statuses
<1>6. pending' = IF "zero" = "zero" THEN [pending EXCEPT ![0] = TRUE] ELSE pending
  BY <1>1
<1> QED BY <1>1, <1>3, <1>4, <1>5, <1>6, BaseCall

\* The waiters a growing vector of alarms queues on core d: each once if
\* it waits for one alarm.
LEMMA WokenFacts ==
  ASSUME Base, NEW d \in Cores
  PROVE  /\ Woken(d) \in Seq(Threads) /\ Len(Woken(d)) \in Nat
         /\ \A k \in 1 .. Len(Woken(d)) : Awaits(gAlarms, Woken(d)[k]) /\ affinity[Woken(d)[k]] = d
         /\ Once => \A k, l \in 1 .. Len(Woken(d)) : Woken(d)[k] = Woken(d)[l] => k = l
<1> DEFINE S == WaitersOn(d)
           m == Cardinality(S)
           n == Len(gAlarms)
           asc == Ascending(S)
<1>1. gAlarms \in Seq(Alarms) /\ n \in Nat /\ DOMAIN gAlarms = 1 .. n
  BY DEF Base, TypeOK
<1>2. S \in SUBSET (1 .. n)
  BY <1>1 DEF WaitersOn
<1>3. asc \in Sorted(S) /\ m \in Nat
  BY <1>1, <1>2, AscendingFacts
<1>4. \A k \in 1 .. m : asc[k] \in S
  BY <1>3 DEF Sorted
<1>5. \A k, l \in 1 .. m : k # l => asc[k] # asc[l]
  <2>1. \A k, l \in 1 .. m : k < l => asc[k] < asc[l]
    BY <1>3 DEF Sorted
  <2>2. \A k \in 1 .. m : asc[k] \in Nat
    BY <1>1, <1>2, <1>4
  <2> QED BY <1>3, <2>1, <2>2
<1>6. \A i \in S : /\ gAlarms[i].waiting \in Threads /\ affinity[gAlarms[i].waiting] = d
                   /\ gAlarms[i].waiting # INVALID /\ i \in 1 .. n
  <2>1. ASSUME NEW i \in S
        PROVE  /\ i \in 1 .. n /\ gAlarms[i].waiting # INVALID /\ affinity[gAlarms[i].waiting] = d
    BY <1>2 DEF WaitersOn
  <2>2. \A i \in 1 .. n : gAlarms[i].waiting \in Threads \cup {INVALID}
    <3>1. \A i \in 1 .. n : gAlarms[i] \in Alarms
      BY <1>1
    <3> QED BY <3>1 DEF Alarms
  <2> QED BY <2>1, <2>2
<1>7. Woken(d) = [k \in 1 .. m |-> gAlarms[asc[k]].waiting]
  BY DEF Woken
<1> HIDE DEF S, m, asc
<1>8. Woken(d) \in Seq(Threads) /\ Len(Woken(d)) = m
  <2>1. \A k \in 1 .. m : gAlarms[asc[k]].waiting \in Threads
    BY <1>4, <1>6
  <2> QED BY <1>3, <1>7, <2>1
<1>9. \A k \in 1 .. m : Awaits(gAlarms, Woken(d)[k]) /\ affinity[Woken(d)[k]] = d
  BY <1>4, <1>6, <1>7 DEF Awaits
<1>10. ASSUME Once PROVE \A k, l \in 1 .. m : Woken(d)[k] = Woken(d)[l] => k = l
  <2>1. ASSUME NEW k \in 1 .. m, NEW l \in 1 .. m, Woken(d)[k] = Woken(d)[l] PROVE asc[k] = asc[l]
    <3>1. gAlarms[asc[k]].waiting = gAlarms[asc[l]].waiting
      BY <1>7, <2>1
    <3>2. asc[k] \in 1 .. n /\ asc[l] \in 1 .. n /\ gAlarms[asc[k]].waiting # INVALID
      BY <1>4, <1>6
    <3> QED BY <1>10, <3>1, <3>2 DEF Once
  <2> QED BY <1>5, <2>1
<1> QED BY <1>3, <1>8, <1>9, <1>10

\* The lists and alarms a growing vector leaves.
LEMMA GrowFacts ==
  ASSUME Base, NEW n \in Nat, n = Len(gAlarms),
         gAlarms' = Append([i \in 1 .. n |-> NewAlarm], NewAlarm),
         gThreadLists' = [d \in Cores |-> gThreadLists[d] \o Woken(d)]
  PROVE  /\ gAlarms' \in Seq(Alarms) /\ gAlarms' # <<>>
         /\ \A i \in 1 .. Len(gAlarms') : gAlarms'[i].waiting = INVALID
         /\ gThreadLists' \in Lists
         /\ \A d \in Cores :
              /\ Len(gThreadLists[d]) \in Nat
              /\ \A i \in 1 .. Len(gThreadLists'[d]) :
                   \/ i \in 1 .. Len(gThreadLists[d]) /\ gThreadLists'[d][i] = gThreadLists[d][i]
                   \/ /\ i - Len(gThreadLists[d]) \in 1 .. Len(Woken(d))
                      /\ gThreadLists'[d][i] = Woken(d)[i - Len(gThreadLists[d])]
<1>1. NewAlarm \in Alarms /\ NewAlarm.waiting = INVALID
  BY DEF NewAlarm, Alarms
<1>2. /\ gAlarms' \in Seq(Alarms) /\ gAlarms' # <<>>
      /\ \A i \in 1 .. Len(gAlarms') : gAlarms'[i].waiting = INVALID
  <2> DEFINE old == [i \in 1 .. n |-> NewAlarm]
  <2>1. old \in Seq(Alarms) /\ Len(old) = n /\ \A i \in 1 .. n : old[i] = NewAlarm
    BY <1>1
  <2>2. gAlarms' = Append(old, NewAlarm)
    OBVIOUS
  <2> HIDE DEF old
  <2>3. /\ Append(old, NewAlarm) \in Seq(Alarms) /\ Len(Append(old, NewAlarm)) = n + 1
        /\ \A i \in 1 .. n + 1 : Append(old, NewAlarm)[i] = NewAlarm
    BY <1>1, <2>1
  <2> QED BY <1>1, <2>2, <2>3
<1>3. ASSUME NEW d \in Cores
      PROVE  /\ gThreadLists'[d] \in Seq(Threads)
             /\ \A i \in 1 .. Len(gThreadLists'[d]) :
                  \/ i \in 1 .. Len(gThreadLists[d]) /\ gThreadLists'[d][i] = gThreadLists[d][i]
                  \/ /\ i - Len(gThreadLists[d]) \in 1 .. Len(Woken(d))
                     /\ gThreadLists'[d][i] = Woken(d)[i - Len(gThreadLists[d])]
             /\ Len(gThreadLists[d]) \in Nat
  <2>1. gThreadLists[d] \in Seq(Threads) /\ Len(gThreadLists[d]) \in Nat
    BY BaseTypes DEF Lists
  <2>2. Woken(d) \in Seq(Threads) /\ Len(Woken(d)) \in Nat
    BY WokenFacts
  <2>3. gThreadLists'[d] = gThreadLists[d] \o Woken(d)
    OBVIOUS
  <2> DEFINE g == gThreadLists[d]
             w == Woken(d)
  <2>4. /\ g \o w \in Seq(Threads) /\ Len(g \o w) = Len(g) + Len(w)
        /\ \A i \in 1 .. Len(g) + Len(w) : (g \o w)[i] = IF i <= Len(g) THEN g[i] ELSE w[i - Len(g)]
    BY <2>1, <2>2, ConcatProperties
  <2>5. \A i \in 1 .. Len(g) + Len(w) : i \in 1 .. Len(g) \/ (~(i <= Len(g)) /\ i - Len(g) \in 1 .. Len(w))
    BY <2>1, <2>2
  <2>6. \A i \in 1 .. Len(g) : i <= Len(g)
    BY <2>1
  <2> HIDE DEF g, w
  <2>7. \A i \in 1 .. Len(g \o w) : \/ i \in 1 .. Len(g) /\ (g \o w)[i] = g[i]
                                    \/ i - Len(g) \in 1 .. Len(w) /\ (g \o w)[i] = w[i - Len(g)]
    BY <2>4, <2>5, <2>6
  <2> QED BY <2>1, <2>3, <2>4, <2>7 DEF g, w
<1>4. gThreadLists' \in Lists
  BY <1>3 DEF Lists
<1> QED BY <1>2, <1>3, <1>4

\* createAlarm appends an alarm that nobody waits for.
LEMMA AppendAlarm ==
  ASSUME NEW alarms \in Seq(Alarms), NEW new, new = Append(alarms, NewAlarm)
  PROVE  /\ new \in Seq(Alarms) /\ new # <<>>
         /\ \A i \in 1 .. Len(new) : new[i].waiting # INVALID => i \in 1 .. Len(alarms) /\ new[i] = alarms[i]
<1> DEFINE n == Len(alarms)
<1>1. NewAlarm \in Alarms /\ NewAlarm.waiting = INVALID /\ n \in Nat
  BY DEF NewAlarm, Alarms
<1>2. /\ new \in Seq(Alarms) /\ new # <<>> /\ Len(new) = n + 1
      /\ \A i \in 1 .. n : new[i] = alarms[i]
      /\ new[n + 1] = NewAlarm
  BY <1>1
<1>3. \A i \in 1 .. n + 1 : i \in 1 .. n \/ i = n + 1
  BY <1>1
<1> QED BY <1>1, <1>2, <1>3

\* svcSleepThread(n): createAlarm.
LEMMA BaseCreateAlarm ==
  ASSUME Base, ClockStays, ran' \in [Threads -> 0 .. 2], CreateAlarm(0) PROVE Base'
<1> DEFINE n == Len(gAlarms)
<1>1. /\ hpc[0] = "step" /\ hpc' = [hpc EXCEPT ![0] = "alarm"] /\ gCurrentThreads[0] # INVALID
      /\ UNCHANGED <<priority, affinity, pending, restarts>>
      /\ UNCHANGED <<gCurrentThreads, isActive, regs, pc, context>>
      /\ \/ /\ gAlarms' = Append([i \in 1 .. n |-> NewAlarm], NewAlarm)
            /\ capacity' = IF n < 2 THEN n + 1 ELSE n + n \div 2
            /\ gThreadLists' = [d \in Cores |-> gThreadLists[d] \o Woken(d)]
            /\ status' = [t \in Threads |->
                            IF \E i \in 1 .. n : gAlarms[i].waiting = t THEN "READY" ELSE status[t]]
         \/ /\ gAlarms' = Append(gAlarms, NewAlarm)
            /\ UNCHANGED <<capacity, gThreadLists, status>>
  BY DEF CreateAlarm
<1>2. n \in Nat
  BY BaseTypes
<1>3. /\ gThreadLists' \in Lists /\ gAlarms' \in Seq(Alarms) /\ gAlarms' # <<>> /\ capacity' \in Nat
      /\ status' \in [Threads -> Statuses]
      /\ \A x \in Threads : status[x] = "WAITING" \/ status'[x] # "WAITING"
  <2>1. CASE /\ gAlarms' = Append([i \in 1 .. n |-> NewAlarm], NewAlarm)
             /\ capacity' = IF n < 2 THEN n + 1 ELSE n + n \div 2
             /\ gThreadLists' = [d \in Cores |-> gThreadLists[d] \o Woken(d)]
             /\ status' = [t \in Threads |->
                             IF \E i \in 1 .. n : gAlarms[i].waiting = t THEN "READY" ELSE status[t]]
    <3>1. gThreadLists' \in Lists /\ gAlarms' \in Seq(Alarms) /\ gAlarms' # <<>>
      BY <1>2, <2>1, GrowFacts
    <3>2. capacity' \in Nat
      BY <1>2, <2>1
    <3> DEFINE Waited(t) == \E i \in 1 .. n : gAlarms[i].waiting = t
    <3>3. status' = [t \in Threads |-> IF Waited(t) THEN "READY" ELSE status[t]]
      BY <2>1
    <3> HIDE DEF Waited
    <3>4. /\ status' \in [Threads -> Statuses]
          /\ \A x \in Threads : status[x] = "WAITING" \/ status'[x] # "WAITING"
      BY <3>3, BaseTypes DEF Statuses
    <3> QED BY <3>1, <3>2, <3>4
  <2>2. CASE /\ gAlarms' = Append(gAlarms, NewAlarm)
             /\ UNCHANGED <<capacity, gThreadLists, status>>
    BY <2>2, BaseTypes, AppendAlarm
  <2> QED BY <1>1, <2>1, <2>2
<1>4. /\ priority' \in [Threads -> 0 .. 63] /\ affinity' \in [Threads -> Cores] /\ restarts' \in Nat
  BY <1>1, BaseTypes
<1>5. pending' = IF "none" = "zero" THEN [pending EXCEPT ![0] = TRUE] ELSE pending
  BY <1>1
<1> QED BY <1>1, <1>3, <1>4, <1>5, BaseCall

\* interruptHandler, svcSleepThread(0) and svcExitThread reschedule, with whatever lists.
LEMMA BaseReschedule ==
  ASSUME Base, ClockStays, ran' \in [Threads -> 0 .. 2],
         HandleInterrupt(0) \/ YieldThread(0) \/ ExitThread(0)
  PROVE  Base' /\ \E next \in Handles : Switches(0, next, status)
<1> DEFINE cur == gCurrentThreads[0]
           Result == \E next \in Handles : Switches(0, next, status)
<1>1. TypeOK /\ RegistersOfCurrent /\ 0 \in Cores
  BY CoreZero DEF Base
<1>2. ASSUME NEW st \in [Threads -> Statuses], NEW next \in Handles, Switches(0, next, st),
             \A t \in Threads : st[t] = "WAITING" => status[t] = "WAITING"
      PROVE  Switches(0, next, status)
  BY <1>2 DEF Switches
<1>3. ASSUME HandleInterrupt(0) PROVE Result
  <2>1. Reschedule(0, gThreadLists, status, FALSE, FALSE)
    BY <1>3 DEF HandleInterrupt
  <2> QED BY <1>1, <2>1, BaseTypes, RescheduleTypes
<1>4. ASSUME YieldThread(0) \/ ExitThread(0) PROVE cur \in Threads
  BY <1>4, BaseTypes DEF YieldThread, ExitThread, Calls, Handles
<1>5. ASSUME YieldThread(0) PROVE Result
  <2> DEFINE st == [status EXCEPT ![cur] = "READY"]
             lists == Pushed(gThreadLists, cur)
  <2>1. Reschedule(0, lists, st, TRUE, TRUE)
    BY <1>5 DEF YieldThread
  <2>2. st \in [Threads -> Statuses] /\ \A t \in Threads : st[t] = "WAITING" => status[t] = "WAITING"
    BY BaseTypes DEF Statuses
  <2>3. cur \in Threads
    BY <1>4, <1>5
  <2> HIDE DEF st, cur
  <2>4. lists \in Lists
    BY <2>3, BaseTypes, PushFacts
  <2> HIDE DEF lists
  <2> QED BY <1>1, <1>2, <2>1, <2>2, <2>4, RescheduleTypes
<1>6. ASSUME ExitThread(0) PROVE Result
  <2> DEFINE st == [status EXCEPT ![cur] = "UNINITIATED"]
  <2>1. Reschedule(0, gThreadLists, st, FALSE, TRUE)
    BY <1>6 DEF ExitThread
  <2>2. st \in [Threads -> Statuses] /\ \A t \in Threads : st[t] = "WAITING" => status[t] = "WAITING"
    BY BaseTypes DEF Statuses
  <2> HIDE DEF st
  <2> QED BY <1>1, <1>2, <2>1, <2>2, BaseTypes, RescheduleTypes
<1> HIDE DEF cur
<1>7. PICK next \in Handles : Switches(0, next, status)
  BY <1>3, <1>5, <1>6
<1>8. PICK v \in {"loop", "step"} : hpc' = [hpc EXCEPT ![0] = v]
  BY DEF HandleInterrupt, YieldThread, ExitThread, Calls
<1>9. /\ UNCHANGED <<priority, affinity, pending, gAlarms, capacity, restarts>> /\ hpc[0] # "entry"
  BY DEF HandleInterrupt, YieldThread, ExitThread, Calls, alarmVars
<1>10. /\ gCurrentThreads' = [gCurrentThreads EXCEPT ![0] = next]
       /\ isActive' = [isActive EXCEPT ![0] = next # INVALID]
       /\ gThreadLists' \in Lists /\ status' \in [Threads -> Statuses]
       /\ next # INVALID => next \in Threads /\ status'[next] = "RUNNING"
       /\ regs' \in [Cores -> Handles] /\ pc' \in [Cores -> Pcs] /\ context' \in [Threads -> Contexts]
       /\ RegistersOfCurrent'
  BY <1>7 DEF Switches
<1>11. /\ gCurrentThreads' \in [Cores -> Handles] /\ hpc' \in [Cores -> CorePcs]
       /\ isActive' \in [Cores -> BOOLEAN]
       /\ gCurrentThreads'[0] = next /\ hpc'[0] = v
       /\ \A c \in Cores \ {0} : /\ hpc'[c] = hpc[c] /\ gCurrentThreads'[c] = gCurrentThreads[c]
                                 /\ isActive'[c] = isActive[c]
  BY <1>1, <1>8, <1>10, BaseTypes DEF CorePcs, TypeOK
<1>12. TypeOK'
  BY <1>1, <1>9, <1>10, <1>11 DEF TypeOK, Lists, Handles, Contexts, ClockStays, Clocks
<1>13. Others' /\ PrioritiesInv' /\ Fresh' /\ Calling' /\ NotBlocked'
  BY <1>9, <1>10, <1>11 DEF Base, Others, PrioritiesInv, Fresh, Calling, NotBlocked, ClockStays
<1> QED BY <1>7, <1>10, <1>12, <1>13 DEF Base

\* The clock thread, which touches no core's registers.
LEMMA BaseClock ==
  ASSUME Base, ClockStep
  PROVE  Base'
<1> USE DEF clockFrame, coreVars
<1>1. /\ UNCHANGED <<priority, affinity, hpc, capacity, restarts>>
      /\ UNCHANGED <<gCurrentThreads, isActive, regs, pc, context>>
  BY DEF ClockStep, ClockTrigger, ClockPush, ClockSetReady, ClockInterrupt
<1>2. ran' \in [Threads -> 0 .. 2]
  <2>1. ran \in [Threads -> 0 .. 2]
    BY DEF Base, TypeOK
  <2>2. ran' = [t \in Threads |-> IF status'[t] # "WAITING" THEN 0 ELSE ran[t]]
    BY DEF ClockStep
  <2>3. 0 \in 0 .. 2
    OBVIOUS
  <2> QED BY <2>1, <2>2, <2>3
<1>3. pending' \in [Cores -> BOOLEAN] /\ (pending[0] => pending'[0])
      /\ \A c \in Cores \ {0} : pending'[c] = pending[c] /\ hpc'[c] \in {hpc[c], "wait"}
  <2>1. pending' = pending \/ pending' = [pending EXCEPT ![0] = TRUE]
    BY DEF ClockStep, ClockTrigger, ClockPush, ClockSetReady, ClockInterrupt
  <2>2. pending \in [Cores -> BOOLEAN] /\ 0 \in Cores /\ hpc' = hpc
    BY <1>1, BaseTypes
  <2> QED BY <2>1, <2>2
<1>4. clock.pc \in {"linking", "status"} => clock.thread \in Threads
  BY BaseTypes DEF Base, Calling, Clocks, Handles
<1>5. /\ status' \in [Threads -> Statuses]
      /\ \A t \in Threads : status'[t] # "WAITING" \/ status[t] = "WAITING"
  <2>1. status' = status \/ \E t \in Threads : status' = [status EXCEPT ![t] = "READY"]
    BY <1>4 DEF ClockStep, ClockTrigger, ClockPush, ClockSetReady, ClockInterrupt
  <2> QED BY <2>1, BaseTypes DEF Statuses
<1>6. gThreadLists' \in Lists
  <2>1. gThreadLists' = gThreadLists \/ \E t \in Threads : gThreadLists' = Pushed(gThreadLists, t)
    BY <1>4 DEF ClockStep, ClockTrigger, ClockPush, ClockSetReady, ClockInterrupt
  <2> QED BY <2>1, BaseTypes, PushFacts
<1>7. /\ gAlarms' \in Seq(Alarms) /\ Len(gAlarms') = Len(gAlarms)
      /\ gAlarms # <<>> \/ clock.pc # "idle"
      /\ clock' \in Clocks /\ (clock'.pc \in {"linking", "status"} => clock'.thread # INVALID)
  <2>1. CASE ClockTrigger
    <3>1. PICK i \in DOMAIN gAlarms :
            /\ gAlarms' = [gAlarms EXCEPT ![i] = [hasTriggered |-> TRUE, waiting |-> INVALID]]
            /\ clock' = [pc |-> IF gAlarms[i].waiting = INVALID THEN "interrupt" ELSE "linking",
                         thread |-> gAlarms[i].waiting, alarm |-> i, raced |-> FALSE]
      BY <2>1 DEF ClockTrigger
    <3>2. gAlarms \in Seq(Alarms) /\ i \in 1 .. Len(gAlarms) /\ i \in Nat
      BY BaseTypes
    <3>3. gAlarms[i].waiting \in Handles
      <4>1. gAlarms[i] \in Alarms
        BY <3>2
      <4> QED BY <4>1 DEF Alarms, Handles
    <3>4. [hasTriggered |-> TRUE, waiting |-> INVALID] \in Alarms
      BY DEF Alarms
    <3>5. gAlarms' \in Seq(Alarms) /\ Len(gAlarms') = Len(gAlarms) /\ gAlarms # <<>>
      BY <3>1, <3>2, <3>4
    <3> DEFINE w == gAlarms[i].waiting
    <3>6. /\ clock' = [pc |-> IF w = INVALID THEN "interrupt" ELSE "linking",
                       thread |-> w, alarm |-> i, raced |-> FALSE]
          /\ w \in Handles
      BY <3>1, <3>3
    <3> HIDE DEF w
    <3>7. clock' \in Clocks /\ (clock'.pc \in {"linking", "status"} => clock'.thread # INVALID)
      BY <3>2, <3>6 DEF Clocks, ClockPcs
    <3> QED BY <3>5, <3>7
  <2>2. CASE ClockPush
    <3>1. /\ clock' = [clock EXCEPT !.pc = "status", !.raced = FALSE] /\ gAlarms' = gAlarms
          /\ clock.pc = "linking"
      BY <2>2 DEF ClockPush
    <3>2. clock' \in Clocks /\ clock'.thread = clock.thread /\ clock.thread # INVALID
      BY <1>4, <3>1, BaseTypes DEF Clocks, ClockPcs
    <3> QED BY <3>1, <3>2, BaseTypes
  <2>3. CASE ClockSetReady
    <3>1. clock' = [clock EXCEPT !.pc = "interrupt"] /\ gAlarms' = gAlarms /\ clock.pc = "status"
      BY <2>3 DEF ClockSetReady
    <3>2. clock' \in Clocks /\ clock'.pc = "interrupt"
      BY <3>1, BaseTypes DEF Clocks, ClockPcs
    <3> QED BY <3>1, <3>2, BaseTypes
  <2>4. CASE ClockInterrupt
    <3>1. clock' = ClockIdle /\ gAlarms' = gAlarms /\ clock.pc = "interrupt"
      BY <2>4 DEF ClockInterrupt
    <3>2. clock' \in Clocks /\ clock'.pc = "idle"
      BY <3>1 DEF Clocks, ClockPcs, ClockIdle, Handles
    <3> QED BY <3>1, <3>2, BaseTypes
  <2> QED BY <2>1, <2>2, <2>3, <2>4 DEF ClockStep
<1>8. Fresh' /\ Calling'
  <2>1. gAlarms # <<>> => gAlarms' # <<>>
    BY <1>7, BaseTypes
  <2> QED BY <1>1, <1>7, <2>1 DEF Base, Fresh, Calling
<1>9. NotBlocked'
  <2>1. gCurrentThreads[0] # INVALID => gCurrentThreads[0] \in Threads
    BY BaseTypes DEF Handles
  <2> QED BY <1>1, <1>3, <1>5, <2>1 DEF Base, NotBlocked
<1>10. /\ priority' \in [Threads -> 0 .. 63] /\ affinity' \in [Threads -> Cores]
       /\ hpc' \in [Cores -> CorePcs] /\ capacity' \in Nat /\ restarts' \in Nat
  BY <1>1, BaseTypes
<1> QED BY <1>1, <1>2, <1>3, <1>5, <1>6, <1>7, <1>8, <1>9, <1>10, BaseMove

\* Base at power on, and in the steps of every core and of the clock thread.
LEMMA InitBase == ASSUME Init PROVE Base
<1> USE SchedulerAssumption, CoreZero
<1>1. TypeOK
  <2>1. /\ priority \in [Threads -> Nat] /\ affinity \in [Threads -> Cores]
        /\ status \in [Threads -> Statuses] /\ isActive \in [Cores -> BOOLEAN]
        /\ pending \in [Cores -> BOOLEAN] /\ hpc \in [Cores -> CorePcs]
        /\ gCurrentThreads \in [Cores -> Threads \cup {INVALID}]
        /\ regs \in [Cores -> Threads \cup {INVALID}]
        /\ restarts \in Nat /\ ran \in [Threads -> 0 .. 2]
    BY DEF Init, Statuses, CorePcs
  <2>2. \A t \in Threads \cup {INVALID} : Code(t) \in Pcs
    BY DEF Code, Pcs
  <2>3. pc \in [Cores -> Pcs]
    BY <2>2 DEF Init
  <2>4. context \in [Threads -> [regs : Threads \cup {INVALID}, pc : Pcs]]
    BY <2>2 DEF Init
  <2>5. clock \in [pc : ClockPcs, thread : Threads \cup {INVALID}, alarm : Nat, raced : BOOLEAN]
    BY DEF Init, ClockIdle, ClockPcs
  <2>6. gAlarms \in Seq(Alarms) /\ gThreadLists \in [Cores -> Seq(Threads)] /\ capacity \in Nat
    BY DEF Init
  <2> QED BY <2>1, <2>3, <2>4, <2>5, <2>6 DEF TypeOK
<1>2. PrioritiesInv /\ RegistersOfCurrent /\ Others
  BY DEF Init, PrioritiesInv, RegistersOfCurrent, Others
<1>3. Fresh /\ NotBlocked /\ Calling
  BY DEF Init, Fresh, NotBlocked, Calling, ClockIdle
<1> QED BY <1>1, <1>2, <1>3 DEF Base

\* A step of a core preserves Base.
LEMMA BaseCore == ASSUME Base, NEW c \in Cores, CoreStep(c) PROVE Base'
<1>1. CoreAction(c) /\ ClockStays /\ ran' \in [Threads -> 0 .. 2]
  BY CoreStepClock DEF Base
<1>2. CASE c # 0
  BY <1>1, <1>2, OnlyCoreZero, BaseEntry
<1>3. CASE c = 0
  <2>1. CoreAction(0)
    BY <1>1, <1>3
  <2>2. \/ Entry(0) \/ (TakeInterrupt(0) \/ Loop(0) \/ Ordinary(0))
        \/ (HandleInterrupt(0) \/ YieldThread(0) \/ ExitThread(0))
        \/ CreateThread(0) \/ StartThread(0) \/ CreateAlarm(0) \/ AlarmWait(0) \/ WaitSynchronization(0)
    BY <2>1 DEF CoreAction
  <2>3. Entry(0) => Base'
    BY <1>1, CoreZero, BaseEntry
  <2> QED BY <1>1, <2>2, <2>3, BaseControl, BaseReschedule, BaseCreate, BaseStart,
             BaseCreateAlarm, BaseAlarmWait, BaseWait
<1> QED BY <1>2, <1>3

\* Every step preserves Base.
LEMMA StepBase == ASSUME Base, [Next]_vars PROVE Base'
<1>1. ASSUME UNCHANGED vars PROVE Base'
  <2>1. UNCHANGED <<status, priority, affinity, gThreadLists, gCurrentThreads, isActive, hpc, regs,
                    pc, context, pending, gAlarms, capacity, clock, restarts, ran>>
    BY <1>1 DEF vars, threadVars, coreVars, alarmVars
  <2>2. /\ TypeOK' = TypeOK /\ PrioritiesInv' = PrioritiesInv
        /\ RegistersOfCurrent' = RegistersOfCurrent /\ Others' = Others
    BY <2>1 DEF TypeOK, PrioritiesInv, RegistersOfCurrent, Others
  <2>3. Fresh' /\ Calling' /\ NotBlocked'
    BY <2>1 DEF Base, Fresh, Calling, NotBlocked
  <2> QED BY <2>2, <2>3 DEF Base
<1> QED BY <1>1, BaseCore, BaseClock DEF Next

\* Base holds in every reachable state.
LEMMA BaseInvariant == Spec => []Base
BY InitBase, StepBase, PTL DEF Spec

----------------------------------------------------------------------------
(* What a blocked thread still executes.                                   *)

\* No step executes a second instruction of a blocked thread.
LEMMA StepRan == ASSUME Base, Base', RanOnce, [Next]_vars PROVE RanOnce'
<1>1. ASSUME NEW c \in Cores, CoreStep(c), NEW t \in Threads, ran'[t] # 0
      PROVE  /\ ran'[t] = 1 /\ status'[t] = "WAITING"
             /\ regs'[0] = t => /\ gCurrentThreads'[0] = INVALID
                                /\ hpc'[0] \in {"loop", "wait", "rescheduleIdle"}
  <2>1. CoreAction(c) /\ ClockStays /\ ran' \in [Threads -> 0 .. 2]
    BY <1>1, CoreStepClock DEF Base
  <2>2. /\ status'[t] = "WAITING"
        /\ ran'[t] = IF RunsBlocked(c, t) /\ ran[t] < 2 THEN ran[t] + 1 ELSE ran[t]
    BY <1>1 DEF CoreStep
  <2>3. ran[t] # 0 => /\ ran[t] = 1 /\ status[t] = "WAITING"
                      /\ regs[0] = t => /\ gCurrentThreads[0] = INVALID
                                        /\ hpc[0] \in {"loop", "wait", "rescheduleIdle"}
    BY DEF RanOnce
  <2>4. RunsBlocked(c, t) => c = 0 /\ hpc[0] = "step" /\ regs[0] = t /\ status[t] = "WAITING"
    <3>1. hpc[c] = "step" => c = 0
      BY DEF Base, Others
    <3> QED BY <3>1 DEF RunsBlocked
  <2>5. RunsBlocked(c, t) => ran[t] = 0 /\ gCurrentThreads[0] = INVALID
    <3>1. gCurrentThreads[0] # INVALID => regs[0] = gCurrentThreads[0]
      BY CoreZero DEF Base, RegistersOfCurrent
    <3> QED BY <2>3, <2>4, <3>1 DEF Base, NotBlocked
  <2>6. ran'[t] = 1 /\ (ran[t] # 0 \/ RunsBlocked(c, t))
    <3>1. ran[t] \in 0 .. 2
      BY DEF Base, TypeOK
    <3>2. CASE RunsBlocked(c, t)
      BY <2>2, <2>5, <3>2
    <3>3. CASE ~RunsBlocked(c, t)
      BY <1>1, <2>2, <2>3, <3>3
    <3> QED BY <3>2, <3>3
  <2>7. ASSUME regs'[0] = t
        PROVE  gCurrentThreads'[0] = INVALID /\ hpc'[0] \in {"loop", "wait", "rescheduleIdle"}
    <3>0. hpc \in [Cores -> CorePcs] /\ 0 \in Cores
      BY BaseTypes
    <3>2. CASE c # 0
      <4>1. Entry(c)
        BY <2>1, <3>2, OnlyCoreZero
      <4>2. /\ hpc'[0] = hpc[0] /\ gCurrentThreads' = gCurrentThreads /\ regs' = regs
            /\ ~RunsBlocked(c, t)
        BY <2>4, <3>0, <3>2, <4>1 DEF Entry
      <4> QED BY <2>3, <2>6, <2>7, <4>2
    <3>3. CASE c = 0 /\ (HandleInterrupt(0) \/ YieldThread(0) \/ ExitThread(0))
      <4>1. PICK next \in Handles : Switches(0, next, status)
        BY <2>1, <3>3, BaseReschedule
      <4>2. /\ gCurrentThreads'[0] = next /\ (next # INVALID => status'[next] = "RUNNING" /\ regs'[0] = next)
            /\ next = INVALID => regs'[0] = regs[0]
        BY <4>1, BaseTypes DEF Switches
      <4>3. next = INVALID
        BY <2>2, <2>7, <4>2
      <4>4. regs[0] = t /\ gCurrentThreads'[0] = INVALID
        BY <2>7, <4>2, <4>3
      <4>5. YieldThread(0) \/ ExitThread(0) => hpc[0] = "step" /\ gCurrentThreads[0] # INVALID
        BY DEF YieldThread, ExitThread, Calls
      <4>6. HandleInterrupt(0) /\ hpc[0] = "rescheduleIdle"
        <5>1. RunsBlocked(c, t) => ~HandleInterrupt(0) /\ ~YieldThread(0) /\ ~ExitThread(0)
          BY <2>4, <2>5, <4>5 DEF HandleInterrupt
        <5>2. ran[t] # 0 => gCurrentThreads[0] = INVALID /\ hpc[0] \in {"loop", "wait", "rescheduleIdle"}
          BY <2>3, <4>4
        <5> QED BY <2>6, <3>3, <4>5, <5>1, <5>2 DEF HandleInterrupt
      <4>7. hpc'[0] = "loop"
        BY <3>0, <4>6 DEF HandleInterrupt
      <4> QED BY <4>4, <4>7
    <3>4. CASE c = 0 /\ ~(HandleInterrupt(0) \/ YieldThread(0) \/ ExitThread(0))
      <4>1. \/ Entry(0) \/ TakeInterrupt(0) \/ Loop(0) \/ Ordinary(0) \/ CreateThread(0) \/ StartThread(0)
            \/ CreateAlarm(0) \/ AlarmWait(0) \/ WaitSynchronization(0)
        BY <2>1, <3>4 DEF CoreAction
      <4>2. gCurrentThreads' = gCurrentThreads /\ regs' = regs
        BY <4>1 DEF Entry, TakeInterrupt, Loop, Ordinary, CreateThread, StartThread, CreateAlarm,
                    AlarmWait, WaitSynchronization
      <4>3. /\ gCurrentThreads[0] = INVALID
            /\ hpc[0] = "step" \/ hpc[0] \in {"loop", "wait", "rescheduleIdle"}
        BY <2>3, <2>4, <2>5, <2>6, <2>7, <4>2
      <4>4. ~isActive[0]
        BY <4>3, CoreZero DEF Base, RegistersOfCurrent
      <4>5. TakeInterrupt(0) \/ Loop(0) \/ Ordinary(0) \/ CreateThread(0) \/ StartThread(0)
        BY <4>1, <4>3 DEF Entry, CreateAlarm, AlarmWait, WaitSynchronization, Calls
      <4>6. hpc'[0] \in {"loop", "wait", "rescheduleIdle"}
        BY <3>0, <4>4, <4>5 DEF TakeInterrupt, Loop, Ordinary, CreateThread, StartThread, Calls
      <4> QED BY <4>2, <4>3, <4>6
    <3> QED BY <3>2, <3>3, <3>4
  <2> QED BY <2>2, <2>6, <2>7
<1>2. ASSUME ClockStep PROVE RanOnce'
  <2>1. UNCHANGED <<gCurrentThreads, hpc, regs>>
    BY <1>2 DEF ClockStep, ClockTrigger, ClockPush, ClockSetReady, ClockInterrupt, clockFrame, coreVars
  <2>2. ran' = [t \in Threads |-> IF status'[t] # "WAITING" THEN 0 ELSE ran[t]]
    BY <1>2 DEF ClockStep
  <2> QED BY <2>1, <2>2 DEF RanOnce
<1>3. ASSUME UNCHANGED vars PROVE RanOnce'
  BY <1>3 DEF vars, threadVars, coreVars, RanOnce
<1>4. ASSUME NEW c \in Cores, CoreStep(c) PROVE RanOnce'
  BY <1>1, <1>4 DEF RanOnce
<1> QED BY <1>2, <1>3, <1>4 DEF Next

----------------------------------------------------------------------------
(* Where the threads are, as long as none is started twice.                *)

\* Where nothing moves, everything is in one place still.
LEMMA PlacesFrame ==
  ASSUME Once, UNCHANGED <<gThreadLists, gAlarms>>,
         clock'.pc = clock.pc, clock'.thread = clock.thread
  PROVE  Once' /\ \A t : Busy(t)' <=> Busy(t)
<1>1. \A t : /\ Listed(gThreadLists', t) <=> Listed(gThreadLists, t)
             /\ Awaits(gAlarms', t) <=> Awaits(gAlarms, t)
             /\ Links(clock', t) <=> Links(clock, t)
  BY DEF Links
<1> QED BY <1>1 DEF Once, Busy

\* A reschedule of core 0 inside a step that leaves alarms, priorities and pending
\* interrupts alone, with the lists and statuses its caller left.
LEMMA RescheduleStep ==
  ASSUME IInv, ClockStays, NEW lists \in Lists, ListedOnce(lists),
         NEW st \in [Threads -> Statuses], NEW y \in BOOLEAN, NEW s \in BOOLEAN,
         Reschedule(0, lists, st, y, s), gAlarms' = gAlarms,
         \A t \in Threads : Listed(lists, t) => ~Awaits(gAlarms, t) /\ ~Links(clock, t),
         \A t \in Threads : st[t] = "RUNNING" =>
            /\ t = gCurrentThreads[0] /\ ~Listed(lists, t)
            /\ ~Awaits(gAlarms, t) /\ ~Links(clock, t),
         \A t \in Threads : st[t] \in NotStarted =>
            ~Listed(lists, t) /\ ~Awaits(gAlarms, t) /\ ~Links(clock, t)
  PROVE  Tidy'
<1> DEFINE cur == gCurrentThreads[0]
<1>1. 0 \in Cores /\ INVALID \notin Threads /\ TypeOK
  BY CoreZero, SchedulerAssumption DEF IInv, Base
<1>2. PICK next \in Handles : Picks(0, next, lists, st)
  BY <1>1, RescheduleFacts
<1>3. /\ gCurrentThreads' = [gCurrentThreads EXCEPT ![0] = next]
      /\ ListedOnce(gThreadLists')
      /\ next # INVALID => \/ next = cur /\ st[cur] = "RUNNING"
                           \/ next # cur /\ Listed(lists, next)
      /\ \A t \in Threads : Listed(gThreadLists', t) <=>
                              t # next /\ (Listed(lists, t) \/ (t = cur /\ st[t] = "RUNNING"))
      /\ status' = [t \in Threads |-> IF t = next THEN "RUNNING"
                                      ELSE IF st[t] = "RUNNING" THEN "READY" ELSE st[t]]
  BY <1>2 DEF Picks
<1>4. \A t : Links(clock', t) <=> Links(clock, t)
  BY DEF ClockStays, Links
<1>5. gCurrentThreads'[0] = next
  BY <1>1, <1>3 DEF TypeOK
<1>6. \A t \in Threads : Listed(gThreadLists', t) => ~Awaits(gAlarms, t) /\ ~Links(clock, t)
  BY <1>3
<1>7. next # INVALID => /\ next \in Threads /\ status'[next] = "RUNNING"
                        /\ ~Listed(gThreadLists', next)
                        /\ ~Awaits(gAlarms, next) /\ ~Links(clock, next)
  BY <1>3 DEF Handles
<1>8. Once'
  BY <1>3, <1>4, <1>6 DEF IInv, Tidy, Once
<1>9. Places'
  <2>1. ASSUME NEW t \in Threads, status'[t] = "RUNNING" PROVE t = next
    BY <1>3, <2>1
  <2>2. ASSUME NEW t \in Threads, status'[t] \in NotStarted
        PROVE  /\ t # next /\ ~Listed(gThreadLists', t)
               /\ ~Awaits(gAlarms, t) /\ ~Links(clock, t)
    <3>1. st[t] \in NotStarted /\ t # next
      BY <1>3, <2>2 DEF NotStarted
    <3>2. st[t] # "RUNNING"
      BY <3>1 DEF NotStarted
    <3> QED BY <1>3, <3>1, <3>2
  <2> QED BY <1>1, <1>4, <1>5, <1>7, <2>1, <2>2 DEF Places, Busy
<1>10. Executes'
  BY <1>4, <1>5, <1>7 DEF Executes, Busy
<1> QED BY <1>8, <1>9, <1>10 DEF Tidy

\* What the invariant says of the thread that executes on core 0.
LEMMA Executing ==
  ASSUME IInv, hpc[0] \in {"step", "alarm"}, gCurrentThreads[0] # INVALID
  PROVE  /\ gCurrentThreads[0] \in Threads
         /\ status[gCurrentThreads[0]] \in {"READY", "RUNNING"}
         /\ ~Listed(gThreadLists, gCurrentThreads[0])
         /\ ~Awaits(gAlarms, gCurrentThreads[0]) /\ ~Links(clock, gCurrentThreads[0])
BY CoreZero DEF IInv, Base, Tidy, TypeOK, Executes, Busy

\* interruptHandler reschedules with the lists and statuses as they are.
LEMMA StepHandleInterrupt == ASSUME IInv, ClockStays, HandleInterrupt(0) PROVE Tidy'
<1>1. gThreadLists \in Lists /\ ListedOnce(gThreadLists) /\ status \in [Threads -> Statuses]
  BY BaseTypes DEF IInv, Tidy, Once
<1>2. Reschedule(0, gThreadLists, status, FALSE, FALSE) /\ gAlarms' = gAlarms
  BY DEF HandleInterrupt, alarmVars
<1>3. \A t \in Threads :
        /\ Listed(gThreadLists, t) => ~Awaits(gAlarms, t) /\ ~Links(clock, t)
        /\ status[t] = "RUNNING" => /\ t = gCurrentThreads[0] /\ ~Listed(gThreadLists, t)
                                    /\ ~Awaits(gAlarms, t) /\ ~Links(clock, t)
        /\ status[t] \in NotStarted => /\ ~Listed(gThreadLists, t)
                                       /\ ~Awaits(gAlarms, t) /\ ~Links(clock, t)
  BY DEF IInv, Tidy, Once, Places, Busy
<1> QED BY <1>1, <1>2, <1>3, RescheduleStep

\* svcSleepThread(0) queues the caller and reschedules.
LEMMA StepYield == ASSUME IInv, ClockStays, YieldThread(0) PROVE Tidy'
<1> DEFINE cur == gCurrentThreads[0]
           lists == Pushed(gThreadLists, cur)
           st == [status EXCEPT ![cur] = "READY"]
<1>1. /\ hpc[0] = "step" /\ cur # INVALID /\ gAlarms' = gAlarms
      /\ Reschedule(0, lists, st, TRUE, TRUE)
  BY DEF YieldThread, Calls, alarmVars
<1>2. /\ cur \in Threads /\ ~Listed(gThreadLists, cur)
      /\ ~Awaits(gAlarms, cur) /\ ~Links(clock, cur)
  BY <1>1, Executing
<1>3. /\ gThreadLists \in Lists /\ ListedOnce(gThreadLists)
      /\ status \in [Threads -> Statuses] /\ affinity \in [Threads -> Cores]
  BY BaseTypes DEF IInv, Tidy, Once
<1>4. /\ lists \in Lists /\ ListedOnce(lists)
      /\ \A x : Listed(lists, x) <=> Listed(gThreadLists, x) \/ x = cur
  BY <1>2, <1>3, PushFacts
<1>5. st \in [Threads -> Statuses] /\ \A t \in Threads : st[t] = IF t = cur THEN "READY" ELSE status[t]
  BY <1>2, <1>3 DEF Statuses
<1>6. \A t \in Threads :
        /\ Listed(gThreadLists, t) => ~Awaits(gAlarms, t) /\ ~Links(clock, t)
        /\ status[t] = "RUNNING" => t = cur
        /\ status[t] \in NotStarted => /\ ~Listed(gThreadLists, t)
                                       /\ ~Awaits(gAlarms, t) /\ ~Links(clock, t)
  BY DEF IInv, Tidy, Once, Places, Busy
<1> HIDE DEF lists, st
<1>7. \A t \in Threads :
        /\ Listed(lists, t) => ~Awaits(gAlarms, t) /\ ~Links(clock, t)
        /\ st[t] # "RUNNING"
        /\ st[t] \in NotStarted => ~Listed(lists, t) /\ ~Awaits(gAlarms, t) /\ ~Links(clock, t)
  BY <1>2, <1>4, <1>5, <1>6 DEF NotStarted
<1> HIDE DEF cur
<1>8. /\ \A t \in Threads : Listed(lists, t) => ~Awaits(gAlarms, t) /\ ~Links(clock, t)
      /\ \A t \in Threads : st[t] = "RUNNING" =>
            /\ t = cur /\ ~Listed(lists, t) /\ ~Awaits(gAlarms, t) /\ ~Links(clock, t)
      /\ \A t \in Threads : st[t] \in NotStarted =>
            ~Listed(lists, t) /\ ~Awaits(gAlarms, t) /\ ~Links(clock, t)
  BY <1>7
<1> QED BY ONLY <1>1, <1>4, <1>5, <1>8, IInv, ClockStays, RescheduleStep DEF cur

\* svcExitThread gives up the core for good.
LEMMA StepExit == ASSUME IInv, ClockStays, ExitThread(0) PROVE Tidy'
<1> DEFINE cur == gCurrentThreads[0]
           st == [status EXCEPT ![cur] = "UNINITIATED"]
<1>1. /\ hpc[0] = "step" /\ cur # INVALID /\ gAlarms' = gAlarms
      /\ Reschedule(0, gThreadLists, st, FALSE, TRUE)
  BY DEF ExitThread, Calls, alarmVars
<1>2. /\ cur \in Threads /\ ~Listed(gThreadLists, cur)
      /\ ~Awaits(gAlarms, cur) /\ ~Links(clock, cur)
  BY <1>1, Executing
<1>3. gThreadLists \in Lists /\ ListedOnce(gThreadLists) /\ status \in [Threads -> Statuses]
  BY BaseTypes DEF IInv, Tidy, Once
<1>4. st \in [Threads -> Statuses] /\ \A t \in Threads : st[t] = IF t = cur THEN "UNINITIATED" ELSE status[t]
  BY <1>2, <1>3 DEF Statuses
<1>5. \A t \in Threads :
        /\ Listed(gThreadLists, t) => ~Awaits(gAlarms, t) /\ ~Links(clock, t)
        /\ status[t] = "RUNNING" => t = cur
        /\ status[t] \in NotStarted => /\ ~Listed(gThreadLists, t)
                                       /\ ~Awaits(gAlarms, t) /\ ~Links(clock, t)
  BY DEF IInv, Tidy, Once, Places, Busy
<1> HIDE DEF st
<1>6. \A t \in Threads :
        /\ st[t] # "RUNNING"
        /\ st[t] \in NotStarted => /\ ~Listed(gThreadLists, t)
                                   /\ ~Awaits(gAlarms, t) /\ ~Links(clock, t)
  BY <1>2, <1>4, <1>5
<1> QED BY <1>1, <1>3, <1>4, <1>5, <1>6, RescheduleStep, ZenonT(40)

\* The steps of core 0 that change nothing but its control point and its interrupt.
LEMMA StepControl ==
  ASSUME IInv, Base', ClockStays, TakeInterrupt(0) \/ Loop(0) \/ Ordinary(0)
  PROVE  Tidy'
<1>1. UNCHANGED <<status, gThreadLists, gCurrentThreads, gAlarms, isActive>>
  BY DEF TakeInterrupt, Loop, Ordinary, threadVars, alarmVars
<1>2. Once' /\ \A t : Busy(t)' <=> Busy(t)
  BY <1>1, PlacesFrame DEF IInv, Tidy, ClockStays
<1>3. hpc'[0] \in {"step", "alarm"} \/ (hpc'[0] = "loop" /\ ~pending'[0]) =>
        hpc[0] \in {"step", "alarm"} \/ (hpc[0] = "loop" /\ ~pending[0])
  BY BaseTypes DEF IInv, TakeInterrupt, Loop, Ordinary
<1>4. Places' /\ Executes'
  BY <1>1, <1>2, <1>3 DEF IInv, Tidy, Places, Executes
<1> QED BY <1>2, <1>4 DEF Tidy

\* cpuEntry queues the main thread on core 0; the other cores only begin to wait.
LEMMA StepEntry == ASSUME IInv, Base', ClockStays, NEW c \in Cores, Entry(c) PROVE Tidy'
<1>1. /\ hpc[c] = "entry" /\ hpc' = [hpc EXCEPT ![c] = "wait"]
      /\ UNCHANGED <<gCurrentThreads, gAlarms>>
      /\ c = 0 => /\ status' = [status EXCEPT ![Main] = "READY"]
                  /\ gThreadLists' = [gThreadLists EXCEPT ![0] = Append(@, Main)]
      /\ c # 0 => UNCHANGED <<status, gThreadLists, pending>>
  BY DEF Entry, alarmVars
<1>2. hpc'[c] = "wait" /\ \A d \in Cores \ {c} : hpc'[d] = hpc[d]
  BY <1>1, BaseTypes DEF IInv
<1>3. CASE c # 0
  <2>1. Once' /\ \A t : Busy(t)' <=> Busy(t)
    BY <1>1, <1>3, PlacesFrame DEF IInv, Tidy, ClockStays
  <2>2. hpc'[0] = hpc[0] /\ status' = status /\ pending' = pending
    BY <1>1, <1>2, <1>3, CoreZero
  <2>3. Places' /\ Executes'
    BY <1>1, <2>1, <2>2 DEF IInv, Tidy, Places, Executes
  <2> QED BY <2>1, <2>3 DEF Tidy
<1>4. CASE c = 0
  <2>1. /\ status[Main] = "NONE" /\ affinity[Main] = 0 /\ clock.pc = "idle" /\ gAlarms = <<>>
        /\ ~Busy(Main)
    BY <1>1, <1>4, SchedulerAssumption DEF IInv, Base, Tidy, Fresh, Places, NotStarted
  <2>2. gThreadLists' = Pushed(gThreadLists, Main)
    BY <1>1, <1>4, <2>1 DEF Pushed
  <2>3. /\ ListedOnce(gThreadLists')
        /\ \A x : Listed(gThreadLists', x) <=> Listed(gThreadLists, x) \/ x = Main
    <3>1. ListedOnce(gThreadLists) /\ ~Listed(gThreadLists, Main)
      BY <2>1 DEF IInv, Tidy, Once, Busy
    <3>2. affinity \in [Threads -> Cores] /\ gThreadLists \in Lists /\ Main \in Threads
      BY BaseTypes DEF IInv
    <3> QED BY <2>2, <3>1, <3>2, PushFacts
  <2>4. \A t : ~Links(clock, t) /\ ~Links(clock', t) /\ ~Awaits(gAlarms, t) /\ ~Awaits(gAlarms', t)
    BY <1>1, <2>1 DEF Links, Awaits, ClockStays
  <2>5. Once'
    BY <1>1, <2>3, <2>4 DEF IInv, Tidy, Once
  <2>6. \A t \in Threads : status'[t] = IF t = Main THEN "READY" ELSE status[t]
    BY <1>1, <1>4, BaseTypes DEF IInv
  <2>7. Places'
    BY <1>1, <2>3, <2>4, <2>6 DEF IInv, Tidy, Places, Busy, NotStarted
  <2>8. Executes'
    BY <1>2, <1>4 DEF Executes
  <2> QED BY <2>5, <2>7, <2>8 DEF Tidy
<1> QED BY <1>3, <1>4

\* What is left to show of a system call of core 0.
LEMMA CallStep ==
  ASSUME IInv, Base', ClockStays, hpc[0] \in {"step", "alarm"},
         NEW v \in {"loop", "alarm"}, hpc' = [hpc EXCEPT ![0] = v],
         NEW i \in {"none", "zero"},
         pending' = IF i = "zero" THEN [pending EXCEPT ![0] = TRUE] ELSE pending,
         UNCHANGED gCurrentThreads, Once', Places',
         gCurrentThreads[0] # INVALID /\ (v = "alarm" \/ i = "none") =>
            status'[gCurrentThreads[0]] \in {"READY", "RUNNING"} /\ ~Busy(gCurrentThreads[0])'
  PROVE  Tidy'
<1>1. hpc'[0] = v /\ (i = "zero" => pending'[0])
  BY BaseTypes DEF IInv
<1>2. Executes'
  BY <1>1 DEF Executes
<1> QED BY <1>2 DEF Tidy

\* Thread::sync: the caller waits, and core 0 will reschedule.
LEMMA StepWait == ASSUME IInv, Base', ClockStays, WaitSynchronization(0) PROVE Tidy'
<1> DEFINE cur == gCurrentThreads[0]
<1>1. /\ hpc[0] = "step" /\ cur # INVALID /\ hpc' = [hpc EXCEPT ![0] = "loop"]
      /\ status' = [status EXCEPT ![cur] = "WAITING"]
      /\ UNCHANGED <<gThreadLists, gCurrentThreads, gAlarms>>
  BY DEF WaitSynchronization, Calls, alarmVars
<1>2. \A t \in Threads : status'[t] = IF t = cur THEN "WAITING" ELSE status[t]
  BY <1>1, BaseTypes DEF IInv
<1>3. Once' /\ \A t : Busy(t)' <=> Busy(t)
  BY <1>1, PlacesFrame DEF IInv, Tidy, ClockStays
<1>4. Places'
  BY <1>1, <1>2, <1>3 DEF IInv, Tidy, Places, NotStarted
<1>5. pending' = IF "zero" = "zero" THEN [pending EXCEPT ![0] = TRUE] ELSE pending
  BY DEF WaitSynchronization
<1> QED BY <1>1, <1>3, <1>4, <1>5, CallStep

\* svcCreateThread: the new thread is nowhere yet.
LEMMA StepCreate == ASSUME IInv, Base', ClockStays, CreateThread(0) PROVE Tidy'
<1> DEFINE cur == gCurrentThreads[0]
<1>1. /\ hpc[0] = "step" /\ hpc' = [hpc EXCEPT ![0] = "loop"] /\ pending' = pending
      /\ UNCHANGED <<gThreadLists, gCurrentThreads, gAlarms>>
  BY DEF CreateThread, Calls, alarmVars
<1>2. PICK t \in Threads : status[t] = "NONE" /\ status' = [status EXCEPT ![t] = "INITIALIZED"]
  BY DEF CreateThread
<1>3. \A x \in Threads : status'[x] = IF x = t THEN "INITIALIZED" ELSE status[x]
  BY <1>2, BaseTypes DEF IInv
<1>4. Once' /\ \A x : Busy(x)' <=> Busy(x)
  BY <1>1, PlacesFrame DEF IInv, Tidy, ClockStays
<1>5. Places'
  BY <1>1, <1>2, <1>3, <1>4 DEF IInv, Tidy, Places, NotStarted
<1>6. cur # INVALID => status'[cur] \in {"READY", "RUNNING"} /\ ~Busy(cur)'
  BY <1>1, <1>2, <1>3, <1>4, Executing DEF Busy
<1>7. pending' = IF "none" = "zero" THEN [pending EXCEPT ![0] = TRUE] ELSE pending
  BY <1>1
<1> QED BY <1>1, <1>4, <1>5, <1>6, <1>7, CallStep

\* A thread that is in no place is queued and READY: by svcStartThread, or by
\* Alarm::wait when the alarm has triggered already.
LEMMA QueuedStep ==
  ASSUME IInv, ClockStays, NEW t \in Threads, ~Busy(t),
         gThreadLists' = Pushed(gThreadLists, t), status' = [status EXCEPT ![t] = "READY"],
         UNCHANGED <<gCurrentThreads, gAlarms>>
  PROVE  /\ \A x \in Threads : status'[x] = IF x = t THEN "READY" ELSE status[x]
         /\ Once' /\ Places' /\ \A x : Busy(x)' <=> Busy(x) \/ x = t
<1>1. /\ affinity \in [Threads -> Cores] /\ gThreadLists \in Lists /\ status \in [Threads -> Statuses]
      /\ ListedOnce(gThreadLists) /\ ~Listed(gThreadLists, t)
      /\ ~Awaits(gAlarms, t) /\ ~Links(clock, t)
  BY BaseTypes DEF IInv, Tidy, Once, Busy
<1>2. /\ ListedOnce(gThreadLists')
      /\ \A x : Listed(gThreadLists', x) <=> Listed(gThreadLists, x) \/ x = t
  BY <1>1, PushFacts
<1>3. \A x \in Threads : status'[x] = IF x = t THEN "READY" ELSE status[x]
  BY <1>1
<1>4. \A x : (Awaits(gAlarms', x) <=> Awaits(gAlarms, x)) /\ (Links(clock', x) <=> Links(clock, x))
  BY DEF ClockStays, Links
<1>5. Once'
  BY <1>1, <1>2, <1>4 DEF IInv, Tidy, Once
<1>6. \A x : Busy(x)' <=> Busy(x) \/ x = t
  BY <1>2, <1>4 DEF Busy
<1>7. Places'
  BY <1>3, <1>6 DEF IInv, Tidy, Places, NotStarted
<1> QED BY <1>2, <1>3, <1>5, <1>6, <1>7

\* svcStartThread queues a thread that was not started before, or has exited.
LEMMA StepStart == ASSUME IInv, Base', ClockStays, StartThread(0), restarts' = restarts PROVE Tidy'
<1> DEFINE cur == gCurrentThreads[0]
<1>1. /\ hpc[0] = "step" /\ hpc' = [hpc EXCEPT ![0] = "loop"] /\ pending' = pending
      /\ UNCHANGED <<gCurrentThreads, gAlarms>>
  BY DEF StartThread, Calls, alarmVars
<1>2. PICK t \in Threads : /\ status[t] \in {"INITIALIZED", "UNINITIATED"}
                           /\ status' = [status EXCEPT ![t] = "READY"]
                           /\ gThreadLists' = Pushed(gThreadLists, t)
  <2>1. restarts \in Nat /\ restarts + 1 # restarts
    BY BaseTypes DEF IInv
  <2> QED BY <2>1 DEF StartThread
<1>3. ~Busy(t) /\ t # cur
  BY <1>2 DEF IInv, Tidy, Places, NotStarted
<1>4. /\ \A x \in Threads : status'[x] = IF x = t THEN "READY" ELSE status[x]
      /\ Once' /\ Places' /\ \A x : Busy(x)' <=> Busy(x) \/ x = t
  BY <1>1, <1>2, <1>3, QueuedStep
<1>5. cur # INVALID => status'[cur] \in {"READY", "RUNNING"} /\ ~Busy(cur)'
  BY <1>1, <1>3, <1>4, Executing DEF Busy
<1>6. pending' = IF "none" = "zero" THEN [pending EXCEPT ![0] = TRUE] ELSE pending
  BY <1>1
<1> QED BY <1>1, <1>4, <1>5, <1>6, CallStep

\* Alarm::wait: the caller is queued at once, or becomes the waiter of the newest alarm.
LEMMA StepAlarmWait == ASSUME IInv, Base', ClockStays, AlarmWait(0) PROVE Tidy'
<1> DEFINE cur == gCurrentThreads[0]
           n == Len(gAlarms)
<1>1. /\ hpc[0] = "alarm" /\ hpc' = [hpc EXCEPT ![0] = "loop"]
      /\ pending' = [pending EXCEPT ![0] = TRUE] /\ UNCHANGED gCurrentThreads
      /\ \/ /\ status' = [status EXCEPT ![cur] = "READY"]
            /\ gThreadLists' = Pushed(gThreadLists, cur)
            /\ UNCHANGED gAlarms
         \/ /\ gAlarms' = [gAlarms EXCEPT ![n].waiting = cur]
            /\ status' = [status EXCEPT ![cur] = "WAITING"]
            /\ UNCHANGED gThreadLists
  BY DEF AlarmWait
<1>2. cur # INVALID /\ cur \in Threads /\ ~Busy(cur) /\ gAlarms # <<>>
  BY <1>1, Executing DEF IInv, Base, Calling, Busy
<1>3. /\ gAlarms \in Seq(Alarms) /\ status \in [Threads -> Statuses]
      /\ pending' = IF "zero" = "zero" THEN [pending EXCEPT ![0] = TRUE] ELSE pending
  BY <1>1, BaseTypes DEF IInv
<1>4. CASE /\ status' = [status EXCEPT ![cur] = "READY"]
           /\ gThreadLists' = Pushed(gThreadLists, cur)
           /\ UNCHANGED gAlarms
  <2>1. Once' /\ Places'
    BY <1>1, <1>2, <1>4, QueuedStep
  <2> QED BY <1>1, <1>3, <2>1, CallStep
<1>5. CASE /\ gAlarms' = [gAlarms EXCEPT ![n].waiting = cur]
           /\ status' = [status EXCEPT ![cur] = "WAITING"]
           /\ UNCHANGED gThreadLists
  <2>1. \A t \in Threads : status'[t] = IF t = cur THEN "WAITING" ELSE status[t]
    BY <1>2, <1>3, <1>5
  <2>2. /\ Len(gAlarms') = Len(gAlarms)
        /\ \A i \in 1 .. Len(gAlarms) :
             gAlarms'[i].waiting = IF i = n THEN cur ELSE gAlarms[i].waiting
    BY <1>2, <1>3, <1>5, WaiterFacts
  <2> HIDE DEF n
  <2>3. \A t \in Threads : Awaits(gAlarms', t) => Awaits(gAlarms, t) \/ t = cur
    BY <2>2 DEF Awaits
  <2>4. \A t : (Listed(gThreadLists', t) <=> Listed(gThreadLists, t)) /\ (Links(clock', t) <=> Links(clock, t))
    BY <1>5 DEF ClockStays, Links
  <2>5. ~Listed(gThreadLists, cur) /\ ~Awaits(gAlarms, cur) /\ ~Links(clock, cur)
    BY <1>2 DEF Busy
  <2>6. Once'
    <3>1. \A i, j \in 1 .. Len(gAlarms') :
            gAlarms'[i].waiting = gAlarms'[j].waiting /\ gAlarms'[i].waiting # INVALID => i = j
      BY <2>2, <2>5 DEF IInv, Tidy, Once, Awaits
    <3>2. ListedOnce(gThreadLists')
      BY <1>5 DEF IInv, Tidy, Once
    <3>3. \A t \in Threads : /\ Awaits(gAlarms', t) => ~Listed(gThreadLists', t) /\ ~Links(clock', t)
                             /\ Links(clock', t) => ~Listed(gThreadLists', t)
      BY <2>3, <2>4, <2>5 DEF IInv, Tidy, Once
    <3> QED BY <3>1, <3>2, <3>3 DEF Once
  <2>7. Places'
    <3>1. \A t \in Threads : Busy(t)' => Busy(t) \/ t = cur
      BY <2>3, <2>4 DEF Busy
    <3> QED BY <1>1, <2>1, <3>1 DEF IInv, Tidy, Places, NotStarted
  <2> QED BY <1>1, <1>3, <2>6, <2>7, CallStep
<1> QED BY <1>1, <1>4, <1>5

\* createAlarm: where the vector grows, every waiter becomes READY and is queued once.
LEMMA StepCreateAlarm == ASSUME IInv, Base', ClockStays, CreateAlarm(0) PROVE Tidy'
<1> DEFINE cur == gCurrentThreads[0]
           n == Len(gAlarms)
<1>1. /\ hpc[0] = "step" /\ cur # INVALID /\ hpc' = [hpc EXCEPT ![0] = "alarm"]
      /\ UNCHANGED <<gCurrentThreads, pending>>
      /\ \/ /\ clock.pc = "idle"
            /\ gAlarms' = Append([i \in 1 .. n |-> NewAlarm], NewAlarm)
            /\ gThreadLists' = [d \in Cores |-> gThreadLists[d] \o Woken(d)]
            /\ status' = [t \in Threads |->
                            IF \E i \in 1 .. n : gAlarms[i].waiting = t THEN "READY" ELSE status[t]]
         \/ /\ gAlarms' = Append(gAlarms, NewAlarm)
            /\ UNCHANGED <<gThreadLists, status>>
  BY DEF CreateAlarm
<1>2. /\ cur \in Threads /\ ~Listed(gThreadLists, cur) /\ ~Awaits(gAlarms, cur) /\ ~Links(clock, cur)
      /\ status[cur] \in {"READY", "RUNNING"}
  BY <1>1, Executing
<1>3. pending' = IF "none" = "zero" THEN [pending EXCEPT ![0] = TRUE] ELSE pending
  BY <1>1
<1>4. gAlarms \in Seq(Alarms) /\ n \in Nat /\ INVALID \notin Threads
  BY BaseTypes DEF IInv
<1>5. \A t : Links(clock', t) <=> Links(clock, t)
  BY DEF ClockStays, Links
<1>6. CASE /\ clock.pc = "idle"
           /\ gAlarms' = Append([i \in 1 .. n |-> NewAlarm], NewAlarm)
           /\ gThreadLists' = [d \in Cores |-> gThreadLists[d] \o Woken(d)]
           /\ status' = [t \in Threads |->
                           IF \E i \in 1 .. n : gAlarms[i].waiting = t THEN "READY" ELSE status[t]]
  <2>1. /\ \A i \in 1 .. Len(gAlarms') : gAlarms'[i].waiting = INVALID
        /\ gThreadLists' \in Lists
        /\ \A d \in Cores :
             /\ Len(gThreadLists[d]) \in Nat
             /\ \A i \in 1 .. Len(gThreadLists'[d]) :
                  \/ i \in 1 .. Len(gThreadLists[d]) /\ gThreadLists'[d][i] = gThreadLists[d][i]
                  \/ /\ i - Len(gThreadLists[d]) \in 1 .. Len(Woken(d))
                     /\ gThreadLists'[d][i] = Woken(d)[i - Len(gThreadLists[d])]
    BY <1>4, <1>6, GrowFacts DEF IInv
  <2>2. \A d \in Cores :
          /\ \A k \in 1 .. Len(Woken(d)) : Awaits(gAlarms, Woken(d)[k]) /\ affinity[Woken(d)[k]] = d
          /\ \A k, l \in 1 .. Len(Woken(d)) : Woken(d)[k] = Woken(d)[l] => k = l
    BY WokenFacts DEF IInv, Tidy
  <2>3. \A t \in Threads : status'[t] = IF Awaits(gAlarms, t) THEN "READY" ELSE status[t]
    BY <1>6 DEF Awaits
  <2>4. \A t \in Threads : ~Awaits(gAlarms', t) /\ ~Links(clock, t) /\ ~Links(clock', t)
    BY <1>4, <1>5, <1>6, <2>1 DEF Awaits, Links
  <2>5. ASSUME NEW d \in Cores
        PROVE  /\ gThreadLists'[d] \in Seq(Threads)
               /\ \A i \in 1 .. Len(gThreadLists'[d]) :
                    \/ i \in 1 .. Len(gThreadLists[d]) /\ gThreadLists'[d][i] = gThreadLists[d][i]
                    \/ /\ i - Len(gThreadLists[d]) \in 1 .. Len(Woken(d))
                       /\ gThreadLists'[d][i] = Woken(d)[i - Len(gThreadLists[d])]
               /\ Len(gThreadLists[d]) \in Nat
    BY <2>1 DEF Lists
  <2>7. \A t \in Threads : Listed(gThreadLists', t) => Listed(gThreadLists, t) \/ Awaits(gAlarms, t)
    <3>1. ASSUME NEW d \in Cores, NEW i \in 1 .. Len(gThreadLists'[d])
          PROVE  Listed(gThreadLists, gThreadLists'[d][i]) \/ Awaits(gAlarms, gThreadLists'[d][i])
      BY <2>2, <2>5, SMTT(30) DEF Listed
    <3> QED BY <3>1 DEF Listed
  <2>8. ListedOnce(gThreadLists')
    <3>1. ASSUME NEW c \in Cores, NEW d \in Cores,
                 NEW i \in 1 .. Len(gThreadLists'[c]), NEW j \in 1 .. Len(gThreadLists'[d]),
                 gThreadLists'[c][i] = gThreadLists'[d][j]
          PROVE  c = d /\ i = j
      <4> DEFINE x == gThreadLists'[c][i]
                 k == i - Len(gThreadLists[c])
                 l == j - Len(gThreadLists[d])
      <4>1. /\ Len(gThreadLists[c]) \in Nat /\ Len(gThreadLists[d]) \in Nat
            /\ i \in Int /\ j \in Int /\ x \in Threads
        BY <2>5
      <4>2. \/ i \in 1 .. Len(gThreadLists[c]) /\ x = gThreadLists[c][i]
            \/ k \in 1 .. Len(Woken(c)) /\ x = Woken(c)[k]
        BY <2>5
      <4>3. \/ j \in 1 .. Len(gThreadLists[d]) /\ x = gThreadLists[d][j]
            \/ l \in 1 .. Len(Woken(d)) /\ x = Woken(d)[l]
        BY <2>5, <3>1
      <4> HIDE DEF x, k, l
      <4>4. \A h \in 1 .. Len(Woken(c)) : x = Woken(c)[h] => Awaits(gAlarms, x) /\ affinity[x] = c
        BY <2>2
      <4>5. \A h \in 1 .. Len(Woken(d)) : x = Woken(d)[h] => Awaits(gAlarms, x) /\ affinity[x] = d
        BY <2>2
      <4>6. Awaits(gAlarms, x) => ~Listed(gThreadLists, x)
        BY <4>1 DEF IInv, Tidy, Once
      <4>7. CASE Awaits(gAlarms, x)
        <5>1. /\ k \in 1 .. Len(Woken(c)) /\ x = Woken(c)[k]
              /\ l \in 1 .. Len(Woken(d)) /\ x = Woken(d)[l]
          BY <4>2, <4>3, <4>6, <4>7 DEF Listed
        <5>2. c = d
          BY <4>4, <4>5, <5>1
        <5>3. k = l
          <6>1. \A a, b \in 1 .. Len(Woken(d)) : Woken(d)[a] = Woken(d)[b] => a = b
            BY <2>2
          <6> QED BY <5>1, <5>2, <6>1
        <5> QED BY <4>1, <5>2, <5>3 DEF k, l
      <4>8. CASE ~Awaits(gAlarms, x)
        <5>1. /\ i \in 1 .. Len(gThreadLists[c]) /\ x = gThreadLists[c][i]
              /\ j \in 1 .. Len(gThreadLists[d]) /\ x = gThreadLists[d][j]
          BY <4>2, <4>3, <4>4, <4>5, <4>8
        <5>2. ListedOnce(gThreadLists)
          BY DEF IInv, Tidy, Once
        <5>3. gThreadLists[c][i] = gThreadLists[d][j]
          BY ONLY <5>1
        <5>4. \A a \in 1 .. Len(gThreadLists[c]), b \in 1 .. Len(gThreadLists[d]) :
                gThreadLists[c][a] = gThreadLists[d][b] => c = d /\ a = b
          BY ONLY <5>2, c \in Cores, d \in Cores DEF ListedOnce
        <5> QED BY ONLY <5>1, <5>3, <5>4
      <4> QED BY <4>7, <4>8
    <3> QED BY <3>1 DEF ListedOnce
  <2>9. Once'
    BY <2>1, <2>4, <2>8 DEF Once
  <2>10. \A t \in Threads : Busy(t)' => Busy(t)
    BY <2>4, <2>7 DEF Busy
  <2>11. Places'
    <3>1. \A t \in Threads : status'[t] \in NotStarted \cup {"RUNNING"} => status'[t] = status[t]
      BY <2>3 DEF NotStarted
    <3> QED BY <1>1, <2>10, <3>1 DEF IInv, Tidy, Places
  <2>12. status'[cur] \in {"READY", "RUNNING"} /\ ~Busy(cur)'
    BY <1>1, <1>2, <2>3, <2>10 DEF Busy
  <2> QED BY <1>1, <1>3, <2>9, <2>11, <2>12, CallStep
<1>7. CASE /\ gAlarms' = Append(gAlarms, NewAlarm)
           /\ UNCHANGED <<gThreadLists, status>>
  <2>1. \A i \in 1 .. Len(gAlarms') : gAlarms'[i].waiting # INVALID
                                     => i \in 1 .. n /\ gAlarms'[i] = gAlarms[i]
    BY <1>4, <1>7, AppendAlarm
  <2>2. \A t \in Threads : Awaits(gAlarms', t) => Awaits(gAlarms, t)
    BY <1>4, <2>1 DEF Awaits
  <2>3. \A t : Listed(gThreadLists', t) <=> Listed(gThreadLists, t)
    BY <1>7
  <2>4. Once'
    <3>1. \A i, j \in 1 .. Len(gAlarms') :
            gAlarms'[i].waiting = gAlarms'[j].waiting /\ gAlarms'[i].waiting # INVALID => i = j
      BY <2>1 DEF IInv, Tidy, Once
    <3>2. ListedOnce(gThreadLists')
      BY <1>7 DEF IInv, Tidy, Once
    <3>3. \A t \in Threads : /\ Awaits(gAlarms', t) => ~Listed(gThreadLists', t) /\ ~Links(clock', t)
                             /\ Links(clock', t) => ~Listed(gThreadLists', t)
      BY <1>5, <2>2, <2>3 DEF IInv, Tidy, Once
    <3> QED BY <3>1, <3>2, <3>3 DEF Once
  <2>5. \A t \in Threads : Busy(t)' => Busy(t)
    BY <1>5, <2>2, <2>3 DEF Busy
  <2>6. Places'
    BY <1>1, <1>7, <2>5 DEF IInv, Tidy, Places
  <2>7. status'[cur] \in {"READY", "RUNNING"} /\ ~Busy(cur)'
    BY <1>1, <1>2, <1>7, <2>5 DEF Busy
  <2> QED BY <1>1, <1>3, <2>4, <2>6, <2>7, CallStep
<1> QED BY <1>1, <1>6, <1>7

----------------------------------------------------------------------------
(* Steps of the clock thread.                                              *)

\* The clock thread touches no core.
LEMMA ClockMove ==
  ASSUME IInv, Base', UNCHANGED clockFrame, Once', Places',
         pending' = pending \/ pending' = [pending EXCEPT ![0] = TRUE],
         \A t \in Threads : status'[t] = status[t] \/ status'[t] = "READY",
         \A t \in Threads : Busy(t)' => Busy(t)
  PROVE  Tidy'
<1>1. UNCHANGED <<gCurrentThreads, hpc>>
  BY DEF clockFrame, coreVars
<1>2. pending[0] => pending'[0]
  BY BaseTypes DEF IInv
<1>3. gCurrentThreads[0] # INVALID => gCurrentThreads[0] \in Threads
  BY BaseTypes DEF IInv, Handles
<1>4. Executes'
  BY <1>1, <1>2, <1>3 DEF IInv, Tidy, Executes
<1> QED BY <1>4 DEF Tidy

\* An alarm is due: its waiter passes from the alarm to the clock thread.
LEMMA StepTrigger == ASSUME IInv, Base', ClockTrigger PROVE Tidy'
<1> DEFINE n == Len(gAlarms)
<1>1. PICK i \in DOMAIN gAlarms :
        /\ gAlarms' = [gAlarms EXCEPT ![i] = [hasTriggered |-> TRUE, waiting |-> INVALID]]
        /\ clock' = [pc |-> IF gAlarms[i].waiting = INVALID THEN "interrupt" ELSE "linking",
                     thread |-> gAlarms[i].waiting, alarm |-> i, raced |-> FALSE]
  BY DEF ClockTrigger
<1>2. clock.pc = "idle" /\ UNCHANGED <<clockFrame, status, gThreadLists, pending>>
  BY DEF ClockTrigger
<1>3. gAlarms \in Seq(Alarms) /\ n \in Nat /\ i \in 1 .. n /\ i \in Nat /\ INVALID \notin Threads
  BY BaseTypes DEF IInv
<1>4. clock'.thread = gAlarms[i].waiting
  BY <1>1
<1>5. /\ Len(gAlarms') = n
      /\ \A j \in 1 .. n : gAlarms'[j].waiting = IF j = i THEN INVALID ELSE gAlarms[j].waiting
  <2>1. [hasTriggered |-> TRUE, waiting |-> INVALID] \in Alarms
    BY DEF Alarms
  <2> QED BY <1>1, <1>3, <2>1
<1> HIDE DEF n
<1>6. \A t \in Threads : ~Links(clock, t) /\ (Links(clock', t) => t = gAlarms[i].waiting)
  BY <1>2, <1>4 DEF Links
<1>7. \A t \in Threads : Awaits(gAlarms', t) => Awaits(gAlarms, t) /\ t # gAlarms[i].waiting
  <2>1. ASSUME NEW t \in Threads, NEW j \in 1 .. n, gAlarms'[j].waiting = t
        PROVE  Awaits(gAlarms, t) /\ t # gAlarms[i].waiting
    <3>1. j # i /\ gAlarms[j].waiting = t /\ t # INVALID
      BY <1>3, <1>5, <2>1
    <3>2. t # gAlarms[i].waiting
      BY <1>3, <3>1 DEF IInv, Tidy, Once, n
    <3> QED BY <3>1, <3>2 DEF Awaits, n
  <2> QED BY <1>5, <2>1 DEF Awaits
<1>8. Awaits(gAlarms, gAlarms[i].waiting)
  BY <1>3 DEF Awaits, n
<1>9. \A t : Listed(gThreadLists', t) <=> Listed(gThreadLists, t)
  BY <1>2
<1>10. Once'
  <2>1. \A j, k \in 1 .. Len(gAlarms') :
          gAlarms'[j].waiting = gAlarms'[k].waiting /\ gAlarms'[j].waiting # INVALID => j = k
    BY <1>5 DEF IInv, Tidy, Once, n
  <2>2. ListedOnce(gThreadLists')
    BY <1>2 DEF IInv, Tidy, Once
  <2>3. \A t \in Threads : /\ Awaits(gAlarms', t) => ~Listed(gThreadLists', t) /\ ~Links(clock', t)
                           /\ Links(clock', t) => ~Listed(gThreadLists', t)
    BY <1>6, <1>7, <1>8, <1>9 DEF IInv, Tidy, Once
  <2> QED BY <2>1, <2>2, <2>3 DEF Once
<1>11. \A t \in Threads : Busy(t)' => Busy(t)
  BY <1>6, <1>7, <1>8, <1>9 DEF Busy
<1>12. Places'
  BY <1>2, <1>11 DEF IInv, Tidy, Places, clockFrame
<1>13. /\ \A t \in Threads : status'[t] = status[t] \/ status'[t] = "READY"
       /\ pending' = pending
  BY <1>2
<1> QED BY <1>2, <1>10, <1>11, <1>12, <1>13, ClockMove

\* push_back of the waiter, or its loss to a race.
LEMMA StepPush == ASSUME IInv, Base', ClockPush PROVE Tidy'
<1> DEFINE t == clock.thread
<1>1. /\ clock.pc = "linking" /\ clock' = [clock EXCEPT !.pc = "status", !.raced = FALSE]
      /\ UNCHANGED <<clockFrame, status, pending, gAlarms>>
      /\ gThreadLists' = Pushed(gThreadLists, t) \/ gThreadLists' = gThreadLists
  BY DEF ClockPush
<1>2. clock \in Clocks /\ gThreadLists \in Lists /\ affinity \in [Threads -> Cores]
  BY BaseTypes DEF IInv
<1>3. t \in Threads /\ Links(clock, t)
  BY <1>1, <1>2 DEF IInv, Base, Calling, Clocks, Handles, Links
<1>4. clock'.pc = "status"
  BY <1>1, <1>2 DEF Clocks
<1>5. ListedOnce(gThreadLists) /\ ~Listed(gThreadLists, t) /\ ~Awaits(gAlarms, t)
  BY <1>3 DEF IInv, Tidy, Once
<1>6. /\ ListedOnce(gThreadLists')
      /\ \A x : Listed(gThreadLists', x) => Listed(gThreadLists, x) \/ x = t
  <2>1. CASE gThreadLists' = Pushed(gThreadLists, t)
    <3> HIDE DEF t
    <3> QED BY <1>2, <1>3, <1>5, <2>1, PushFacts
  <2>2. CASE gThreadLists' = gThreadLists
    BY <1>2, <1>5, <2>2
  <2> QED BY <1>1, <2>1, <2>2
<1>7. \A x : ~Links(clock', x) /\ (Awaits(gAlarms', x) <=> Awaits(gAlarms, x))
  BY <1>1, <1>4 DEF Links
<1>8. Once'
  <2>1. \A i, j \in 1 .. Len(gAlarms') :
          gAlarms'[i].waiting = gAlarms'[j].waiting /\ gAlarms'[i].waiting # INVALID => i = j
    BY <1>1 DEF IInv, Tidy, Once
  <2>2. \A x \in Threads : Awaits(gAlarms', x) => ~Listed(gThreadLists', x)
    BY <1>5, <1>6, <1>7 DEF IInv, Tidy, Once
  <2> QED BY <1>6, <1>7, <2>1, <2>2 DEF Once
<1>9. \A x \in Threads : Busy(x)' => Busy(x)
  BY <1>3, <1>6, <1>7 DEF Busy
<1>10. Places'
  BY <1>1, <1>9 DEF IInv, Tidy, Places, clockFrame
<1>11. /\ \A x \in Threads : status'[x] = status[x] \/ status'[x] = "READY"
       /\ pending' = pending /\ UNCHANGED clockFrame
  BY <1>1
<1> QED BY <1>8, <1>9, <1>10, <1>11, ClockMove

\* The waiter becomes READY; it has been in a run list since the previous step.
LEMMA StepSetReady == ASSUME IInv, Base', ClockSetReady PROVE Tidy'
<1> DEFINE t == clock.thread
<1>1. /\ clock.pc = "status" /\ clock' = [clock EXCEPT !.pc = "interrupt"]
      /\ status' = [status EXCEPT ![t] = "READY"]
      /\ UNCHANGED <<clockFrame, gThreadLists, pending, gAlarms>>
  BY DEF ClockSetReady
<1>2. clock'.pc = "interrupt" /\ \A x \in Threads : status'[x] = status[x] \/ status'[x] = "READY"
  BY <1>1, BaseTypes DEF IInv, Clocks
<1>3. /\ \A x : (Links(clock', x) <=> Links(clock, x)) /\ (Awaits(gAlarms', x) <=> Awaits(gAlarms, x))
      /\ \A x : Listed(gThreadLists', x) <=> Listed(gThreadLists, x)
  BY <1>1, <1>2 DEF Links
<1>4. Once'
  BY <1>1, <1>3 DEF IInv, Tidy, Once
<1>5. \A x \in Threads : Busy(x)' => Busy(x)
  BY <1>3 DEF Busy
<1>6. Places'
  BY <1>1, <1>2, <1>5 DEF IInv, Tidy, Places, NotStarted, clockFrame
<1> QED BY <1>1, <1>2, <1>4, <1>5, <1>6, ClockMove

\* The clock thread asks core 0 to reschedule.
LEMMA StepClockInterrupt == ASSUME IInv, Base', ClockInterrupt PROVE Tidy'
<1>1. /\ clock.pc = "interrupt" /\ clock' = ClockIdle
      /\ pending' = [pending EXCEPT ![0] = TRUE]
      /\ UNCHANGED <<clockFrame, status, gThreadLists, gAlarms>>
  BY DEF ClockInterrupt
<1>2. /\ \A x : (Links(clock', x) <=> Links(clock, x)) /\ (Awaits(gAlarms', x) <=> Awaits(gAlarms, x))
      /\ \A x : Listed(gThreadLists', x) <=> Listed(gThreadLists, x)
  BY <1>1 DEF Links, ClockIdle
<1>3. Once'
  BY <1>1, <1>2 DEF IInv, Tidy, Once
<1>4. \A x \in Threads : Busy(x)' => Busy(x)
  BY <1>2 DEF Busy
<1>5. Places'
  BY <1>1, <1>4 DEF IInv, Tidy, Places, clockFrame
<1> QED BY <1>1, <1>3, <1>4, <1>5, ClockMove

----------------------------------------------------------------------------
(* The inductive invariants.                                               *)

\* At power on no thread is anywhere.
LEMMA InitTidy == ASSUME Init PROVE Tidy
<1> USE SchedulerAssumption, CoreZero
<1>1. /\ gAlarms = <<>> /\ clock = ClockIdle /\ status = [t \in Threads |-> "NONE"]
      /\ gThreadLists = [c \in Cores |-> <<>>] /\ hpc = [c \in Cores |-> "entry"]
      /\ gCurrentThreads = [c \in Cores |-> INVALID]
  BY DEF Init
<1>2. \A c \in Cores : Len(gThreadLists[c]) = 0
  BY <1>1
<1>3. \A t \in Threads : ~Listed(gThreadLists, t) /\ ~Awaits(gAlarms, t) /\ ~Links(clock, t)
  BY <1>1, <1>2 DEF Listed, Awaits, Links, ClockIdle
<1>4. Once
  BY <1>1, <1>2, <1>3 DEF Once, ListedOnce
<1>5. Places /\ Executes
  BY <1>1, <1>3 DEF Places, Executes, Busy
<1> QED BY <1>4, <1>5 DEF Tidy

\* Every step that starts no thread again keeps the threads in their places.
LEMMA StepTidy == ASSUME IInv, [Next]_vars, Base', restarts' = restarts PROVE Tidy'
<1>1. ASSUME NEW c \in Cores, CoreStep(c) PROVE Tidy'
  <2>1. CoreAction(c) /\ ClockStays
    BY <1>1, CoreStepClock DEF IInv, Base
  <2>2. CASE c # 0
    BY <2>1, <2>2, OnlyCoreZero, StepEntry DEF IInv
  <2>3. CASE c = 0
    <3>1. CoreAction(0)
      BY <2>1, <2>3
    <3>2. \/ Entry(0) \/ (TakeInterrupt(0) \/ Loop(0) \/ Ordinary(0)) \/ HandleInterrupt(0)
          \/ CreateThread(0) \/ StartThread(0) \/ YieldThread(0)
          \/ ExitThread(0) \/ CreateAlarm(0) \/ AlarmWait(0) \/ WaitSynchronization(0)
      BY <3>1 DEF CoreAction
    <3>3. Entry(0) => Tidy'
      BY <2>1, CoreZero, StepEntry
    <3> QED BY <2>1, <3>2, <3>3, StepControl, StepHandleInterrupt, StepCreate, StepStart,
               StepYield, StepExit, StepCreateAlarm, StepAlarmWait, StepWait
  <2> QED BY <2>2, <2>3
<1>2. ASSUME ClockStep PROVE Tidy'
  BY <1>2, StepTrigger, StepPush, StepSetReady, StepClockInterrupt DEF ClockStep
<1>3. ASSUME UNCHANGED vars PROVE Tidy'
  <2>1. UNCHANGED <<status, gThreadLists, gCurrentThreads, hpc, pending, gAlarms, clock>>
    BY <1>3 DEF vars, threadVars, coreVars, alarmVars
  <2>2. Once' /\ \A t : Busy(t)' <=> Busy(t)
    BY <2>1, PlacesFrame DEF IInv, Tidy
  <2>3. Places' /\ Executes'
    BY <2>1, <2>2 DEF IInv, Tidy, Places, Executes
  <2> QED BY <2>2, <2>3 DEF Tidy
<1> QED BY <1>1, <1>2, <1>3 DEF Next

\* The number of restarts never falls.
LEMMA RestartsGrow == ASSUME Base, [Next]_vars, restarts' = 0 PROVE restarts = 0
<1>1. restarts \in Nat
  BY DEF Base, TypeOK
<1>2. restarts' = restarts \/ restarts' = restarts + 1
  <2>1. ASSUME NEW c \in Cores, CoreStep(c) PROVE restarts' = restarts \/ restarts' = restarts + 1
    BY <2>1 DEF CoreStep, CoreAction, Entry, TakeInterrupt, Loop, HandleInterrupt, Ordinary,
                CreateThread, StartThread, YieldThread, ExitThread, CreateAlarm, AlarmWait,
                WaitSynchronization
  <2>2. ASSUME ClockStep PROVE restarts' = restarts
    BY <2>2 DEF ClockStep, ClockTrigger, ClockPush, ClockSetReady, ClockInterrupt, clockFrame
  <2>3. ASSUME UNCHANGED vars PROVE restarts' = restarts
    BY <2>3 DEF vars
  <2> QED BY <2>1, <2>2, <2>3 DEF Next
<1> QED BY <1>1, <1>2

TidyUnlessRestarted == restarts = 0 => Tidy

\* As long as no thread is started twice, every thread is in one place.
LEMMA TidyInvariant == Spec => []TidyUnlessRestarted
<1>1. Init => TidyUnlessRestarted
  BY InitTidy DEF TidyUnlessRestarted
<1>2. Base /\ Base' /\ TidyUnlessRestarted /\ [Next]_vars => TidyUnlessRestarted'
  <2>1. ASSUME Base, Base', TidyUnlessRestarted, [Next]_vars, restarts' = 0 PROVE Tidy'
    <3>1. restarts = 0 /\ IInv
      BY <2>1, RestartsGrow DEF TidyUnlessRestarted, IInv
    <3> QED BY <2>1, <3>1, StepTidy
  <2> QED BY <2>1 DEF TidyUnlessRestarted
<1> QED BY <1>1, <1>2, BaseInvariant, PTL DEF Spec

----------------------------------------------------------------------------
(* The theorems.                                                           *)

\* Every variable keeps its type: no handle but a thread's is ever queued, current or
\* saved into, however often the guest starts a thread.
THEOREM TypeCorrect == Spec => []TypeOK
<1>1. Base => TypeOK
  BY DEF Base
<1> QED BY <1>1, BaseInvariant, PTL

\* rescheduleNoLock and contextSwitch save and restore the registers of the right thread,
\* in every sequence of calls.
THEOREM RightRegisters == Spec => []RegistersOfCurrent
<1>1. Base => RegistersOfCurrent
  BY DEF Base
<1> QED BY <1>1, BaseInvariant, PTL

\* A thread that has called a blocking system call executes nothing as the current thread
\* before it is woken, and at most one instruction on a core it has left idle.
THEOREM BlockedThreads == Spec => []BlockedDoesNotRun
<1>1. Init => RanOnce
  BY DEF Init, RanOnce
<1>2. Base /\ Base' /\ RanOnce /\ [Next]_vars => RanOnce'
  BY StepRan
<1>3. ASSUME Base, RanOnce PROVE BlockedDoesNotRun
  <2>1. ASSUME NEW c \in Cores, hpc[c] = "step", gCurrentThreads[c] # INVALID
        PROVE  status[gCurrentThreads[c]] # "WAITING"
    <3>1. c = 0
      BY <1>3, <2>1 DEF Base, Others
    <3> QED BY <1>3, <2>1, <3>1 DEF Base, NotBlocked
  <2>2. ASSUME NEW t \in Threads PROVE ran[t] <= 1
    <3>1. ran[t] = 0 \/ ran[t] = 1
      BY <1>3 DEF RanOnce
    <3> QED BY <3>1
  <2> QED BY <2>1, <2>2 DEF BlockedDoesNotRun
<1> QED BY <1>1, <1>2, <1>3, BaseInvariant, PTL DEF Spec

\* As long as the guest starts no thread twice, a thread is queued at most once, and a
\* RUNNING thread is current on one core and not queued, although the clock thread queues
\* without the scheduler's lock.
THEOREM ThreadsQueuedOnce == Spec => []QueuedOnce
<1>1. ASSUME Base, TidyUnlessRestarted PROVE QueuedOnce
  <2> SUFFICES ASSUME restarts = 0
               PROVE  /\ \A c, d \in Cores : \A i \in DOMAIN gThreadLists[c], j \in DOMAIN gThreadLists[d] :
                           gThreadLists[c][i] = gThreadLists[d][j] => c = d /\ i = j
                      /\ \A t \in Threads : status[t] = "RUNNING" =>
                           /\ \E c \in Cores : gCurrentThreads[c] = t
                           /\ \A c \in Cores : ~Contains(gThreadLists[c], t)
                      /\ \A c, d \in Cores : gCurrentThreads[c] = gCurrentThreads[d]
                                             /\ gCurrentThreads[c] # INVALID => c = d
    BY DEF QueuedOnce
  <2>0. Tidy
    BY <1>1 DEF TidyUnlessRestarted
  <2>1. ListedOnce(gThreadLists) /\ \A c \in Cores : DOMAIN gThreadLists[c] = 1 .. Len(gThreadLists[c])
    BY <1>1, <2>0 DEF Base, Tidy, Once, TypeOK
  <2>2. ASSUME NEW t \in Threads, status[t] = "RUNNING"
        PROVE  /\ \E c \in Cores : gCurrentThreads[c] = t
               /\ \A c \in Cores : ~Contains(gThreadLists[c], t)
    <3>1. ~Listed(gThreadLists, t) /\ t = gCurrentThreads[0]
      BY <2>0, <2>2 DEF Tidy, Places, Busy
    <3> QED BY <3>1, CoreZero DEF Listed, Contains
  <2>3. \A c \in Cores : gCurrentThreads[c] # INVALID => c = 0
    BY <1>1 DEF Base, Others
  <2>4. \A c, d \in Cores : gCurrentThreads[c] = gCurrentThreads[d] /\ gCurrentThreads[c] # INVALID => c = d
    BY <2>3
  <2>5. \A c, d \in Cores : \A i \in DOMAIN gThreadLists[c], j \in DOMAIN gThreadLists[d] :
           gThreadLists[c][i] = gThreadLists[d][j] => c = d /\ i = j
    BY <2>1 DEF ListedOnce
  <2> QED BY <2>2, <2>4, <2>5
<1> QED BY <1>1, BaseInvariant, TidyInvariant, PTL

\* popBest finds a thread if any queued thread beats minPriority: the first of the least
\* priorities.
LEMMA BestExists ==
  ASSUME priority \in [Threads -> Nat], NEW list \in Seq(Threads), NEW m \in Nat,
         NEW k \in 1 .. Len(list), priority[list[k]] < m
  PROVE  BestIndices(list, m) # {}
<1> DEFINE n == Len(list)
           Pri(j) == priority[list[j]]
           P == {Pri(j) : j \in 1 .. n}
           J == {j \in 1 .. n : Pri(j) = Min(P)}
           i == Min(J)
<1>1. n \in Nat /\ DOMAIN list = 1 .. n
  OBVIOUS
<1>2. \A j \in 1 .. n : Pri(j) \in Nat
  <2>1. \A j \in 1 .. n : list[j] \in Threads
    OBVIOUS
  <2> QED BY <2>1
<1> HIDE DEF Pri
<1>3. P \in SUBSET Nat /\ P # {}
  BY <1>2
<1>4. Min(P) \in P /\ \A y \in P : Min(P) <= y
  BY <1>3, MinIsLeast
<1>5. PICK p \in P : p = Min(P)
  BY <1>4
<1>0. \A q \in P : \E j \in 1 .. n : Pri(j) = q
  OBVIOUS
<1> HIDE DEF P
<1>6. J \in SUBSET Nat /\ J # {}
  <2>1. PICK j \in 1 .. n : Pri(j) = p
    BY <1>0
  <2>2. j \in J
    BY <1>5, <2>1
  <2>3. J \in SUBSET (1 .. n) /\ 1 .. n \in SUBSET Nat
    BY <1>1
  <2> HIDE DEF J
  <2> QED BY <2>2, <2>3
<1>7. i \in J /\ \A y \in J : i <= y
  BY <1>6, MinIsLeast
<1>8. i \in 1 .. n /\ Pri(i) = p /\ p \in Nat
  BY <1>3, <1>5, <1>7
<1>9. \A j \in 1 .. n : Pri(j) \in Nat /\ p <= Pri(j) /\ (Pri(j) = p => i <= j)
  <2>1. \A j \in 1 .. n : Pri(j) \in P /\ (Pri(j) = p => j \in J)
    BY <1>5 DEF P
  <2> QED BY <1>2, <1>4, <1>5, <1>7, <2>1
<1> HIDE DEF i, J
<1>10. Pri(i) < m
  <2>1. p <= Pri(k) /\ Pri(k) < m /\ Pri(k) \in Nat
    BY <1>9 DEF Pri
  <2> QED BY <1>8, <2>1
<1>11. \A j \in 1 .. i - 1 : Pri(i) < Pri(j)
  <2>1. ASSUME NEW j \in 1 .. i - 1 PROVE Pri(i) < Pri(j)
    <3>1. j \in 1 .. n /\ ~(i <= j)
      BY <1>1, <1>8
    <3>2. Pri(j) # p /\ p <= Pri(j) /\ Pri(j) \in Nat
      BY <1>9, <3>1
    <3> QED BY <1>8, <3>2
  <2> QED BY <2>1
<1>12. i \in BestIndices(list, m)
  BY <1>1, <1>8, <1>9, <1>10, <1>11 DEF BestIndices, Pri
<1> QED BY <1>12

\* A reschedule leaves no thread in the list of the core that is better than the one the
\* core runs, or than the one that gave it up.
LEMMA RunsBest ==
  ASSUME Base, NEW c \in Cores, Reschedule(c, gThreadLists, status, FALSE, FALSE)
  PROVE  \A j \in DOMAIN gThreadLists'[c] :
           /\ gCurrentThreads'[c] # INVALID => priority[gCurrentThreads'[c]] <= priority[gThreadLists'[c][j]]
           /\ gCurrentThreads'[c] = INVALID =>
                /\ gCurrentThreads[c] # INVALID
                /\ priority[gCurrentThreads[c]] <= priority[gThreadLists'[c][j]]
<1> DEFINE cur == gCurrentThreads[c]
           list == gThreadLists[c]
           best == BestIndices(list, MinPriority(c))
           running == cur # INVALID /\ status[cur] = "RUNNING"
           i == CHOOSE k \in best : TRUE
           next == IF best # {} THEN list[i] ELSE IF running THEN cur ELSE INVALID
           popped == IF best # {} THEN [gThreadLists EXCEPT ![c] = RemoveAt(@, i)] ELSE gThreadLists
           preempted == Preempts(c, next, status)
<1>1. /\ gThreadLists' = IF preempted THEN Pushed(popped, cur) ELSE popped
      /\ gCurrentThreads' = [gCurrentThreads EXCEPT ![c] = next]
  BY DEF Reschedule
<1>2. /\ cur \in Handles /\ list \in Seq(Threads) /\ Len(list) \in Nat /\ DOMAIN list = 1 .. Len(list)
      /\ priority \in [Threads -> Nat] /\ priority \in [Threads -> 0 .. 63]
      /\ affinity \in [Threads -> Cores] /\ INVALID \notin Threads
      /\ gThreadLists \in Lists
  BY SchedulerAssumption DEF Base, TypeOK, PrioritiesInv, Handles, Lists
<1>3. gCurrentThreads'[c] = next
  BY <1>1 DEF Base, TypeOK
<1>4. preempted <=> cur # INVALID /\ next # cur /\ status[cur] = "RUNNING"
  BY DEF Preempts
<1>5. MinPriority(c) \in Nat /\ (cur # INVALID => cur \in Threads /\ MinPriority(c) = priority[cur])
  BY <1>2 DEF MinPriority, Handles, NO_PRIORITY
<1>6. \A j \in 1 .. Len(list) : list[j] \in Threads /\ priority[list[j]] \in Nat
  <2>1. \A j \in 1 .. Len(list) : list[j] \in Threads
    BY <1>2
  <2> QED BY <1>2, <2>1
<1>7. CASE best # {}
  <2>1. i \in best
    BY <1>7
  <2>2. /\ i \in 1 .. Len(list) /\ priority[list[i]] < MinPriority(c)
        /\ \A j \in 1 .. Len(list) : priority[list[i]] <= priority[list[j]]
    BY <1>2, <2>1 DEF BestIndices
  <2>3. next = list[i] /\ popped = Popped(gThreadLists, c, i)
    BY <1>7 DEF Popped
  <2> HIDE DEF next, popped, best, i, preempted
  <2>4. next \in Threads /\ next # INVALID
    BY <1>2, <1>6, <2>2, <2>3
  <2>5. /\ popped \in Lists
        /\ \A j \in 1 .. Len(popped[c]) : \E k \in 1 .. Len(list) : popped[c][j] = list[k]
    <3>0. gThreadLists \in Lists /\ i \in 1 .. Len(gThreadLists[c])
      BY <1>2, <2>2
    <3>1. /\ Popped(gThreadLists, c, i) \in Lists
          /\ \A j \in 1 .. Len(Popped(gThreadLists, c, i)[c]) :
               \E k \in 1 .. Len(gThreadLists[c]) : Popped(gThreadLists, c, i)[c][j] = gThreadLists[c][k]
      BY <3>0, PopElements
    <3> QED BY <2>3, <3>1
  <2>6. \A j \in 1 .. Len(popped[c]) : priority[next] <= priority[popped[c][j]]
    BY <2>2, <2>3, <2>5
  <2>7. cur # INVALID => priority[next] <= priority[cur]
    BY <1>2, <1>5, <2>2, <2>3, <2>4
  <2>8. \A j \in 1 .. Len(gThreadLists'[c]) : priority[next] <= priority[gThreadLists'[c][j]]
    <3>1. CASE preempted
      <4>1. cur \in Threads /\ cur # INVALID
        BY <1>4, <1>5, <3>1
      <4>2. \A j \in 1 .. Len(Pushed(popped, cur)[c]) :
              \/ Pushed(popped, cur)[c][j] = cur
              \/ j \in 1 .. Len(popped[c]) /\ Pushed(popped, cur)[c][j] = popped[c][j]
        BY <1>2, <2>5, <4>1, PushFacts
      <4>3. gThreadLists' = Pushed(popped, cur)
        BY <1>1, <3>1
      <4> QED BY <2>6, <2>7, <4>1, <4>2, <4>3
    <3>2. CASE ~preempted
      BY <1>1, <2>6, <3>2
    <3> QED BY <3>1, <3>2
  <2>9. gThreadLists'[c] \in Seq(Threads)
    <3>1. CASE preempted
      <4>1. cur \in Threads
        BY <1>4, <1>5, <3>1
      <4>2. Pushed(popped, cur) \in Lists
        BY <1>2, <2>5, <4>1, PushFacts
      <4> QED BY <1>1, <3>1, <4>2 DEF Lists
    <3>2. CASE ~preempted
      BY <1>1, <2>5, <3>2 DEF Lists
    <3> QED BY <3>1, <3>2
  <2>10. DOMAIN gThreadLists'[c] = 1 .. Len(gThreadLists'[c])
    BY <2>9
  <2> QED BY <1>3, <2>4, <2>8, <2>10
<1>8. CASE best = {}
  <2>1. next = (IF running THEN cur ELSE INVALID) /\ popped = gThreadLists
    BY <1>8
  <2>2. ~preempted
    BY <1>4, <2>1
  <2>3. gThreadLists'[c] = list
    BY <1>1, <2>1, <2>2
  <2>4. \A j \in 1 .. Len(list) : ~(priority[list[j]] < MinPriority(c))
    BY <1>2, <1>5, <1>8, BestExists
  <2>5. \A j \in 1 .. Len(list) : cur # INVALID /\ priority[cur] <= priority[list[j]]
    <3>1. ASSUME NEW j \in 1 .. Len(list) PROVE cur # INVALID
      <4>1. priority[list[j]] \in 0 .. 63
        BY <1>2, <1>6
      <4>2. cur = INVALID => MinPriority(c) = 64
        BY DEF MinPriority, NO_PRIORITY
      <4>3. ~(priority[list[j]] < MinPriority(c))
        BY <2>4
      <4>4. priority[list[j]] < 64
        <5>1. \A q \in 0 .. 63 : q < 64
          OBVIOUS
        <5> QED BY ONLY <4>1, <5>1
      <4> HIDE DEF cur, list
      <4> QED BY ONLY <4>2, <4>3, <4>4
    <3> QED BY <1>2, <1>5, <1>6, <2>4, <3>1
  <2> QED BY <1>2, <1>3, <2>1, <2>3, <2>5
<1> QED BY <1>7, <1>8

\* An interrupt makes the core run the best of the threads it has, or leaves it to a
\* blocked thread that no queued one beats.
THEOREM BestThreadRuns == Spec => RescheduleRunsBest
<1> DEFINE Body(c) == LET next == gCurrentThreads'[c] IN
              \A i \in DOMAIN gThreadLists'[c] :
                 /\ next # INVALID => priority[next] <= priority[gThreadLists'[c][i]]
                 /\ next = INVALID => gCurrentThreads[c] # INVALID /\
                      priority[gCurrentThreads[c]] <= priority[gThreadLists'[c][i]]
<1>1. ASSUME Base, NEW c \in Cores, HandleInterrupt(c) PROVE Body(c)
  <2>1. Reschedule(c, gThreadLists, status, FALSE, FALSE)
    BY <1>1 DEF HandleInterrupt
  <2> QED BY <1>1, <2>1, RunsBest
<1>2. Base => [\A c \in Cores : HandleInterrupt(c) => Body(c)]_vars
  BY <1>1
<1> QED BY <1>2, BaseInvariant, PTL DEF RescheduleRunsBest

----------------------------------------------------------------------------
(* Which thread's code the PCs point at.                                   *)

\* contextSwitch saves the PC with the registers. It loads both outside a system call; inside
\* one the interpreter sets the PC afterwards.
LEMMA SwitchPcs ==
  ASSUME Base, OwnCode, NEW next \in Handles, next # gCurrentThreads[0],
         NEW y \in BOOLEAN, NEW s \in BOOLEAN, s => next = INVALID, ContextSwitch(0, next, y, s)
  PROVE  /\ next # INVALID => pc'[0].of = next
         /\ \A t \in Threads : context'[t].pc.of = t
<1> DEFINE cur == gCurrentThreads[0]
           at == IF y THEN "yield" ELSE pc[0].at
           saved == [regs |-> regs[0], pc |-> [pc[0] EXCEPT !.at = at]]
<1>1. /\ pc \in [Cores -> Pcs] /\ cur \in Handles /\ 0 \in Cores /\ DOMAIN context = Threads
  BY CoreZero DEF Base, TypeOK, Handles
<1>2. pc[0] \in Pcs
  BY <1>1
<1> HIDE DEF at
<1>3. saved.pc.of = pc[0].of
  BY <1>2 DEF Pcs
<1>4. /\ context' = IF cur # INVALID THEN [context EXCEPT ![cur] = saved] ELSE context
      /\ next # INVALID => pc' = [pc EXCEPT ![0] = context[next].pc]
  BY DEF ContextSwitch, at
<1> HIDE DEF saved
<1>5. cur # INVALID => cur \in Threads /\ pc[0].of = cur
  BY <1>1 DEF Handles, OwnCode
<1>6. \A t \in Threads : context[t].pc.of = t
  BY DEF OwnCode
<1>7. next # INVALID => next \in Threads
  BY DEF Handles
<1> HIDE DEF cur
<1>8. \A t \in Threads : context'[t].pc.of = t
  BY <1>1, <1>3, <1>4, <1>5, <1>6
<1>9. next # INVALID => pc'[0].of = next
  BY <1>1, <1>4, <1>6, <1>7
<1> QED BY <1>8, <1>9

\* A reschedule keeps the PCs with their threads unless it loads a thread inside a call.
LEMMA ReschedulePcs ==
  ASSUME Base, OwnCode, NEW lists \in Lists, NEW st, NEW y \in BOOLEAN, NEW s \in BOOLEAN,
         Reschedule(0, lists, st, y, s),
         s => gCurrentThreads'[0] \in {gCurrentThreads[0], INVALID}
  PROVE  OwnCode'
<1>1. TypeOK /\ 0 \in Cores /\ gCurrentThreads \in [Cores -> Handles]
  BY BaseTypes DEF Base
<1>2. PICK next \in Handles, popped \in Lists : Outcome(0, next, popped, lists, st, y, s)
  BY <1>1, RescheduleOutcome
<1>3. /\ gCurrentThreads' = [gCurrentThreads EXCEPT ![0] = next]
      /\ IF next # gCurrentThreads[0] THEN ContextSwitch(0, next, y, s)
                                      ELSE UNCHANGED <<regs, pc, context>>
  BY <1>2 DEF Outcome
<1>4. gCurrentThreads'[0] = next /\ \A c \in Cores \ {0} : gCurrentThreads'[c] = INVALID
  BY <1>1, <1>3 DEF Base, Others
<1>5. CASE next # gCurrentThreads[0]
  <2>1. /\ next # INVALID => pc'[0].of = next
        /\ \A t \in Threads : context'[t].pc.of = t
    BY <1>3, <1>4, <1>5, SwitchPcs
  <2> QED BY <1>4, <2>1 DEF OwnCode
<1>6. CASE next = gCurrentThreads[0]
  BY <1>3, <1>4, <1>6, CoreZero DEF OwnCode
<1> QED BY <1>5, <1>6

\* Every step keeps the PCs with their threads, or switches threads inside a call.
LEMMA StepOwnCode ==
  ASSUME Base, OwnCode, [Next]_vars
  PROVE  OwnCode' \/ \E c \in Cores : SwitchesInCall(c)
<1>1. ASSUME UNCHANGED <<gCurrentThreads, pc, context>> PROVE OwnCode'
  BY <1>1 DEF OwnCode
<1>2. ASSUME HandleInterrupt(0) PROVE OwnCode'
  <2>1. Reschedule(0, gThreadLists, status, FALSE, FALSE) /\ gThreadLists \in Lists
    BY <1>2, BaseTypes DEF HandleInterrupt
  <2> QED BY <2>1, ReschedulePcs
<1>3. ASSUME YieldThread(0) \/ ExitThread(0), ~SwitchesInCall(0) PROVE OwnCode'
  <2>1. gCurrentThreads'[0] \in {gCurrentThreads[0], INVALID}
    BY <1>3 DEF SwitchesInCall
  <2>2. gCurrentThreads[0] \in Threads /\ gThreadLists \in Lists /\ affinity \in [Threads -> Cores]
    BY <1>3, BaseTypes DEF YieldThread, ExitThread, Calls, Handles
  <2>3. Pushed(gThreadLists, gCurrentThreads[0]) \in Lists
    BY <2>2, PushFacts
  <2>4. PICK lists \in Lists, st \in {[status EXCEPT ![gCurrentThreads[0]] = "READY"],
                                     [status EXCEPT ![gCurrentThreads[0]] = "UNINITIATED"]},
             y \in BOOLEAN : Reschedule(0, lists, st, y, TRUE)
    BY <1>3, <2>2, <2>3, Zenon DEF YieldThread, ExitThread
  <2> QED BY <2>1, <2>4, ReschedulePcs
<1>4. ASSUME NEW c \in Cores, CoreStep(c)
      PROVE  \/ HandleInterrupt(0) \/ YieldThread(0) \/ ExitThread(0)
             \/ UNCHANGED <<gCurrentThreads, pc, context>>
  <2>1. CoreAction(c)
    BY <1>4 DEF CoreStep
  <2>2. c = 0 \/ Entry(c)
    BY <2>1, OnlyCoreZero
  <2> QED BY <2>1, <2>2 DEF CoreAction, Entry, TakeInterrupt, Loop, Ordinary, CreateThread, StartThread,
                            CreateAlarm, AlarmWait, WaitSynchronization
<1>5. ASSUME ClockStep PROVE UNCHANGED <<gCurrentThreads, pc, context>>
  BY <1>5 DEF ClockStep, ClockTrigger, ClockPush, ClockSetReady, ClockInterrupt, clockFrame, coreVars
<1>6. ASSUME UNCHANGED vars PROVE UNCHANGED <<gCurrentThreads, pc, context>>
  BY <1>6 DEF vars, coreVars
<1> QED BY <1>1, <1>2, <1>3, <1>4, <1>5, <1>6, CoreZero DEF Next

\* Threads execute their own code until a yield or an exit loads another thread: no other
\* step, of any number of cores and threads, sends a thread into another one's code.
THEOREM OwnCodeKept == Spec => RunsOwnCode
<1>1. Base /\ [Next]_vars => [OwnCode => OwnCode' \/ \E c \in Cores : SwitchesInCall(c)]_vars
  BY StepOwnCode
<1> QED BY <1>1, BaseInvariant, PTL DEF Spec, RunsOwnCode

============================================================================
