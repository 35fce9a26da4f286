--------------------------- MODULE WorkerPoolProofs ---------------------------
(***************************************************************************)
(* What the monitor and the two threads that wake workers read of them is  *)
(* right, for any number of workers, any services and any messages: what   *)
(* it passes on is a message that the worker is running as it reads, and   *)
(* monitor.sleep is the number of workers that sleep or are about to.      *)
(***************************************************************************)
EXTENDS WorkerPool, FiniteSetTheorems, TLAPS

\* Between ++ m->sleep and -- m->sleep
Sleepers == {w \in Workers : pc[w] \in {"locked", "waiting", "waking"}}

Typed ==
  /\ ready \in Seq(Services) /\ alive \subseteq Services
  /\ pc \in [Workers -> Busy \cup {"lock", "locked", "waiting", "waking", "ended"}]
  /\ q \in [Workers -> Services \cup {None}]
  /\ destination \in [Workers -> Services \cup {None}]
  /\ at \in 1 .. Count + 1

\* The monitor is at one worker.
Looking == {"read", "reread", "mark"}

\* The destination of a worker is the service whose message it is running.
Running ==
  /\ \A w \in Workers :
       IF pc[w] \in {"trigger", "run", "stuck"}
       THEN destination[w] = q[w] /\ q[w] # None
       ELSE destination[w] = None
  /\ mpc \in Looking => at \in Workers

\* The count is exact, the worker that has counted itself has the mutex, and those that
\* wait are those on the condition variable.
SleepInv ==
  /\ sleep = Cardinality(Sleepers)
  /\ \A w \in Workers : mutex = w <=> pc[w] = "locked"
  /\ waiting = {w \in Workers : pc[w] = "waiting"}

PoolInv == Typed /\ Running /\ SleepInv

USE CountAssumption, ServicesAssumption

LEMMA SleepersFinite == IsFiniteSet(Sleepers) /\ IsFiniteSet(Sleepers')
<1>1. IsFiniteSet(Workers)
  BY FS_Interval DEF Workers
<1> QED BY <1>1, FS_Subset DEF Sleepers

LEMMA HeadAndTail ==
  ASSUME NEW s \in Seq(Services), s # <<>>
  PROVE  Head(s) \in Services /\ Tail(s) \in Seq(Services)
OBVIOUS

\* A step that takes one worker among the sleepers, or out of them, counts it.
LEMMA OneMore ==
  ASSUME NEW w \in Workers, sleep = Cardinality(Sleepers),
         w \notin Sleepers, Sleepers' = Sleepers \cup {w}, sleep' = sleep + 1
  PROVE  sleep' = Cardinality(Sleepers')
BY SleepersFinite, FS_AddElement

LEMMA OneLess ==
  ASSUME NEW w \in Workers, sleep = Cardinality(Sleepers),
         w \in Sleepers, Sleepers' = Sleepers \ {w}, sleep' = sleep - 1
  PROVE  sleep' = Cardinality(Sleepers')
BY SleepersFinite, FS_RemoveElement

-----------------------------------------------------------------------------
LEMMA InitInv == Init => PoolInv
<1> SUFFICES ASSUME Init PROVE PoolInv
  OBVIOUS
<1>1. Typed /\ Running
  BY DEF Init, Typed, Running, Busy, Workers
<1>2. Sleepers = {}
  BY DEF Init, Sleepers
<1>3. SleepInv
  BY <1>2, FS_EmptySet DEF Init, SleepInv, Workers
<1> QED BY <1>1, <1>3 DEF PoolInv

\* A service's messages are pushed: nobody moves.
LEMMA PushTyped ==
  ASSUME Typed, NEW s \in Services, Push(s) PROVE ready' \in Seq(Services) /\ alive' = alive
BY DEF Push, Typed

LEMMA OthersStay ==
  ASSUME PoolInv, UNCHANGED <<pc, q, mutex, sleep, waiting, destination>>,
         ready' \in Seq(Services), alive' = alive, at' \in 1 .. Count + 1, mpc' \in Looking => at' \in Workers
  PROVE  PoolInv'
<1>1. Sleepers' = Sleepers
  BY DEF Sleepers
<1> QED BY <1>1 DEF PoolInv, Typed, Running, SleepInv

\* A worker that neither goes to sleep nor wakes keeps the count.
LEMMA WorkerMoves ==
  ASSUME PoolInv, NEW w \in Workers,
         pc[w] \notin {"locked", "waiting", "waking"},
         NEW p \in Busy \cup {"lock", "ended"}, pc' = [pc EXCEPT ![w] = p],
         NEW d, destination' = [destination EXCEPT ![w] = d],
         NEW k, q' = [q EXCEPT ![w] = k], k \in Services \cup {None},
         IF p \in {"trigger", "run", "stuck"} THEN d = k /\ k # None ELSE d = None,
         ready' \in Seq(Services), alive' \subseteq alive,
         UNCHANGED <<mutex, sleep, waiting, mpc, at>>
  PROVE  PoolInv'
<1> USE DEF PoolInv
<1>1. Typed'
  BY DEF Typed
<1>2. Running'
  BY DEF Running, Typed
<1>3. \A v \in Workers : pc'[v] = IF v = w THEN p ELSE pc[v]
  BY DEF Typed
<1>4. p \notin {"locked", "waiting", "waking"}
  BY DEF Busy
<1>5. Sleepers' = Sleepers
  BY <1>3, <1>4 DEF Sleepers
<1>6. SleepInv'
  BY <1>3, <1>4, <1>5 DEF SleepInv
<1> QED BY <1>1, <1>2, <1>6

\* Those that are woken are still sleepers until they have the mutex.
LEMMA AwakeKeeps ==
  ASSUME PoolInv, NEW S \in SUBSET waiting, Awake(S),
         UNCHANGED <<ready, alive, q, mutex, sleep, destination, mpc, at>>
  PROVE  PoolInv'
<1> USE DEF PoolInv
<1>1. \A v \in Workers : pc'[v] = IF v \in S THEN "waking" ELSE pc[v]
  BY DEF Awake
<1>2. \A v \in S : v \in Workers /\ pc[v] = "waiting"
  BY DEF SleepInv
<1>3. pc' \in [Workers -> Busy \cup {"lock", "locked", "waiting", "waking", "ended"}]
  BY DEF Awake, Typed
<1>4. Typed'
  BY <1>3 DEF Typed
<1>5. Running'
  BY <1>1, <1>2 DEF Running
<1>6. Sleepers' = Sleepers
  BY <1>1, <1>2 DEF Sleepers
<1>7. SleepInv'
  BY <1>1, <1>2, <1>6 DEF SleepInv, Awake
<1> QED BY <1>4, <1>5, <1>7

-----------------------------------------------------------------------------
\* One step per action.
LEMMA WorkerKeeps ==
  ASSUME PoolInv, NEW w \in Workers,
         WorkerRun(w) \/ SendInCallback(w) \/ Loop(w) \/ Lock(w) \/ Wake(w)
         \/ SpuriousWakeup(w)
  PROVE  PoolInv'
<1> USE DEF PoolInv
<1>0. /\ pc \in [Workers -> Busy \cup {"lock", "locked", "waiting", "waking", "ended"}]
      /\ q = [q EXCEPT ![w] = q[w]] /\ q[w] \in Services \cup {None}
      /\ destination = [destination EXCEPT ![w] = destination[w]]
      /\ IF pc[w] \in {"trigger", "run", "stuck"}
         THEN destination[w] = q[w] /\ q[w] # None
         ELSE destination[w] = None
      /\ ready \in Seq(Services) /\ alive \subseteq Services
  BY DEF Typed, Running
<1>1. CASE End(w)
  <2>1. /\ pc[w] = "top" /\ pc' = [pc EXCEPT ![w] = "ended"]
        /\ q' = [q EXCEPT ![w] = q[w]] /\ destination' = [destination EXCEPT ![w] = None]
        /\ ready' \in Seq(Services) /\ alive' \subseteq alive
        /\ UNCHANGED <<mutex, sleep, waiting, mpc, at>>
    BY <1>0, <1>1 DEF End, queueVars, monitorVars
  <2>2. "ended" \in Busy \cup {"lock", "ended"}
    OBVIOUS
  <2>3. IF "ended" \in {"trigger", "run", "stuck"} THEN None = q[w] /\ q[w] # None ELSE None = None
    OBVIOUS
  <2> QED BY <1>0, <2>1, <2>2, <2>3, WorkerMoves
<1>2. CASE TakeQueue(w) \/ DropQueue(w)
  <2>1. /\ pc[w] = "top" /\ UNCHANGED <<alive, mutex, sleep, waiting, monitorVars, destination>>
        /\ PopGlobal(w) /\ AfterDispatch(w)
    BY <1>2 DEF TakeQueue, DropQueue
  <2> DEFINE k == IF ready = <<>> THEN None ELSE Head(ready)
  <2>2. k \in Services \cup {None} /\ q' = [q EXCEPT ![w] = k] /\ ready' \in Seq(Services)
    <3>1. CASE ready = <<>>
      BY <1>0, <2>1, <3>1 DEF PopGlobal
    <3>2. CASE ready # <<>>
      <4>1. Head(ready) \in Services /\ Tail(ready) \in Seq(Services)
        BY <1>0, <3>2, HeadAndTail
      <4> QED BY <2>1, <3>2, <4>1 DEF PopGlobal
    <3> QED BY <3>1, <3>2
  <2>3. pc' = [pc EXCEPT ![w] = IF q'[w] = None THEN "lock" ELSE "top"]
    BY <2>1 DEF AfterDispatch
  <2> HIDE DEF k
  <2>4. destination[w] = None /\ destination' = [destination EXCEPT ![w] = destination[w]]
    BY <1>0, <2>1
  <2>5. (IF q'[w] = None THEN "lock" ELSE "top") \in Busy \cup {"lock", "ended"}
    BY DEF Busy
  <2>6. UNCHANGED <<mpc, at>>
    BY <2>1 DEF monitorVars
  <2> QED BY <2>1, <2>2, <2>3, <2>4, <2>5, <2>6, WorkerMoves
<1>3. CASE TakeMessage(w)
  <2>1. /\ pc[w] = "top" /\ pc' = [pc EXCEPT ![w] = "trigger"]
        /\ destination' = [destination EXCEPT ![w] = q[w]] /\ q' = [q EXCEPT ![w] = q[w]]
        /\ ready' \in Seq(Services) /\ UNCHANGED <<alive, mutex, sleep, waiting, mpc, at>>
        /\ q[w] \in Services
    BY <1>0, <1>3 DEF TakeMessage, monitorVars
  <2>2. "trigger" \in Busy \cup {"lock", "ended"}
    BY DEF Busy
  <2> QED BY <1>0, <2>1, <2>2, WorkerMoves
<1>4. CASE Trigger(w) \/ Loop(w)
  <2>1. PICK p \in {"run", "stuck"} : pc' = [pc EXCEPT ![w] = p]
    BY <1>4 DEF Trigger, Loop
  <2>2. /\ pc[w] \in {"trigger", "run"} /\ ready' \in Seq(Services)
        /\ destination' = [destination EXCEPT ![w] = destination[w]]
        /\ q' = [q EXCEPT ![w] = q[w]]
        /\ UNCHANGED <<alive, mutex, sleep, waiting, mpc, at>>
    BY <1>0, <1>4 DEF Trigger, Loop, queueVars, monitorVars
  <2>3. p \in Busy \cup {"lock", "ended"}
    BY DEF Busy
  <2> QED BY <1>0, <2>1, <2>2, <2>3, WorkerMoves
<1>5. CASE Return(w)
  <2>1. /\ pc[w] = "run" /\ pc' = [pc EXCEPT ![w] = "top"]
        /\ destination' = [destination EXCEPT ![w] = None]
        /\ UNCHANGED <<mutex, sleep, waiting, mpc, at>> /\ alive' \subseteq alive
    BY <1>5 DEF Return, Cleared, monitorVars
  <2>2. PICK k \in Services \cup {None} : q' = [q EXCEPT ![w] = k]
    <3>1. CASE ready = <<>>
      BY <1>0, <1>5, <3>1 DEF Return
    <3>2. CASE ready # <<>>
      <4>1. Head(ready) \in Services
        BY <1>0, <3>2, HeadAndTail
      <4>2. q' = [q EXCEPT ![w] = Head(ready)]
        BY <1>5, <3>2 DEF Return
      <4> QED BY <4>1, <4>2
    <3> QED BY <3>1, <3>2
  <2>3. ready' \in Seq(Services)
    <3>1. CASE ready = <<>>
      BY <1>0, <1>5, <3>1 DEF Return
    <3>2. CASE ready # <<>>
      <4>1. ready' = Append(Tail(ready), q[w])
        BY <1>5, <3>2 DEF Return
      <4>2. q[w] \in Services
        BY <1>0, <2>1
      <4> QED BY <1>0, <3>2, <4>1, <4>2
    <3> QED BY <3>1, <3>2
  <2>4. "top" \in Busy \cup {"lock", "ended"}
    BY DEF Busy
  <2> QED BY <2>1, <2>2, <2>3, <2>4, WorkerMoves
<1>6. CASE SendInCallback(w)
  BY <1>0, <1>6, PushTyped, OthersStay DEF SendInCallback, workerVars, monitorVars, Typed, Running
<1>7. CASE Lock(w)
  <2>1. /\ pc[w] = "lock" /\ pc' = [pc EXCEPT ![w] = "locked"] /\ mutex = None /\ mutex' = w
        /\ sleep' = sleep + 1 /\ UNCHANGED <<ready, alive, q, waiting, destination, mpc, at>>
    BY <1>7 DEF Lock, queueVars, monitorVars
  <2>2. \A v \in Workers : pc'[v] = IF v = w THEN "locked" ELSE pc[v]
    BY <1>0, <2>1
  <2>3. w \notin Sleepers /\ Sleepers' = Sleepers \cup {w}
    BY <2>1, <2>2 DEF Sleepers
  <2>4. sleep' = Cardinality(Sleepers')
    BY <2>1, <2>3, OneMore DEF SleepInv
  <2>5. Typed'
    BY <2>1 DEF Typed
  <2>6. Running'
    BY <2>1, <2>2 DEF Running
  <2>7. \A v \in Workers : mutex' = v <=> pc'[v] = "locked"
    BY <2>1, <2>2 DEF SleepInv, Workers
  <2>8. waiting' = {v \in Workers : pc'[v] = "waiting"}
    BY <2>1, <2>2 DEF SleepInv
  <2> QED BY <2>4, <2>5, <2>6, <2>7, <2>8 DEF SleepInv
<1>8. CASE Wait(w)
  <2>1. /\ pc[w] = "locked" /\ mutex' = None /\ UNCHANGED <<ready, alive, q, destination, mpc, at>>
    BY <1>8 DEF Wait, queueVars, monitorVars
  <2>2. mutex = w /\ w \notin waiting
    BY <2>1 DEF SleepInv
  <2>3. CASE SleepsOn
    <3>1. /\ waiting' = waiting \cup {w} /\ sleep' = sleep
          /\ pc' = [pc EXCEPT ![w] = "waiting"]
      BY <1>8, <2>3 DEF Wait
    <3>2. \A v \in Workers : pc'[v] = IF v = w THEN "waiting" ELSE pc[v]
      BY <1>0, <3>1
    <3>3. Sleepers' = Sleepers
      BY <2>1, <3>2 DEF Sleepers
    <3>4. Typed'
      BY <2>1, <3>1 DEF Typed
    <3>5. Running'
      BY <2>1, <3>2 DEF Running
    <3>6. \A v \in Workers : mutex' = v <=> pc'[v] = "locked"
      BY <2>1, <2>2, <3>2 DEF SleepInv, Workers
    <3>7. waiting' = {v \in Workers : pc'[v] = "waiting"}
      BY <3>1, <3>2 DEF SleepInv
    <3> QED BY <3>1, <3>3, <3>4, <3>5, <3>6, <3>7 DEF SleepInv
  <2>4. CASE ~ SleepsOn
    <3>1. /\ waiting' = waiting /\ sleep' = sleep - 1 /\ pc' = [pc EXCEPT ![w] = "top"]
      BY <1>8, <2>4 DEF Wait
    <3>2. \A v \in Workers : pc'[v] = IF v = w THEN "top" ELSE pc[v]
      BY <1>0, <3>1
    <3>3. w \in Sleepers /\ Sleepers' = Sleepers \ {w}
      BY <2>1, <3>2 DEF Sleepers
    <3>4. sleep' = Cardinality(Sleepers')
      BY <3>1, <3>3, OneLess DEF SleepInv
    <3>5. Typed'
      BY <2>1, <3>1 DEF Typed, Busy
    <3>6. Running'
      BY <2>1, <3>2 DEF Running
    <3>7. \A v \in Workers : mutex' = v <=> pc'[v] = "locked"
      BY <2>1, <2>2, <3>2 DEF SleepInv, Workers
    <3>8. waiting' = {v \in Workers : pc'[v] = "waiting"}
      BY <2>2, <3>1, <3>2 DEF SleepInv
    <3> QED BY <3>4, <3>5, <3>6, <3>7, <3>8 DEF SleepInv
  <2> QED BY <2>3, <2>4
<1>9. CASE Wake(w)
  <2>1. /\ pc[w] = "waking" /\ pc' = [pc EXCEPT ![w] = "top"] /\ mutex = None
        /\ sleep' = sleep - 1 /\ UNCHANGED <<ready, alive, q, mutex, waiting, destination, mpc, at>>
    BY <1>9 DEF Wake, queueVars, monitorVars
  <2>2. \A v \in Workers : pc'[v] = IF v = w THEN "top" ELSE pc[v]
    BY <1>0, <2>1
  <2>3. w \in Sleepers /\ Sleepers' = Sleepers \ {w}
    BY <2>1, <2>2 DEF Sleepers
  <2>4. sleep' = Cardinality(Sleepers')
    BY <2>1, <2>3, OneLess DEF SleepInv
  <2>5. Typed'
    BY <2>1 DEF Typed, Busy
  <2>6. Running'
    BY <2>1, <2>2 DEF Running
  <2>7. \A v \in Workers : mutex' = v <=> pc'[v] = "locked"
    BY <2>1, <2>2 DEF SleepInv
  <2>8. waiting' = {v \in Workers : pc'[v] = "waiting"}
    BY <2>1, <2>2 DEF SleepInv
  <2> QED BY <2>4, <2>5, <2>6, <2>7, <2>8 DEF SleepInv
<1>10. CASE SpuriousWakeup(w)
  BY <1>10, AwakeKeeps DEF SpuriousWakeup, queueVars, monitorVars
<1> QED BY <1>1, <1>2, <1>3, <1>4, <1>5, <1>6, <1>7, <1>8, <1>9, <1>10 DEF WorkerRun

\* The other threads wake workers, or leave them alone.
LEMMA WakeupKeeps ==
  ASSUME PoolInv, NEW busy, wakeup(busy),
         UNCHANGED <<ready, alive, q, mutex, sleep, destination, mpc, at>>
  PROVE  PoolInv'
<1>1. CASE EnoughAsleep(busy) /\ waiting # {}
  <2>1. PICK v \in waiting : Awake({v})
    BY <1>1 DEF wakeup
  <2> QED BY <2>1, AwakeKeeps
<1>2. CASE ~ (EnoughAsleep(busy) /\ waiting # {})
  BY <1>2, OthersStay DEF wakeup, PoolInv, Typed, Running
<1> QED BY <1>1, <1>2

LEMMA ThreadKeeps ==
  ASSUME PoolInv, Tick \/ TimerCheck \/ TimerQuit \/ SocketData \/ SocketWake \/ SocketEnd
  PROVE  PoolInv'
<1>0. /\ ready \in Seq(Services) /\ at \in 1 .. Count + 1
      /\ mpc \in Looking => at \in Workers
  BY DEF PoolInv, Typed, Running
<1>1. CASE Tick \/ SocketData
  <2>1. UNCHANGED <<pc, q, mutex, sleep, waiting, destination, mpc, at>>
    BY <1>1 DEF Tick, SocketData, workerVars, monitorVars
  <2>2. (\E s \in Services : Push(s)) \/ UNCHANGED queueVars
    BY <1>1 DEF Tick, SocketData
  <2>3. ready' \in Seq(Services) /\ alive' = alive
    BY <1>0, <2>2, PushTyped DEF queueVars, PoolInv
  <2> QED BY <1>0, <2>1, <2>3, OthersStay
<1>2. CASE TimerCheck \/ SocketWake
  <2>1. UNCHANGED <<ready, alive, q, mutex, sleep, destination, mpc, at>>
    BY <1>2 DEF TimerCheck, SocketWake, queueVars, monitorVars
  <2>2. UNCHANGED <<pc, waiting>> \/ \E busy \in Int : wakeup(busy)
    BY <1>2 DEF TimerCheck, SocketWake
  <2> QED BY <1>0, <2>1, <2>2, WakeupKeeps, OthersStay
<1>3. CASE TimerQuit
  BY <1>3, AwakeKeeps DEF TimerQuit, queueVars, monitorVars
<1>4. CASE SocketEnd
  BY <1>0, <1>4, OthersStay DEF SocketEnd, queueVars, workerVars, monitorVars
<1> QED BY <1>1, <1>2, <1>3, <1>4

LEMMA MonitorKeeps == ASSUME PoolInv, Monitor PROVE PoolInv'
<1>0. /\ ready \in Seq(Services) /\ at \in 1 .. Count + 1
      /\ mpc \in Looking => at \in Workers
  BY DEF PoolInv, Typed, Running
<1>1. UNCHANGED <<ready, alive, pc, q, mutex, sleep, waiting, destination>>
  BY DEF Monitor, Compare, Read, Reread, Mark, NextRound, queueVars, workerVars
<1>2. at' \in 1 .. Count + 1 /\ (mpc' \in Looking => at' \in Workers)
  BY <1>0 DEF Monitor, Compare, Read, Reread, Mark, NextRound, Workers, Looking
<1> QED BY <1>0, <1>1, <1>2, OthersStay

LEMMA StepKeeps == PoolInv /\ [Next]_vars => PoolInv'
<1> SUFFICES ASSUME PoolInv, [Next]_vars PROVE PoolInv'
  OBVIOUS
<1>1. CASE UNCHANGED vars
  BY <1>1, OthersStay
  DEF vars, queueVars, workerVars, threadVars, monitorVars, PoolInv, Typed, Running
<1>2. CASE Next
  BY <1>2, WorkerKeeps, ThreadKeeps, MonitorKeeps DEF Next
<1> QED BY <1>1, <1>2

\* Only Reread finds somebody to pass on, by the destination of a worker.
LEMMA ReportsTheRunning ==
  PoolInv /\ [Next]_vars =>
    [suspect' \notin {suspect, None} =>
       q[at] = suspect' /\ pc[at] \in {"trigger", "run", "stuck"}]_vars
<1> SUFFICES ASSUME PoolInv, Next, suspect' \notin {suspect, None}
             PROVE  q[at] = suspect' /\ pc[at] \in {"trigger", "run", "stuck"}
  OBVIOUS
<1>1. Reread
  <2>1. ASSUME NEW w \in Workers,
               WorkerRun(w) \/ SendInCallback(w) \/ Loop(w) \/ Lock(w) \/ Wake(w)
               \/ SpuriousWakeup(w)
        PROVE  UNCHANGED suspect
    BY <2>1 DEF WorkerRun, End, TakeQueue, DropQueue, TakeMessage, Trigger, Return, Wait,
                SendInCallback, Loop, Lock, Wake, SpuriousWakeup, monitorVars
  <2>2. Tick \/ TimerCheck \/ TimerQuit \/ SocketData \/ SocketWake \/ SocketEnd
          => UNCHANGED suspect
    BY DEF Tick, TimerCheck, TimerQuit, SocketData, SocketWake, SocketEnd, monitorVars
  <2>3. (\E w \in Workers : Compare(w)) \/ Read \/ NextRound => UNCHANGED suspect
    BY DEF Compare, Read, NextRound
  <2>4. Mark => suspect' = None
    BY DEF Mark
  <2> QED BY <2>1, <2>2, <2>3, <2>4 DEF Next, Monitor
<1>2. at \in Workers /\ suspect' = destination[at]
  BY <1>1 DEF Reread, PoolInv, Running, Looking
<1> QED BY <1>2 DEF PoolInv, Running

-----------------------------------------------------------------------------
\* What workers, their destinations and the count of sleepers are at every step
\* (thread_worker, wakeup, skynet_monitor_trigger).
THEOREM PoolIsCounted == Spec => []PoolInv
<1>1. Init => PoolInv
  BY InitInv
<1>2. PoolInv /\ [Next]_vars => PoolInv'
  BY StepKeeps
<1> QED BY <1>1, <1>2, PTL DEF Spec

\* monitor.sleep is the number of workers between ++ m->sleep and -- m->sleep, so that
\* wakeup, which compares it with the count, is wrong only by being early or late.
THEOREM SleepIsExact == Spec => [](sleep = Cardinality(Sleepers))
<1>1. PoolInv => sleep = Cardinality(Sleepers)
  BY DEF PoolInv, SleepInv
<1> QED BY <1>1, PoolIsCounted, PTL

\* What skynet_monitor_check passes to skynet_context_endless is nobody, or the service of
\* a message that the worker runs at that very read, though the version and the
\* destination were read before it at other times.
THEOREM ReportedRuns == Spec => ReportedIsRunning
<1>1. PoolInv /\ [Next]_vars =>
        [suspect' \notin {suspect, None} =>
           q[at] = suspect' /\ pc[at] \in {"trigger", "run", "stuck"}]_vars
  BY ReportsTheRunning
<1> QED BY <1>1, InitInv, StepKeeps, PTL DEF Spec, ReportedIsRunning
=============================================================================
