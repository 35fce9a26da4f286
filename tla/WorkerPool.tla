----------------------------- MODULE WorkerPool -----------------------------
(* The threads of a skynet process, skynet_start.c and skynet_monitor.c:       *)
(*                                                                             *)
(*   workers   run the messages of the services and sleep on a condition       *)
(*             variable when the global queue is empty (thread_worker);         *)
(*   timer     ticks, wakes a sleeping worker at each tick, and when no         *)
(*             context is left tells everybody to stop (thread_timer);          *)
(*   socket    hands the data that arrives to a service and wakes a worker      *)
(*             if all of them sleep (thread_socket);                            *)
(*   monitor   looks at each worker now and then and marks the service of a     *)
(*             message that has been running since it last looked               *)
(*             (thread_monitor, skynet_monitor_check).                          *)
(*                                                                             *)
(* The queues are those of SkynetDispatch, reduced here to what the threads     *)
(* wait for: the global queue and the number of messages of each service.  A    *)
(* worker takes one message a turn (weight -1).  A context is released, and     *)
(* skynet_context_total goes down, when the callback in which the service       *)
(* exits returns.                                                               *)
EXTENDS Integers, Sequences, FiniteSets

CONSTANTS
    Count,       \* the number of worker threads
    Services,    \* the services of the process, but for the one that is reserved
    MayLoop,     \* the services with a message that never returns
    MaxSends,    \* bound: messages pushed in a behaviour
    None         \* no queue, no destination

ASSUME CountAssumption == Count \in Nat \ {0}
ASSUME ServicesAssumption == None \notin Services \cup (1 .. Count) /\ MayLoop \subseteq Services
ASSUME BoundAssumption == MaxSends \in Nat

VARIABLES
    ready,      \* the global queue of services with messages
    mail,       \* the number of messages in the queue of each service
    alive,      \* the contexts that exist; skynet_context_total is their number
    sends,      \* the messages pushed so far
    pc,         \* what each worker is doing
    q,          \* the queue each worker keeps between two turns
    mutex,      \* the worker that holds monitor.mutex, or None
    sleep,      \* monitor.sleep
    waiting,    \* the workers inside pthread_cond_wait
    quit,       \* monitor.quit
    tpc, spc, mpc,  \* what the timer, the socket and the monitor thread are doing
    socketExit, \* the exit command waits in the control pipe of the socket server
    at,         \* the worker the monitor looks at next, Count + 1 at the end of a round
    moved,      \* version # check_version, for each worker
    destination, \* skynet_monitor.destination of each worker
    suspect,    \* the handle that skynet_monitor_check passes to skynet_context_endless
    endless     \* the contexts marked endless

queueVars == <<ready, mail, alive, sends>>
workerVars == <<pc, q, mutex, sleep, waiting>>
threadVars == <<quit, tpc, spc, socketExit>>
monitorVars == <<mpc, at, suspect, endless>>
vars == <<queueVars, workerVars, threadVars, monitorVars, moved, destination>>

Workers == 1..Count

Busy == {"top", "trigger", "run", "stuck"}

TypeOK ==
    /\ ready \in Seq(Services)
    /\ mail \in [Services -> Nat]
    /\ alive \subseteq Services
    /\ sends \in 0..MaxSends
    /\ pc \in [Workers -> Busy \cup {"lock", "locked", "waiting", "waking", "ended"}]
    /\ q \in [Workers -> Services \cup {None}]
    /\ mutex \in Workers \cup {None}
    /\ sleep \in 0..Count
    /\ waiting \subseteq Workers
    /\ quit \in BOOLEAN /\ socketExit \in BOOLEAN
    /\ tpc \in {"tick", "check", "quit", "ended"}
    /\ spc \in {"poll", "wake", "ended"}
    /\ mpc \in {"check", "read", "reread", "mark", "ended"} /\ at \in 1..Count + 1
    /\ suspect \in Services \cup {None}
    /\ moved \in [Workers -> BOOLEAN]
    /\ destination \in [Workers -> Services \cup {None}]
    /\ endless \subseteq Services

Init ==
    /\ ready = <<>> /\ mail = [s \in Services |-> 0] /\ alive = Services /\ sends = 0
    /\ pc = [w \in Workers |-> "top"] /\ q = [w \in Workers |-> None]
    /\ mutex = None /\ sleep = 0 /\ waiting = {}
    /\ quit = FALSE /\ tpc = "tick" /\ spc = "poll" /\ socketExit = FALSE
    /\ mpc = "check" /\ at = 1 /\ suspect = None /\ endless = {}
    /\ moved = [w \in Workers |-> FALSE] /\ destination = [w \in Workers |-> None]

-----------------------------------------------------------------------------
(* Messages and queues *)

AbortSeen == alive = {}

InGlobal(s) == (\E i \in DOMAIN ready : ready[i] = s) \/ (\E w \in Workers : q[w] = s)

\* skynet_context_push: a service that is gone gets nothing
Push(s) ==
    /\ sends < MaxSends
    /\ sends' = sends + 1
    /\ IF s \in alive
       THEN /\ mail' = [mail EXCEPT ![s] = @ + 1]
            /\ ready' = IF InGlobal(s) THEN ready ELSE Append(ready, s)
       ELSE UNCHANGED <<mail, ready>>
    /\ UNCHANGED alive

NoPush == UNCHANGED <<ready, mail, sends>>

\* skynet_globalmq_pop, into q of the worker
PopGlobal(w) ==
    IF ready = <<>>
    THEN q' = [q EXCEPT ![w] = None] /\ UNCHANGED ready
    ELSE q' = [q EXCEPT ![w] = Head(ready)] /\ ready' = Tail(ready)

\* Only a worker that found nothing at all goes to sleep
AfterDispatch(w) == pc' = [pc EXCEPT ![w] = IF q'[w] = None THEN "lock" ELSE "top"]

-----------------------------------------------------------------------------
(* thread_worker *)

End(w) ==
    /\ pc[w] = "top" /\ quit
    /\ pc' = [pc EXCEPT ![w] = "ended"]
    /\ UNCHANGED <<queueVars, q, mutex, sleep, waiting, threadVars, monitorVars, moved, destination>>

\* skynet_context_message_dispatch(sm, NULL, weight)
TakeQueue(w) ==
    /\ pc[w] = "top" /\ ~quit /\ q[w] = None
    /\ PopGlobal(w)
    /\ AfterDispatch(w)
    /\ UNCHANGED <<mail, alive, sends, mutex, sleep, waiting, threadVars, monitorVars, moved, destination>>

\* The service is gone or its queue is empty: go on with another queue
DropQueue(w) ==
    /\ pc[w] = "top" /\ ~quit /\ q[w] # None
    /\ q[w] \notin alive \/ mail[q[w]] = 0
    /\ PopGlobal(w)
    /\ mail' = IF q[w] \in alive THEN mail ELSE [mail EXCEPT ![q[w]] = 0]
    /\ AfterDispatch(w)
    /\ UNCHANGED <<alive, sends, mutex, sleep, waiting, threadVars, monitorVars, moved, destination>>

\* A message is popped and skynet_monitor_trigger stores where it goes ...
TakeMessage(w) ==
    /\ pc[w] = "top" /\ ~quit /\ q[w] \in alive
    /\ mail[q[w]] > 0
    /\ mail' = [mail EXCEPT ![q[w]] = @ - 1]
    /\ destination' = [destination EXCEPT ![w] = q[w]]
    /\ pc' = [pc EXCEPT ![w] = "trigger"]
    /\ UNCHANGED <<ready, alive, sends, q, mutex, sleep, waiting, threadVars, monitorVars, moved>>

\* ... before it counts the version up
Trigger(w) ==
    /\ pc[w] = "trigger"
    /\ moved' = [moved EXCEPT ![w] = TRUE]
    /\ pc' = [pc EXCEPT ![w] = "run"]
    /\ UNCHANGED <<queueVars, q, mutex, sleep, waiting, threadVars, monitorVars, destination>>

\* The callback sends a message: skynet_send wakes nobody
SendInCallback(w) ==
    /\ pc[w] = "run"
    /\ \E s \in Services : Push(s)
    /\ UNCHANGED <<workerVars, threadVars, monitorVars, moved, destination>>

\* The callback never returns.  With every worker in such a message the process is lost
Loop(w) ==
    /\ pc[w] = "run" /\ q[w] \in MayLoop
    /\ \E other \in Workers \ {w} : pc[other] # "stuck"
    /\ pc' = [pc EXCEPT ![w] = "stuck"]
    /\ UNCHANGED <<queueVars, q, mutex, sleep, waiting, threadVars, monitorVars, moved, destination>>

\* Mutation: the trigger after the callback is forgotten
MutCleared(w) == destination

\* skynet_monitor_trigger(sm, 0, 0) after the callback
Cleared(w) == [destination EXCEPT ![w] = None]

\* The callback returns, the service exits in it or not; the turn is over and the
\* queue goes behind the others
Return(w) ==
    /\ pc[w] = "run"
    /\ alive' \in {alive, alive \ {q[w]}}
    /\ destination' = Cleared(w)
    /\ moved' = [moved EXCEPT ![w] = TRUE]
    /\ IF ready = <<>>
       THEN UNCHANGED <<q, ready>>
       ELSE q' = [q EXCEPT ![w] = Head(ready)] /\ ready' = Append(Tail(ready), q[w])
    /\ pc' = [pc EXCEPT ![w] = "top"]
    /\ UNCHANGED <<mail, sends, mutex, sleep, waiting, threadVars, monitorVars>>

Lock(w) ==
    /\ pc[w] = "lock" /\ mutex = None
    /\ mutex' = w
    /\ sleep' = sleep + 1
    /\ pc' = [pc EXCEPT ![w] = "locked"]
    /\ UNCHANGED <<queueVars, q, waiting, threadVars, monitorVars, moved, destination>>

\* Mutation: quit is not read again under the mutex
MutSleepsOn == TRUE

\* if (!m->quit), tested under the mutex
SleepsOn == ~quit

Wait(w) ==
    /\ pc[w] = "locked"
    /\ mutex' = None
    /\ IF SleepsOn
       THEN /\ waiting' = waiting \cup {w}
            /\ pc' = [pc EXCEPT ![w] = "waiting"]
            /\ UNCHANGED sleep
       ELSE /\ sleep' = sleep - 1
            /\ pc' = [pc EXCEPT ![w] = "top"]
            /\ UNCHANGED waiting
    /\ UNCHANGED <<queueVars, q, threadVars, monitorVars, moved, destination>>

\* pthread_cond_wait returns with the mutex, which is then unlocked
Wake(w) ==
    /\ pc[w] = "waking" /\ mutex = None
    /\ sleep' = sleep - 1
    /\ pc' = [pc EXCEPT ![w] = "top"]
    /\ UNCHANGED <<queueVars, q, mutex, waiting, threadVars, monitorVars, moved, destination>>

WorkerRun(w) ==
    \/ End(w) \/ TakeQueue(w) \/ DropQueue(w) \/ TakeMessage(w) \/ Trigger(w)
    \/ Return(w) \/ Wait(w)

-----------------------------------------------------------------------------
(* wakeup, and the timer and socket threads *)

Awake(S) ==
    /\ waiting' = waiting \ S
    /\ pc' = [w \in Workers |-> IF w \in S THEN "waking" ELSE pc[w]]

\* pthread_cond_wait may return without a signal
SpuriousWakeup(w) ==
    /\ w \in waiting
    /\ Awake({w})
    /\ UNCHANGED <<queueVars, q, mutex, sleep, threadVars, monitorVars, moved, destination>>

\* Mutation: > for >=
MutEnoughAsleep(busy) == sleep > Count - busy

\* m->sleep >= m->count - busy, read without the mutex
EnoughAsleep(busy) == sleep >= Count - busy

wakeup(busy) ==
    IF EnoughAsleep(busy) /\ waiting # {}
    THEN \E w \in waiting : Awake({w})
    ELSE UNCHANGED <<pc, waiting>>

\* skynet_updatetime, in which a timer may fire
Tick ==
    /\ tpc = "tick"
    /\ (\E s \in Services : Push(s)) \/ UNCHANGED queueVars
    /\ tpc' = "check"
    /\ UNCHANGED <<workerVars, quit, spc, socketExit, monitorVars, moved, destination>>

\* CHECK_ABORT; the loop ends with skynet_socket_exit, which wakes the socket thread
TimerCheck ==
    /\ tpc = "check"
    /\ IF AbortSeen
       THEN tpc' = "quit" /\ socketExit' = TRUE /\ UNCHANGED <<pc, waiting>>
       ELSE tpc' = "tick" /\ wakeup(Count - 1) /\ UNCHANGED socketExit
    /\ UNCHANGED <<queueVars, q, mutex, sleep, quit, spc, monitorVars, moved, destination>>

TimerQuit ==
    /\ tpc = "quit" /\ mutex = None
    /\ quit' = TRUE
    /\ Awake(waiting)
    /\ tpc' = "ended"
    /\ UNCHANGED <<queueVars, q, mutex, sleep, spc, socketExit, monitorVars, moved, destination>>

\* Data arrives; with more of it to come the poll returns -1 and nobody is woken
SocketData ==
    /\ spc = "poll" /\ ~socketExit
    /\ \E s \in Services : Push(s)
    /\ spc' \in {"wake", IF AbortSeen THEN "ended" ELSE "poll"}
    /\ UNCHANGED <<workerVars, quit, tpc, socketExit, monitorVars, moved, destination>>

SocketWake ==
    /\ spc = "wake"
    /\ wakeup(0)
    /\ spc' = "poll"
    /\ UNCHANGED <<queueVars, q, mutex, sleep, quit, tpc, socketExit, monitorVars, moved, destination>>

SocketEnd ==
    /\ spc = "poll" /\ socketExit
    /\ spc' = "ended"
    /\ UNCHANGED <<queueVars, workerVars, quit, tpc, socketExit, monitorVars, moved, destination>>

-----------------------------------------------------------------------------
(* thread_monitor *)

\* Mutation: the version is not remembered
MutSeen(w) == moved

\* sm->check_version = sm->version
Seen(w) == [moved EXCEPT ![w] = FALSE]

\* skynet_monitor_check compares the versions ...
Compare(w) ==
    /\ mpc = "check" /\ at = w
    /\ moved' = Seen(w)
    /\ IF moved[w]
       THEN at' = at + 1 /\ UNCHANGED mpc
       ELSE mpc' = "read" /\ UNCHANGED at
    /\ UNCHANGED <<queueVars, workerVars, threadVars, suspect, endless, destination>>

\* ... then looks whether there is a destination, which the worker may change meanwhile ...
Read ==
    /\ mpc = "read"
    /\ IF destination[at] = None
       THEN mpc' = "check" /\ at' = at + 1
       ELSE mpc' = "reread" /\ UNCHANGED at
    /\ UNCHANGED <<queueVars, workerVars, threadVars, suspect, endless, moved, destination>>

\* ... and reads it once more, to pass it on
Reread ==
    /\ mpc = "reread"
    /\ suspect' = destination[at]
    /\ IF suspect' = None
       THEN mpc' = "check" /\ at' = at + 1
       ELSE mpc' = "mark" /\ UNCHANGED at
    /\ UNCHANGED <<queueVars, workerVars, threadVars, endless, moved, destination>>

\* skynet_context_endless: nothing for a service that is gone, as for 0 above.  The message
\* that was running may have returned long ago
Mark ==
    /\ mpc = "mark"
    /\ endless' = endless \cup (alive \cap {suspect})
    /\ suspect' = None
    /\ mpc' = "check" /\ at' = at + 1
    /\ UNCHANGED <<queueVars, workerVars, threadVars, moved, destination>>

\* Every worker was looked at: five seconds later, with CHECK_ABORT at each, again
NextRound ==
    /\ mpc = "check" /\ at = Count + 1
    /\ mpc' = IF AbortSeen THEN "ended" ELSE "check"
    /\ at' = 1
    /\ UNCHANGED <<queueVars, workerVars, threadVars, suspect, endless, moved, destination>>

Monitor == (\E w \in Workers : Compare(w)) \/ Read \/ Reread \/ Mark \/ NextRound

Next ==
    \/ \E w \in Workers :
          WorkerRun(w) \/ SendInCallback(w) \/ Loop(w) \/ Lock(w) \/ Wake(w) \/ SpuriousWakeup(w)
    \/ Tick \/ TimerCheck \/ TimerQuit
    \/ SocketData \/ SocketWake \/ SocketEnd
    \/ Monitor

(* Every thread runs; the mutex is held for a few instructions, so that nobody  *)
(* waits for it for ever.  No data has to arrive, no message has to loop, and   *)
(* no wait has to end without a signal.                                         *)
Fairness ==
    /\ \A w \in Workers : WF_vars(WorkerRun(w)) /\ SF_vars(Lock(w) \/ Wake(w))
    /\ WF_vars(Tick \/ TimerCheck) /\ SF_vars(TimerQuit)
    /\ WF_vars(SocketWake \/ SocketEnd)
    /\ WF_vars(Monitor)

Spec == Init /\ [][Next]_vars /\ Fairness

-----------------------------------------------------------------------------
(* What the threads promise *)

Ended == (\A w \in Workers : pc[w] = "ended") /\ tpc = "ended" /\ spc = "ended" /\ mpc = "ended"

\* The messages of a service are run, or the service is gone: wakeup reads sleep
\* without the mutex and a signal may fall between the ++ and the wait of a worker,
\* but while one worker is not caught in an endless message none waits for ever
EveryMessageIsRun ==
    \A s \in Services \ MayLoop : (mail[s] > 0) ~> (mail[s] = 0 \/ s \notin alive)

\* A message that never returns is reported
StuckIsReported ==
    \A s \in MayLoop : (\E w \in Workers : pc[w] = "stuck" /\ q[w] = s) ~> (s \in endless)

\* With the last context every thread ends, wherever each of them was
EveryThreadEnds == AbortSeen ~> Ended

\* skynet_monitor_check reads the version of a worker once and its destination twice: it
\* may be wrong about how long a message runs, and the mark may come when it has returned,
\* but what it passes to skynet_context_endless is nobody or the service of a message that
\* this worker is running as it reads it
ReportedIsRunning ==
    [][suspect' \notin {suspect, None} =>
         q[at] = suspect' /\ pc[at] \in {"trigger", "run", "stuck"}]_vars

=============================================================================
