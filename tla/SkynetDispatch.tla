--------------------------- MODULE SkynetDispatch ---------------------------
(***************************************************************************)
(* The service scheduler of skynet: contexts with their reference counts,  *)
(* the handle table that finds them, one message queue per context, the    *)
(* global queue of message queues, and the worker threads that dispatch    *)
(* them (skynet_server.c, skynet_mq.c, the retire/grab half of             *)
(* skynet_handle.c, the loop of skynet_start.c).                           *)
(*                                                                         *)
(* A service stands for its context, its handle and its message queue.     *)
(* Every section under one lock, and every atomic operation, is one        *)
(* action; a thread can be preempted between any two of them.  A message   *)
(* is the handle of its sender: the scheduler looks at nothing else in it. *)
(***************************************************************************)
EXTENDS Integers, Sequences, FiniteSets

CONSTANTS
  Service,    \* the contexts that can ever be created, one handle each
  NoService,  \* the NULL queue / the source 0 of a message
  Worker,     \* worker threads: they run thread_worker
  Outside,    \* timer and socket threads: they only push messages
  Share,      \* 2^weight of every worker, 0 for weight -1
  Boot,       \* the services main() launches before start(), in that order
  Harbor,     \* the services that may be the harbor: one calls skynet_harbor_start
  MaxSends    \* bound: messages sent by services and outside threads

Thread == Worker \cup Outside

ASSUME ServiceAssumption ==
  /\ NoService \notin Service
  /\ IsFiniteSet(Service)
ASSUME ThreadAssumption ==
  /\ Worker \cap Outside = {}
  /\ IsFiniteSet(Thread)
\* the weights in start(): -1, 0, 1, 2, 3
ASSUME ShareAssumption == Share \in [Worker -> {0, 1, 2, 4, 8}]
ASSUME BootAssumption ==
  /\ Boot \in Seq(Service)
  /\ \A i, j \in 1..Len(Boot) : Boot[i] = Boot[j] => i = j
ASSUME HarborAssumption == Harbor \subseteq Service
ASSUME BoundAssumption == MaxSends \in Nat

VARIABLES
  slot,       \* H->slot: the registered services
  context,    \* memory of struct skynet_context: "none", "live" or "freed"
  ref,        \* ctx->ref
  init,       \* ctx->init
  mqueue,     \* memory of struct message_queue: "none", "live" or "freed"
  queue,      \* its messages, oldest first
  in_global,  \* its in_global flag
  release,    \* its release flag
  globalmq,   \* the global queue Q
  total,      \* G_NODE.total
  pc,         \* where a worker is in skynet_context_message_dispatch
  cur,        \* q and ctx there
  new,        \* the queue it creates, drops or has taken as nq
  left,       \* iterations left of the dispatch loop
  call,       \* the nested skynet_context_push / skynet_context_release
  sends,      \* messages sent so far
  remote,     \* REMOTE: the context that skynet_context_reserve has reserved
  quit,       \* m->quit: "unset", "due" once thread_timer has seen a total of 0, "set"
  late,       \* the workers that go on once more: they read m->quit before it was set
  exited      \* all threads have ended and skynet_harbor_exit has been called

ctxVars    == <<slot, context, ref, init, total>>
mqVars     == <<mqueue, queue, in_global, release, globalmq>>
threadVars == <<pc, cur, new, left, call>>
hostVars   == <<remote, quit, late, exited>>
vars       == <<ctxVars, mqVars, threadVars, sends, hostVars>>

Handle == Service \cup {NoService}

Idle == [op |-> "idle", ctx |-> NoService, source |-> NoService]
CallTo(o, s) == [op |-> o, ctx |-> s, source |-> NoService]
PushTo(s, m) == [op |-> "grab", ctx |-> s, source |-> m]

Booted == {Boot[i] : i \in DOMAIN Boot}

(***************************************************************************)
(* main() has launched the Boot services and is about to start the threads.*)
(* A snlua service has sent itself its first message from its init function*)
(* (service_snlua.c), a plain C service may have none.                     *)
(***************************************************************************)
Init ==
  /\ slot = Booted
  /\ context   = [s \in Service |-> IF s \in Booted THEN "live" ELSE "none"]
  /\ ref       = [s \in Service |-> IF s \in Booted THEN 1 ELSE 0]
  /\ init      = [s \in Service |-> s \in Booted]
  /\ mqueue    = [s \in Service |-> IF s \in Booted THEN "live" ELSE "none"]
  /\ \E lua \in SUBSET Booted :
       queue = [s \in Service |-> IF s \in lua THEN <<s>> ELSE <<>>]
  /\ in_global = [s \in Service |-> s \in Booted]
  /\ release   = [s \in Service |-> FALSE]
  /\ globalmq  = Boot
  /\ total     = Cardinality(Booted)
  /\ pc    = [t \in Thread |-> IF t \in Worker THEN "pop" ELSE "outside"]
  /\ cur   = [t \in Thread |-> NoService]
  /\ new   = [t \in Thread |-> NoService]
  /\ left  = [t \in Thread |-> 0]
  /\ call  = [t \in Thread |-> Idle]
  /\ sends = 0
  /\ remote = NoService /\ quit = "unset" /\ late = {} /\ exited = FALSE

Goto(t, l) == pc' = [pc EXCEPT ![t] = l]
Calls(t, c) == call' = [call EXCEPT ![t] = c]
At(t, l) == pc[t] = l /\ call[t].op = "idle"

(***************************************************************************)
(* The decisions the actions share.  A Mut... operator is the next         *)
(* definition with a bug; it is used only to show that the properties can  *)
(* fail.                                                                   *)
(***************************************************************************)
\* skynet_handle_grab and skynet_handle_retire find the handle in the table
MutRegistered(s) == context[s] = "live"
Registered(s) == s \in slot

MutRefAfterGrab(s) == ref[s]
RefAfterGrab(s) == ref[s] + 1

\* ctx->ref in skynet_context_new: one for the table, one for itself
MutLaunchRefs == 1
LaunchRefs == 2

\* skynet_mq_create sets in_global although the queue is not in the list yet
MutCreatedInGlobal == FALSE
CreatedInGlobal == TRUE

\* context_inc is called before the init function runs
MutTotalAtCreate == total
TotalAtCreate == total + 1

\* skynet_globalmq_push unless the queue is there or is being dispatched
MutEnlistAlways(s) == Append(globalmq, s)
MutEnlistNever(s) == globalmq
Enlist(s) == IF in_global[s] THEN globalmq ELSE Append(globalmq, s)

\* skynet_mq_pop clears in_global when it finds no message, and only then
MutFlagOnLast(s) == Len(queue[s]) > 1 /\ in_global[s]
MutFlagStays(s) == in_global[s]
FlagAfterPop(s) == queue[s] # <<>> /\ in_global[s]

\* the end of a turn of skynet_context_message_dispatch
MutTurnEnd(s) == Idle
TurnEnd(s) == CallTo("release", s)

\* n = skynet_mq_length(q) >> weight: the turn may take n messages in all,
\* the one already popped included
MutMessagesLeft(t) == Len(queue[cur[t]]) + 1
MessagesLeft(t) ==
  LET n == Len(queue[cur[t]]) \div Share[t]
  IN  IF n > 0 THEN n - 1 ELSE 0

\* q goes back behind the queues that wait
MutPutBack(s) == globalmq
PutBack(s) == Append(globalmq, s)

\* what skynet_mq_release tests
MutReleaseAtOnce(s) == TRUE
MutReleaseNever(s) == FALSE
MayRelease(s) == release[s]

\* ATOM_DEC(&ctx->ref): the call the thread is in after it
DropRef(s) == IF ref[s] = 1 THEN CallTo("mark", s) ELSE Idle

(***************************************************************************)
(* skynet_context_push and skynet_context_release, one step per lock or    *)
(* atomic operation.  Any thread may be inside them.                       *)
(***************************************************************************)
\* skynet_handle_grab; a failed push frees the message and returns -1
Grab(t) ==
  /\ call[t].op = "grab"
  /\ IF Registered(call[t].ctx)
       THEN /\ ref' = [ref EXCEPT ![call[t].ctx] = RefAfterGrab(call[t].ctx)]
            /\ Calls(t, [call[t] EXCEPT !.op = "push"])
       ELSE /\ Calls(t, Idle)
            /\ UNCHANGED ref
  /\ UNCHANGED <<slot, context, init, total, mqVars, pc, cur, new, left, sends, hostVars>>

\* skynet_mq_push; expand_queue keeps the contents (module MessageQueue)
Push(t) ==
  /\ call[t].op = "push"
  /\ LET s == call[t].ctx
     IN  /\ queue' = [queue EXCEPT ![s] = Append(@, call[t].source)]
         /\ in_global' = [in_global EXCEPT ![s] = TRUE]
         /\ globalmq' = Enlist(s)
         /\ Calls(t, CallTo("release", s))
  /\ UNCHANGED <<ctxVars, mqueue, release, pc, cur, new, left, sends, hostVars>>

Release(t) ==
  /\ call[t].op = "release"
  /\ ref' = [ref EXCEPT ![call[t].ctx] = @ - 1]
  /\ Calls(t, DropRef(call[t].ctx))
  /\ UNCHANGED <<slot, context, init, total, mqVars, pc, cur, new, left, sends, hostVars>>

\* delete_context: skynet_mq_mark_release
MarkRelease(t) ==
  /\ call[t].op = "mark"
  /\ LET s == call[t].ctx
     IN  /\ release' = [release EXCEPT ![s] = TRUE]
         /\ globalmq' = Enlist(s)
         /\ Calls(t, CallTo("free", s))
  /\ UNCHANGED <<ctxVars, mqueue, queue, in_global, pc, cur, new, left, sends, hostVars>>

\* delete_context: skynet_free(ctx), context_dec
Free(t) ==
  /\ call[t].op = "free"
  /\ context' = [context EXCEPT ![call[t].ctx] = "freed"]
  /\ total' = total - 1
  /\ Calls(t, Idle)
  /\ UNCHANGED <<slot, ref, init, mqVars, pc, cur, new, left, sends, hostVars>>

(***************************************************************************)
(* skynet_context_message_dispatch                                         *)
(***************************************************************************)
\* skynet_globalmq_pop, at the start or in the return of a dispatch
Pop(t) ==
  /\ At(t, "pop") /\ ~ exited
  /\ globalmq # <<>>
  /\ cur' = [cur EXCEPT ![t] = Head(globalmq)]
  /\ globalmq' = Tail(globalmq)
  /\ Goto(t, "grab")
  /\ UNCHANGED <<ctxVars, mqueue, queue, in_global, release, new, left, call, sends, hostVars>>

\* while (!m->quit) in thread_worker, and skynet_handle_grab(handle)
DispatchGrab(t) ==
  /\ At(t, "grab") /\ (quit # "set" \/ t \in late)
  /\ late' = late \ {t}
  /\ IF Registered(cur[t])
       THEN /\ ref' = [ref EXCEPT ![cur[t]] = RefAfterGrab(cur[t])]
            /\ Goto(t, "first")
            /\ UNCHANGED <<cur, new>>
       ELSE /\ new' = [new EXCEPT ![t] = cur[t]]
            /\ cur' = [cur EXCEPT ![t] = NoService]
            /\ Goto(t, "mqrelease")
            /\ UNCHANGED ref
  /\ UNCHANGED <<slot, context, init, total, mqVars, left, call, sends, remote, quit, exited>>

\* skynet_mq_pop finds a message
PopMessage(t) ==
  /\ At(t, "first") \/ At(t, "loop")
  /\ queue[cur[t]] # <<>>
  /\ queue' = [queue EXCEPT ![cur[t]] = Tail(@)]
  /\ in_global' = [in_global EXCEPT ![cur[t]] = FlagAfterPop(cur[t])]
  /\ left' = [left EXCEPT ![t] = IF pc[t] = "first" THEN 0 ELSE @ - 1]
  /\ Goto(t, IF pc[t] = "first" /\ Share[t] # 0 THEN "length" ELSE "callback")
  /\ UNCHANGED <<ctxVars, mqueue, release, globalmq, cur, new, call, sends, hostVars>>

\* skynet_mq_pop finds none: the queue leaves the global list
PopEmpty(t) ==
  /\ At(t, "first") \/ At(t, "loop")
  /\ queue[cur[t]] = <<>>
  /\ in_global' = [in_global EXCEPT ![cur[t]] = FlagAfterPop(cur[t])]
  /\ Calls(t, TurnEnd(cur[t]))
  /\ cur' = [cur EXCEPT ![t] = NoService]
  /\ Goto(t, "pop")
  /\ UNCHANGED <<ctxVars, mqueue, queue, release, globalmq, new, left, sends, hostVars>>

\* skynet_mq_length, under a lock of its own
ReadLength(t) ==
  /\ At(t, "length")
  /\ left' = [left EXCEPT ![t] = MessagesLeft(t)]
  /\ Goto(t, "callback")
  /\ UNCHANGED <<ctxVars, mqVars, cur, new, call, sends, hostVars>>

\* ctx->cb returns and the loop goes on or ends
CallbackReturn(t) ==
  /\ At(t, "callback")
  /\ Goto(t, IF left[t] > 0 THEN "loop" ELSE "tail")
  /\ UNCHANGED <<ctxVars, mqVars, cur, new, left, call, sends, hostVars>>

\* nq = skynet_globalmq_pop(); without one, q is dispatched again
TakeNext(t) ==
  /\ At(t, "tail")
  /\ IF globalmq = <<>>
       THEN /\ Calls(t, TurnEnd(cur[t]))
            /\ Goto(t, "grab")
            /\ UNCHANGED <<globalmq, new>>
       ELSE /\ new' = [new EXCEPT ![t] = Head(globalmq)]
            /\ globalmq' = Tail(globalmq)
            /\ Goto(t, "requeue")
            /\ UNCHANGED call
  /\ UNCHANGED <<ctxVars, mqueue, queue, in_global, release, cur, left, sends, hostVars>>

\* skynet_globalmq_push(q); q = nq; skynet_context_release(ctx)
Requeue(t) ==
  /\ At(t, "requeue")
  /\ globalmq' = PutBack(cur[t])
  /\ Calls(t, TurnEnd(cur[t]))
  /\ cur' = [cur EXCEPT ![t] = new[t]]
  /\ new' = [new EXCEPT ![t] = NoService]
  /\ Goto(t, "grab")
  /\ UNCHANGED <<ctxVars, mqueue, queue, in_global, release, left, sends, hostVars>>

(***************************************************************************)
(* skynet_mq_release, reached from a dispatch whose handle is retired and  *)
(* from a failed launch.                                                   *)
(***************************************************************************)
Resume(t) == IF cur[t] = NoService THEN "pop" ELSE "callback"

MqRelease(t) ==
  /\ At(t, "mqrelease")
  /\ IF MayRelease(new[t])
       THEN /\ Goto(t, "drop")
            /\ UNCHANGED <<globalmq, new>>
       ELSE /\ globalmq' = Append(globalmq, new[t])
            /\ new' = [new EXCEPT ![t] = NoService]
            /\ Goto(t, Resume(t))
  /\ UNCHANGED <<ctxVars, mqueue, queue, in_global, release, cur, left, call, sends, hostVars>>

\* _drop_queue: drop_message reports PTYPE_ERROR to the sender of each
DropMessage(t) ==
  /\ At(t, "drop")
  /\ queue[new[t]] # <<>>
  /\ queue' = [queue EXCEPT ![new[t]] = Tail(@)]
  /\ in_global' = [in_global EXCEPT ![new[t]] = FlagAfterPop(new[t])]
  /\ LET m == Head(queue[new[t]])
     IN  Calls(t, IF m = NoService THEN Idle ELSE PushTo(m, new[t]))
  /\ UNCHANGED <<ctxVars, mqueue, release, globalmq, pc, cur, new, left, sends, hostVars>>

\* _drop_queue: the queue is empty, _release frees it
DropQueue(t) ==
  /\ At(t, "drop")
  /\ queue[new[t]] = <<>>
  /\ in_global' = [in_global EXCEPT ![new[t]] = FlagAfterPop(new[t])]
  /\ mqueue' = [mqueue EXCEPT ![new[t]] = "freed"]
  /\ new' = [new EXCEPT ![t] = NoService]
  /\ Goto(t, Resume(t))
  /\ UNCHANGED <<ctxVars, queue, release, globalmq, cur, left, call, sends, hostVars>>

(***************************************************************************)
(* What a service does inside its callback, or a new one inside its init   *)
(* function: send, kill (EXIT, KILL, and ABORT one handle at a time) and   *)
(* launch.                                                                 *)
(***************************************************************************)
Self(t) == IF pc[t] = "init" THEN new[t] ELSE cur[t]

Send(t, d) ==
  /\ At(t, "callback") \/ At(t, "init")
  /\ mqueue[d] # "none"
  /\ sends < MaxSends
  /\ sends' = sends + 1
  /\ Calls(t, PushTo(d, Self(t)))
  /\ UNCHANGED <<ctxVars, mqVars, pc, cur, new, left, hostVars>>

\* handle_exit: skynet_handle_retire unregisters under the write lock
Kill(t, d) ==
  /\ At(t, "callback") \/ At(t, "init")
  /\ Registered(d)
  /\ slot' = slot \ {d}
  /\ Calls(t, CallTo("release", d))
  /\ UNCHANGED <<context, ref, init, total, mqVars, pc, cur, new, left, sends, hostVars>>

\* skynet_context_new up to skynet_handle_register
Launch(t, s) ==
  /\ At(t, "callback")
  /\ context[s] = "none"
  /\ context' = [context EXCEPT ![s] = "live"]
  /\ ref' = [ref EXCEPT ![s] = LaunchRefs]
  /\ slot' = slot \cup {s}
  /\ new' = [new EXCEPT ![t] = s]
  /\ Goto(t, "create")
  /\ UNCHANGED <<init, total, mqVars, cur, left, call, sends, hostVars>>

\* skynet_mq_create, context_inc
LaunchCreate(t) ==
  /\ At(t, "create")
  /\ mqueue' = [mqueue EXCEPT ![new[t]] = "live"]
  /\ in_global' = [in_global EXCEPT ![new[t]] = CreatedInGlobal]
  /\ total' = TotalAtCreate
  /\ Goto(t, "init")
  /\ UNCHANGED <<slot, context, ref, init, queue, release, globalmq, cur, new, left, call, sends, hostVars>>

\* skynet_context_reserve, in the init function of the harbor service (harbor_init):
\* one more reference, REMOTE, and the context does not count any more.  The launch still
\* has its own reference, so nothing can tell the two atomic operations apart
Reserve(t) ==
  /\ At(t, "init")
  /\ new[t] \in Harbor /\ remote = NoService
  /\ ref' = [ref EXCEPT ![new[t]] = RefAfterGrab(new[t])]
  /\ total' = total - 1
  /\ remote' = new[t]
  /\ UNCHANGED <<slot, context, init, mqVars, threadVars, sends, quit, late, exited>>

\* the init function returned 0: skynet_context_release(ctx)
LaunchSucceed(t) ==
  /\ At(t, "init")
  /\ ref' = [ref EXCEPT ![new[t]] = @ - 1]
  /\ Calls(t, DropRef(new[t]))
  /\ Goto(t, IF ref[new[t]] = 1 THEN "publishdead" ELSE "publish")
  /\ UNCHANGED <<slot, context, init, total, mqVars, cur, new, left, sends, hostVars>>

\* ctx->init = true unless the release freed it; skynet_globalmq_push(queue)
LaunchPublish(t) ==
  /\ At(t, "publish") \/ At(t, "publishdead")
  /\ init' = [init EXCEPT ![new[t]] = @ \/ pc[t] = "publish"]
  /\ globalmq' = Append(globalmq, new[t])
  /\ new' = [new EXCEPT ![t] = NoService]
  /\ Goto(t, "callback")
  /\ UNCHANGED <<slot, context, ref, total, mqueue, queue, in_global, release, cur, left, call, sends, hostVars>>

\* the init function failed, which harbor_init does not once the context is reserved:
\* skynet_context_release(ctx) ...
LaunchFail(t) ==
  /\ At(t, "init")
  /\ new[t] # remote
  /\ ref' = [ref EXCEPT ![new[t]] = @ - 1]
  /\ Calls(t, DropRef(new[t]))
  /\ Goto(t, "retire")
  /\ UNCHANGED <<slot, context, init, total, mqVars, cur, new, left, sends, hostVars>>

\* ... then skynet_handle_retire(handle), then skynet_mq_release(queue)
LaunchRetire(t) ==
  /\ At(t, "retire")
  /\ slot' = slot \ {new[t]}
  /\ Calls(t, IF Registered(new[t]) THEN CallTo("release", new[t]) ELSE Idle)
  /\ Goto(t, "mqrelease")
  /\ UNCHANGED <<context, ref, init, total, mqVars, cur, new, left, sends, hostVars>>

\* skynet_context_push from the timer or the socket thread
PushFromOutside(t, d) ==
  /\ At(t, "outside") /\ ~ exited
  /\ mqueue[d] # "none"
  /\ sends < MaxSends
  /\ sends' = sends + 1
  /\ Calls(t, PushTo(d, NoService))
  /\ UNCHANGED <<ctxVars, mqVars, pc, cur, new, left, hostVars>>

(***************************************************************************)
(* The end of the process.                                                 *)
(***************************************************************************)
\* CHECK_ABORT in thread_timer
Abort ==
  /\ total = 0 /\ quit = "unset"
  /\ quit' = "due"
  /\ UNCHANGED <<ctxVars, mqVars, threadVars, sends, remote, late, exited>>

\* m->quit = 1.  A worker outside a dispatch may have read it just before.
Quit ==
  /\ quit = "due"
  /\ quit' = "set"
  /\ late' \in SUBSET {t \in Worker : At(t, "pop") \/ At(t, "grab")}
  /\ UNCHANGED <<ctxVars, mqVars, threadVars, sends, remote, exited>>

\* A late worker finds the global queue empty, and then quit set.
PopNone(t) ==
  /\ At(t, "pop") /\ globalmq = <<>>
  /\ t \in late
  /\ late' = late \ {t}
  /\ UNCHANGED <<ctxVars, mqVars, threadVars, sends, remote, quit, exited>>

\* The loop of thread_worker is over; a queue it holds is left where it is.
Ended(t) == quit = "set" /\ t \notin late /\ (At(t, "pop") \/ At(t, "grab"))

\* skynet_harbor_exit, when start() has joined all threads: it gives REMOTE back, and if
\* that was the last reference the context is deleted by the main thread alone
HarborExit ==
  /\ quit = "set" /\ ~ exited
  /\ \A t \in Worker : Ended(t)
  /\ \A t \in Outside : At(t, "outside")
  /\ exited' = TRUE
  /\ IF remote = NoService
       THEN UNCHANGED <<ctxVars, mqVars>>
       ELSE /\ ref' = [ref EXCEPT ![remote] = @ - 1]
            /\ IF ref[remote] = 1
                 THEN /\ release' = [release EXCEPT ![remote] = TRUE]
                      /\ globalmq' = Enlist(remote)
                      /\ context' = [context EXCEPT ![remote] = "freed"]
                      /\ total' = total - 1
                 ELSE UNCHANGED <<release, globalmq, context, total>>
            /\ UNCHANGED <<slot, init, mqueue, queue, in_global>>
  /\ UNCHANGED <<threadVars, sends, remote, quit, late>>

\* Every worker sleeps on the condition variable and nothing is pending, or the process
\* has come to its end.
Sleeping ==
  /\ \/ exited
     \/ /\ globalmq = <<>>
        /\ \A t \in Worker : At(t, "pop")
        /\ \A t \in Outside : At(t, "outside")
  /\ UNCHANGED vars

CallStep(t) == Grab(t) \/ Push(t) \/ Release(t) \/ MarkRelease(t) \/ Free(t)

DispatchStep(t) ==
  \/ Pop(t) \/ DispatchGrab(t) \/ PopMessage(t) \/ PopEmpty(t) \/ ReadLength(t)
  \/ CallbackReturn(t) \/ TakeNext(t) \/ Requeue(t)
  \/ MqRelease(t) \/ DropMessage(t) \/ DropQueue(t)

LaunchStep(t) ==
  \/ LaunchCreate(t) \/ Reserve(t) \/ LaunchSucceed(t) \/ LaunchPublish(t)
  \/ LaunchFail(t) \/ LaunchRetire(t)

ServiceStep(t) ==
  \E d \in Service : Send(t, d) \/ Kill(t, d) \/ Launch(t, d)

Next ==
  \/ \E t \in Thread : CallStep(t)
  \/ \E t \in Worker : DispatchStep(t) \/ LaunchStep(t) \/ ServiceStep(t)
  \/ \E t \in Outside, d \in Service : PushFromOutside(t, d)
  \/ Abort \/ Quit \/ (\E t \in Worker : PopNone(t)) \/ HarborExit
  \/ Sleeping

Spec == Init /\ [][Next]_vars

\* The operating system runs every thread and every callback returns; what
\* a callback sends, kills or launches is up to the service.
Fairness ==
  /\ \A t \in Thread : WF_vars(CallStep(t))
  /\ \A t \in Worker : WF_vars(DispatchStep(t)) /\ WF_vars(LaunchStep(t))

FairSpec == Spec /\ Fairness

(***************************************************************************)
(* Properties                                                              *)
(***************************************************************************)
Memory == {"none", "live", "freed"}
Point  == {"pop", "grab", "first", "loop", "length", "callback", "tail",
           "requeue", "mqrelease", "drop", "create", "init", "publish",
           "publishdead", "retire", "outside"}
CallOp == {"idle", "grab", "push", "release", "mark", "free"}

\* The type of every variable: reference counts never go below zero, the global queue
\* holds no NULL.  (The total does, when the reserved context is deleted at the end.)
TypeOK ==
  /\ slot \subseteq Service
  /\ context \in [Service -> Memory]
  /\ ref \in [Service -> Nat]
  /\ init \in [Service -> BOOLEAN]
  /\ mqueue \in [Service -> Memory]
  /\ queue \in [Service -> Seq(Handle)]
  /\ in_global \in [Service -> BOOLEAN]
  /\ release \in [Service -> BOOLEAN]
  /\ globalmq \in Seq(Service)
  /\ total \in Int
  /\ pc \in [Thread -> Point]
  /\ cur \in [Thread -> Handle]
  /\ new \in [Thread -> Handle]
  /\ left \in [Thread -> Nat]
  /\ call \in [Thread -> [op : CallOp, ctx : Handle, source : Handle]]
  /\ sends \in 0..MaxSends
  /\ remote \in Handle
  /\ quit \in {"unset", "due", "set"}
  /\ late \subseteq Worker
  /\ exited \in BOOLEAN

\* The queues only thread t may touch: popped from the global queue, or of
\* a service it is launching.
Owns(t) == {cur[t], new[t]} \ {NoService}
Listed == {globalmq[i] : i \in DOMAIN globalmq}

\* REMOTE refers to its context until skynet_harbor_exit.
Reserved(s) == s = remote /\ ~ exited

\* The threads that hold a reference to a context while they push to it,
\* dispatch its messages or launch it.
Callers(s) == {t \in Thread : call[t].ctx = s /\ call[t].op \in {"push", "release"}}
Dispatchers(s) == {t \in Thread : cur[t] = s /\ pc[t] # "grab"}
Launchers(s) == {t \in Thread : new[t] = s /\ pc[t] \in {"create", "init"}}

\* ctx->ref is exactly the number of references, the one of the handle table
\* and REMOTE included, whatever order threads grab, release, retire and launch in
\* (skynet_handle_grab, skynet_context_release, skynet_handle_retire,
\* skynet_context_reserve).
RefCountExact ==
  \A s \in Service : ref[s] =
    (IF s \in slot THEN 1 ELSE 0) + (IF Reserved(s) THEN 1 ELSE 0)
      + Cardinality(Callers(s)) + Cardinality(Dispatchers(s)) + Cardinality(Launchers(s))

\* No thread reaches a freed context through a reference it counts on, and one
\* thread alone deletes a context, after the last reference is gone
\* (skynet_context_release, delete_context).
NoUseAfterFree ==
  \A s \in Service :
    /\ s \in slot \/ Reserved(s) \/ Callers(s) \cup Dispatchers(s) \cup Launchers(s) # {}
         => context[s] = "live"
    /\ \A t, u \in Thread :
         /\ call[t].op \in {"mark", "free"} /\ call[t].ctx = s
         /\ call[u].op \in {"mark", "free"} /\ call[u].ctx = s
         => t = u /\ ref[s] = 0 /\ context[s] = "live"

\* At any time at most one thread handles a queue, and then it is not in the
\* global queue; nor is any queue there twice (assert(queue->next == NULL) in
\* skynet_globalmq_push; the CHECKCALLING assertions of skynet_server.c: a
\* callback never runs in two threads).
OneDispatcher ==
  /\ \A t, u \in Thread : Owns(t) \cap Owns(u) # {} => t = u
  /\ \A t \in Thread : cur[t] = new[t] => cur[t] = NoService
  /\ \A t \in Thread : Owns(t) \cap Listed = {}
  /\ \A i, j \in DOMAIN globalmq : globalmq[i] = globalmq[j] => i = j

\* A queue with messages to dispatch, or whose context is gone, is in the
\* global queue or in the hands of a thread: in_global and release never
\* leave it where no worker finds it.
NoStrandedQueue ==
  \A s \in Service :
    mqueue[s] = "live" /\ (queue[s] # <<>> \/ release[s]) =>
      s \in Listed \/ \E t \in Thread : s \in Owns(t)

\* Nobody can reach the memory of a freed queue, and no message was lost in
\* it: a thread between skynet_handle_grab and skynet_mq_push keeps it alive.
FreedQueueUnreachable ==
  \A s \in Service : mqueue[s] = "freed" =>
    /\ queue[s] = <<>>
    /\ ref[s] = 0
    /\ s \notin Listed
    /\ \A t \in Thread :
         s \notin Owns(t) /\ ~ (call[t].ctx = s /\ call[t].op \in {"push", "mark"})

\* assert(ctx->init) in dispatch_message: no message is dispatched to a
\* service before its init function has returned with success.
InitBeforeDispatch ==
  \A t \in Thread : pc[t] \in {"first", "loop", "length", "callback"} => init[cur[t]]

\* A turn never asks for more messages than its queue holds, although other
\* threads push between skynet_mq_length and the pops: a turn ends at "tail"
\* and gives the queue back, except when its first pop finds nothing.
TurnFitsQueue ==
  \A t \in Worker : pc[t] \in {"loop", "callback"} => left[t] <= Len(queue[cur[t]])

\* CHECK_ABORT: skynet_context_total() is 0 while a thread is left to see it, and the
\* threads stop, only when every context is gone but the reserved one and what that one
\* is about to create, and no worker is inside a launch or a callback of another.
AbortOnlyWhenAllGone ==
  total = 0 /\ ~ exited =>
    /\ \A s \in Service : context[s] = "live" =>
         s = remote \/ \E t \in Worker : cur[t] = remote /\ new[t] = s /\ pc[t] = "create"
    /\ \A t \in Worker :
         pc[t] # "init" /\ (pc[t] \in {"callback", "create"} => cur[t] = remote)

\* A message is answered or dropped with an error, never forgotten: a queue with messages
\* is emptied again, unless the workers stop before; the queue of the reserved context,
\* once that one is retired, keeps its messages as long as REMOTE is held.
EveryQueueDrains ==
  \A s \in Service :
    queue[s] # <<>> ~> queue[s] = <<>> \/ quit = "set" \/ (s = remote /\ s \notin slot)

\* A context that was unregistered is deleted and its queue is freed, unless the workers
\* stop before or it is the reserved one, which is kept to the end.
RetiredIsReclaimed ==
  \A s \in Service :
    context[s] = "live" /\ s \notin slot ~>
      (context[s] = "freed" /\ mqueue[s] = "freed") \/ quit = "set" \/ s = remote

=============================================================================
