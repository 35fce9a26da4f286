----------------------------- MODULE LuaService -----------------------------
(* What lualib/skynet.lua makes of a service: its messages are answered by       *)
(* coroutines that call other services, sleep, wake each other, fork, answer at   *)
(* once or with a closure, raise errors and end the service, and that take turns  *)
(* in a critical section (lualib/skynet/queue.lua).                               *)
(*                                                                             *)
(* One coroutine of a service runs at a time, until it yields; what its program   *)
(* does next is any operation the service may use (May).  When it yields, the     *)
(* same message goes on with the coroutines that were woken, that have an error   *)
(* to be told, and that were forked (suspend, dispatch_message), and only then    *)
(* is the next one taken.  Services share nothing but their message queues.       *)
(*                                                                             *)
(* A service that ends (skynet.exit) does not stop at once: the calls of suspend   *)
(* around the coroutine that ends it go on with the errors that are to be told,    *)
(* and its worker goes on with the messages of the batch it has begun.             *)
(*                                                                             *)
(* A program answers every request, or fails or exits, and leaves the section it   *)
(* enters.  Messages that nobody waits for, tags, and the redirection of messages  *)
(* are left out.                                                                 *)
EXTENDS Integers, SequencesExt

CONSTANTS
    Services,
    Cos,      \* bound: the coroutines a service has at a time
    May,      \* the operations the coroutines of each service use
    Calls,    \* the services each service calls
    Named,    \* those that are called by a name, not by their handle
    MaxOps,   \* bound: operations that take a session, fork or wake, of each service
    MaxCalls, \* bound: its calls
    Spent,    \* what each service has spent of both at the start: one of these
    None, Break,
    Gone      \* a coroutine that an error ended, where it is still named

ASSUME NamesAssumption ==
    /\ {None, Break, Gone} \cap (Services \cup Cos) = {}
    /\ None # Break /\ Gone \notin {None, Break} /\ None \notin Int
ASSUME CosAssumption == IsFiniteSet(Cos) /\ Cardinality(Cos) > 1
ASSUME CallsAssumption == \A s \in Services : Calls[s] \subseteq Services \ {s}
ASSUME NamedAssumption == Named \subseteq Services
ASSUME MaxOpsAssumption == \A s \in Services : MaxOps[s] \in Nat /\ MaxCalls[s] \in Nat
ASSUME SpentAssumption == \A spent \in Spent, s \in Services : spent[s].ops \in 0..MaxOps[s] /\ spent[s].calls \in Nat

VARIABLES
    sv,      \* the state of each service
    box,     \* its message queue
    alive,   \* the services that have not exited
    timers,  \* the timeouts on their way
    late     \* the services that went on after their exit (history)
vars == <<sv, box, alive, timers, late>>

\* The bound on a section entered again by the coroutine that is in it
MaxDepth == 2

Sessions(s) == 1..2 * MaxOps[s] + 1

\* skynet.start: the first coroutine waits for a timeout of 0, whose session is 1
Init ==
    LET first == CHOOSE c \in Cos : TRUE IN
    /\ \E spent \in Spent : sv = [s \in Services |->
         [run |-> None,                                       \* the running coroutine
          pc |-> [c \in Cos |-> IF c = first THEN "new" ELSE "free"],
          pool |-> SetToSeq(Cos \ {first}),                   \* coroutine_pool, and what is not created
          id |-> [c \in Cos |-> None],                        \* session_coroutine_id
          address |-> [c \in Cos |-> None],                   \* session_coroutine_address
          waits |-> [n \in Sessions(s) |-> IF n = 1 THEN first ELSE None], \* session_id_coroutine
          watchSession |-> [n \in Sessions(s) |-> None],      \* watching_session
          watchService |-> [t \in Services |-> 0],            \* watching_service, 0 for nil
          dead |-> {},                                        \* dead_service
          sleeps |-> [c \in Cos |-> None],                    \* sleep_session
          wakeups |-> <<>>, errors |-> <<>>, forks |-> <<>>,  \* wakeup_queue, error_queue, fork_queue
          frames |-> 0,                                       \* calls of dispatch_wakeup that wait
          rest |-> 0,                 \* after its exit: the messages left of the batch
          unresponse |-> {},
          session |-> 1, ops |-> spent[s].ops, calls |-> spent[s].calls,
          current |-> None, ref |-> 0, threads |-> <<>>,      \* the critical section
          depth |-> [c \in Cos |-> 0],                       \* how deep each coroutine is in it
          unknown |-> FALSE,                                  \* a session nobody waits for was used
          stale |-> [t \in Services |-> 0],    \* forks begun with the address of an old request (history)
          disturbed |-> FALSE]]       \* one that queues, or is woken already, was woken (history)
    /\ box = [s \in Services |-> <<[type |-> "response", session |-> 1, source |-> s]>>]
    /\ alive = Services
    /\ timers = {} /\ late = {}

-----------------------------------------------------------------------------
(* Operators on the state x of a service *)

Message(type, session, source) == [type |-> type, session |-> session, source |-> source]

\* What send makes of the queues: nothing goes to a service that has exited
Sent(t, m) == IF t \in alive THEN [box EXCEPT ![t] = Append(@, m)] ELSE box

Resume(x, c) ==
    [x EXCEPT !.run = c, !.sleeps[c] = None,
              !.pc[c] = CASE @ = "queue" -> "entering" [] @ = "noop" -> "noop" [] OTHER -> "run"]

\* The loop over fork_queue at the end of dispatch_message; after it the service is idle
Forks(x) ==
    IF x.forks = <<>> THEN [x EXCEPT !.run = None, !.frames = 0]
    ELSE Resume([x EXCEPT !.forks = Tail(@), !.frames = 0], Head(x.forks))

\* dispatch_error_queue
Errors(x) ==
    IF x.errors = <<>> THEN Forks(x)
    ELSE LET n == Head(x.errors)
             y == [x EXCEPT !.errors = Tail(@), !.waits[n] = None, !.watchSession[n] = None]
         IN IF x.waits[n] \in Cos THEN Resume(y, x.waits[n]) ELSE Forks([y EXCEPT !.unknown = TRUE])

MutWoken(x, c) == None
\* The session of a coroutine that is woken waits for its timeout; that of skynet.wait
\* is forgotten
Woken(x, c) == IF x.pc[c] = "queue" THEN None ELSE Break

\* sleep_session has an entry for a token
Asleep(x, c) == c \in Cos /\ x.sleeps[c] # None

\* "SUSPEND": dispatch_wakeup, which takes one token, and then dispatch_error_queue
Suspend(x) ==
    IF x.wakeups = <<>> THEN Errors(x)
    ELSE LET c == Head(x.wakeups)
             y == [x EXCEPT !.wakeups = Tail(@)]
         IN IF ~Asleep(x, c) THEN Errors(y)
            ELSE Resume([y EXCEPT !.waits[x.sleeps[c]] = Woken(x, c), !.frames = @ + 1], c)

\* co_create, with the coroutine that was recycled last
Created(x, pc) == [x EXCEPT !.pool = Front(@), !.pc[Last(x.pool)] = pc]

\* The bound on coroutines leaves one for an error
Spare(x) == Len(x.pool) > 1

\* skynet.fork: a coroutine that was recycled starts with the address it had
Forking(x, pc) ==
    LET c == Last(x.pool)  y == [Created(x, pc) EXCEPT !.forks = Append(@, c)] IN
    IF x.address[c] = None THEN y ELSE [y EXCEPT !.stale[x.address[c]] = @ + 1]

MutWatched(x, t) == [x EXCEPT !.watchService[t] = 1]
\* A message of a service takes a reference to it, release_watching gives it back
Watched(x, t) == [x EXCEPT !.watchService[t] = @ + 1]
Release(x, t) == [x EXCEPT !.watchService[t] = IF @ > 0 THEN @ - 1 ELSE 0]

\* The end of a coroutine: its address is still known when it is used again
Recycled(x, c) ==
    LET y == [x EXCEPT !.pool = Append(@, c), !.pc[c] = "free", !.id[c] = None]
    IN IF x.address[c] = None THEN y ELSE Release(y, x.address[c])

MutLeft(x, c) ==
    LET next == IF x.threads = <<>> THEN None ELSE Head(x.threads) IN
    [x EXCEPT !.ref = @ - 1, !.depth[c] = @ - 1, !.current = next,
              !.threads = IF @ = <<>> THEN @ ELSE Tail(@),
              !.wakeups = IF Asleep(x, next) THEN Append(@, next) ELSE @]
\* xpcall_ret: when c is out of the section, the next in the queue takes it and is woken
Left(x, c) ==
    LET next == IF x.threads = <<>> THEN None ELSE Head(x.threads)
        y == [x EXCEPT !.ref = @ - 1, !.depth[c] = @ - 1]
    IN IF x.ref > 1 THEN y
       ELSE [y EXCEPT !.current = next,
                      !.threads = IF @ = <<>> THEN @ ELSE Tail(@),
                      !.wakeups = IF Asleep(x, next) THEN Append(@, next) ELSE @]

MutUnwound(x, c) == x
\* An error passes through the calls of xpcall in the section
Unwound(x, c) == IF x.depth[c] = 0 THEN x ELSE Left([x EXCEPT !.ref = 1, !.depth[c] = 1], c)

\* A coroutine that an error has ended stays in the queues; what has its name from now on
\* is a new one
Dead(x, c) ==
    LET Marked(q) == [i \in DOMAIN q |-> IF q[i] = c THEN Gone ELSE q[i]] IN
    [x EXCEPT !.wakeups = Marked(@), !.threads = Marked(@), !.current = IF @ = c THEN Gone ELSE @,
              !.id[c] = None, !.address[c] = None, !.pc[c] = "free", !.pool = <<c>> \o @]

\* An error that nobody catches leaves the section, ends the coroutine and unwinds the
\* dispatch of the message; a fork that does nothing makes suspend look at the queues
Raised(x, c) == Forks(Forking(Dead(Unwound(x, c), c), "noop"))

\* suspend tells the caller
Raise(s, c, x) ==
    /\ sv' = [sv EXCEPT ![s] = Raised(x, c)]
    /\ box' = IF x.id[c] = None THEN box ELSE Sent(x.address[c], Message("error", x.id[c], s))

-----------------------------------------------------------------------------
(* Operations of a running coroutine c of the service s *)

Does(s, c, op) ==
    /\ sv[s].run = c /\ sv[s].pc[c] = "run"
    /\ op \in May[s]

\* An operation that the bounds count
Counts(s, c, op) == Does(s, c, op) /\ sv[s].ops < MaxOps[s]

Counted(s) == [sv[s] EXCEPT !.ops = @ + 1]

\* skynet.call and yield_call
Call(s, c, t) ==
    /\ Counts(s, c, "call") /\ t \in Calls[s] /\ sv[s].calls < MaxCalls[s]
    /\ LET n == sv[s].session + 1  x == [Counted(s) EXCEPT !.calls = @ + 1] IN
         IF t \notin alive THEN Raise(s, c, x)
         ELSE /\ sv' = [sv EXCEPT ![s] = Suspend([x EXCEPT !.session = n, !.waits[n] = c,
                                                    !.watchSession[n] = t, !.pc[c] = "call"])]
              /\ box' = Sent(t, Message("request", n, s))
    /\ UNCHANGED <<alive, timers>>

Sleep(s, c) ==
    /\ Counts(s, c, "sleep")
    /\ LET n == sv[s].session + 1 IN
         /\ sv' = [sv EXCEPT ![s] = Suspend([Counted(s) EXCEPT !.session = n, !.waits[n] = c,
                                               !.sleeps[c] = n, !.pc[c] = "sleep"])]
         /\ timers' = timers \cup {<<s, n>>}
    /\ UNCHANGED <<box, alive>>

\* The token is any coroutine that sleeps, or waits for the section
Wakeup(s, c, d) ==
    /\ Counts(s, c, "wakeup") /\ Asleep(sv[s], d)
    /\ sv' = [sv EXCEPT ![s] = [Counted(s) EXCEPT !.wakeups = Append(@, d),
                 !.disturbed = @ \/ sv[s].pc[d] = "queue" \/ Contains(sv[s].wakeups, d)]]
    /\ UNCHANGED <<box, alive, timers>>

Fork(s, c) ==
    /\ Counts(s, c, "fork") /\ Spare(sv[s])
    /\ sv' = [sv EXCEPT ![s] = Forking(Counted(s), "new")]
    /\ UNCHANGED <<box, alive, timers>>

\* skynet.ret; what is too large to be sent is answered with an error
Ret(s, c, type) ==
    /\ Does(s, c, "ret") /\ sv[s].id[c] # None
    /\ LET x == sv[s] IN
         /\ sv' = [sv EXCEPT ![s].id[c] = None]
         /\ box' = IF x.address[c] \in x.dead THEN box ELSE Sent(x.address[c], Message(type, x.id[c], s))
    /\ UNCHANGED <<alive, timers>>

\* skynet.response: the session is taken before watching_service is counted
Response(s, c) ==
    /\ Does(s, c, "response") /\ sv[s].id[c] # None
    /\ LET x == [sv[s] EXCEPT !.id[c] = None]  t == x.address[c] IN
         IF x.watchService[t] = 0 THEN Raise(s, c, x)
         ELSE /\ sv' = [sv EXCEPT ![s] = [x EXCEPT !.watchService[t] = @ + 1,
                          !.unresponse = @ \cup {[session |-> sv[s].id[c], address |-> t]}]]
              /\ UNCHANGED box
    /\ UNCHANGED <<alive, timers>>

\* The closure it returns is called, with true or false
Respond(s, c, r, type) ==
    /\ Does(s, c, "response") /\ r \in sv[s].unresponse
    /\ sv' = [sv EXCEPT ![s] = Release([sv[s] EXCEPT !.unresponse = @ \ {r}], r.address)]
    /\ box' = IF r.address \in sv[s].dead THEN box ELSE Sent(r.address, Message(type, r.session, s))
    /\ UNCHANGED <<alive, timers>>

Fail(s, c) ==
    /\ Does(s, c, "raise")
    /\ Raise(s, c, sv[s])
    /\ UNCHANGED <<alive, timers>>

End(s, c) ==
    /\ sv[s].run = c /\ sv[s].pc[c] \in {"run", "noop"}
    /\ sv[s].depth[c] = 0 /\ sv[s].id[c] = None
    /\ sv' = [sv EXCEPT ![s] = Suspend(Recycled(@, c))]
    /\ UNCHANGED <<box, alive, timers>>

\* The critical section: it is taken, or waited for ...
Enter(s, c) ==
    /\ Counts(s, c, "section") /\ sv[s].depth[c] < MaxDepth
    /\ LET x == Counted(s)  n == x.session + 1 IN
         sv' = [sv EXCEPT ![s] =
             IF x.current \notin {None, c}
             THEN Suspend([x EXCEPT !.threads = Append(@, c), !.session = n, !.waits[n] = c,
                                    !.sleeps[c] = n, !.pc[c] = "queue"])
             ELSE [x EXCEPT !.current = c, !.ref = @ + 1, !.depth[c] = @ + 1]]
    /\ UNCHANGED <<box, alive, timers>>

\* ... and is free when skynet.wait returns
Entered(s, c) ==
    /\ sv[s].run = c /\ sv[s].pc[c] = "entering"
    /\ LET x == [sv[s] EXCEPT !.pc[c] = "run"] IN
         IF x.ref # 0 THEN Raise(s, c, x)
         ELSE /\ sv' = [sv EXCEPT ![s] = [x EXCEPT !.current = c, !.ref = 1, !.depth[c] = 1]]
              /\ UNCHANGED box
    /\ UNCHANGED <<alive, timers>>

Leave(s, c) ==
    /\ Does(s, c, "section") /\ sv[s].depth[c] > 0
    /\ sv' = [sv EXCEPT ![s] = Left(@, c)]
    /\ UNCHANGED <<box, alive, timers>>

MutFarewell(x, s, t) ==
    {Message("error", x.id[c], s) : c \in {d \in Cos : x.id[d] # None /\ x.address[d] = t}}
      \cup {Message("error", 0, s) : n \in {k \in Sessions(s) : x.watchSession[k] = t}}
\* What the end of a service s tells t: the errors of what s has not answered, by their
\* sessions, and that s is down if it waits for t
Farewell(x, s, t) ==
    {Message("error", x.id[c], s) : c \in {d \in Cos : x.id[d] # None /\ x.address[d] = t}}
      \cup {Message("error", r.session, s) : r \in {q \in x.unresponse : q.address = t /\ t \notin x.dead}}
      \cup {Message("error", 0, s) : n \in {k \in Sessions(s) : x.watchSession[k] = t}}

\* skynet.exit: the closures are answered, and c never goes on.  "QUIT" ends the call of
\* suspend that resumed c, not those around it
Exited(x, c) ==
    LET y == [x EXCEPT !.forks = <<>>, !.unresponse = {}, !.pc[c] = "exited",
                !.watchService = [t \in Services |->
                    LET left == @[t] - Cardinality({r \in x.unresponse : r.address = t})
                    IN IF left > 0 THEN left ELSE 0]]
    IN IF x.frames > 0 THEN Errors([y EXCEPT !.frames = @ - 1]) ELSE Forks(y)

\* The messages are sent in some order; the handle is retired once.  A batch has no more
\* than the messages that are there, and never the last of them
Exit(s, c) ==
    /\ Does(s, c, "exit")
    /\ box' = [t \in Services |->
                 IF t \in alive THEN box[t] \o SetToSeq(Farewell(sv[s], s, t)) ELSE box[t]]
    /\ alive' = alive \ {s}
    /\ sv' = [sv EXCEPT ![s] =
          Exited(IF s \in alive /\ box[s] # <<>> THEN [@ EXCEPT !.rest = Len(box[s]) - 1] ELSE @, c)]
    /\ UNCHANGED timers

-----------------------------------------------------------------------------
(* raw_dispatch_message *)

\* Of a service that has exited only what is left of the batch
Take(s, type) ==
    /\ sv[s].run = None /\ box[s] # <<>>
    /\ s \in alive \/ sv[s].rest > 0
    /\ Head(box[s]).type = type
    /\ box' = [box EXCEPT ![s] = Tail(@)]
    /\ UNCHANGED <<alive, timers>>

Taken(x) == [x EXCEPT !.rest = IF @ > 0 THEN @ - 1 ELSE 0]

\* A coroutine is resumed, or was woken before; a session nobody knows is an error
TakeResponse(s) ==
    /\ Take(s, "response")
    /\ LET x == Taken(sv[s])  n == Head(box[s]).session
           y == [x EXCEPT !.waits[n] = None, !.watchSession[n] = None]
       IN sv' = [sv EXCEPT ![s] =
             IF x.waits[n] \in Cos THEN Resume(y, x.waits[n])
             ELSE Forks([y EXCEPT !.unknown = @ \/ x.waits[n] = None])]

TakeRequest(s) ==
    /\ Take(s, "request")
    /\ Spare(sv[s])
    /\ LET x == Taken(sv[s])  m == Head(box[s])  c == Last(x.pool) IN
         sv' = [sv EXCEPT ![s] =
             Resume([Watched(Created(x, "new"), m.source) EXCEPT !.id[c] = m.session,
                                                                 !.address[c] = m.source], c)]

\* _error_dispatch, in a coroutine of its own that ends at once.  A service that is down
\* is looked for by its handle among the addresses that were called
Down(x, t) == {n \in DOMAIN x.watchSession : x.watchSession[n] = t /\ t \notin Named}

Blamed(x, m) ==
    IF m.session # 0
    THEN [x EXCEPT !.errors = IF x.watchSession[m.session] = None THEN @ ELSE Append(@, m.session)]
    ELSE [x EXCEPT !.dead = IF x.watchService[m.source] > 0 THEN @ \cup {m.source} ELSE @,
                   !.errors = @ \o SetToSeq(Down(x, m.source))]

TakeError(s) ==
    /\ Take(s, "error")
    /\ LET x == Taken(sv[s])  m == Head(box[s])  c == Last(x.pool)
           y == [Watched(Created(x, "run"), m.source) EXCEPT !.address[c] = m.source]
       IN sv' = [sv EXCEPT ![s] = Suspend(Recycled(Blamed(y, m), c))]

\* drop_message, when a batch is over: for each message left to a service that has exited
\* its source is told, without the session
Drop(s) ==
    /\ s \notin alive /\ sv[s].run = None /\ box[s] # <<>>
    /\ sv' = [sv EXCEPT ![s].rest = 0]
    /\ LET m == Head(box[s])  left == [box EXCEPT ![s] = Tail(@)] IN
         box' = IF m.source \in alive
                THEN [left EXCEPT ![m.source] = Append(@, Message("error", 0, s))]
                ELSE left
    /\ UNCHANGED <<alive, timers>>

TimeOut(t) ==
    /\ t \in timers
    /\ timers' = timers \ {t}
    /\ box' = Sent(t[1], Message("response", t[2], t[1]))
    /\ UNCHANGED <<sv, alive>>

Running(s, c) ==
    \/ Sleep(s, c) \/ Fork(s, c) \/ Response(s, c) \/ Fail(s, c) \/ End(s, c)
    \/ Enter(s, c) \/ Entered(s, c) \/ Leave(s, c) \/ Exit(s, c)
    \/ \E t \in Services : Call(s, c, t)
    \/ \E d \in Cos : Wakeup(s, c, d)
    \/ \E type \in {"response", "error"} :
         Ret(s, c, type) \/ (\E r \in sv[s].unresponse : Respond(s, c, r, type))

Service(s) ==
    \/ /\ TakeResponse(s) \/ TakeRequest(s) \/ TakeError(s) \/ (\E c \in Cos : Running(s, c))
       /\ late' = IF s \in alive THEN late ELSE late \cup {s}
    \/ Drop(s) /\ UNCHANGED late

Next == (\E s \in Services : Service(s)) \/ (\E t \in timers : TimeOut(t) /\ UNCHANGED late)

(* A service with messages is given to a worker, and a timeout comes.            *)
Fairness ==
    /\ \A s \in Services : WF_vars(Service(s))
    /\ WF_vars(\E t \in timers : TimeOut(t) /\ UNCHANGED late)

Spec == Init /\ [][Next]_vars /\ Fairness

-----------------------------------------------------------------------------
(* Properties *)

\* Whatever wakes, times out, answers or fails first, a session is used by the one
\* coroutine that waits for it, and once ("Unknown session" is never raised)
SessionsAreKnown == \A s \in Services : ~sv[s].unknown

\* A call returns, with an answer or an error, though the service it went to fails, or
\* exits before, while or after it takes it.  Excused are a service that keeps the closure
\* of skynet.response, and one where a fork has taken a count of the caller's address: there
\* skynet.response may fail when it has the session.  The operations are bounded, so all the
\* calls of a service return in the end
Held(s, n) == \E t \in Services : [session |-> n, address |-> s] \in sv[t].unresponse
Miscounted(s) == \E t \in Services : sv[t].stale[s] > 0
Unanswered(s) == {n \in Sessions(s) : sv[s].watchSession[n] # None /\ ~Held(s, n)}
EveryCallIsAnswered == \A s \in Services : []<>(s \notin alive \/ Unanswered(s) = {})
EveryCallReturns == \A s \in Services : []<>(s \notin alive \/ Unanswered(s) = {} \/ Miscounted(s))

\* watching_service counts the coroutines that have not ended and have the address of a
\* service, and the closures for it, but for those that a fork began with the address of
\* an earlier request: a request that was answered, failed, or became a closure keeps the
\* count of the others
WatchingCovers ==
    \A s \in alive, t \in Services :
        sv[s].watchService[t] + sv[s].stale[t]
            >= Cardinality({c \in Cos : sv[s].pc[c] # "free" /\ sv[s].address[c] = t})
                 + Cardinality({r \in sv[s].unresponse : r.address = t})

\* One coroutine is in the critical section, whatever the others are woken by
SectionIsExclusive == \A s \in Services : Cardinality({c \in Cos : sv[s].depth[c] > 0}) <= 1

\* A coroutine that waits for the critical section gets it, unless a call in it is not
\* answered, as above, or the service woke one that waits for the section
SectionIsEntered ==
    \A s \in Services :
        []<>(\/ s \notin alive \/ sv[s].disturbed \/ (\A c \in Cos : sv[s].pc[c] # "queue")
             \/ Miscounted(s) \/ \E n \in Sessions(s) : Held(s, n))

\* The assertion after skynet.wait in skynet.queue
AssertionHolds ==
    \A s \in Services, c \in Cos : sv[s].run = c /\ sv[s].pc[c] = "entering" => sv[s].ref = 0
=============================================================================
