# Verification of the skynet core and of ykserver

The repository is a game server, `ykserver` (Lua), on the skynet framework
(C, under `src/Server/skynet`). Skynet runs thousands of *services* on a few
worker threads: each service has a context, a handle and a message queue, and
a worker takes one queue at a time, dispatches some of its messages and gives
it back. Everything above rests on the promises of that core: a service is run
by one thread at a time, a message sent to a live service is dispatched, no
thread touches a context or a queue that was freed, a timer fires on its tick.
The application on top has a websocket gate, logins, and a database service that
keeps users in redis and backs them up to mysql. This directory states what each
of these parts promises in TLA+, checks it with TLC on small instances and proves
some of it with TLAPS for every instance.

Paths below are relative to `src/Server/`.

## 1. Inventory

### Skynet core (`skynet/src/skynet-src`)

| part | state | operations | hard behaviour |
|---|---|---|---|
| Service scheduler: `skynet_server.c`, `skynet_start.c`, global queue of `skynet_mq.c`, grab/retire of `skynet_handle.c`, `REMOTE` of `skynet_harbor.c` | contexts with `ref` and `init`, the table of registered handles, per queue `in_global` and `release`, the global list of queues, the number of contexts, the reserved context, `quit`, per thread the point in its dispatch | push, dispatch of a turn, launch (with failure), reserve, retire, release, deletion, the end of the threads | every pair of lock sections of two threads may interleave; a context and its queue have separate lives that end in different threads; the reserved context outlives its retirement and is not counted |
| Message queue: `skynet_mq.c` | ring, `head`, `tail`, `cap`, overload threshold | push, expansion, pop, length, overload | wrap and growth at the same push, threshold that doubles |
| Handle and name table: `skynet_handle.c` | slot array, `handle_index`, sorted names | register, double, grab, retire, name, find | handle stored by the caller after the lock, index that wraps, names of retired handles |
| Readers-writer lock: `rwlock.h` | two words | rlock, runlock, wlock, wunlock | single memory operations of many threads |
| Timer: `skynet_timer.c` | near wheel, four level wheels, 32-bit clock | add, shift, execute, update | cascades, a clock that wraps, timers added during the dispatch of a slot |
| Worker pool: `skynet_start.c`, `skynet_monitor.c` | number of sleepers, quit, version per worker | sleep, wakeup, check, quit | a wakeup that races with going to sleep, a check that reads two words one after the other |
| Socket server: `socket_server.c` | socket slots, send lists, references of messages on their way | open, listen, start, send, close through a pipe; poll; direct write by a worker | closing and re-use of a slot while other threads write to it; partial writes by two threads; stale events |
| Harbor: `skynet_harbor.c` | `REMOTE`, the context of the harbor service, which exists with `harbor = 0` as well (`bootstrap.lua` starts `cdummy`, that launches `service_harbor`, that calls `skynet_harbor_start`) | start, send, exit | the context is reserved: one more reference, and not counted in the total; kept until all threads have ended |
| Modules, environment, logs | small tables | | none: one lock or start-up only |

A thread of the worker pool calls the scheduler's dispatch; the scheduler calls
the handle table (grab, under the readers-writer lock) and the queue; a service
calls the scheduler again from its callback (send, kill, launch); the timer
and socket threads only push.

### Lua library (`skynet/lualib`, `skynet/service`)

`skynet.lua` keeps, per service, the coroutines that wait for a session, the
sessions watched for errors and the queue of forked coroutines; its operations
are call, ret, response, sleep, wait, wakeup, fork, exit and the dispatch of a
message. Hard: an answer, a timeout, a wakeup and the error of a dead peer race
for one session. `skynet/queue.lua` is a reentrant critical section between the
coroutines of one service. `launcher.lua`, `clusterd.lua` and others are
services on top.

### ykserver (`ykserver`)

| part | state | hard behaviour |
|---|---|---|
| gate and sessions (`sergate/ykwsgate.lua`, `lualib/gamesession.lua`) | session per descriptor, role per session | the clean-up yields between collecting and kicking, while clients close, log in and are kicked |
| login (`sergate/authser/ctrl.lua`) | token, role bound to a session | several remote calls, two logins of a role may interleave |
| database service (`sergate/dbserver`) | redis copy, list of changes, mysql | check and update are two requests that yield; the flush order decides what mysql ends with |
| node monitor (`service/NodeMonitord.lua`, `lualib/nodeMgr.lua`) | nodes on line | nobody registers, see section 5 |
| timer (`lualib/timer.lua`), chat server | task id; sessions | never used, see section 5 |

### What makes each part correct

| part | properties |
|---|---|
| scheduler | the count of a context is the number of its owners; nobody reaches a freed context or queue; a queue has one dispatcher; no queue with messages is lost; no dispatch before init; every message is dispatched or answered with an error, and a dead service is reclaimed, unless the process stops first or it is the reserved one; the process stops only when everybody else is gone |
| message queue | FIFO across wraps and growth; overload is told once per doubling |
| handle and name table | what is registered is found, also while the table grows; 0 is nobody; a name leads to the handle it was given to until that one retires |
| readers-writer lock | a writer is alone; a writer that has the word gets in; no livelock |
| timer | a timer fires once, in its tick |
| worker pool, monitor | no message waits for ever while workers sleep; quit ends every thread; a message that never returns is reported, and what the monitor reports was running when it was read |
| socket server | what is written is whole messages, in order; what is accepted leaves or its socket is closed; a service hears of data only of an open socket; the count of messages on their way is exact |
| Lua RPC, sections | a call returns, with an answer or an error, whoever dies or fails, unless a fork took its count; a session is used once; one coroutine is in a section, and every one that waits gets in unless it was woken by another |
| gate, sessions, login | clients are counted; a session ends with its connection; a silent one is ended; a role has one session |
| database service | an account has its user and no two share one; mysql gets what start-up and flush promise; neither stops but by an error; an account, once created, is kept |

Where each can go wrong is listed, line by line, under the hazards of
`PROJECT.json`.

## 2. Modules

| module | models | kind |
|---|---|---|
| `SkynetDispatch` | service scheduler | state machine, one action per lock section or atomic operation |
| `SkynetDispatchProofs` | theorems about it | proofs |
| `WorkerPool`, `WorkerPoolProofs` | worker, timer, socket and monitor threads | state machine, one action per section of the mutex, read or store of a word two threads use; proofs |
| `SocketServer`, `SocketServerProofs` | socket slots, pipe, direct writes | state machine, one action per command, event, lock section; proofs |
| `MessageQueue`, `FifoQueue` | ring of one queue; what it promises | implementation and abstract specification |
| `HandleStorage` | handle and name tables | state machine, one action per function (it holds the lock) |
| `RWLock` | `rwlock.h` | state machine, one action per memory operation |
| `HandleStorageProofs` | theorems about the table, its names and its lock | proofs |
| `TimerWheel`, `TimerService` | timer wheel; what it promises | implementation and abstract specification |
| `RefinementProofs` | the queue implements the FIFO queue, the wheel the timer service | proofs |
| `LuaService`, `LuaServiceProofs` | `skynet.lua` and `skynet/queue.lua` in several services | state machine, one action per operation of a running coroutine or message taken; proofs |
| `GateSession`, `GateSessionProofs` | gate, sessions, login | state machine, one action per message handled or step between two calls; proofs |
| `WriteBehind`, `WriteBehindProofs` | accounts and users of the database service, redis, the flush to mysql | state machine, one action per request to redis or mysql; proofs |
| `MC...` | model values, bounds and initial instances for TLC | |

The modules lie on top of each other as the code does. What one promises is
what the next takes for granted:

- `RWLock` excludes a writer: `HandleStorage` and the registration steps of
  `SkynetDispatch` are atomic.
- `MessageQueue` implements `FifoQueue`: a queue is a sequence or a number of
  messages elsewhere.
- `SkynetDispatch` runs a service on one thread at a time, loses no queue and
  frees nothing in use: `WorkerPool` pushes, pops and ends a service in one step
  each, and `LuaService` runs one coroutine of a service at a time.
- `WorkerPool` runs every message, `TimerWheel` fires every timer: the fairness
  of `LuaService`, `GateSession` and `WriteBehind`.
- `SocketServer` tells of a socket in order, and uses no id twice: `events` and
  the clients of `GateSession`.
- `LuaService` returns every call: a call of `GateSession` and `WriteBehind` comes
  back, and the state of a service changes meanwhile.

In a module, `Mut...` operators are the next definition with a bug in it. No
specification uses them; with one in place of the definition, the property it
is listed with in `PROJECT.json` fails, which shows that the property can.

### SkynetDispatch

A service stands for its handle, its context and its queue; `context[s]` and
`mqueue[s]` say whether the memory of each is not yet allocated, live or freed.
`slot` is the table, `ref`, `init`, `in_global`, `release` and `globalmq` are
the fields of the same names, `total` is `G_NODE.total`. A message is the
handle of its sender, which is all `drop_message` reads. `pc[t]` is the point
of a worker in `skynet_context_message_dispatch` or in `skynet_context_new`
(called from a callback); `cur[t]` is its `q`, and `ctx` once grabbed; `new[t]`
the queue that it is creating, dropping, or has popped as `nq`; `left[t]` the
iterations left of its loop. `call[t]` is a nested `skynet_context_push` or
`skynet_context_release`, which any of them runs step by step:

| action | code |
|---|---|
| `Grab`, `Push`, `Release` | `skynet_handle_grab`, `skynet_mq_push`, `skynet_context_release` inside a push |
| `Release`, `MarkRelease`, `Free` | the last release: decrement, `skynet_mq_mark_release`, `skynet_free` and `context_dec` |
| `Pop`, `DispatchGrab`, `PopMessage`, `PopEmpty`, `ReadLength`, `CallbackReturn`, `TakeNext`, `Requeue` | a turn |
| `MqRelease`, `DropMessage`, `DropQueue` | `skynet_mq_release` |
| `Send`, `Kill`, `Launch`, `LaunchCreate`, `LaunchSucceed`, `LaunchPublish`, `LaunchFail`, `LaunchRetire` | what a callback may do |
| `Reserve` | `skynet_harbor_start` and `skynet_context_reserve`, in the init function of the harbor service |
| `PushFromOutside` | timer and socket threads |
| `Abort`, `Quit`, `PopNone`, `HarborExit` | `CHECK_ABORT` and `m->quit = 1` of `thread_timer`, the end of `thread_worker`, `skynet_harbor_exit` after the threads were joined |

`Harbor` is the set of services that may be the harbor; `remote` is `REMOTE`, set
at most once. The reserved context has a reference more and is not in `total`, so
that `total` is 0 while it is still live; the process ends then, whether or not it
was retired. `quit` is `"due"` between the timer's look at the total and its store:
a service may still be launched in between. `late` are the workers that read
`m->quit` before the store: each starts one more dispatch, or finds nothing. A
queue that a worker holds when it ends stays where it is.

The logger service's own queue, `dispatchall`, profiling and log files are left
out; the condition variable is in `WorkerPool`. A callback sends, kills and launches what it
likes, one call at a time. `Kill` leaves out the message to `G_NODE.monitor_exit`
that `handle_exit` sends first: no service of ykserver calls `MONITOR`, so the field
is 0.

### HandleStorage

Every function of `skynet_handle.c` holds the lock, so it is an action; the
store of the handle by `skynet_context_new` (`Store`) is another. A name is a
number, ordered as `strcmp` orders it; `Search` is the binary search, one round of
its loop after the other. The expansion is an action of its own
because it goes round the loop of `skynet_handle_register` once. Any number of
`Launcher` threads register at a time. `overgrown` is the history of the contexts over
which the table grew between their registration and their `Store`: they are moved by
handle 0, to a place where nobody looks for them, or on top of another.

### MessageQueue and FifoQueue

The ring with its length, growth and overload threshold. `IsFifo` says that it
implements a plain sequence: what is pushed is popped once and in order, across
every wrap and every growth.

### RWLock

Each read, test-and-set, increment and synchronising store is one action, so
that a reader is caught between its look at the write word and its increment.

### TimerWheel and TimerService

The wheel with `Near` and `Level` slots as parameters: the code's 256 and 64 are
too large for TLC, and the same arithmetic with 4 and 2, or 2 and 2, wraps and
cascades through every level. The masks and shifts of the code are remainders and
divisions, which any sizes have; the proofs do not need powers of two. `FiresOnTime`
says that the wheel implements a service in which a timer fires in exactly the tick
that is its delay away.

### WorkerPool

| action | code |
|---|---|
| `TakeQueue`, `DropQueue`, `TakeMessage`, `Trigger`, `SendInCallback`, `Loop`, `Return` | `skynet_context_message_dispatch` of a worker with weight -1, with the stores of `skynet_monitor_trigger` before and after the callback |
| `Lock`, `Wait`, `Wake` | `thread_worker` when there is nothing to do: the mutex, `++ m->sleep`, the test of `quit`, `pthread_cond_wait` and what follows it |
| `Tick`, `TimerCheck`, `TimerQuit` | `thread_timer`: what its timeouts push, `wakeup`, and at the end `quit` and the broadcast |
| `SocketData`, `SocketWake`, `SocketEnd` | `thread_socket`: a message is pushed, then `wakeup`; the exit command |
| `SpuriousWakeup` | `pthread_cond_wait` returns without a signal, as POSIX allows |
| `Compare`, `Read`, `Reread`, `Mark`, `NextRound` | `skynet_monitor_check` and `skynet_context_endless`: the version is compared, the destination read, read again to pass it on, and the context grabbed and marked; a round over all workers |

`moved[w]` says whether the version of a worker differs from the one the monitor
saw last, which is all the counter is used for. `MayLoop` are services with a
message that never returns. A worker may finish its message between any two steps of
the monitor, so a context may be marked `endless` that runs nothing any more
(`suspect` is the handle on its way to the mark). Only the `STAT` command of the
service takes the mark off again, which is left out.

### SocketServer

A slot is what the code keeps of it: type, id, both send lists, `wb_size`, the
tag and the count of `sending`, the rest of a direct write (`dw`), `dw_lock`, and
whether write events are on. A message is `Size` units, so that a write takes
all, some or nothing of it. `user[u]` is the point of a service in a call of the
socket API, which its worker runs while the socket thread goes on: reserving an
id and storing into the slot, locking `dw_lock` and looking again, writing,
keeping the rest, counting in `sending` and writing to the pipe are all steps.
`wire[id]` is what the kernel took. The socket thread takes commands while
`checkctrl` says so and the pipe has any, then waits, then handles what the wait
brought. `epoll` returns every socket that is ready, so `Wait` takes all that are due,
but for connections to accept, which need not come; that it returns at most 64
(`MAX_EVENT`) is left out, as the instances have fewer. The first event after a wait
is handled before the commands are looked at, or is the pipe itself (`"later"` and
`"yes"` of `checkctrl`). An assertion of the code that fails sets `aborted`.

| action | code |
|---|---|
| `Reserve`, `Reserved`, `Ask`, `Send`, `TryLock`, `DirectWrite`, `KeepRest`, `SendingRef`, `SendRequest` | `reserve_id`, `socket_server_connect`, `_listen`, `_start`, `_close`, `_send`, `_send_lowpriority`, `inc_sending_ref`, `send_request` |
| `OpenSocket`, `ListenSocket`, `StartSocket`, `CloseSocket`, `SendSocket`, `CloseFd`, `ClearEvents` | the handlers of `ctrl_cmd`; `StartSocket` includes the `sp_add` that fails and closes the socket |
| `NoCommand` | `has_cmd` finds nothing in the pipe |
| `Wait`, `ReportConnect`, `ReportAccept`, `Read`, `Write`, `Stale` | `socket_server_poll` |

### LuaService

`sv[s]` is the table of a service: its fields have the names of the locals of
`skynet.lua`. `box[s]` is its message queue. A coroutine is `"free"` (in the pool
or not created), about to run a new task, running, or waiting for what its `pc`
says. A running coroutine does any operation of `May[s]`; when it yields or ends,
`Suspend` goes on with the coroutines that were woken, those that have an error
to be told, and those that were forked, as `suspend` and `dispatch_message` do
within one message. Services meet only through their message queues.

- `Exit` answers what is open and retires the handle, but the service does not stop
  there. `"QUIT"` ends only the `suspend` that resumed the coroutine; each `suspend`
  around it (`frames`: one for each coroutine that `dispatch_wakeup` resumed) still
  runs `dispatch_error_queue`, and the worker goes on with the messages of the batch it
  has begun (`rest`). `late` is the history of services that did anything of that.
  `Drop` is the error that the framework sends for each message left.
- `Wakeup` takes any token that has a `sleep_session`: a coroutine that sleeps, or one
  that waits for the section. `disturbed` is the history of a service that woke one of
  the second kind, or one that was woken already.
- `Ret` and `Respond` answer, or send an error: `skynet.ret` of what is too large, and
  the closure called with `false`.
- A coroutine that ends goes back to the pool with the address it last served;
  `Forking` takes it from there (`skynet.fork`, and the empty fork that `suspend` makes
  after an error). `stale[t]` counts the forks that began with the address of `t`.
- A coroutine that an error ended stays in `wakeup_queue` and `threads` as `Gone`: its
  name is used again for a new one, which is not the one that is named there.

`MaxOps` and `MaxCalls` bound what each service does, and `Spent` is how much of both
is used up at the start, one of several: so a run may have few operations with calls,
or more of them without.

### GateSession

A client is the id of its socket. `connection` and `client_number` belong to
`wsgateserver.lua`, the session table to `gamesession.lua`, and a login is a
coroutine of `authser`. What a message is (a heartbeat, a login, one that is too
long or cannot be decoded) is chosen when the gate handles it.

| action | code |
|---|---|
| `Accept`, `ClientSends`, `HangUp`, `CloseSocket` | the socket server and the client |
| `MsgOpen`, `Handshake`, `Heartbeat`, `RedirectLogin`, `TooLong`, `CannotDecode`, `Dropped`, `MsgClose` | `MSG.open`, `dispatch_msg`, `MSG.close`, with `connect`, `disconnect` and `message` of `ykwsgate.lua` |
| `FindByUserId`, `KickOther`, `BindUserId` | `authser/ctrl.lua`, the calls of one login; the calls of the database and the push to the client are part of the step after them |
| `Tick`, `Collect`, `HeartbeatTimeOut`, `SaveAndSleep` | the clean-up of `gamesession.lua` |

What follows from reading: `needAuth` is never copied into the protocol table
(`mt.__newindex` of `protoMap`), so its check never stops a message;
`serviceNames.listenerGate` is empty, so nobody is told that a user went off
line; `nodeMgr.call` catches the errors of a call, so that a login and the
clean-up go on after one.

### WriteBehind

The tasks of `dbserver` run as coroutines of one service: they interleave only
where one waits for redis, for mysql or for `mysql_db`. A task is at most one
request, `task[t].at` is the request it makes next, and every action is that
request with what the coroutine does up to the next one.

| action | code |
|---|---|
| `StartCreate`, `Lookup`, `NewUid`, `HasUser`, `SetUser`, `AddModify`, `HasAccount`, `SetAccount` | `handlerAccount.createaccount`, `authDB.CreateAccount`, `CreateUser`, `GetuniqueUserid`, `command.Add` for the user and for the account, `addModify` |
| `StartLogin`, `SetUser`, `AddModify` | `authDB.setLastLoginTime`, `command.AddOrUpdate` |
| `Take`, `Update`, `Insert` for `"flush"` | `onUpdate`, `updateRow`, `addRow` |
| `Snapshot`, `NextRow`, `Update`, `Insert` for `"init"` | `dataMode.initRedis`, `initDB` |
| `Restart` | the process is killed and started; `onStart` of both services |

`account`, `user`, `uids` are the redis keys, `mysql` the table `userdata`,
`changes` is `needChangeData`. The row of a user is its last login time: it is
the field the code changes after the creation. `dbserver` calls itself through
`nodeMgr.call`, since the node of ykserver is the database node as well. The
mysql driver logs in with the flag that makes `affected_rows` count the rows
found, so that an update with equal values does not lead to an insert.
`Waiting` is the state in which nothing is to be done but to wait for a request.

## 3. Runs

| run | instance | question |
|---|---|---|
| `dispatch` | two workers of both kinds of weight, one outside thread, a booted service and a launched one, two sends, fair threads | are counts, ownership and release of contexts and queues right in every interleaving of launch, kill and dispatch; is every message handled and every dead service reclaimed; the launched one may be the reserved harbor, and the process ends when the others are gone |
| `worker_pool` | two workers, two services of which one may loop, two sends | is every message run and every loop reported, and was what is reported running when it was read; does every thread end |
| `sockets` | a listening socket and a connection in two slots, which are used again; two services that send by hand and by pipe, three sends, two calls | are messages whole and in order, references exact, events those of their socket; does every accepted message leave |
| `half_close` | the same slots, one send, one call | finding |
| `message_queue` | two slots growing to eight, overload from two messages | is the ring a FIFO queue; is overload told once per doubling |
| `rwlock` | three threads, fair | exclusion, progress of a writer |
| `timer_wheel` | two timers of every delay, 6-bit clock with levels of four, two, two, two and two slots, from shortly before its end, fair timer thread | does each timer fire, and in its tick |
| `handles` | five contexts, two threads that launch at once, three names, table from two to eight slots, index that wraps | are handles and names found, and do slots stay apart but for the table growing over a launch |
| `lua_service` | a client of four coroutines that calls, sleeps, forks, wakes whoever sleeps or waits for the section, and uses it; a server that answers, keeps closures, forks, fails, exits and goes on after that | is a session used once, does every call return, do the counts of callers cover what they count, is the section exclusive and handed on |
| `gate_session` | two clients, one role, two logins, four messages, silence of one interval | is the count right, is no session left behind, who holds a role, is a silent client cleared |
| `backup` | two accounts, two tasks, one login, one kill, errors of mysql, fair writers | what accounts, flush and start-up do promise |
| `account_twice` | two accounts, two tasks | finding |

Beside these there are configurations for other instances and for the
invariants that the runs above leave out. Each is `tlc -config X.cfg M`:

| configuration | module | what it checks |
|---|---|---|
| `DispatchLaunch` | `MCSkynetDispatch` | three services, two booted: all safety properties, with `TypeOK`, `FreedQueueUnreachable`, `InitBeforeDispatch` |
| `TimerSlots` | `MCTimerWheel` | three timers: `WheelTypeOK`, `OneSlotPerTick`, `CurrentSlotEmpty`, `FiresOnTime` |
| `HandleNames` | `MCHandleStorage` | `TypeOK`, `RetireForgetsNames` |
| `RWLockMore` | `MCRWLock` | `LockTypeOK`, `SomebodyGetsIn` (no livelock) |
| `BackupMore` | `MCWriteBehind` | `TypeOK`, `UsersNotShared` |
| `GateThree` | `MCGateSession` | three clients and two places, so that the gate refuses one: all safety properties |
| `HandleClash`, `HandleZero`, `BackupLost` | `MCHandleStorage` (two), `MCWriteBehind` | fail: findings below |
| `LuaResponse`, `LuaExit`, `LuaQueue` | `MCLuaService` | fail: findings below |

Bounds, and why they are enough:

- *Two workers, one outside thread.* A hazard of the scheduler is a race between
  a thread that pushes, one that dispatches and one that deletes; a worker can
  be any of them, the outside thread a third. The proofs cover any number.
- *Sends of the scheduler.* `MaxSends` bounds how often callbacks and outside
  threads send, over a behaviour. The errors that a dropped queue sends back are
  not counted. Two sends put two messages into one queue while the turn of the
  first is under way.
- *One harbor.* The service that is launched may reserve itself, in its init
  function, or not; `REMOTE` is set once in the code.
- *A launch instead of restarts.* Handles are not reused in the code until the
  index wraps (see `HandleStorage`), so a service is launched once.
- *Worker pool.* With two workers one sleeps, wakes or ends while the other
  pushes, loops or does the same; the other three threads meet either.
- *Sockets.* Two slots, one of them used for one connection after another, are
  enough for a stale event or reference to meet the next socket. A message of
  two units is written in part by one thread and finished by another; three
  messages make one wait behind, and one overtake. The instance starts with a
  listener and a connection, states the code reaches by two calls each.
- *Lua.* Four coroutines: one in the section, one waiting for it, one that sleeps
  or is forked, and the first. The client makes four operations, up to three of them
  calls, or six without a call, which is what it takes to wake one that waits for the
  section, and again; the server makes one fork, on top of the answers, closures,
  errors and the exit, which nothing bounds but the requests. A session is not used
  again, as in the code until the numbers wrap. One client and one server: services
  share nothing else.
- *Gate.* Two clients are what a race between two logins of a role needs; the
  proofs cover any number, of clients, logins and messages.
- *Clock.* The arithmetic of the wheel depends on the numbers of bits only
  through shifts and masks; the instances pass each level and the end of the
  clock.
- *Ring.* Two slots grow twice. Every position of head and tail against the end
  of the ring occurs at each size.
- *`MaxUsers`, `MaxLogins`, `MaxRestarts` of the database service.* Two users,
  one login and one kill give lists of two changes of one or of two users, a
  flush that overlaps the copy at start-up, and a user id left over by a killed
  creation.

Deadlock is checked except where the program may stop: in `HandleStorage`, which
stops registering when every context of the instance is used; in `WorkerPool`,
whose threads end; in `SocketServer`, which ends when an assertion fails; in
`LuaService`, whose programs come to their end.

### Fairness

- `SkynetDispatch`: weak fairness of each thread's steps inside a call, a turn
  and a launch. Threads are preemptive, each of these steps is enabled until the
  thread takes it, and a callback returns (a service that never returns is a bug
  the code's monitor reports). Sends, kills and launches have no fairness.
  Nor has the end of the process: once the total is 0, the timer thread may be as late
  as it likes. After it (`quit = "set"`) workers start no more dispatches, so the
  two liveness properties except that state. That a sleeping worker is woken is what
  `WorkerPool` shows.
- `WorkerPool`: weak fairness of every thread, strong fairness where a step needs
  the mutex, which others hold for a few instructions at a time: a thread that
  waits for a mutex gets it if it is free again and again. A signal wakes a
  waiter. No data has to arrive, no message has to be sent or to loop, no wait has to
  end without a signal.
- `SocketServer`: weak fairness of the socket thread, and of a worker inside a
  call. No service has to call, no peer has to do anything; the
  socket of a peer that is there becomes ready, and the kernel takes something of
  what is written then (`Write`).
- `RWLock`: weak fairness of each thread's steps, critical sections included:
  they are loops over the handle table. No thread has to ask for the lock.
- `TimerWheel`: weak fairness of the timer thread. `thread_timer` never ends.
- `LuaService`: weak fairness of each service (a queue with messages is given to
  a worker) and of the timeouts. A task that is given a request answers it, or
  fails, or exits, or keeps a closure; operations are bounded, so it ends.
- `GateSession`: weak fairness of the gate, of each login (a call returns), of the
  clean-up and of time. A half closed socket has none: see `half_close`.
- `WriteBehind`: weak fairness of the flush and of the copy at start-up. The
  first is woken by a timer, and both by answers of mysql, errors included.
  Tasks have none: no request has to come or to finish.

### Findings

Two are runs:

- `half_close` (comment): `close_socket` leaves a socket half closed when a
  message to it is counted but not yet in the pipe. The message is then dropped,
  no write event is on, and the socket is closed only when the peer goes.
- `account_twice` (code): look-up and save of an account are several requests;
  two creations of one account both succeed and the second one replaces the
  first one's user and password. `UsersNotShared` says what is left: they get
  different users.

The others have a configuration that fails:

- `LuaResponse`, `EveryCallIsAnswered` (`skynet.lua:143`): a coroutine that ends
  releases `watching_service` for the address it last served and clears only its
  session. Used again for a fork it releases the address once more; the count
  goes to nil early, `skynet.response` adds to nil and raises after the session
  was taken away, so the caller gets neither answer nor error. `EveryCallReturns`, in
  run `lua_service`, excepts exactly the callers whose count such a fork has taken.
- `LuaExit`, `SessionsAreKnown` (`skynet.lua:199`): the comment at `skynet.lua:309` has
  no coroutine of a fork run after `skynet.exit`, but the coroutines of requests do:
  those with an error that is to be told, in the calls of `suspend` around the one that
  exits, and those that messages of the same batch resume. One of them answers a session
  that the exit has answered with an error; the caller has forgotten it, and "Unknown
  session" is raised there.
- `LuaQueue`, `AssertionHolds` (`queue.lua:29`): `skynet.wakeup` takes the token of a
  coroutine that waits for a section as well. It then goes on before its turn, the
  assertion `ref == 0` fails, and when the section is left it is given to a coroutine
  that is gone, and never handed on. `SectionIsEntered` excepts services that have woken
  such a one (`disturbed`).
- `HandleClash`, `AssertionHolds` (`skynet_handle.c:59`):
  `skynet_handle_register` doubles the table by the handle stored in each
  context, but `skynet_context_new` stores it after the lock is released. Two
  launches at once can move a context to slot 0, or meet
  `assert(new_slot[hash] == NULL)`. Run `handles` has two launches as well, and shows
  that nothing else can: `GrowingKeepsSlotsApart` and `RegisteredIsFound` except only
  contexts over which the table has grown.
- `HandleZero`, `ZeroIsReserved` (`skynet_handle.c:43`): "reserve 0 for system"
  holds only until the handle index wraps, with harbor 0.
- `BackupLost`, `BackupComplete` (`mysql_db.lua:45`): the flush writes the newest
  change and removes the oldest. With two changes waiting, one is never written
  and mysql is no copy of redis until the next start. What does hold is
  `NewestIsBackedUp`.

What is known of the code and stated as an exception in a property, or left out
of a model so that the rest can be checked:

- Two logins of one role that are both between `FindByUserId` and `BindUserId`
  both bind it (`authser/ctrl.lua:24`). `OneSessionPerRole` excepts the roles in
  `crossed`, the history of exactly that, and is proved otherwise.
- A client that the clean-up has collected and that becomes active again before
  its turn is kicked all the same (`gamesession.lua:68`).
- A call by name whose request is still in the queue when the service exits never
  returns: the service is known by another address than the one the caller
  watches (`skynet.lua:86`). `LuaService` with `Named = {B}` shows it.
- The queue of the reserved context, once that one is retired, is in the global list
  for ever: its handle is not found, and `release` is not set, so that each worker that
  takes it puts it back (`skynet_mq.c:247`), with the messages in it, until the process
  ends. `EveryQueueDrains` and `RetiredIsReclaimed` except it, and what is left when the
  workers stop.
- When `skynet_harbor_exit` deletes the reserved context, that is counted off the total
  a second time (`skynet_server.c:217`), and the total is below 0 at the very end, when
  no thread is left to read it.
- The monitor may mark a service `endless` whose message returned between its second
  look at the destination and the mark (`skynet_monitor.c:41`).
- `force_close` frees the send lists before it takes `dw_lock`
  (`socket_server.c:403`), so a worker that looks at empty lists writes behind
  half a message of a socket that is being closed; `StreamIsWhole` excepts
  sockets that are being closed.
- `reserve_id` makes a slot reserved before it stores the id
  (`socket_server.c:305`), so the socket thread may find the old id in a
  reserved slot, and an event of the old socket may find the slot reserved
  again: `force_close` then asserts that it is not (`socket_server.c:402`). The
  model takes these steps and ends in `aborted`; nothing is promised after it.
  In the same moment `close_socket` may find the old id, and half close the new
  socket (`socket_server.c:931`): `clobbered`, the history of that, is the other
  state after which nothing is promised.
- A send right after `connect`, before the service is told that the socket is
  open, may count nothing in `sending` and be taken off it all the same, against
  the assertion of `dec_sending_ref` (`socket_server.c:1100`). `Send` is to
  sockets of which the service was told.
- `skynet_context_new` writes to a context it no longer owns
  (`skynet_server.c:166`).

## 4. Proofs

The lock, in `HandleStorageProofs`: for any finite set of threads,
`LockTypeCorrect` and `Exclusion`. `Exclusive` is not inductive, because it does not say why the reader count is
above zero; the invariant adds that `read` is the number of threads between
increment and decrement, and `write` that of threads holding the word.

`SkynetDispatchProofs`: every safety property that `Dispatch.cfg` and
`DispatchLaunch.cfg` check, for any finite sets of services, workers and outside
threads, any boot sequence, any weights and any number of messages. The only
assumptions are those of the constants: the sets are finite, workers are not
outside threads, `NoService` is no service, a worker's weight is one of those in
`start()` (one message a turn, or all, half, a quarter, an eighth of the queue),
no service is booted twice, and any of them may be the harbor.

No property is inductive alone. That a push finds a live queue depends on who
may delete the context, that on the queue's flags, and those on which thread
holds the queue. `IInv` is a conjunction of named parts:

- `Shape`: where a thread is says which queues it holds.
- `Single`: a queue is held once, or listed once.
- `Flags`: `in_global` or `release` is set exactly of a queue that is held or
  listed, and a queue with messages has `in_global`.
- `Life`: no context is freed while it has references, one thread deletes it, and
  its queue is marked before it is freed.
- `Sources`: a message names a service that exists, so the error that
  `drop_message` sends to it finds a queue.
- `Inits`: a registered context is initialised or still being launched.
- `Turns`: what is left of a turn fits the queue, since nobody else pops.
- `RefCountExact`, `TotalExact`: each count is the number of its owners; `REMOTE` is an
  owner until `skynet_harbor_exit`, and its context is not in the total.

`AbortsAtTheEnd` says what the threads rely on when they see a total of 0: of the
other services no context is live, nor is one being launched; the reserved context
may be live, dispatched by a worker, and about to create another. `ContextsAreSafe` is
about references a thread counts on: what `skynet_context_new` writes after it has
given its reference back (`skynet_server.c:166`) counts on none, and is outside it.

`CountsKept` turns the two counts into arithmetic on the one thread that moves:
if every other thread stays, the change of the count has to be the change of
what that thread holds. There is one lemma per action, with a step for each part
of the invariant; `StepKeeps` collects them, `Inductive` closes the induction,
and each theorem after it says which parts imply its property.

`GateSessionProofs`: `ClientsAreCounted`, `NoGhostSession` and
`OneSessionPerRole` for any finite set of clients, any roles, any limit, silence
and bounds. `GateInvariant` adds to them

- `OpensOnce`: a socket's open event comes once and first, so that a connection
  is counted once and its session is new;
- `LoginsKnow`: a login in progress has a client, a role and a session to kick;
- `Holders`: of a role whose logins never crossed one client holds it, one login
  is past its look-up, and what that login found is all there is. This is what
  `OneSessionPerRole` rests on: a look-up that starts when no other login is
  between look-up and binding sees every holder, and what it kicks is gone when
  it binds.

`ClientsAreCounted` needs the cardinality of a set that loses or gains one
element (`CloseClientDoes`, `MsgOpenCounts`); `AppendHas` and `TailHas` say what an
event queue holds after a step. The lemmas are grouped by what steps change:
types (`TypeStep`), sockets and their events, the gate, and the holders of a role
(`GateHolders`, `FindHolders`, `KickHolders`, `BindHolders`); `StepInv` puts them
together.

`RefinementProofs`, the queue: `RingIsFifo` is the refinement `Spec => IsFifo`, for any
messages, any size to begin with and any growth. `RingOK` keeps the indices inside
the buffer; `ContentsAre` reads the window place by place from the head, and
`Around` shows that the `%` of the expansion is the same walk round the ring. A push
appends (`PushAppends`: the ring wraps, grows or does neither) and a pop takes the
head (`PopTakesHead`), so each step is one of the FIFO queue or a stutter.
`PopYieldsMessage` adds that no place that was not written is ever popped.
`WarnsOnce` is about the alarm. The threshold is what doubling the last one gives
once it reaches the length, a loop in the code and a recursive function in the
model: by the least number at which it could fail (`Least`), the function exists
(`LoopEnds`), and it stops within a factor two of the length (`LoopStops`), so that
`AlarmOK`, which relates threshold, alarm and length, is inductive.

`RefinementProofs`, the wheel: `WheelIsService` is the refinement `WheelSpec =>
FiresOnTime`, for any `Near > 0` and `Level > 1` (256 and 64 are of this kind), any
timers, any clock to start with and any positive delays below half the clock, which
a positive `int` is in the code. `WheelInv` says, of the lists of all levels together:

- `Placed`: every node is where `add_node` would put it at the present tick (`Home`),
  not only where it was put when it was set. The other parts rest on this one.
- `Apart`: a timer is in the wheel once.
- `InTime`: what a node waits for is less than half the clock away, so that a node
  whose tick has passed cannot be taken for one far ahead.

The hard step is the tick. A home is settled by the rounds of each level, a round
being what one slot of the next level covers. `RoundsNext` says which rounds end at a
tick, and `LaterInRound` that a node that is ahead in the same round has its slot
ahead too. `HomeKept` concludes that of all the slots of all levels a tick changes the
home of the nodes of one only, the one that `timer_shift` empties (`LowestIs`), or of
none. This is why moving one list is enough, and why the wrap of the clock, where
every index is zero, needs the list `(3, 0)` and no other. `MoveHeld` follows
`move_list` node by node, a recursive function again, by the least node at which it
could go wrong: it keeps the order of nodes of one tick, since these have come in
order and the list they are moved to has none of that tick before (`Home` is a
function of the tick). `TakenDoes` says that the current slot holds exactly what is
due. For `Update` of the service, the number of timers taken has to be the number
served (`AsManyAs`, by a bijection). `WheelSlots` reads `OneSlotPerTick` and
`CurrentSlotEmpty` off the same invariant: nothing of the current tick is ever left in
its slot (`NothingDue`), so the `timer_execute` before the shift, which the code has
for timeouts of 0 that `skynet_timeout` answers at once, never finds anything.

`WriteBehindProofs`: the four promises of the database service, for any accounts,
users, logins, kills and errors, and any finite set of tasks. `IInv` has two halves:

- `AccountInv`: a user id is left for each creation that has none (`RoomLeft`, with
  the cardinality of the creations), each task knows its user from the request that
  gives it (`TasksKnow`), and the user of a creation is its own (`OwnUser`), which is
  why `SetAccount` shares no user even when two creations of an account cross.
- `BackupInv`: what is to be written to mysql is a user of redis, and what the flush
  writes was written since the start (`WritesKnow`), so that the flush and the copy
  at start-up never write a row of the same unwritten user. `Copies` follows such a
  user from the snapshot through `initDB` to mysql, `Newest` the newest change from
  the list through the flush.

`UpdateMoves`, `InsertMoves`, `TakeMoves` and the like say once what a step changes;
each part of the invariant has one lemma, with one step per action.

`HandleStorageProofs`: `FoundUntilRetired` and `SlotsStayApart` for any contexts and
names, any number of launching threads, any index to start with and any size of the
table that doubles up to the largest (`SizeAssumption`: the code's sizes are powers of
two). Neither has a hypothesis: the first is about contexts that are not `overgrown`,
and the second says that two contexts meet in one slot only after one is, which
`HandleClash` shows to happen. `IInv` says that, until then, a
context is in the slot of the handle it was given (`Placed`) and has that handle but
for those being stored (`HasHandle`). A registration takes the first free place of
the walk from the index (`Least`, by the well-foundedness of the numbers); a walk of
as many steps as there are slots reaches every slot (`Reaches`), so that a table
that grows is full (`FullTable`), and two handles that differ in their slot of the
smaller table differ in the larger one (`Smaller`).

`NamesAreFound` is about the names. `NamesInv` says that the name table is
sorted, without doubles. Each round of the binary search narrows the range and
keeps the place looked for between its ends (`RoundLocates`), so that the search ends
(`SearchEnds`) with the place of the name, or the place where it belongs
(`SearchLocates`); what is inserted there keeps the order (`InsertKeeps`).
`RetireForgets` says that the names left by a retirement are those of other handles:
the names kept close ranks in their order, each place of the new table taken by one
(`PlaceIsTaken`, by the number of names before it).

`LuaServiceProofs`: `SectionHasOne` for any services, coroutines, programs (`May`,
`Calls`, `Named`) and bounds. `InSection` adds what the code counts on: the
reference count of the section is the depth of the coroutine that has it, and every
other coroutine has depth 0. Most of a step leaves the section alone (`Same`, one
lemma for each operator of `skynet.lua`); entering, leaving (`LeftIsFine`) and a
raised error, which unwinds every level (`RaisedIsFine`), are what moves it.

`SessionsKnown`, in the same module, is about what the services send each other:
"Unknown session" is raised in none, however they call, answer, wake, time out, fail
and exit, as long as no service goes on after its exit (`late = {}`). What one does
then may be an answer to a session it has answered with an error: `LuaExit` shows that
the theorem cannot say more. Exits are in it all the same, and what they tell, what
others make of it, and what the framework drops. The only assumptions are again of the constants: the names are different,
and the coroutines of a service are finitely many and more than one, the one that
runs `start` and one in the pool. A session is known as long as an answer to it may
come, so `SessionInv` follows a session from the call to the answer:

- `Places` are where a session may be: its timeout, a request in a mailbox, the
  coroutine that was given the request, a closure of `skynet.response`, an answer in
  the mailbox. `OnePlace` and `InPlaceOnce` say that it is in one of them, and there
  once: nobody answers twice.
- `Expected`: a session in a place is waited for, or its coroutine was woken
  (`"BREAK"`). This alone gives the property, and nothing of it holds without the rest.
- `Watches`: `watching_session` of a call names the service the session is with, so
  that the end of that service raises the errors of no other call; `ErrorsAreLast`:
  an error comes for a session nobody answers any more, or from a service that has
  exited and behind everything it had answered. After it the session may be forgotten.
- `Sleeping`, `Failing`: the coroutines and errors that the next `dispatch_wakeup` and
  `dispatch_error_queue` pick are of sessions nobody answers but a timeout.
- `Pooled`, `Waiting`, `Busy`: a coroutine is in the pool, forked, waiting or running,
  once, so that none is resumed for what another one waits for.

`SectionIsHandedOn` is the other half of the critical section, its queue: the assertion
`ref == 0` after `skynet.wait` holds, and no coroutine waits for a section that nobody
has or is on its way to. It holds, again while `late = {}`, in every service that has
not called `skynet.wakeup` for a coroutine that waits for the section, nor twice for one
that sleeps (`Calm`): the second token of a coroutine that sleeps again, for the
section, wakes it before its turn as well. In other services it is false (`LuaQueue`);
that they exist, and what they send, changes nothing for the others. `SettledInv` follows the
section from `xpcall_ret`, which gives it to the head of `threads` and puts that one in
`wakeup_queue`, to the coroutine that goes on (`OnItsWay`): until it has entered, the
section is left for it and counts nothing, whoever else runs, calls, fails or is woken
in between; whoever is in `threads` waits for the section and is there once; and who is
in `wakeup_queue` sleeps and is there once, so that the token reaches the one it was
meant for (`Woke`). It stands on the two invariants above: who sleeps has a session of
its own, and a coroutine out of the section has depth 0.

What an operation does to the state of its service is said first, one lemma each
(`Drawn`, `Served`, `Told`, `Returned`, ...: what is kept, `Keeping`, and what moves);
`Delivers` and `Moves` then say which sessions change places and that the rest of the
network follows.

`WatchingIsCovered` states `WatchingCovers`, what `skynet.response` relies on, for any
programs, those that fork, fail, wake and answer late included, while `late = {}`:
`watching_service` counts at least the coroutines that have the address of a service and
have not ended, and the closures for it, but for the forks that began with the address of
an earlier request (`stale`). The count follows the addresses of coroutines, not
requests: a coroutine of the pool keeps the address of its last request, and when
`skynet.fork`, or the empty fork that `suspend` makes after an error, takes it from there,
its end gives back a count it never had. So each such fork may cost one count, and the
theorem says that nothing else does: neither a request that fails in the middle of a
batch, nor a closure that outlives its coroutine, nor the end of a peer. In a service that
has begun no such fork `skynet.response` always finds the count it adds to; in one that
has, it may not, which is the finding `LuaResponse`. `CoverInv` adds what the end of a
coroutine gives back: it stands on `SessionInv`, by which a coroutine is in one place.

`WorkerPoolProofs`: `ReportedRuns` and `SleepIsExact` for any number of workers and
any services. The monitor reads the version, then the destination, then the destination
again; `Running` says that the destination of a worker is set exactly while it runs a
message, and then names the queue it holds. So what the second look passes to
`skynet_context_endless` is nobody, or a message that runs at that moment, whatever the
two looks before it saw; the mark itself may come when it has returned, and nothing is
said of that. `SleepInv` says that `m->sleep` counts the workers from the increment to the
decrement, those that were woken and wait for the mutex included, that the mutex is
held by the worker between the increment and its wait, and that the condition
variable has the ones that wait.

`SocketServerProofs`: the four safety properties of the socket server, for any
services, slots, ids and messages of any size, until an assertion fails or a slot
that is being reserved is overwritten (`Sound`; see the exceptions of section 3).
The invariant has four layers, each proved from those before it:

- `Base`: the types, which unit may be at the head of each list, who holds a
  `dw_lock`, and the life of an id from `reserve_id` through the pipe and the slot
  to what its service is told. `DataWhileOpenHolds` follows from it.
- `Counted`: `sending` of a slot is the number of messages of its id in the pipe and
  in the hands of workers between the count and the pipe: `SendingExactHolds`.
- `Streamed`: what the kernel took of a connection, followed by what waits in its
  slot or in a worker's hands, is a sequence of whole messages: `StreamIsWholeHolds`.
- `Ordered`: along written, in the slot, in the pipe and being sent, the numbers of
  the messages of one service to one socket increase: `SentInOrderHolds`.

The socket thread takes a request off the pipe and handles it in one step, so each
part that speaks of the pipe is stated of a list that is the pipe or what is left of
it (`q`), and the handlers of requests have lemmas of their own.

Only model-checked: liveness (outside the prover's reach), and with it that nothing
is stuck; that the invariants of `LuaService` hold in run `lua_service` after a service
has gone on after its exit too; and what the modules without theorems compute.

## 5. Not modelled

- Chat server (`sergate/chatserver`): `sergate/main.lua` does not start it and
  `serviceNames` has no name for it. Lua timer (`lualib/timer.lua`): nothing
  requires it. Both would be models of code that never runs.
- Node monitor: only `sercenter` starts `NodeMonitord`, and no node registers
  there; the line of `sergate/main.lua` that would is a comment. Were it used, the
  registration would not be retried: `error` comes before `skynet.timeout`
  (`NodeMonitord.lua:154`).
- Harbor: the messages between the harbors of a cluster (`skynet_harbor_send`,
  `service_harbor.c`). ykserver runs with `harbor = 0`, where no handle is remote; the
  harbor service exists all the same, and its reserved context is in `SkynetDispatch`.
- Module table, environment, logs, allocation hooks: one lock or start-up only.
- C services `snlua`, `gate`, `logger`: callbacks of one service, which
  `SkynetDispatch` covers; ykserver has a gate of its own.
- Cluster, multicast, sharedata, datacenter: ykserver runs one node, and its
  calls of `nodeMgr` are local ones.
- HTTP and log services of ykserver, utilities, protocol tables: conversions.
- jemalloc, Lua and the other third-party code under `skynet/src/3rd`: not part
  of this program, though most of the repository's lines.
- Of the modelled parts: profiling, log files, `dispatchall` of the scheduler; UDP,
  `bind`, options, warnings and statistics of the socket server; traces, names,
  redirection and statistics of `skynet.lua`; what messages hold, and their
  distribution to services other than the login; tokens, wechat accounts,
  `backDataToRedis` and `Del` (which has no caller) of the database service; the
  conversion of wall-clock time to ticks.

## 6. Plan

Done: the scheduler, the worker pool, the socket server, the message queue, the
handle table, the lock, the timer wheel, the Lua services and critical sections, the
gate and logins, the database service; the proofs of section 4.

What is left, in this order:

1. UDP in `SocketServer`, and the launcher's and `service_mgr`'s part in starting
   services, on top of `LuaService`.
2. Tokens in the composition of `WriteBehind` with `GateSession`.
