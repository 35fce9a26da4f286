---------------------------- MODULE SocketServer ----------------------------
(* The socket server of skynet, socket_server.c, for TCP.  Services connect,    *)
(* listen, start, send and close from the worker threads; what they ask for     *)
(* goes through a pipe to the socket thread, which alone opens, reads and       *)
(* closes descriptors (socket_server_poll).  A message may also be written by   *)
(* the worker itself, under the dw_lock of the socket, when nothing is waiting   *)
(* to be sent.  The slots of closed sockets are used again under new ids.       *)
(*                                                                             *)
(* Slot id % MaxSocket belongs to the socket s->id; the tag that guards          *)
(* s->sending is the rest of the id.  A message is Size units, so that a write   *)
(* may take a part of it.  The kernel's side of a connection is what the socket  *)
(* has written, whether something waits to be read, and whether the peer is      *)
(* gone; its descriptor is identified with the id.  An assertion that fails      *)
(* ends the process (aborted).  UDP, bind, options and warnings are left out.    *)
EXTENDS Integers, Sequences, FiniteSets

CONSTANTS
    Users,       \* the services that use sockets, each run by one worker at a time
    LowUsers,    \* bound: those that also send with low priority
    Talkers,     \* bound: the ids whose peer sends something
    MaxSocket,   \* the number of slots, MAX_SOCKET
    MaxId,       \* bound: the last id reserved
    MaxSends,    \* bound: messages sent
    MaxCalls,    \* bound: connect, listen, start, close and shutdown calls
    MaxWork,     \* bound: messages and calls together
    Size,        \* the units of a message
    None

ASSUME NumbersAssumption == {MaxSocket, MaxId, MaxSends, MaxCalls, MaxWork, Size} \subseteq Nat \ {0}
ASSUME UsersAssumption == None \notin Users /\ LowUsers \subseteq Users

Ids == 1..MaxId
Slots == 0..MaxSocket - 1
HashId(id) == id % MaxSocket
Tag(id) == id \div MaxSocket

VARIABLES
    slot,      \* the slots
    allocId,   \* the last id reserved
    pipe,      \* the control pipe
    thread,    \* what the socket thread is doing, and for which id
    events,    \* the events of the batch that are not handled yet
    checkctrl, \* the pipe is looked at before the next event, "later" when one event comes first
    user,      \* what each service is doing in a call
    wire,      \* the units written to each connection
    inbox,     \* the connections with something to read
    gone,      \* the connections whose peer is gone
    told,      \* the last message about each id that was sent to its service
    known,     \* the ids each service knows and has not closed
    sends, calls,
    aborted,
    clobbered  \* history: close_socket half closed a slot that a call was reserving

server == <<slot, pipe, thread, events, checkctrl>>
kernel == <<wire, inbox, gone>>
count == <<sends, calls>>
over == <<aborted, clobbered>>
vars == <<server, allocId, user, kernel, told, known, count, over>>

Types == {"INVALID", "RESERVE", "PLISTEN", "LISTEN", "CONNECTING", "CONNECTED", "HALFCLOSE", "PACCEPT"}
Idle == [pc |-> "idle"]
Polling == [pc |-> "poll"]

\* socket_server_create
Init ==
    /\ slot = [x \in Slots |->
         [type |-> "INVALID", id |-> 0, tcp |-> FALSE, high |-> <<>>, low |-> <<>>, wbSize |-> 0,
          tag |-> 0, sending |-> 0, dw |-> <<>>, lock |-> None, write |-> FALSE]]
    /\ allocId = 0 /\ pipe = <<>> /\ thread = Polling /\ events = {} /\ checkctrl = "yes"
    /\ user = [u \in Users |-> Idle]
    /\ wire = [id \in Ids |-> <<>>] /\ inbox = {} /\ gone = {}
    /\ told = [id \in Ids |-> "none"] /\ known = [u \in Users |-> {}]
    /\ sends = 0 /\ calls = 0 /\ aborted = FALSE /\ clobbered = FALSE

-----------------------------------------------------------------------------
(* Slots *)

At(id) == slot[HashId(id)]

\* The slot is in use, by this id
IsOpen(id) == At(id).type # "INVALID" /\ At(id).id = id

\* The id reserve_id finds: the next one whose slot is free
Reservable == {id \in allocId + 1..MaxId : id <= allocId + MaxSocket /\ At(id).type = "INVALID"}
NextId == CHOOSE id \in Reservable : \A other \in Reservable : id <= other

NewFd(id, type, write) ==
    [At(id) EXCEPT !.type = type, !.id = id, !.tcp = TRUE, !.tag = Tag(id), !.sending = 0,
                   !.wbSize = 0, !.dw = <<>>, !.write = write]

Unsent(s) == s.high \o s.low

\* What new_fd asserts: the slot was reserved and its lists are empty
FdRefused(id) == At(id).type # "RESERVE" \/ Unsent(At(id)) # <<>>

Mutnomore_sending_data(s) == Unsent(s) = <<>> /\ s.dw = <<>>
nomore_sending_data(s) == Unsent(s) = <<>> /\ s.dw = <<>> /\ s.sending = 0

\* can_direct_write
CanWrite(s, id) == s.id = id /\ nomore_sending_data(s) /\ s.type = "CONNECTED"

Units(m) == [u \in 1..Size |-> [m |-> m, u |-> u]]

Partial(list) == list # <<>> /\ Head(list).u > 1

\* What is left of the message at the head of a list
HeadUnits(list) == Size - Head(list).u + 1

\* A message to a service about an id; data that comes when the socket is not open is
\* kept as "late"
Told(id, kind) ==
    [told EXCEPT ![id] = IF kind = "data" THEN (IF @ = "open" THEN @ ELSE "late")
                         ELSE IF @ = "late" THEN @ ELSE kind]

Put(id, s) == slot' = [slot EXCEPT ![HashId(id)] = s]

\* The two ends of force_close: the lists are freed without the lock of the socket,
\* the descriptor is closed and the slot freed with it
Freed(s) == [s EXCEPT !.high = <<>>, !.low = <<>>]
Closed(s) == [Freed(s) EXCEPT !.type = "INVALID", !.dw = <<>>, !.write = FALSE]

\* force_close when the thread does not hold the lock: it goes on in CloseFd
ForceClose(id) ==
    /\ Put(id, Freed(At(id)))
    /\ thread' = [pc |-> "close", id |-> id]

-----------------------------------------------------------------------------
(* Calls of the services *)

Call == calls < MaxCalls /\ sends + calls < MaxWork /\ calls' = calls + 1 /\ UNCHANGED sends

Request(cmd, id, m) == pipe' = Append(pipe, [cmd |-> cmd, id |-> id, m |-> m])

\* socket_server_connect and socket_server_listen reserve an id: the slot is taken ...
Reserve(u, cmd) ==
    /\ user[u] = Idle /\ Call
    /\ Reservable # {}
    /\ allocId' = NextId
    /\ Put(NextId, [At(NextId) EXCEPT !.type = "RESERVE"])
    /\ user' = [user EXCEPT ![u] = [pc |-> "reserved", cmd |-> cmd, id |-> NextId]]
    /\ UNCHANGED <<pipe, thread, events, checkctrl, kernel, told, known, over>>

\* ... before its id is stored, and the request sent
Reserved(u) ==
    /\ user[u].pc = "reserved"
    /\ LET id == user[u].id IN
         /\ Put(id, [At(id) EXCEPT !.id = id, !.tcp = FALSE])
         /\ Request(user[u].cmd, id, None)
         /\ known' = [known EXCEPT ![u] = @ \cup {id}]
    /\ user' = [user EXCEPT ![u] = Idle]
    /\ UNCHANGED <<allocId, thread, events, checkctrl, kernel, told, count, over>>

\* socket_server_start, socket_server_close, socket_server_shutdown
Ask(u, cmd, id) ==
    /\ user[u] = Idle /\ Call
    /\ id \in known[u]
    /\ Request(cmd, id, None)
    /\ known' = IF cmd = "S" THEN known ELSE [known EXCEPT ![u] = @ \ {id}]
    /\ UNCHANGED <<slot, allocId, thread, events, checkctrl, user, kernel, told, over>>

\* socket_server_send and socket_server_send_lowpriority on a socket that was opened
Send(u, id, low) ==
    /\ user[u] = Idle /\ sends < MaxSends /\ sends + calls < MaxWork
    /\ low => u \in LowUsers
    /\ told[id] \in {"open", "closed"} /\ id \in known[u]
    /\ sends' = sends + 1
    /\ user' = IF ~IsOpen(id) THEN user
               ELSE [user EXCEPT ![u] = [pc |-> IF low THEN "ref" ELSE "direct",
                       m |-> [n |-> sends + 1, from |-> u, to |-> id, low |-> low]]]
    /\ UNCHANGED <<server, allocId, kernel, told, known, calls, over>>

Goto(u, pc) == user' = [user EXCEPT ![u].pc = pc]

\* can_direct_write, looked at without the lock ...
MayLock(u) ==
    /\ user[u].pc = "direct"
    /\ LET id == user[u].m.to IN Goto(u, IF CanWrite(At(id), id) THEN "trylock" ELSE "ref")
    /\ UNCHANGED <<server, allocId, kernel, told, known, count, over>>

\* ... and socket_trylock
TryLock(u) ==
    /\ user[u].pc = "trylock"
    /\ LET id == user[u].m.to IN
         IF At(id).lock = None
         THEN Put(id, [At(id) EXCEPT !.lock = u]) /\ Goto(u, "locked")
         ELSE UNCHANGED slot /\ Goto(u, "ref")
    /\ UNCHANGED <<allocId, pipe, thread, events, checkctrl, kernel, told, known, count, over>>

MutMayWrite(s, id) == TRUE
\* The double check, now with the lock
MayWrite(s, id) == CanWrite(s, id)

\* write takes k units, none when it fails; with all of them the send is done
DirectWrite(u) ==
    /\ user[u].pc = "locked"
    /\ LET m == user[u].m  s == At(m.to) IN
         IF MayWrite(s, m.to)
         THEN \E k \in 0..Size :
                /\ wire' = [wire EXCEPT ![s.id] = @ \o SubSeq(Units(m), 1, k)]
                /\ IF k = Size
                   THEN Put(m.to, [s EXCEPT !.lock = None]) /\ user' = [user EXCEPT ![u] = Idle]
                   ELSE UNCHANGED slot /\ user' = [user EXCEPT ![u] = [pc |-> "rest", m |-> m, k |-> k]]
         ELSE Put(m.to, [s EXCEPT !.lock = None]) /\ Goto(u, "ref") /\ UNCHANGED wire
    /\ UNCHANGED <<allocId, pipe, thread, events, checkctrl, inbox, gone, told, known, count, over>>

MutWithRest(s, m, k) == [s EXCEPT !.dw = SubSeq(Units(m), k + 1, Size), !.lock = None]
\* The rest is left in dw_buffer for the socket thread
WithRest(s, m, k) == [s EXCEPT !.dw = SubSeq(Units(m), k + 1, Size), !.write = TRUE, !.lock = None]

KeepRest(u) ==
    /\ user[u].pc = "rest"
    /\ LET m == user[u].m IN Put(m.to, WithRest(At(m.to), m, user[u].k))
    /\ user' = [user EXCEPT ![u] = Idle]
    /\ UNCHANGED <<allocId, pipe, thread, events, checkctrl, kernel, told, known, count, over>>

MutSameSocket(s, id) == s.tcp
\* inc_sending_ref only counts for the same socket
SameSocket(s, id) == s.tcp /\ s.tag = Tag(id)

SendingRef(u) ==
    /\ user[u].pc = "ref"
    /\ LET id == user[u].m.to IN
         IF SameSocket(At(id), id)
         THEN Put(id, [At(id) EXCEPT !.sending = @ + 1])
         ELSE UNCHANGED slot
    /\ Goto(u, "pipe")
    /\ UNCHANGED <<allocId, pipe, thread, events, checkctrl, kernel, told, known, count, over>>

SendRequest(u) ==
    /\ user[u].pc = "pipe"
    /\ Request(IF user[u].m.low THEN "P" ELSE "D", user[u].m.to, user[u].m)
    /\ user' = [user EXCEPT ![u] = Idle]
    /\ UNCHANGED <<slot, allocId, thread, events, checkctrl, kernel, told, known, count, over>>

UserStep(u) ==
    Reserved(u) \/ MayLock(u) \/ TryLock(u) \/ DirectWrite(u) \/ KeepRest(u) \/ SendingRef(u) \/ SendRequest(u)

-----------------------------------------------------------------------------
(* send_buffer: the rest of a direct write goes first, then the high list, then  *)
(* the low one; a message of the low list that was sent in part is moved to the  *)
(* high list.  An outcome is the slot, the units written, and whether the        *)
(* assertions on the way held: the head of the low list is whole, and wb_size is *)
(* zero when all is sent.                                                        *)

AfterWrite(s, k) ==
    LET first == s.dw \o s.high
        high == SubSeq(first, k + 1, Len(first))
        low == SubSeq(s.low, k - Len(first) + 1, Len(s.low))
        n == IF Partial(low) THEN HeadUnits(low) ELSE 0
        all == [s EXCEPT !.dw = <<>>, !.wbSize = @ + Len(s.dw) - k]
    IN IF k < Len(first)
       THEN [all EXCEPT !.high = high]
       ELSE [all EXCEPT !.high = SubSeq(low, 1, n), !.low = SubSeq(low, n + 1, Len(low))]

\* What send_buffer_ asserts when everything was sent
WbSizeZero(s) == Unsent(s) = <<>> => s.wbSize = 0

Nothing(s) == [slot |-> s, units |-> <<>>, ok |-> TRUE]

\* With nothing left the write event is turned off and a closing socket closed
AllSent(s) == IF s.type = "HALFCLOSE" THEN Closed(s) ELSE [s EXCEPT !.write = FALSE]

SendBuffer(s, least) ==
    LET all == s.dw \o Unsent(s)
        Written(k) == [slot |-> IF k = Len(all) THEN AllSent(AfterWrite(s, k)) ELSE AfterWrite(s, k),
                       units |-> SubSeq(all, 1, k),
                       ok |-> ~Partial(s.low) /\ WbSizeZero(AfterWrite(s, k))]
        Failed == [slot |-> Closed(s), units |-> <<>>, ok |-> ~Partial(s.low)]
    IN IF s.lock # None THEN {Nothing(s)}
       ELSE {Written(k) : k \in {j \in 0..Len(all) : j >= least \/ j = Len(all)}}
            \cup (IF s.id \in gone /\ all # <<>> THEN {Failed} ELSE {})

-----------------------------------------------------------------------------
(* Commands, executed by the socket thread after the first event of a batch *)

MutClosedEvents(id) == {}
\* The end of force_close and of the poll: the events of the closed socket are dropped
ClosedEvents(id) == {e \in events : e.slot = HashId(id) /\ At(id).type = "INVALID" /\ At(id).id = id}

AtCommand(cmds) ==
    /\ thread = Polling /\ checkctrl = "yes" /\ pipe # <<>>
    /\ Head(pipe).cmd \in cmds
    /\ pipe' = Tail(pipe)
    /\ UNCHANGED <<allocId, checkctrl, events, user, known, count>>

\* open_socket: the connection fails, is there at once, or is in progress
OpenSocket ==
    /\ AtCommand({"O"})
    /\ LET id == Head(pipe).id IN
         \/ /\ Put(id, [At(id) EXCEPT !.type = "INVALID"])
            /\ thread' = [pc |-> "clear", id |-> id]
            /\ UNCHANGED <<told, aborted>>
         \/ /\ Put(id, NewFd(id, "CONNECTED", FALSE))
            /\ told' = Told(id, "open")
            /\ aborted' = FdRefused(id)
            /\ UNCHANGED thread
         \/ /\ Put(id, NewFd(id, "CONNECTING", TRUE))
            /\ aborted' = FdRefused(id)
            /\ UNCHANGED <<told, thread>>
    /\ UNCHANGED <<kernel, clobbered>>

ListenSocket ==
    /\ AtCommand({"L"})
    /\ LET id == Head(pipe).id IN Put(id, NewFd(id, "PLISTEN", FALSE)) /\ aborted' = FdRefused(id)
    /\ UNCHANGED <<thread, kernel, told, clobbered>>

\* start_socket: the socket is added to those that are polled, or this fails and it is closed
StartSocket ==
    /\ AtCommand({"S"})
    /\ LET id == Head(pipe).id  s == At(id) IN
         \/ /\ slot' = IF IsOpen(id) /\ s.type \in {"PACCEPT", "PLISTEN"}
                       THEN [slot EXCEPT ![HashId(id)].type =
                               IF s.type = "PACCEPT" THEN "CONNECTED" ELSE "LISTEN"]
                       ELSE slot
            /\ told' = IF ~IsOpen(id) THEN Told(id, "closed")
                       ELSE IF s.type \in {"PACCEPT", "PLISTEN", "CONNECTED"} THEN Told(id, "open")
                       ELSE told
            /\ UNCHANGED thread
         \/ /\ IsOpen(id) /\ s.type \in {"PACCEPT", "PLISTEN"}
            /\ ForceClose(id)
            /\ UNCHANGED told
    /\ UNCHANGED <<kernel, over>>

\* A socket with something to send is closed when it is sent, unless it is shut down
StaysOpen(s, cmd) == cmd = "K" /\ ~nomore_sending_data(s)

CloseSocket ==
    /\ AtCommand({"K", "shutdown"})
    /\ LET id == Head(pipe).id  s == At(id) IN
         IF ~IsOpen(id)
         THEN told' = Told(id, "closed") /\ UNCHANGED <<slot, thread, wire, over>>
         ELSE \E r \in IF nomore_sending_data(s) THEN {Nothing(s)} ELSE SendBuffer(s, 0) :
                /\ wire' = [wire EXCEPT ![id] = @ \o r.units]
                /\ IF r.slot.type = "INVALID"
                   THEN Put(id, r.slot) /\ thread' = [pc |-> "clear", id |-> id]
                   ELSE IF StaysOpen(r.slot, Head(pipe).cmd)
                   THEN Put(id, [r.slot EXCEPT !.type = "HALFCLOSE"]) /\ UNCHANGED thread
                   ELSE Put(id, Freed(r.slot)) /\ thread' = [pc |-> "close", id |-> id]
                /\ aborted' = (~r.ok \/ (s.type = "RESERVE" /\ ~StaysOpen(r.slot, Head(pipe).cmd)))
                /\ clobbered' = (clobbered \/ (s.type = "RESERVE"))
                /\ UNCHANGED told
    /\ UNCHANGED <<inbox, gone>>

\* send_socket, without the units of a message that comes too late ...
Appended(s, id, m) ==
    IF ~IsOpen(id) \/ s.type \in {"HALFCLOSE", "PACCEPT", "PLISTEN", "LISTEN"} THEN s
    ELSE LET first == Unsent(s) = <<>> /\ s.type = "CONNECTED"
             t == [s EXCEPT !.wbSize = @ + Size, !.write = @ \/ first]
         IN IF m.low /\ ~first
            THEN [t EXCEPT !.low = @ \o Units(m)]
            ELSE [t EXCEPT !.high = @ \o Units(m)]

\* ... and dec_sending_ref
SendSocket ==
    /\ AtCommand({"D", "P"})
    /\ LET id == Head(pipe).id
           s == Appended(At(id), id, Head(pipe).m)
           counted == s.id = id /\ s.tcp
       IN /\ Put(id, IF counted THEN [s EXCEPT !.sending = @ - 1] ELSE s)
          /\ aborted' = (counted /\ s.sending = 0)
    /\ UNCHANGED <<thread, kernel, told, clobbered>>

\* force_close gets the lock
CloseFd ==
    /\ thread.pc = "close"
    /\ At(thread.id).lock = None
    /\ Put(thread.id, Closed(At(thread.id)))
    /\ thread' = [thread EXCEPT !.pc = "clear"]
    /\ UNCHANGED <<allocId, pipe, events, checkctrl, user, kernel, told, known, count, over>>

\* clear_closed_event, and the message to the service
ClearEvents ==
    /\ thread.pc = "clear"
    /\ events' = events \ ClosedEvents(thread.id)
    /\ told' = Told(thread.id, "closed")
    /\ thread' = Polling
    /\ UNCHANGED <<slot, allocId, pipe, checkctrl, user, kernel, known, count, over>>

-----------------------------------------------------------------------------
(* Events *)

Readable(s) ==
    \/ s.type = "LISTEN"
    \/ s.type \in {"CONNECTED", "HALFCLOSE"} /\ s.id \in inbox \cup gone

\* has_cmd: with no command left the events of the batch go on
NoCommand ==
    /\ thread = Polling /\ checkctrl = "yes" /\ pipe = <<>>
    /\ checkctrl' = "no"
    /\ UNCHANGED <<slot, allocId, pipe, thread, events, user, kernel, told, known, count, over>>

\* sp_wait; everything that is ready comes, but nobody has to connect.  The event that
\* comes first is handled before the commands, unless it is that of the pipe
Wait ==
    /\ thread = Polling /\ events = {} /\ checkctrl = "no"
    /\ LET ready == {e \in [slot : Slots, read : BOOLEAN, write : BOOLEAN] :
                       /\ e.read \/ e.write
                       /\ e.read = Readable(slot[e.slot])
                       /\ e.write = slot[e.slot].write}
           incoming == {e \in ready : slot[e.slot].type = "LISTEN"}
       IN events' \in {ready, ready \ incoming}
    /\ \/ events' # {} /\ checkctrl' = "later"
       \/ pipe # <<>> /\ checkctrl' = "yes"
    /\ UNCHANGED <<slot, allocId, pipe, thread, user, kernel, told, known, count, over>>

AtEvent(e) ==
    /\ thread = Polling /\ checkctrl \in {"later", "no"}
    /\ e \in events
    /\ checkctrl' = IF checkctrl = "later" THEN "yes" ELSE "no"
    /\ UNCHANGED <<pipe, user, count>>

\* report_connect
ReportConnect(e) ==
    /\ AtEvent(e) /\ slot[e.slot].type = "CONNECTING"
    /\ events' = events \ {e}
    /\ LET s == slot[e.slot] IN
         \/ /\ Put(s.id, [s EXCEPT !.type = "CONNECTED", !.write = @ /\ ~nomore_sending_data(s)])
            /\ told' = Told(s.id, "open")
            /\ UNCHANGED thread
         \/ ForceClose(s.id) /\ UNCHANGED told
    /\ UNCHANGED <<allocId, kernel, known, over>>

\* report_accept, with no slot left it closes the descriptor
ReportAccept(e) ==
    /\ AtEvent(e) /\ slot[e.slot].type = "LISTEN"
    /\ events' = events \ {e}
    /\ IF Reservable = {} THEN UNCHANGED <<slot, allocId, known, aborted>>
       ELSE /\ Put(NextId, NewFd(NextId, "PACCEPT", FALSE))
            /\ allocId' = NextId
            /\ known' = [u \in Users |-> known[u] \cup {NextId}]
            /\ aborted' = (Unsent(At(NextId)) # <<>>)
    /\ UNCHANGED <<thread, kernel, told, clobbered>>

\* forward_message_tcp; with the write flag set the event is kept for it.  The event of
\* an earlier socket of the slot may find one that is to listen, which cannot be read
Stream == {"CONNECTED", "HALFCLOSE", "PACCEPT"}

Read(e) ==
    /\ AtEvent(e) /\ e.read /\ slot[e.slot].type \in Stream \cup {"PLISTEN"}
    /\ LET s == slot[e.slot] IN
         IF s.id \in gone \ inbox \/ s.type = "PLISTEN"
         THEN /\ events' = events \ {e}
              /\ ForceClose(s.id)
              /\ UNCHANGED <<inbox, told>>
         ELSE /\ events' = (events \ {e}) \cup (IF e.write THEN {[e EXCEPT !.read = FALSE]} ELSE {})
              /\ inbox' = inbox \ {s.id}
              /\ told' = IF s.id \in inbox /\ s.type # "HALFCLOSE" THEN Told(s.id, "data") ELSE told
              /\ UNCHANGED <<slot, thread>>
    /\ UNCHANGED <<allocId, wire, gone, known, over>>

Write(e) ==
    /\ AtEvent(e) /\ ~e.read /\ slot[e.slot].type \in Stream \cup {"PLISTEN"}
    /\ events' = events \ {e}
    /\ \E r \in SendBuffer(slot[e.slot], 1) :
         /\ slot' = [slot EXCEPT ![e.slot] = r.slot]
         /\ wire' = [wire EXCEPT ![slot[e.slot].id] = @ \o r.units]
         /\ thread' = IF r.slot.type = "INVALID" THEN [pc |-> "clear", id |-> r.slot.id] ELSE thread
         /\ aborted' = ~r.ok
    /\ UNCHANGED <<allocId, inbox, gone, told, known, clobbered>>

\* An event whose socket was closed in the batch.  If the slot was reserved again
\* meanwhile, a read fails and force_close finds a reserved slot
Stale(e) ==
    /\ AtEvent(e) /\ slot[e.slot].type \in {"INVALID", "RESERVE"}
    /\ events' = events \ {e}
    /\ aborted' = (slot[e.slot].type = "RESERVE" /\ (e.read \/ slot[e.slot].wbSize # 0))
    /\ UNCHANGED <<slot, allocId, thread, kernel, told, known, clobbered>>

Command == OpenSocket \/ ListenSocket \/ StartSocket \/ CloseSocket \/ SendSocket

Poll ==
    \/ Command \/ CloseFd \/ ClearEvents \/ NoCommand \/ Wait
    \/ \E e \in events : ReportConnect(e) \/ ReportAccept(e) \/ Read(e) \/ Write(e) \/ Stale(e)

-----------------------------------------------------------------------------
(* The peers *)

PeerSends(id) ==
    /\ id \in Talkers
    /\ At(id).id = id /\ At(id).type \in Stream /\ id \notin gone \cup inbox
    /\ inbox' = inbox \cup {id}
    /\ UNCHANGED <<server, allocId, user, wire, gone, told, known, count, over>>

PeerGoes(id) ==
    /\ At(id).id = id /\ At(id).type \in Stream /\ id \notin gone
    /\ gone' = gone \cup {id}
    /\ UNCHANGED <<server, allocId, user, wire, inbox, told, known, count, over>>

Service(u) ==
    \/ \E cmd \in {"O", "L"} : Reserve(u, cmd)
    \/ \E id \in Ids :
         \/ \E cmd \in {"S", "K", "shutdown"} : Ask(u, cmd, id)
         \/ \E low \in BOOLEAN : Send(u, id, low)

Next ==
    /\ ~aborted
    /\ \/ \E u \in Users : Service(u) \/ UserStep(u)
       \/ Poll
       \/ \E id \in Ids : PeerSends(id) \/ PeerGoes(id)

(* The threads run; no service has to call and no peer has to do anything.      *)
Fairness == WF_vars(~aborted /\ Poll) /\ \A u \in Users : WF_vars(~aborted /\ UserStep(u))

Spec == Init /\ [][Next]_vars /\ Fairness

-----------------------------------------------------------------------------
(* What the socket server promises *)

\* Nothing is promised after a failed assertion.  Nor is it after close_socket has met
\* a slot that reserve_id has taken and not given its new id yet, under the old id, and
\* with sending still counting messages to that old socket: it half closes the slot,
\* and what reserved it may meet another socket there
Sound == ~aborted /\ ~clobbered

\* The socket thread is closing the socket, or has
Closing(id) == told[id] = "closed" \/ (thread # Polling /\ thread.id = id)

\* Whatever worker or thread writes, a connection only gets messages sent to it, each
\* of them whole before the next begins: the dw_lock, its double check and the place
\* of the rest of a direct write see to it.  The end of a socket that is closed with
\* data unsent is excepted: force_close frees the lists before it takes the lock, and
\* a worker that finds them empty writes behind half a message
StreamIsWhole ==
    Sound => \A id \in Ids : \A i \in DOMAIN wire[id] :
        LET x == wire[id][i] IN
        /\ x.m.to = id
        /\ IF x.u = 1 THEN i = 1 \/ wire[id][i - 1].u = Size \/ Closing(id)
           ELSE i > 1 /\ wire[id][i - 1] = [m |-> x.m, u |-> x.u - 1]

\* Messages of high priority of one service leave in the order it sent them, though
\* some take the pipe and others do not
SentInOrder ==
    Sound => \A id \in Ids : \A i, j \in DOMAIN wire[id] :
        LET x == wire[id][i].m  y == wire[id][j].m IN
        (i < j /\ x.from = y.from /\ ~x.low /\ ~y.low) => x.n <= y.n

\* s->sending is the number of messages to this socket that are in the pipe or about
\* to be, which is what dec_sending_ref asserts and a direct write relies on
SendingExact ==
    Sound => \A id \in Ids : IsOpen(id) /\ At(id).tcp /\ At(id).type # "RESERVE" =>
        At(id).sending =
            Cardinality({i \in DOMAIN pipe : pipe[i].cmd \in {"D", "P"} /\ pipe[i].id = id})
          + Cardinality({u \in Users : user[u].pc = "pipe" /\ user[u].m.to = id})

\* A service hears of data only between the opening and the closing of a socket:
\* the events of a closed socket are not taken for those of the next in its slot
DataWhileOpen == Sound => \A id \in Ids : told[id] # "late"

\* A message that was accepted is written, or its socket is closed
Waiting(n) ==
    \/ \E x \in Slots : LET all == slot[x].dw \o Unsent(slot[x]) IN
                         slot[x].type \in {"CONNECTED", "HALFCLOSE"} /\ \E i \in DOMAIN all : all[i].m.n = n
    \/ \E i \in DOMAIN pipe : pipe[i].cmd \in {"D", "P"} /\ pipe[i].m.n = n

EveryMessageLeaves == \A n \in 1..MaxSends : Waiting(n) ~> (~Waiting(n) \/ aborted)

\* "if s->type == SOCKET_TYPE_HALFCLOSE , SOCKET_CLOSE message will send later"
\* (start_socket)
HalfCloseIsClosed ==
    \A id \in Ids : (At(id).id = id /\ At(id).type = "HALFCLOSE") ~> (told[id] = "closed" \/ aborted)
=============================================================================
