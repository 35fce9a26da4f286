---------------------------- MODULE GateSession -----------------------------
(* The websocket gate, its table of sessions and the login service:            *)
(* wsgateserver.lua, ykwsgate.lua, gamesession.lua and authser/ctrl.lua.         *)
(*                                                                             *)
(* The gate handles one message at a time and runs until a call: what it does   *)
(* with an event of the socket server, or with a call of the login service or   *)
(* of its own clean-up, is one step.  A login is a coroutine of the login        *)
(* service that calls the database and the gate in turn, so that everything     *)
(* else happens between two of its steps; several run at once, of the same       *)
(* client too, for each message of a client is handled in a coroutine of its own.*)
(*                                                                             *)
(* A client is the id of its socket: the socket server gives ids out in          *)
(* increasing order and uses none twice.  What a message is (a heartbeat, a      *)
(* login, one that is too long or cannot be decoded) is chosen when the gate    *)
(* handles it.  Time is counted in intervals of the clean-up.                   *)
EXTENDS Integers, Sequences, FiniteSets

CONSTANTS
    Clients,     \* the sockets of the clients
    Roles,       \* the roles they log in as
    None,        \* no role
    MaxClient,   \* maxclient of the gate
    Silence,     \* intervals a client may be silent: 2 in the code
    MaxLogins,   \* bound: login messages in a behaviour
    MaxSends     \* bound: messages of the clients in a behaviour

ASSUME RolesAssumption == None \notin Roles \cup Clients
ASSUME ClientsAssumption == IsFiniteSet(Clients)
ASSUME LimitsAssumption == MaxClient \in Nat /\ Silence \in Nat
ASSUME BoundsAssumption == MaxLogins \in Nat /\ MaxSends \in Nat

VARIABLES
    socket,      \* each socket: "new", "accepted" (not started), "open", "half" closed, "gone"
    closing,     \* the sockets with a close request on its way to the socket server
    events,      \* the messages of the socket server the gate has not handled, for each socket
    sends,       \* the messages sent so far
    connection,  \* connection[fd]: "none", "handshake" or "ready"
    clientNumber, \* client_number
    session,     \* the sockets with an entry in _globalSession
    roleId,      \* the role of each session
    idle,        \* intervals since lastActivityTime of each session
    login,       \* the logins: client, role, where it is, the session it found
    crossed,     \* history: the roles that had two logins between their look-up and their binding
    cleaner,     \* the clean-up: "asleep", "awake" or "kicking"
    kickplayer   \* the sessions the clean-up has still to kick

socketVars == <<socket, events, sends>>
connectionVars == <<connection, clientNumber, closing>>
sessionVars == <<session, roleId, idle>>
loginVars == <<login, crossed>>
cleanVars == <<cleaner, kickplayer>>
vars == <<socketVars, connectionVars, sessionVars, loginVars, cleanVars>>

Logins == 1..MaxLogins
Between == {"kick", "bind"}

NoLogin == [client |-> None, role |-> None, other |-> None, at |-> "unused"]

LoginType == [client : Clients \cup {None}, role : Roles \cup {None}, other : Clients \cup {None},
              at : {"unused", "find", "kick", "bind", "done"}]

TypeOK ==
    /\ socket \in [Clients -> {"new", "accepted", "open", "half", "gone"}]
    /\ closing \subseteq Clients
    /\ events \in [Clients -> Seq({"open", "data", "close"})]
    /\ sends \in 0..MaxSends
    /\ connection \in [Clients -> {"none", "handshake", "ready"}]
    /\ clientNumber \in Int
    /\ session \subseteq Clients
    /\ roleId \in [Clients -> Roles \cup {None}]
    /\ idle \in [Clients -> 0..Silence + 1]
    /\ login \in [Logins -> LoginType]
    /\ crossed \subseteq Roles
    /\ cleaner \in {"asleep", "awake", "kicking"}
    /\ kickplayer \subseteq Clients

\* The event e is somewhere in the queue q
Has(q, e) == \E i \in DOMAIN q : q[i] = e

Connected == {c \in Clients : connection[c] # "none"}

Init ==
    /\ socket = [c \in Clients |-> "new"] /\ closing = {} /\ sends = 0
    /\ events = [c \in Clients |-> <<>>]
    /\ connection = [c \in Clients |-> "none"] /\ clientNumber = 0
    /\ session = {} /\ roleId = [c \in Clients |-> None] /\ idle = [c \in Clients |-> 0]
    /\ login = [l \in Logins |-> NoLogin] /\ crossed = {} /\ cleaner = "asleep" /\ kickplayer = {}

-----------------------------------------------------------------------------
(* The socket server, as SocketServer.tla models it, seen from the gate.        *)

Emit(c, e) == events' = [events EXCEPT ![c] = Append(@, e)]

Accept(c) ==
    /\ socket[c] = "new"
    /\ socket' = [socket EXCEPT ![c] = "accepted"]
    /\ Emit(c, "open")
    /\ UNCHANGED <<sends, connectionVars, sessionVars, loginVars, cleanVars>>

\* What a half closed socket still receives is dropped
ClientSends(c) ==
    /\ socket[c] = "open" /\ sends < MaxSends
    /\ sends' = sends + 1
    /\ Emit(c, "data")
    /\ UNCHANGED <<socket, connectionVars, sessionVars, loginVars, cleanVars>>

\* The client hangs up, or its connection breaks: a close or an error, which the
\* gate handles alike.  Or the last of a half closed socket has been written.
HangUp(c) ==
    /\ socket[c] \in {"open", "half"}
    /\ socket' = [socket EXCEPT ![c] = "gone"]
    /\ Emit(c, "close")
    /\ UNCHANGED <<sends, connectionVars, sessionVars, loginVars, cleanVars>>

\* close_socket answers a socket it no longer has with a close too
CloseSocket(c) ==
    /\ c \in closing
    /\ closing' = closing \ {c}
    /\ \/ socket' = [socket EXCEPT ![c] = "gone"] /\ Emit(c, "close")
       \/ /\ socket[c] = "open"             \* unsent data
          /\ socket' = [socket EXCEPT ![c] = "half"]
          /\ UNCHANGED events
    /\ UNCHANGED <<sends, connection, clientNumber, sessionVars, loginVars, cleanVars>>

-----------------------------------------------------------------------------
(* The gate.                                                                    *)

\* gateserver.closeclient
CloseClient(c) ==
    IF connection[c] # "none"
    THEN /\ clientNumber' = clientNumber - 1
         /\ connection' = [connection EXCEPT ![c] = "none"]
         /\ closing' = closing \cup {c}
    ELSE UNCHANGED connectionVars

\* close_fd, after the handler of a close or an error has called kickfd: the
\* connection is gone and is not counted out again
MutKickThenCloseFd(c) ==
    /\ clientNumber' = clientNumber - (IF connection[c] # "none" THEN 2 ELSE 1)
    /\ connection' = [connection EXCEPT ![c] = "none"]
    /\ closing' = IF connection[c] # "none" THEN closing \cup {c} ELSE closing
KickThenCloseFd(c) == CloseClient(c)

MutForget(c) == UNCHANGED sessionVars
\* CMD.Clear: a session that no service listens to is only dropped
Forget(c) ==
    /\ session' = session \ {c}
    /\ roleId' = [roleId EXCEPT ![c] = None]
    /\ idle' = [idle EXCEPT ![c] = 0]

KickFd(c) == CloseClient(c) /\ Forget(c)

MsgOpen(c) ==
    IF clientNumber >= MaxClient
    THEN /\ closing' = closing \cup {c}
         /\ UNCHANGED <<socket, connection, clientNumber, sessionVars>>
    ELSE /\ connection' = [connection EXCEPT ![c] = "handshake"]
         /\ clientNumber' = clientNumber + 1
         /\ socket' = [socket EXCEPT ![c] = "open"]
         /\ session' = session \cup {c}
         /\ roleId' = [roleId EXCEPT ![c] = None]
         /\ idle' = [idle EXCEPT ![c] = 0]
         /\ UNCHANGED closing

\* The first message must ask for a websocket.  If it does not, the answer says so
\* and the client is closed; the answer to a socket that is gone raises instead.
Handshake(c) ==
    /\ connection[c] = "handshake"
    /\ \/ connection' = [connection EXCEPT ![c] = "ready"] /\ UNCHANGED <<clientNumber, closing>>
       \/ CloseClient(c)
       \/ socket[c] = "gone" /\ UNCHANGED connectionVars
    /\ UNCHANGED <<sessionVars, loginVars>>

RefreshSession(c) ==
    /\ idle' = [idle EXCEPT ![c] = 0]
    /\ UNCHANGED <<session, roleId>>

\* Too long: closed before it counts as a sign of life
TooLong(c) ==
    /\ connection[c] = "ready"
    /\ CloseClient(c)
    /\ UNCHANGED <<sessionVars, loginVars>>

CannotDecode(c) ==
    /\ connection[c] = "ready"
    /\ RefreshSession(c)
    /\ CloseClient(c)
    /\ UNCHANGED loginVars

Heartbeat(c) ==
    /\ connection[c] = "ready"
    /\ RefreshSession(c)
    /\ UNCHANGED <<connectionVars, loginVars>>

\* The message goes to the login service in a call that blocks this coroutine only
RedirectLogin(c) ==
    /\ connection[c] = "ready"
    /\ RefreshSession(c)
    /\ \E l \in Logins, r \in Roles :
         /\ login[l].at = "unused" /\ \A k \in 1..l - 1 : login[k].at # "unused"
         /\ login' = [login EXCEPT ![l] = [client |-> c, role |-> r, other |-> c, at |-> "find"]]
    /\ UNCHANGED <<connectionVars, crossed>>

Dropped(c) ==
    /\ connection[c] = "none"
    /\ UNCHANGED <<connectionVars, sessionVars, loginVars>>

MsgData(c) ==
    \/ Handshake(c) \/ TooLong(c) \/ CannotDecode(c)
    \/ Heartbeat(c) \/ RedirectLogin(c) \/ Dropped(c)

\* MSG.close and MSG.error: the handler's kickfd, then close_fd
MsgClose(c) == KickThenCloseFd(c) /\ Forget(c)

Gate(c) ==
    /\ events[c] # <<>>
    /\ events' = [events EXCEPT ![c] = Tail(@)]
    /\ \/ Head(events[c]) = "open" /\ MsgOpen(c) /\ UNCHANGED loginVars
       \/ Head(events[c]) = "data" /\ MsgData(c) /\ UNCHANGED socket
       \/ Head(events[c]) = "close" /\ MsgClose(c) /\ UNCHANGED <<socket, loginVars>>
    /\ UNCHANGED <<sends, cleanVars>>

-----------------------------------------------------------------------------
(* A login.  Its calls to the database, and the push to the other client, change *)
(* nothing that is modelled and are taken with the call after them.              *)

At(l, at) == login[l].at = at
Goto(l, at) == login' = [login EXCEPT ![l].at = at]
Done(l) == login' = [login EXCEPT ![l] = [NoLogin EXCEPT !.at = "done"]]

MutFound(role) == {c \in session : roleId[c] = role /\ connection[c] # "none"}
\* FindByUserId: any of the sessions of the role
Found(role) == {c \in session : roleId[c] = role}

Meets(l) == \E k \in Logins \ {l} : login[k].role = login[l].role /\ login[k].at \in Between

\* After checkToken and setLastLoginTime of the database service
FindByUserId(l) ==
    /\ At(l, "find")
    /\ \/ Done(l)                             \* the token does not match
       \/ Found(login[l].role) = {} /\ Goto(l, "bind")
       \/ \E other \in Found(login[l].role) :
            IF other = login[l].client
            THEN Done(l)                      \* logined
            ELSE login' = [login EXCEPT ![l].other = other, ![l].at = "kick"]
    /\ crossed' = IF Meets(l) /\ login'[l].at \in Between
                  THEN crossed \cup {login[l].role} ELSE crossed
    /\ UNCHANGED <<socketVars, connectionVars, sessionVars, cleanVars>>

\* After the other client has been told that its account is used elsewhere
KickOther(l) ==
    /\ At(l, "kick")
    /\ KickFd(login[l].other)
    /\ Goto(l, "bind")
    /\ UNCHANGED <<socketVars, crossed, cleanVars>>

\* BindUserId answers whether the session is still there; getUserData follows
BindUserId(l) ==
    /\ At(l, "bind")
    /\ roleId' = IF login[l].client \in session
                 THEN [roleId EXCEPT ![login[l].client] = login[l].role] ELSE roleId
    /\ Done(l)
    /\ UNCHANGED <<socketVars, connectionVars, session, idle, crossed, cleanVars>>

Login(l) == FindByUserId(l) \/ KickOther(l) \/ BindUserId(l)

-----------------------------------------------------------------------------
(* The clean-up, a coroutine of the gate, and the time it measures.             *)

Tick ==
    /\ idle' = [c \in Clients |-> IF c \in session /\ idle[c] <= Silence THEN idle[c] + 1 ELSE idle[c]]
    /\ cleaner' = IF cleaner = "asleep" THEN "awake" ELSE cleaner
    /\ UNCHANGED <<socketVars, connectionVars, session, roleId, loginVars, kickplayer>>

MutSilent(c) == idle[c] > Silence /\ roleId[c] # None
Silent(c) == idle[c] > Silence

Collect ==
    /\ cleaner = "awake"
    /\ kickplayer' = {c \in session : Silent(c)}
    /\ cleaner' = "kicking"
    /\ UNCHANGED <<socketVars, connectionVars, sessionVars, loginVars>>

\* A call of the gate to itself for each of them: others come in between
HeartbeatTimeOut ==
    /\ cleaner = "kicking"
    /\ \E c \in kickplayer : KickFd(c) /\ kickplayer' = kickplayer \ {c}
    /\ UNCHANGED <<socketVars, loginVars, cleaner>>

\* Save calls the database service; an error there is caught
SaveAndSleep ==
    /\ cleaner = "kicking" /\ kickplayer = {}
    /\ cleaner' = "asleep"
    /\ UNCHANGED <<socketVars, connectionVars, sessionVars, loginVars, kickplayer>>

CleanUp == Collect \/ HeartbeatTimeOut \/ SaveAndSleep

Next ==
    \/ \E c \in Clients : Accept(c) \/ ClientSends(c) \/ HangUp(c) \/ CloseSocket(c) \/ Gate(c)
    \/ \E l \in Logins : Login(l)
    \/ Tick \/ CleanUp

Spec == Init /\ [][Next]_vars

\* Every message is handled, every call answered and time passes.  The clients need
\* do nothing, and a half closed socket need not come to its end.
Fairness ==
    /\ \A c \in Clients : WF_vars(Gate(c)) /\ WF_vars(CloseSocket(c))
    /\ \A l \in Logins : WF_vars(Login(l))
    /\ WF_vars(Tick) /\ WF_vars(CleanUp)

FairSpec == Spec /\ Fairness

-----------------------------------------------------------------------------
(* Properties.                                                                  *)

\* client_number is the number of connections, whatever mixture of refusals, bad
\* handshakes, kicks, time-outs, closes and errors ended the others: if it drifted up
\* the gate would turn clients away for ever.
ClientsAreCounted == clientNumber = Cardinality(Connected)

\* Every connection has a session, and a session whose connection is gone has its close
\* on the way: as a request, as a half closed socket or as an event to be handled.
NoGhostSession ==
    /\ \A c \in Clients : connection[c] # "none" => c \in session
    /\ \A c \in session : \/ connection[c] # "none"
                          \/ c \in closing
                          \/ socket[c] = "half"
                          \/ Has(events[c], "close")

\* A role is bound to two clients only if two logins of the role were both between
\* looking for the other session and binding their own: authser/ctrl.lua does not
\* exclude that, and nothing else lets two clients play one account.
OneSessionPerRole ==
    \A c, d \in session : c # d /\ roleId[c] = roleId[d] /\ roleId[c] # None => roleId[c] \in crossed

\* A client that falls silent loses its session, though its socket may never tell.
SilentIsCleared ==
    \A c \in Clients : (c \in session /\ idle[c] > Silence) ~> (c \notin session \/ idle[c] = 0)
=============================================================================
