------------------------- MODULE GateSessionProofs --------------------------
(***************************************************************************)
(* The gate counts its clients, knows how every session ends and lets two   *)
(* clients hold a role only after crossed logins, for any number of clients, *)
(* roles, logins and messages.                                             *)
(***************************************************************************)
EXTENDS GateSession, FiniteSetTheorems, TLAPS

\* The open event of a socket comes once, before everything else.
OpensOnce ==
  \A c \in Clients :
    /\ socket[c] = "new" => events[c] = <<>> /\ connection[c] = "none" /\ c \notin closing
    /\ socket[c] = "accepted" =>
         /\ connection[c] = "none"
         /\ \/ events[c] = <<"open">> /\ c \notin closing
            \/ events[c] = <<>>
    /\ Has(events[c], "open") => socket[c] = "accepted"

\* A login in progress knows its client, its role and whom it kicks.
LoginsKnow ==
  \A l \in Logins : login[l].at \in {"find", "kick", "bind"} =>
    login[l].client \in Clients /\ login[l].role \in Roles /\ login[l].other \in Clients

\* As long as no two logins of a role crossed, one client holds it, one login of it
\* is past its look-up, and what that login found is all there is.
OneHolder(r) ==
  /\ \A c, d \in Found(r) : c = d
  /\ \A l, k \in Logins : login[l].role = r /\ login[k].role = r
       /\ login[l].at \in Between /\ login[k].at \in Between => l = k
  /\ \A l \in Logins : login[l].role = r =>
       /\ login[l].at = "kick" => Found(r) \subseteq {login[l].other}
       /\ login[l].at = "bind" => Found(r) = {}

Holders == \A r \in Roles : r \notin crossed => OneHolder(r)

IInv == TypeOK /\ OpensOnce /\ LoginsKnow /\ NoGhostSession /\ ClientsAreCounted /\ Holders

-----------------------------------------------------------------------------
Event == {"open", "data", "close"}

\* What the queue of a socket holds after an event is added.
LEMMA AppendHas ==
  ASSUME NEW q \in Seq(Event), NEW e \in Event
  PROVE  /\ Append(q, e) \in Seq(Event)
         /\ \A f : Has(Append(q, e), f) <=> Has(q, f) \/ f = e
         /\ q = <<>> => Append(q, e) = <<e>>
<1>1. Append(q, e) \in Seq(Event) /\ Len(Append(q, e)) = Len(q) + 1 /\ Len(q) \in Nat
  OBVIOUS
<1>2. \A i \in 1..Len(q) : Append(q, e)[i] = q[i]
  OBVIOUS
<1>3. Append(q, e)[Len(q) + 1] = e
  OBVIOUS
<1>4. DOMAIN Append(q, e) = 1..Len(q) + 1 /\ DOMAIN q = 1..Len(q)
  BY <1>1
<1>5. ASSUME NEW f PROVE Has(Append(q, e), f) <=> Has(q, f) \/ f = e
  <2>1. ASSUME NEW i \in 1..Len(q) + 1 PROVE i \in 1..Len(q) \/ i = Len(q) + 1
    BY <1>1
  <2>2. Len(q) + 1 \in 1..Len(q) + 1 /\ \A i \in 1..Len(q) : i \in 1..Len(q) + 1
    BY <1>1
  <2> QED
    BY <1>2, <1>3, <1>4, <2>1, <2>2 DEF Has
<1>6. q = <<>> => Append(q, e) = <<e>>
  OBVIOUS
<1> QED
  BY <1>1, <1>5, <1>6

\* What it holds after the first one is handled.
LEMMA TailHas ==
  ASSUME NEW q \in Seq(Event), q # <<>>
  PROVE  /\ Tail(q) \in Seq(Event) /\ Head(q) \in Event /\ Has(q, Head(q))
         /\ \A f : Has(Tail(q), f) => Has(q, f)
         /\ \A f : Has(q, f) /\ f # Head(q) => Has(Tail(q), f)
         /\ \A e : q = <<e>> => Tail(q) = <<>>
<1>1. Tail(q) \in Seq(Event) /\ Len(q) \in Nat \ {0} /\ Len(Tail(q)) = Len(q) - 1
  OBVIOUS
<1>2. \A i \in 1..Len(q) - 1 : Tail(q)[i] = q[i + 1]
  OBVIOUS
<1>3. DOMAIN q = 1..Len(q) /\ DOMAIN Tail(q) = 1..Len(q) - 1 /\ Head(q) = q[1]
  BY <1>1
<1>4. Head(q) \in Event /\ Has(q, Head(q))
  BY <1>1, <1>3 DEF Has
<1>5. ASSUME NEW f, Has(Tail(q), f) PROVE Has(q, f)
  <2>1. PICK i \in 1..Len(q) - 1 : Tail(q)[i] = f
    BY <1>3, <1>5 DEF Has
  <2>2. i + 1 \in 1..Len(q) /\ q[i + 1] = f
    BY <1>1, <1>2, <2>1
  <2> QED
    BY <1>3, <2>2 DEF Has
<1>6. ASSUME NEW f, Has(q, f), f # Head(q) PROVE Has(Tail(q), f)
  <2>1. PICK i \in 1..Len(q) : q[i] = f
    BY <1>3, <1>6 DEF Has
  <2>2. i - 1 \in 1..Len(q) - 1 /\ i = (i - 1) + 1
    BY <1>1, <1>3, <1>6, <2>1
  <2>3. Tail(q)[i - 1] = f
    BY <1>2, <2>1, <2>2
  <2> QED
    BY <1>3, <2>2, <2>3 DEF Has
<1>7. \A e : q = <<e>> => Tail(q) = <<>>
  OBVIOUS
<1> QED
  BY <1>1, <1>4, <1>5, <1>6, <1>7

-----------------------------------------------------------------------------
\* Connected is a subset of a finite set.
LEMMA ConnectedFinite == IsFiniteSet(Connected)
BY ClientsAssumption, FS_Subset DEF Connected

\* closeclient takes one connection away, if it is there, and counts it out.
LEMMA CloseClientDoes ==
  ASSUME TypeOK, ClientsAreCounted, NEW c \in Clients, CloseClient(c)
  PROVE  /\ connection' = [connection EXCEPT ![c] = "none"]
         /\ connection' \in [Clients -> {"none", "handshake", "ready"}]
         /\ connection'[c] = "none"
         /\ \A d \in Clients \ {c} : connection'[d] = connection[d]
         /\ closing \subseteq closing' /\ closing' \subseteq closing \cup {c}
         /\ connection[c] # "none" => c \in closing'
         /\ connection[c] = "none" => closing' = closing
         /\ clientNumber' \in Int
         /\ ClientsAreCounted'
<1>1. CASE connection[c] = "none"
  <2>1. UNCHANGED connectionVars /\ connection' = [connection EXCEPT ![c] = "none"]
    BY <1>1 DEF CloseClient, connectionVars, TypeOK
  <2>2. Connected' = Connected
    BY <2>1 DEF Connected, connectionVars
  <2> QED
    BY <1>1, <2>1, <2>2 DEF connectionVars, TypeOK, ClientsAreCounted
<1>2. CASE connection[c] # "none"
  <2>1. c \in Connected /\ Connected' = Connected \ {c}
    BY <1>2 DEF CloseClient, Connected, TypeOK
  <2>2. Cardinality(Connected') = Cardinality(Connected) - 1
    BY <2>1, ConnectedFinite, FS_RemoveElement
  <2> QED
    <3>1. connection' = [connection EXCEPT ![c] = "none"] /\ closing' = closing \cup {c}
          /\ clientNumber' = clientNumber - 1
      BY <1>2 DEF CloseClient
    <3>2. clientNumber' \in Int /\ ClientsAreCounted'
      BY <2>2, <3>1, ConnectedFinite, FS_CardinalityType DEF TypeOK, ClientsAreCounted
    <3> QED
      BY <1>2, <3>1, <3>2 DEF TypeOK
<1> QED
  BY <1>1, <1>2

\* MSG.open counts a new connection in.
LEMMA MsgOpenCounts ==
  ASSUME TypeOK, ClientsAreCounted, NEW c \in Clients, connection[c] = "none", MsgOpen(c)
  PROVE  ClientsAreCounted'
<1>1. CASE clientNumber >= MaxClient
  BY <1>1 DEF MsgOpen, ClientsAreCounted, Connected
<1>2. CASE ~ (clientNumber >= MaxClient)
  <2>1. c \notin Connected /\ Connected' = Connected \cup {c}
    BY <1>2 DEF MsgOpen, Connected, TypeOK
  <2>2. Cardinality(Connected') = Cardinality(Connected) + 1
    BY <2>1, ConnectedFinite, FS_AddElement
  <2> QED
    BY <1>2, <2>2 DEF MsgOpen, TypeOK, ClientsAreCounted
<1> QED
  BY <1>1, <1>2

\* The invariant holds at the start.
LEMMA InitInv == Init => IInv
<1> SUFFICES ASSUME Init PROVE IInv
  OBVIOUS
<1>1. TypeOK
  <2>1. NoLogin \in LoginType
    BY DEF NoLogin, LoginType
  <2>2. 0 \in 0..Silence + 1 /\ 0 \in 0..MaxSends
    BY LimitsAssumption, BoundsAssumption
  <2>3. <<>> \in Seq({"open", "data", "close"})
    OBVIOUS
  <2> QED
    BY <2>1, <2>2, <2>3 DEF Init, TypeOK
<1>2. OpensOnce
  BY DEF Init, OpensOnce, Has
<1>3. LoginsKnow /\ NoGhostSession
  BY DEF Init, LoginsKnow, NoGhostSession, NoLogin
<1>4. ClientsAreCounted
  <2>1. Connected = {}
    BY DEF Init, Connected
  <2> QED
    BY <2>1, FS_EmptySet DEF Init, ClientsAreCounted
<1>5. Holders
  BY DEF Init, Holders, OneHolder, Found, NoLogin, Between
<1> QED
  BY <1>1, <1>2, <1>3, <1>4, <1>5 DEF IInv

-----------------------------------------------------------------------------
(* Type correctness, one step per action.                                       *)

LEMMA TypeStep ==
  ASSUME TypeOK, LoginsKnow, ClientsAreCounted, [Next]_vars
  PROVE  TypeOK'
<1> USE DEF TypeOK, Event
<1>a. \A c \in Clients : events[c] \in Seq(Event)
  OBVIOUS
<1>e. ASSUME NEW c \in Clients, NEW e \in Event, Emit(c, e)
      PROVE  events' \in [Clients -> Seq(Event)]
  BY <1>e, <1>a, AppendHas DEF Emit
<1>k. ASSUME NEW c \in Clients, Forget(c)
      PROVE  session' \subseteq Clients /\ roleId' \in [Clients -> Roles \cup {None}]
             /\ idle' \in [Clients -> 0..Silence + 1]
  BY <1>k, LimitsAssumption DEF Forget
<1>r. ASSUME NEW c \in Clients, RefreshSession(c)
      PROVE  idle' \in [Clients -> 0..Silence + 1]
  BY <1>r, LimitsAssumption DEF RefreshSession
<1>g. ASSUME NEW l \in Logins, NEW at \in {"find", "kick", "bind", "done"}, Goto(l, at) \/ Done(l)
      PROVE  login' \in [Logins -> LoginType]
  <2>1. login[l] \in LoginType
    OBVIOUS
  <2>2. [login[l] EXCEPT !.at = at] \in LoginType
    BY <2>1 DEF LoginType
  <2>3. [NoLogin EXCEPT !.at = "done"] \in LoginType
    BY DEF NoLogin, LoginType
  <2> QED
    BY <1>g, <2>2, <2>3 DEF Goto, Done
<1>1. ASSUME NEW c \in Clients, Accept(c) PROVE TypeOK'
  BY <1>1, <1>e DEF Accept, connectionVars, sessionVars, loginVars, cleanVars
<1>2. ASSUME NEW c \in Clients, ClientSends(c) PROVE TypeOK'
  BY <1>2, <1>e, BoundsAssumption DEF ClientSends, connectionVars, sessionVars, loginVars, cleanVars
<1>3. ASSUME NEW c \in Clients, HangUp(c) PROVE TypeOK'
  BY <1>3, <1>e DEF HangUp, connectionVars, sessionVars, loginVars, cleanVars
<1>4. ASSUME NEW c \in Clients, CloseSocket(c) PROVE TypeOK'
  BY <1>4, <1>e DEF CloseSocket, sessionVars, loginVars, cleanVars
<1>5. ASSUME NEW c \in Clients, Gate(c) PROVE TypeOK'
  <2>1. events' \in [Clients -> Seq(Event)] /\ UNCHANGED <<sends, cleanVars>>
    BY <1>5, <1>a, TailHas DEF Gate
  <2>2. CASE MsgOpen(c) /\ UNCHANGED loginVars
    <3>1. CASE clientNumber >= MaxClient
      BY <2>1, <2>2, <3>1 DEF MsgOpen, sessionVars, loginVars, cleanVars
    <3>2. CASE ~ (clientNumber >= MaxClient)
      <4>1. /\ connection' = [connection EXCEPT ![c] = "handshake"]
            /\ clientNumber' = clientNumber + 1
            /\ socket' = [socket EXCEPT ![c] = "open"]
            /\ session' = session \cup {c}
            /\ roleId' = [roleId EXCEPT ![c] = None]
            /\ idle' = [idle EXCEPT ![c] = 0]
            /\ UNCHANGED closing
        BY <2>2, <3>2 DEF MsgOpen
      <4>2. 0 \in 0..Silence + 1
        BY LimitsAssumption
      <4>3. idle' \in [Clients -> 0..Silence + 1] /\ clientNumber' \in Int
        BY <4>1, <4>2
      <4> QED
        BY <2>1, <2>2, <4>1, <4>3 DEF loginVars, cleanVars
    <3> QED
      BY <3>1, <3>2
  <2>3. CASE MsgData(c) /\ UNCHANGED socket
    <3>1. CASE Handshake(c)
      <4>1. UNCHANGED <<sessionVars, loginVars>>
        BY <3>1 DEF Handshake
      <4>2. CASE CloseClient(c)
        BY <2>1, <2>3, <4>1, <4>2, CloseClientDoes DEF sessionVars, loginVars, cleanVars
      <4>3. CASE ~ CloseClient(c)
        <5>1. closing' \subseteq Clients /\ clientNumber' \in Int
              /\ connection' \in [Clients -> {"none", "handshake", "ready"}]
          BY <3>1, <4>3 DEF Handshake, connectionVars
        <5> QED
          BY <2>1, <2>3, <4>1, <5>1 DEF sessionVars, loginVars, cleanVars
      <4> QED
        BY <4>2, <4>3
    <3>2. CASE TooLong(c)
      BY <2>1, <2>3, <3>2, CloseClientDoes DEF TooLong, sessionVars, loginVars, cleanVars
    <3>3. CASE CannotDecode(c)
      <4>1. idle' \in [Clients -> 0..Silence + 1] /\ UNCHANGED <<session, roleId, loginVars>>
        BY <3>3, <1>r DEF CannotDecode, RefreshSession
      <4>2. CloseClient(c)
        BY <3>3 DEF CannotDecode
      <4> QED
        BY <2>1, <2>3, <4>1, <4>2, CloseClientDoes DEF loginVars, cleanVars
    <3>4. CASE Heartbeat(c)
      BY <2>1, <2>3, <3>4, <1>r DEF Heartbeat, RefreshSession, connectionVars, loginVars, cleanVars
    <3>5. CASE RedirectLogin(c)
      <4>1. idle' \in [Clients -> 0..Silence + 1] /\ UNCHANGED <<session, roleId, connectionVars, crossed>>
        BY <3>5, <1>r DEF RedirectLogin, RefreshSession
      <4>2. \A r \in Roles : [client |-> c, role |-> r, other |-> c, at |-> "find"] \in LoginType
        BY DEF LoginType
      <4>3. login' \in [Logins -> LoginType]
        BY <3>5, <4>2 DEF RedirectLogin
      <4> QED
        BY <2>1, <2>3, <4>1, <4>3 DEF connectionVars, cleanVars
    <3>6. CASE Dropped(c)
      BY <2>1, <2>3, <3>6 DEF Dropped, connectionVars, sessionVars, loginVars, cleanVars
    <3> QED
      BY <2>3, <3>1, <3>2, <3>3, <3>4, <3>5, <3>6 DEF MsgData
  <2>4. CASE MsgClose(c) /\ UNCHANGED <<socket, loginVars>>
    BY <2>1, <2>4, <1>k, CloseClientDoes DEF MsgClose, KickThenCloseFd, loginVars, cleanVars
  <2> QED
    BY <1>5, <2>2, <2>3, <2>4 DEF Gate
<1>6. ASSUME NEW l \in Logins, FindByUserId(l) PROVE TypeOK'
  <2>1. login' \in [Logins -> LoginType]
    <3>1. CASE Done(l) \/ Goto(l, "bind")
      BY <3>1, <1>g
    <3>2. ASSUME NEW other \in Found(login[l].role),
                 login' = [login EXCEPT ![l].other = other, ![l].at = "kick"]
          PROVE  login' \in [Logins -> LoginType]
      <4>1. login[l] \in LoginType /\ other \in Clients
        BY DEF Found
      <4>2. [login[l] EXCEPT !.other = other, !.at = "kick"] \in LoginType
        BY <4>1 DEF LoginType
      <4>3. login' = [login EXCEPT ![l] = [login[l] EXCEPT !.other = other, !.at = "kick"]]
        BY <3>2
      <4> QED
        BY <4>2, <4>3
    <3>3. Done(l) \/ Goto(l, "bind") \/ \E other \in Found(login[l].role) :
             login' = [login EXCEPT ![l].other = other, ![l].at = "kick"]
      BY <1>6 DEF FindByUserId
    <3> QED
      BY <3>1, <3>2, <3>3
  <2>2. crossed' \subseteq Roles
    <3>1. login[l].role \in Roles
      BY <1>6 DEF FindByUserId, At, LoginsKnow
    <3> QED
      BY <1>6, <3>1 DEF FindByUserId
  <2> QED
    BY <1>6, <2>1, <2>2 DEF FindByUserId, socketVars, connectionVars, sessionVars, cleanVars
<1>7. ASSUME NEW l \in Logins, KickOther(l) PROVE TypeOK'
  <2>1. login[l].other \in Clients
    BY <1>7 DEF KickOther, At, LoginsKnow
  <2> QED
    BY <1>7, <2>1, <1>k, <1>g, CloseClientDoes DEF KickOther, KickFd, socketVars, cleanVars
<1>8. ASSUME NEW l \in Logins, BindUserId(l) PROVE TypeOK'
  <2>1. login[l].role \in Roles
    BY <1>8 DEF BindUserId, At, LoginsKnow
  <2>2. roleId' \in [Clients -> Roles \cup {None}]
    BY <1>8, <2>1 DEF BindUserId
  <2> QED
    BY <1>8, <2>2, <1>g DEF BindUserId, socketVars, connectionVars, cleanVars
<1>9. CASE Tick
  BY <1>9, LimitsAssumption DEF Tick, socketVars, connectionVars, loginVars
<1>10. CASE CleanUp
  <2>1. CASE Collect
    BY <2>1 DEF Collect, socketVars, connectionVars, sessionVars, loginVars
  <2>2. CASE HeartbeatTimeOut
    BY <2>2, <1>k, CloseClientDoes DEF HeartbeatTimeOut, KickFd, socketVars, loginVars
  <2>3. CASE SaveAndSleep
    BY <2>3 DEF SaveAndSleep, socketVars, connectionVars, sessionVars, loginVars
  <2> QED
    BY <1>10, <2>1, <2>2, <2>3 DEF CleanUp
<1>11. CASE UNCHANGED vars
  BY <1>11 DEF vars, socketVars, connectionVars, sessionVars, loginVars, cleanVars
<1> QED
  BY <1>1, <1>2, <1>3, <1>4, <1>5, <1>6, <1>7, <1>8, <1>9, <1>10, <1>11 DEF Next, Login

-----------------------------------------------------------------------------
(* What the steps of the gate do to a socket's queue, said once.                *)

\* The three ways a step can change a queue.
LEMMA EventsDo ==
  ASSUME TypeOK, NEW c \in Clients, NEW e \in Event, Emit(c, e)
  PROVE  /\ \A d \in Clients \ {c} : events'[d] = events[d]
         /\ Has(events'[c], e)
         /\ \A f : Has(events[c], f) => Has(events'[c], f)
         /\ \A f : Has(events'[c], f) => Has(events[c], f) \/ f = e
         /\ events[c] = <<>> => events'[c] = <<e>>
<1>1. events[c] \in Seq(Event) /\ events'[c] = Append(events[c], e)
  BY DEF Emit, TypeOK, Event
<1>2. \A d \in Clients \ {c} : events'[d] = events[d]
  BY DEF Emit, TypeOK
<1> QED
  BY <1>1, <1>2, AppendHas

\* What the gate leaves of the queue of the socket it looks at.
LEMMA GateEvents ==
  ASSUME TypeOK, NEW c \in Clients, Gate(c)
  PROVE  /\ \A d \in Clients \ {c} : events'[d] = events[d]
         /\ \A f : Has(events'[c], f) => Has(events[c], f)
         /\ \A f : Has(events[c], f) /\ f # Head(events[c]) => Has(events'[c], f)
         /\ events[c] = <<"open">> => events'[c] = <<>>
         /\ Has(events[c], Head(events[c]))
         /\ events[c] # <<>>
<1>1. events[c] \in Seq(Event) /\ events[c] # <<>> /\ events'[c] = Tail(events[c])
  BY DEF Gate, TypeOK, Event
<1>2. \A d \in Clients \ {c} : events'[d] = events[d]
  BY DEF Gate, TypeOK
<1> QED
  BY <1>1, <1>2, TailHas

\* What a message does to the connection and the session of its sender.
LEMMA MsgDataDoes ==
  ASSUME TypeOK, ClientsAreCounted, NEW c \in Clients, MsgData(c)
  PROVE  /\ UNCHANGED <<session, roleId, crossed>>
         /\ \A d \in Clients \ {c} : connection'[d] = connection[d]
         /\ connection[c] = "none" => connection'[c] = "none" /\ closing' = closing
         /\ closing \subseteq closing' /\ closing' \subseteq closing \cup {c}
         /\ connection[c] # "none" /\ connection'[c] = "none" => c \in closing'
         /\ ClientsAreCounted'
<1>1. CASE CloseClient(c) /\ UNCHANGED <<session, roleId, crossed>>
  BY <1>1, CloseClientDoes
<1>2. CASE UNCHANGED connectionVars /\ UNCHANGED <<session, roleId, crossed>>
  BY <1>2 DEF connectionVars, ClientsAreCounted, Connected
<1>3. CASE /\ connection[c] = "handshake" /\ connection' = [connection EXCEPT ![c] = "ready"]
           /\ UNCHANGED <<clientNumber, closing>> /\ UNCHANGED <<session, roleId, crossed>>
  <2>1. Connected' = Connected
    BY <1>3 DEF Connected, TypeOK
  <2> QED
    BY <1>3, <2>1 DEF ClientsAreCounted, TypeOK
<1> QED
  BY <1>1, <1>2, <1>3 DEF MsgData, Handshake, TooLong, CannotDecode, Heartbeat, RedirectLogin,
     Dropped, RefreshSession, connectionVars, sessionVars, loginVars

-----------------------------------------------------------------------------
(* Steps that touch no socket: kicks, logins, time and the clean-up.            *)

\* A kick from a login or from the clean-up.
LEMMA KickKeeps ==
  ASSUME IInv, NEW c \in Clients, KickFd(c), UNCHANGED socketVars
  PROVE  OpensOnce' /\ NoGhostSession' /\ ClientsAreCounted'
<1>1. /\ connection'[c] = "none"
      /\ \A d \in Clients \ {c} : connection'[d] = connection[d]
      /\ closing \subseteq closing' /\ closing' \subseteq closing \cup {c}
      /\ connection[c] = "none" => closing' = closing
      /\ ClientsAreCounted'
  BY CloseClientDoes DEF IInv, KickFd
<1>2. session' = session \ {c} /\ UNCHANGED <<socket, events>>
  BY DEF KickFd, Forget, socketVars
<1>3. OpensOnce'
  BY <1>1, <1>2 DEF IInv, OpensOnce
<1>4. NoGhostSession'
  BY <1>1, <1>2 DEF IInv, TypeOK, NoGhostSession
<1> QED
  BY <1>1, <1>3, <1>4

\* A step that leaves sockets, connections and the set of sessions alone.
LEMMA StillKeeps ==
  ASSUME IInv, UNCHANGED <<socketVars, connectionVars, session>>
  PROVE  OpensOnce' /\ NoGhostSession' /\ ClientsAreCounted'
BY DEF IInv, OpensOnce, NoGhostSession, ClientsAreCounted, Connected, socketVars, connectionVars

\* Accept, a message, a hang-up and the end of a close request.
LEMMA SocketKeeps ==
  ASSUME IInv, NEW c \in Clients,
         Accept(c) \/ ClientSends(c) \/ HangUp(c) \/ CloseSocket(c)
  PROVE  OpensOnce' /\ NoGhostSession' /\ ClientsAreCounted'
<1> USE DEF IInv, TypeOK
<1>1. UNCHANGED <<connection, clientNumber, session>>
  BY DEF Accept, ClientSends, HangUp, CloseSocket, connectionVars, sessionVars
<1>2. ClientsAreCounted'
  BY <1>1 DEF ClientsAreCounted, Connected
<1>3. CASE Accept(c)
  <2>1. socket' = [socket EXCEPT ![c] = "accepted"] /\ Emit(c, "open") /\ UNCHANGED closing
        /\ socket[c] = "new"
    BY <1>3 DEF Accept, connectionVars
  <2>2. events'[c] = <<"open">> /\ \A d \in Clients \ {c} : events'[d] = events[d]
    BY <2>1, EventsDo DEF OpensOnce, Event
  <2>3. OpensOnce'
    BY <1>1, <2>1, <2>2 DEF OpensOnce
  <2>4. \A d \in Clients : Has(events[d], "close") => Has(events'[d], "close")
    BY <2>1, <2>2, EventsDo DEF Event
  <2> QED
    BY <1>1, <1>2, <2>1, <2>3, <2>4 DEF NoGhostSession
<1>4. CASE ClientSends(c)
  <2>1. UNCHANGED <<socket, closing>> /\ Emit(c, "data") /\ socket[c] = "open"
    BY <1>4 DEF ClientSends, connectionVars
  <2>2. \A d \in Clients \ {c} : events'[d] = events[d]
    BY <2>1, EventsDo DEF Event
  <2>3. \A f : Has(events[c], f) => Has(events'[c], f)
    BY <2>1, EventsDo DEF Event
  <2>4. Has(events'[c], "open") => Has(events[c], "open")
    BY <2>1, EventsDo DEF Event
  <2>5. OpensOnce'
    BY <1>1, <2>1, <2>2, <2>4 DEF OpensOnce
  <2> QED
    BY <1>1, <1>2, <2>1, <2>2, <2>3, <2>5 DEF NoGhostSession
<1>5. CASE HangUp(c) \/ (CloseSocket(c) /\ socket'[c] = "gone")
  <2>1. socket' = [socket EXCEPT ![c] = "gone"] /\ Emit(c, "close") /\ socket[c] # "new"
        /\ closing' \subseteq closing /\ closing \subseteq closing' \cup {c}
    BY <1>5 DEF HangUp, CloseSocket, OpensOnce, connectionVars
  <2>2. \A d \in Clients \ {c} : events'[d] = events[d]
    BY <2>1, EventsDo DEF Event
  <2>3. Has(events'[c], "close") /\ (Has(events'[c], "open") => Has(events[c], "open"))
    BY <2>1, EventsDo DEF Event
  <2>4. ~ Has(events[c], "open")
    <3>1. CASE HangUp(c)
      BY <3>1 DEF HangUp, OpensOnce
    <3>2. CASE CloseSocket(c)
      <4>1. c \in closing
        BY <3>2 DEF CloseSocket
      <4>2. ~ Has(<<>>, "open")
        BY DEF Has
      <4> QED
        BY <4>1, <4>2 DEF OpensOnce
    <3> QED
      BY <1>5, <3>1, <3>2
  <2>5. OpensOnce'
    BY <1>1, <2>1, <2>2, <2>3, <2>4 DEF OpensOnce
  <2>6. NoGhostSession'
    BY <1>1, <2>1, <2>2, <2>3 DEF NoGhostSession
  <2> QED
    BY <1>2, <2>5, <2>6
<1>6. CASE CloseSocket(c) /\ socket'[c] # "gone"
  <2>1. /\ socket' = [socket EXCEPT ![c] = "half"] /\ UNCHANGED events /\ closing' = closing \ {c}
        /\ socket[c] = "open"
    BY <1>6 DEF CloseSocket
  <2>2. OpensOnce'
    BY <1>1, <2>1 DEF OpensOnce
  <2>3. NoGhostSession'
    BY <1>1, <2>1 DEF NoGhostSession
  <2> QED
    BY <1>2, <2>2, <2>3
<1>7. CASE CloseSocket(c)
  BY <1>5, <1>6, <1>7
<1>8. CASE HangUp(c)
  BY <1>5, <1>8
<1> QED
  BY <1>3, <1>4, <1>7, <1>8

\* The gate handles an event.
LEMMA GateKeeps ==
  ASSUME IInv, NEW c \in Clients, Gate(c)
  PROVE  OpensOnce' /\ NoGhostSession' /\ ClientsAreCounted'
<1> USE DEF IInv, TypeOK
<1>1. /\ \A d \in Clients \ {c} : events'[d] = events[d]
      /\ \A f : Has(events'[c], f) => Has(events[c], f)
      /\ \A f : Has(events[c], f) /\ f # Head(events[c]) => Has(events'[c], f)
      /\ events[c] = <<"open">> => events'[c] = <<>>
      /\ Has(events[c], Head(events[c]))
      /\ events[c] # <<>>
  BY GateEvents
<1>2. CASE Head(events[c]) = "open" /\ MsgOpen(c)
  <2>1. socket[c] = "accepted" /\ connection[c] = "none" /\ events[c] = <<"open">> /\ c \notin closing
    BY <1>1, <1>2 DEF OpensOnce
  <2>2. ClientsAreCounted'
    BY <1>2, <2>1, MsgOpenCounts
  <2>3. ~ Has(events'[c], "open")
    BY <1>1, <2>1 DEF Has
  <2>4. CASE clientNumber >= MaxClient
    <3>1. closing' = closing \cup {c} /\ UNCHANGED <<socket, connection, session>>
      BY <1>2, <2>4 DEF MsgOpen, sessionVars
    <3>2. OpensOnce'
      BY <1>1, <2>1, <2>3, <3>1 DEF OpensOnce
    <3>3. NoGhostSession'
      BY <1>1, <3>1 DEF NoGhostSession
    <3> QED
      BY <2>2, <3>2, <3>3
  <2>5. CASE ~ (clientNumber >= MaxClient)
    <3>1. /\ UNCHANGED closing /\ socket' = [socket EXCEPT ![c] = "open"]
          /\ connection' = [connection EXCEPT ![c] = "handshake"] /\ session' = session \cup {c}
      BY <1>2, <2>5 DEF MsgOpen
    <3>2. OpensOnce'
      BY <1>1, <2>1, <2>3, <3>1 DEF OpensOnce
    <3>3. NoGhostSession'
      BY <1>1, <3>1 DEF NoGhostSession
    <3> QED
      BY <2>2, <3>2, <3>3
  <2> QED
    BY <2>4, <2>5
<1>3. CASE Head(events[c]) = "data" /\ MsgData(c) /\ UNCHANGED socket
  <2>1. /\ UNCHANGED session
        /\ \A d \in Clients \ {c} : connection'[d] = connection[d]
        /\ connection[c] = "none" => connection'[c] = "none" /\ closing' = closing
        /\ closing \subseteq closing' /\ closing' \subseteq closing \cup {c}
        /\ connection[c] # "none" /\ connection'[c] = "none" => c \in closing'
        /\ ClientsAreCounted'
    BY <1>3, MsgDataDoes
  <2>2. OpensOnce'
    BY <1>1, <1>3, <2>1 DEF OpensOnce
  <2>3. NoGhostSession'
    BY <1>1, <1>3, <2>1 DEF NoGhostSession
  <2> QED
    BY <2>1, <2>2, <2>3
<1>4. CASE Head(events[c]) = "close" /\ MsgClose(c) /\ UNCHANGED socket
  <2>1. CloseClient(c) /\ session' = session \ {c}
    BY <1>4 DEF MsgClose, KickThenCloseFd, Forget
  <2>2. /\ connection'[c] = "none"
        /\ \A d \in Clients \ {c} : connection'[d] = connection[d]
        /\ closing \subseteq closing' /\ closing' \subseteq closing \cup {c}
        /\ connection[c] = "none" => closing' = closing
        /\ ClientsAreCounted'
    BY <2>1, CloseClientDoes
  <2>3. OpensOnce'
    BY <1>1, <1>4, <2>2 DEF OpensOnce
  <2>4. NoGhostSession'
    BY <1>1, <1>4, <2>1, <2>2 DEF NoGhostSession
  <2> QED
    BY <2>2, <2>3, <2>4
<1> QED
  BY <1>2, <1>3, <1>4 DEF Gate, loginVars

-----------------------------------------------------------------------------
(* The logins.                                                                  *)

\* A step that gives no session a role, starts no look-up and forgets no crossing
\* keeps what is known of the holders.
LEMMA FewerHolders ==
  ASSUME Holders, UNCHANGED <<login, crossed>>, \A r \in Roles : Found(r)' \subseteq Found(r)
  PROVE  Holders'
BY DEF Holders, OneHolder

\* Forgetting a session, its role with it.
LEMMA ForgetFound ==
  ASSUME TypeOK, NEW c \in Clients, Forget(c), NEW r \in Roles
  PROVE  Found(r)' = Found(r) \ {c}
BY DEF Forget, Found, TypeOK

\* The gate and the sockets give no session a role.
LEMMA GateFound ==
  ASSUME TypeOK, ClientsAreCounted, NEW c \in Clients, Gate(c), NEW r \in Roles
  PROVE  Found(r)' \subseteq Found(r)
<1>1. CASE MsgOpen(c)
  BY <1>1, RolesAssumption DEF MsgOpen, Found, TypeOK, sessionVars
<1>2. CASE MsgData(c)
  BY <1>2, MsgDataDoes DEF Found
<1>3. CASE MsgClose(c)
  BY <1>3, ForgetFound DEF MsgClose
<1> QED
  BY <1>1, <1>2, <1>3 DEF Gate

\* What the gate does with the logins: nothing, or it starts one.
LEMMA GateLogins ==
  ASSUME TypeOK, NEW c \in Clients, Gate(c)
  PROVE  /\ crossed' = crossed
         /\ \/ login' = login
            \/ \E l \in Logins, r \in Roles :
                 login' = [login EXCEPT ![l] = [client |-> c, role |-> r, other |-> c, at |-> "find"]]
BY DEF Gate, MsgData, Handshake, TooLong, CannotDecode, Heartbeat, RedirectLogin, Dropped, loginVars

\* A login that starts has not looked yet.
LEMMA GateHolders ==
  ASSUME IInv, NEW c \in Clients, Gate(c)
  PROVE  Holders' /\ LoginsKnow'
<1>1. \A r \in Roles : Found(r)' \subseteq Found(r)
  BY GateFound DEF IInv
<1>2. CASE UNCHANGED <<login, crossed>>
  BY <1>1, <1>2, FewerHolders DEF IInv, LoginsKnow
<1>3. ASSUME NEW l \in Logins, NEW r \in Roles, crossed' = crossed,
             login' = [login EXCEPT ![l] = [client |-> c, role |-> r, other |-> c, at |-> "find"]]
      PROVE  Holders' /\ LoginsKnow'
  <2>1. /\ login'[l].at = "find" /\ login'[l].client = c /\ login'[l].role = r /\ login'[l].other = c
        /\ \A k \in Logins \ {l} : login'[k] = login[k]
    BY <1>3 DEF IInv, TypeOK
  <2>2. LoginsKnow'
    BY <1>3, <2>1 DEF IInv, LoginsKnow
  <2>3. ASSUME NEW q \in Roles, q \notin crossed' PROVE OneHolder(q)'
    <3>1. OneHolder(q) /\ Found(q)' \subseteq Found(q)
      BY <1>1, <1>3, <2>3 DEF IInv, Holders
    <3>2. \A k \in Logins : login'[k].at \in Between => k # l /\ login'[k] = login[k]
      BY <2>1 DEF Between
    <3> QED
      BY <3>1, <3>2 DEF OneHolder, Between
  <2> QED
    BY <2>2, <2>3 DEF Holders
<1> QED
  BY <1>2, <1>3, GateLogins DEF IInv

\* The look-up: it finds all there is, or its role is known to be crossed.
LEMMA FindHolders ==
  ASSUME IInv, NEW l \in Logins, FindByUserId(l)
  PROVE  Holders' /\ LoginsKnow'
<1> DEFINE r == login[l].role
<1>1. r \in Roles /\ login[l].client \in Clients /\ login[l].at = "find"
  BY DEF IInv, LoginsKnow, FindByUserId, At
<1>2. \A q \in Roles : Found(q)' = Found(q)
  BY DEF FindByUserId, Found, sessionVars
<1>3. /\ \A k \in Logins \ {l} : login'[k] = login[k]
      /\ login'[l].at \in Between => login'[l].role = r /\ login'[l].client = login[l].client
      /\ login'[l].at = "bind" => Found(r) = {} /\ login'[l].other = login[l].other
      /\ login'[l].at = "kick" => login'[l].other \in Found(r)
      /\ login'[l].at \in {"done", "kick", "bind"}
  <2>1. CASE Done(l)
    BY <2>1 DEF Done, NoLogin, Between, IInv, TypeOK
  <2>2. CASE Found(r) = {} /\ Goto(l, "bind")
    BY <2>2 DEF Goto, Between, IInv, TypeOK, LoginType
  <2>3. ASSUME NEW other \in Found(r), login' = [login EXCEPT ![l].other = other, ![l].at = "kick"]
        PROVE  <1>3!1 /\ <1>3!2 /\ <1>3!3 /\ <1>3!4 /\ <1>3!5
    BY <2>3 DEF Between, IInv, TypeOK, LoginType
  <2> QED
    BY <2>1, <2>2, <2>3 DEF FindByUserId
<1>4. crossed \subseteq crossed' /\ (Meets(l) /\ login'[l].at \in Between => r \in crossed')
  BY DEF FindByUserId
<1>5. LoginsKnow'
  <2>1. Found(r) \subseteq Clients
    BY DEF Found, IInv, TypeOK
  <2>2. login[l].other \in Clients
    BY <1>1 DEF IInv, LoginsKnow
  <2>3. login'[l].at \in Between => login'[l].client \in Clients /\ login'[l].role \in Roles
           /\ login'[l].other \in Clients
    BY <1>1, <1>3, <2>1, <2>2 DEF Between
  <2> QED
    BY <1>3, <2>3 DEF IInv, LoginsKnow, Between
<1>6. ASSUME NEW q \in Roles, q \notin crossed' PROVE OneHolder(q)'
  <2>1. OneHolder(q) /\ Found(q)' = Found(q)
    BY <1>2, <1>4, <1>6 DEF IInv, Holders
  <2>2. \A k \in Logins \ {l} : login'[k] = login[k]
    BY <1>3
  <2>3. CASE login'[l].at = "done"
    BY <2>1, <2>2, <2>3 DEF OneHolder, Between
  <2>4. CASE login'[l].at \in Between /\ r # q
    <3>1. login'[l].role # q
      BY <1>3, <2>4
    <3> QED
      BY <2>1, <2>2, <3>1 DEF OneHolder
  <2>5. CASE login'[l].at \in Between /\ r = q
    <3>1. ~ Meets(l)
      BY <1>4, <1>6, <2>5
    <3>2. \A k \in Logins \ {l} : ~ (login[k].role = q /\ login[k].at \in Between)
      BY <2>5, <3>1 DEF Meets
    <3>3. \A a, b \in Logins : login'[a].role = q /\ login'[b].role = q
             /\ login'[a].at \in Between /\ login'[b].at \in Between => a = b
      BY <2>2, <3>2
    <3>4. login'[l].at = "kick" => Found(q) \subseteq {login'[l].other}
      BY <1>3, <2>1, <2>5 DEF OneHolder
    <3>5. \A k \in Logins : login'[k].role = q =>
             /\ login'[k].at = "kick" => Found(q) \subseteq {login'[k].other}
             /\ login'[k].at = "bind" => Found(q) = {}
      BY <1>3, <2>1, <2>2, <2>5, <3>4 DEF OneHolder
    <3> QED
      BY <2>1, <3>3, <3>5 DEF OneHolder
  <2> QED
    BY <1>3, <2>3, <2>4, <2>5 DEF Between
<1> QED
  BY <1>5, <1>6 DEF Holders

\* The kick: what the look-up found is gone before the login binds.
LEMMA KickHolders ==
  ASSUME IInv, NEW l \in Logins, KickOther(l)
  PROVE  Holders' /\ LoginsKnow'
<1> DEFINE other == login[l].other
<1>1. other \in Clients /\ login[l].at = "kick" /\ crossed' = crossed
  BY DEF IInv, LoginsKnow, KickOther, At
<1>2. /\ login'[l].at = "bind" /\ login'[l].role = login[l].role
      /\ login'[l].client = login[l].client /\ login'[l].other = login[l].other
      /\ \A k \in Logins \ {l} : login'[k] = login[k]
  BY DEF KickOther, Goto, IInv, TypeOK, LoginType
<1>3. \A r \in Roles : Found(r)' = Found(r) \ {other}
  BY <1>1, ForgetFound DEF KickOther, KickFd, IInv
<1>4. LoginsKnow'
  BY <1>1, <1>2 DEF IInv, LoginsKnow
<1>5. ASSUME NEW r \in Roles, r \notin crossed' PROVE OneHolder(r)'
  <2>1. OneHolder(r) /\ Found(r)' = Found(r) \ {other}
    BY <1>1, <1>3, <1>5 DEF IInv, Holders
  <2>2. login[l].role = r => Found(r)' = {}
    BY <1>1, <2>1 DEF OneHolder
  <2>3. \A k \in Logins : login'[k].role = login[k].role
          /\ (login'[k].at \in Between <=> login[k].at \in Between)
    BY <1>1, <1>2 DEF Between
  <2>4. \A k \in Logins : login'[k].role = r =>
          /\ login'[k].at = "kick" => Found(r)' \subseteq {login'[k].other}
          /\ login'[k].at = "bind" => Found(r)' = {}
    BY <1>1, <1>2, <2>1, <2>2 DEF OneHolder
  <2> QED
    BY <2>1, <2>3, <2>4 DEF OneHolder
<1> QED
  BY <1>4, <1>5 DEF Holders

\* The binding: nobody holds the role, and no other login of it is past its look-up.
LEMMA BindHolders ==
  ASSUME IInv, NEW l \in Logins, BindUserId(l)
  PROVE  Holders' /\ LoginsKnow'
<1>0. PICK r \in Roles, c \in Clients : r = login[l].role /\ c = login[l].client
  BY DEF IInv, LoginsKnow, BindUserId, At
<1>1. login[l].at = "bind" /\ crossed' = crossed
  BY DEF BindUserId, At
<1>2. /\ login'[l].at = "done"
      /\ \A k \in Logins \ {l} : login'[k] = login[k]
  BY DEF BindUserId, Done, NoLogin, IInv, TypeOK
<1>3. Found(r)' \subseteq Found(r) \cup {c}
  BY <1>0 DEF BindUserId, Found, IInv, TypeOK
<1>4. \A q \in Roles \ {r} : Found(q)' \subseteq Found(q)
  BY <1>0 DEF BindUserId, Found, IInv, TypeOK
<1>5. LoginsKnow'
  BY <1>2 DEF IInv, LoginsKnow
<1>6. ASSUME NEW q \in Roles, q \notin crossed' PROVE OneHolder(q)'
  <2>1. OneHolder(q)
    BY <1>1, <1>6 DEF IInv, Holders
  <2>2. CASE q # r
    BY <1>2, <1>4, <2>1, <2>2 DEF OneHolder, Between
  <2>3. CASE q = r
    <3>1. Found(r) = {} /\ Found(r)' \subseteq {c}
      BY <1>0, <1>1, <1>3, <2>1, <2>3 DEF OneHolder
    <3>2. \A k \in Logins : ~ (login'[k].role = r /\ login'[k].at \in Between)
      BY <1>0, <1>1, <1>2, <2>1, <2>3 DEF OneHolder, Between
    <3> QED
      BY <2>3, <3>1, <3>2 DEF OneHolder, Between
  <2> QED
    BY <2>2, <2>3
<1> QED
  BY <1>5, <1>6 DEF Holders

-----------------------------------------------------------------------------
\* Every step keeps the invariant.
LEMMA StepInv == IInv /\ [Next]_vars => IInv'
<1> SUFFICES ASSUME IInv, [Next]_vars PROVE IInv'
  OBVIOUS
<1>t. TypeOK'
  BY TypeStep DEF IInv
<1>1. ASSUME NEW c \in Clients,
             Accept(c) \/ ClientSends(c) \/ HangUp(c) \/ CloseSocket(c)
      PROVE  IInv'
  <2>1. UNCHANGED <<sessionVars, loginVars>>
    BY <1>1 DEF Accept, ClientSends, HangUp, CloseSocket
  <2>2. Holders' /\ LoginsKnow'
    BY <2>1, FewerHolders DEF IInv, LoginsKnow, Found, sessionVars, loginVars
  <2> QED
    BY <1>1, <1>t, <2>2, SocketKeeps DEF IInv
<1>2. ASSUME NEW c \in Clients, Gate(c) PROVE IInv'
  BY <1>2, <1>t, GateKeeps, GateHolders DEF IInv
<1>3. ASSUME NEW l \in Logins, FindByUserId(l) PROVE IInv'
  <2>1. UNCHANGED <<socketVars, connectionVars, session>>
    BY <1>3 DEF FindByUserId, sessionVars
  <2> QED
    BY <1>3, <1>t, <2>1, StillKeeps, FindHolders DEF IInv
<1>4. ASSUME NEW l \in Logins, KickOther(l) PROVE IInv'
  <2>1. login[l].other \in Clients
    BY <1>4 DEF IInv, LoginsKnow, KickOther, At
  <2>2. KickFd(login[l].other) /\ UNCHANGED socketVars
    BY <1>4 DEF KickOther
  <2> QED
    BY <1>4, <1>t, <2>1, <2>2, KickKeeps, KickHolders DEF IInv
<1>5. ASSUME NEW l \in Logins, BindUserId(l) PROVE IInv'
  <2>1. UNCHANGED <<socketVars, connectionVars, session>>
    BY <1>5 DEF BindUserId
  <2> QED
    BY <1>5, <1>t, <2>1, StillKeeps, BindHolders DEF IInv
<1>6. CASE HeartbeatTimeOut
  <2>1. PICK c \in kickplayer : KickFd(c)
    BY <1>6 DEF HeartbeatTimeOut
  <2>2. c \in Clients
    BY <2>1 DEF IInv, TypeOK
  <2>3. UNCHANGED <<socketVars, loginVars>>
    BY <1>6 DEF HeartbeatTimeOut
  <2>4. \A r \in Roles : Found(r)' \subseteq Found(r)
    BY <2>1, <2>2, ForgetFound DEF KickFd, IInv
  <2>5. Holders' /\ LoginsKnow'
    BY <2>3, <2>4, FewerHolders DEF IInv, LoginsKnow, loginVars
  <2> QED
    BY <1>t, <2>1, <2>2, <2>3, <2>5, KickKeeps DEF IInv
<1>7. CASE Tick \/ Collect \/ SaveAndSleep \/ UNCHANGED vars
  <2>1. UNCHANGED <<socketVars, connectionVars, session, roleId, loginVars>>
    BY <1>7 DEF Tick, Collect, SaveAndSleep, vars, sessionVars
  <2>2. Holders' /\ LoginsKnow'
    BY <2>1, FewerHolders DEF IInv, LoginsKnow, Found, loginVars
  <2> QED
    BY <1>t, <2>1, <2>2, StillKeeps DEF IInv
<1> QED
  BY <1>1, <1>2, <1>3, <1>4, <1>5, <1>6, <1>7 DEF Next, Login, CleanUp

-----------------------------------------------------------------------------
\* The invariant holds in every state.
THEOREM GateInvariant == Spec => []IInv
<1>1. Init => IInv
  BY InitInv
<1>2. IInv /\ [Next]_vars => IInv'
  BY StepInv
<1> QED
  BY <1>1, <1>2, PTL DEF Spec

\* client_number counts the connections of the gate, for any maxclient and any number
\* of clients: the branch that refuses a client is among the steps.
THEOREM CountsItsClients == Spec => []ClientsAreCounted
<1>1. IInv => ClientsAreCounted
  BY DEF IInv
<1> QED
  BY <1>1, GateInvariant, PTL

\* A connection has a session, and a session without a connection has its end coming.
THEOREM HasNoGhosts == Spec => []NoGhostSession
<1>1. IInv => NoGhostSession
  BY DEF IInv
<1> QED
  BY <1>1, GateInvariant, PTL

\* Only crossed logins give one role to two clients.
THEOREM OneClientPlays == Spec => []OneSessionPerRole
<1>1. IInv => OneSessionPerRole
  <2> SUFFICES ASSUME IInv, NEW c \in session, NEW d \in session, c # d,
                      roleId[c] = roleId[d], roleId[c] # None
               PROVE  roleId[c] \in crossed
    BY DEF OneSessionPerRole
  <2>1. roleId[c] \in Roles
    BY DEF IInv, TypeOK
  <2>2. c \in Found(roleId[c]) /\ d \in Found(roleId[c])
    BY DEF Found
  <2> QED
    BY <2>1, <2>2 DEF IInv, Holders, OneHolder
<1> QED
  BY <1>1, GateInvariant, PTL
=============================================================================
