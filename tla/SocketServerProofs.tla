------------------------- MODULE SocketServerProofs -------------------------
(* The socket server proved correct for any number of services, slots, ids and    *)
(* messages, and any size of a message, until an assertion fails or close_socket   *)
(* clobbers a slot that is being reserved (Sound).  The invariant has four layers,  *)
(* each proved from those before it:                                             *)
(*   Base      the types; which unit may be at the head of each list (Listed);     *)
(*             who holds a lock (Locked); and the life of an id from reserve_id on  *)
(*             through the pipe, the slot and what its service is told (Control)   *)
(*   Counted   s->sending counts the messages in the pipe and those on the way to  *)
(*             it                                                                *)
(*   Streamed  what was written to a connection, and what waits in its slot or in  *)
(*             the hands of a worker, is a sequence of whole messages              *)
(*   Ordered   written, waiting in the slot, waiting in the pipe and being sent,   *)
(*             the messages of a service are in the order of their numbers         *)
(* A step of the socket thread takes a request from the pipe first: what is said    *)
(* of the pipe is said of a list q, which is the pipe or what is left of it.       *)
EXTENDS SocketServer, FiniteSetTheorems, WellFoundedInduction, TLAPS

-----------------------------------------------------------------------------
(* The types *)

Live == Types \ {"INVALID", "RESERVE"}
Busy == {"direct", "trylock", "locked", "rest", "ref", "pipe"}
Message == {"D", "P"}
Opening == {"O", "L"}

Msgs == [n : Nat, from : Users, to : Ids, low : BOOLEAN]
Unit == [m : Msgs, u : 1..Size]

SlotTypes ==
    [type : Types, id : 0..MaxId, tcp : BOOLEAN, high : Seq(Unit), low : Seq(Unit), wbSize : Int,
     tag : Nat, sending : Int, dw : Seq(Unit), lock : Users \cup {None}, write : BOOLEAN]
Requests ==
    [cmd : {"O", "L", "S", "K", "shutdown"}, id : Ids, m : {None}] \cup [cmd : Message, id : Ids, m : Msgs]
UserTypes ==
    {Idle} \cup [pc : {"reserved"}, cmd : Opening, id : Ids]
    \cup [pc : Busy \ {"rest"}, m : Msgs] \cup [pc : {"rest"}, m : Msgs, k : 0..Size - 1]
Events == [slot : Slots, read : BOOLEAN, write : BOOLEAN]

Typed ==
    /\ slot \in [Slots -> SlotTypes]
    /\ allocId \in 0..MaxId
    /\ pipe \in Seq(Requests)
    /\ thread \in {Polling} \cup [pc : {"close", "clear"}, id : Ids]
    /\ events \subseteq Events
    /\ user \in [Users -> UserTypes]
    /\ wire \in [Ids -> Seq(Unit)]
    /\ told \in [Ids -> {"none", "open", "closed", "late"}]
    /\ known \in [Users -> SUBSET Ids]
    /\ sends \in Nat

-----------------------------------------------------------------------------
(* Ids and requests.  q is what is left in the pipe *)

\* A slot holds ids of its own, the tag is that of the id, and only a connection or a
\* closing one asks for write events
Placed ==
    \A x \in Slots : LET s == slot[x] IN
        /\ s.id \in Ids => HashId(s.id) = x
        /\ s.type \in Live => s.tcp
        /\ s.tcp => s.id \in Ids /\ s.tag = Tag(s.id)
        /\ s.type \in {"INVALID", "RESERVE", "PACCEPT"} => ~s.write

\* No id is known that reserve_id has not given yet
Fresh(q) ==
    /\ \A x \in Slots : slot[x].id <= allocId
    /\ \A id \in Ids : told[id] # "none" => id <= allocId
    /\ \A u \in Users : \A id \in known[u] : id <= allocId
    /\ \A i \in DOMAIN q : q[i].id <= allocId
    /\ \A u \in Users : user[u].pc = "reserved" => user[u].id <= allocId
    /\ thread # Polling => thread.id <= allocId

\* Between the two steps of a reservation, nobody knows the new id and no request
\* opens the slot
Taken(q) ==
    \A u \in Users : user[u].pc = "reserved" =>
        LET id == user[u].id IN
        /\ At(id).type = "RESERVE" /\ At(id).id # id
        /\ told[id] = "none"
        /\ \A v \in Users : id \notin known[v]
        /\ \A i \in DOMAIN q : q[i].id # id
        /\ thread # Polling => thread.id # id
        /\ \A v \in Users : user[v].pc = "reserved" /\ HashId(user[v].id) = HashId(id) => u = v
        /\ \A i \in DOMAIN q : q[i].cmd \in Opening => HashId(q[i].id) # HashId(id)

\* One request at most opens a slot, which is reserved under its id and open to nobody
Requested(q) ==
    \A i \in DOMAIN q : q[i].cmd \in Opening =>
        LET id == q[i].id IN
        /\ At(id).type = "RESERVE" /\ At(id).id = id /\ ~At(id).tcp
        /\ told[id] = "none"
        /\ thread # Polling => thread.id # id
        /\ \A j \in DOMAIN q : q[j].cmd \in Opening /\ HashId(q[j].id) = HashId(id) => i = j

\* The socket that the thread closes is the one in the slot
ThreadRight ==
    /\ thread.pc = "close" => At(thread.id).id = thread.id /\ At(thread.id).type \in Live
    /\ thread.pc = "clear" => (At(thread.id).id = thread.id => At(thread.id).type \notin Live)

\* What the services are told agrees with the slots
ToldRight ==
    /\ \A id \in Ids : told[id] # "late"
    /\ \A id \in Ids : told[id] = "closed" /\ At(id).id = id => At(id).type \notin Live
    /\ \A x \in Slots : slot[x].type = "CONNECTED" => told[slot[x].id] = "open"

\* No event is left for a slot that was freed, but for the one being closed
EventsRight ==
    \A e \in events :
        /\ slot[e.slot].type # "PACCEPT"
        /\ slot[e.slot].type = "INVALID" => thread.pc = "clear" /\ slot[e.slot].id = thread.id

\* A message is on its way to the socket it was sent to, by the service that sent it
Addressed(q) ==
    /\ \A u \in Users : user[u].pc \in Busy => told[user[u].m.to] # "none" /\ user[u].m.from = u
    /\ \A i \in DOMAIN q : q[i].cmd \in Message => q[i].m.to = q[i].id /\ (q[i].cmd = "P" <=> q[i].m.low)

Control(q) ==
    Placed /\ Fresh(q) /\ Taken(q) /\ Requested(q) /\ ThreadRight /\ ToldRight /\ EventsRight /\ Addressed(q)

-----------------------------------------------------------------------------
(* Ids *)

\* Remainders and quotients by the number of slots
LEMMA Division ==
    ASSUME NEW n \in Nat \ {0}, NEW x \in Nat
    PROVE  x % n \in 0..n - 1 /\ x \div n \in Nat /\ x = n * (x \div n) + (x % n)
OBVIOUS

\* A hash is a slot
LEMMA HashType ==
    ASSUME NEW id \in Nat
    PROVE  HashId(id) \in Slots /\ Tag(id) \in Nat
BY Division, NumbersAssumption DEF HashId, Slots, Tag

\* Slot and tag are the id: what inc_sending_ref relies on
LEMMA SlotAndTag ==
    ASSUME NEW id \in Nat, NEW other \in Nat, HashId(id) = HashId(other), Tag(id) = Tag(other)
    PROVE  id = other
<1>1. MaxSocket \in Nat \ {0}
  BY NumbersAssumption
<1>2. id = MaxSocket * Tag(id) + HashId(id) /\ other = MaxSocket * Tag(other) + HashId(other)
  BY <1>1, Division DEF Tag, HashId
<1> QED BY <1>2

\* A set of numbers has a least one
LEMMA Least ==
    ASSUME NEW T, T \subseteq Nat, T # {}
    PROVE  \E x \in T : \A y \in T : x <= y
<1> DEFINE R == {ss \in Nat \X Nat : ss[1] < ss[2]}
<1>1. IsWellFoundedOn(R, Nat)
  BY NatLessThanWellFounded DEF OpToRel
<1> HIDE DEF R
<1>2. PICK x \in T : \A y \in T : <<y, x>> \notin R
  BY <1>1, WFMin
<1>3. \A y \in T : ~ (y < x)
  BY <1>2 DEF R
<1> QED BY <1>3

\* reserve_id finds a free slot, and an id that was never used
LEMMA NextIdIs ==
    ASSUME Typed, Reservable # {}
    PROVE  NextId \in Ids /\ NextId > allocId /\ At(NextId).type = "INVALID"
<1>1. Reservable \subseteq Nat
  BY DEF Reservable, Typed
<1>2. \E id \in Reservable : \A other \in Reservable : id <= other
  BY <1>1, Least
<1>3. NextId \in Reservable
  BY <1>2 DEF NextId
<1> QED BY <1>3 DEF Reservable, Typed, Ids

\* Put changes one slot
LEMMA PutIs ==
    ASSUME slot \in [Slots -> SlotTypes], NEW id \in Nat, NEW s \in SlotTypes, Put(id, s)
    PROVE  /\ slot' \in [Slots -> SlotTypes]
           /\ slot'[HashId(id)] = s
           /\ \A x \in Slots : x # HashId(id) => slot'[x] = slot[x]
BY HashType DEF Put

\* What is at an id is a slot
LEMMA AtIs ==
    ASSUME slot \in [Slots -> SlotTypes], NEW id \in Nat
    PROVE  At(id) \in SlotTypes
BY HashType DEF At

\* Units of a message
LEMMA UnitsAre ==
    ASSUME NEW m \in Msgs
    PROVE  /\ Units(m) \in Seq(Unit) /\ Len(Units(m)) = Size /\ DOMAIN Units(m) = 1..Size
           /\ \A u \in 1..Size : Units(m)[u] = [m |-> m, u |-> u]
<1> Size \in Nat \ {0}
  BY NumbersAssumption
<1>1. DOMAIN Units(m) = 1..Size /\ \A u \in 1..Size : Units(m)[u] = [m |-> m, u |-> u]
  BY DEF Units
<1>2. Units(m) \in [1..Size -> Unit]
  BY DEF Units, Unit
<1>3. Units(m) \in Seq(Unit)
  BY <1>2
<1> QED BY <1>1, <1>3

-----------------------------------------------------------------------------
(* Lists of messages: the first may have been sent in part, the others are whole *)

\* After each unit of a message come the others of it, then the first of the next
Messages(q) ==
    /\ \A i \in 1..Len(q) : \A d \in 0..Size - q[i].u :
          i + d <= Len(q) /\ q[i + d] = [m |-> q[i].m, u |-> q[i].u + d]
    /\ \A i \in 1..Len(q) - 1 : q[i].u = Size => q[i + 1].u = 1

Starts(q) == q # <<>> => q[1].u = 1

\* Lengths
LEMMA LenIs ==
    ASSUME NEW q \in Seq(Unit)
    PROVE  Len(q) \in Nat /\ (q = <<>> <=> Len(q) = 0)
OBVIOUS

\* The rest of a list
LEMMA SuffixIs ==
    ASSUME NEW q \in Seq(Unit), NEW j \in 0..Len(q)
    PROVE  LET r == SubSeq(q, j + 1, Len(q)) IN
           r \in Seq(Unit) /\ Len(r) = Len(q) - j /\ \A i \in 1..Len(q) - j : r[i] = q[i + j]
OBVIOUS

\* The first part of a list
LEMMA PrefixIs ==
    ASSUME NEW q \in Seq(Unit), NEW j \in 0..Len(q)
    PROVE  LET r == SubSeq(q, 1, j) IN
           r \in Seq(Unit) /\ Len(r) = j /\ \A i \in 1..j : r[i] = q[i]
OBVIOUS

\* A list and another after it
LEMMA ConcatIs ==
    ASSUME NEW p \in Seq(Unit), NEW q \in Seq(Unit)
    PROVE  /\ p \o q \in Seq(Unit) /\ Len(p) \in Nat /\ Len(q) \in Nat /\ Len(p \o q) = Len(p) + Len(q)
           /\ \A i \in 1..Len(p) : (p \o q)[i] = p[i]
           /\ \A i \in 1..Len(q) : (p \o q)[Len(p) + i] = q[i]
           /\ \A i \in 1..Len(p) + Len(q) : (p \o q)[i] = IF i <= Len(p) THEN p[i] ELSE q[i - Len(p)]
OBVIOUS

\* Lists of the same elements are the same
LEMMA SameSequence ==
    ASSUME NEW p \in Seq(Unit), NEW q \in Seq(Unit), Len(p) = Len(q), \A i \in 1..Len(p) : p[i] = q[i]
    PROVE  p = q
OBVIOUS

\* The rest of a list of units that follow each other does, too
LEMMA MessagesSuffix ==
    ASSUME NEW q \in Seq(Unit), Messages(q), NEW j \in 0..Len(q)
    PROVE  Messages(SubSeq(q, j + 1, Len(q)))
<1> DEFINE r == SubSeq(q, j + 1, Len(q))
<1>1. Len(r) = Len(q) - j /\ \A i \in 1..Len(q) - j : r[i] = q[i + j]
  BY SuffixIs
<1> Size \in Nat \ {0}
  BY NumbersAssumption
<1> HIDE DEF r
<1>2. ASSUME NEW i \in 1..Len(r), NEW d \in 0..Size - r[i].u
      PROVE  i + d <= Len(r) /\ r[i + d] = [m |-> r[i].m, u |-> r[i].u + d]
  <2>1. i + j \in 1..Len(q) /\ r[i] = q[i + j] /\ q[i + j] \in Unit
    BY <1>1
  <2>2. (i + j) + d <= Len(q) /\ q[(i + j) + d] = [m |-> q[i + j].m, u |-> q[i + j].u + d]
    BY <2>1 DEF Messages
  <2>3. d \in Nat
    BY <2>1 DEF Unit
  <2>4. i + d <= Len(r) /\ i + d \in 1..Len(q) - j /\ (i + j) + d = (i + d) + j
    BY <2>1, <2>2, <2>3, <1>1
  <2> QED BY <1>1, <2>1, <2>2, <2>4
<1>3. ASSUME NEW i \in 1..Len(r) - 1, r[i].u = Size
      PROVE  r[i + 1].u = 1
  <2>1. r[i] = q[i + j] /\ r[i + 1] = q[(i + j) + 1] /\ i + j \in 1..Len(q) - 1
    BY SMTT(60), <1>1
  <2> QED BY <1>3, <2>1 DEF Messages
<1>4. Messages(r)
  BY <1>2, <1>3 DEF Messages
<1> QED BY <1>4 DEF r

\* ... and its first part
LEMMA MessagesPrefix ==
    ASSUME NEW q \in Seq(Unit), Messages(q), NEW j \in 1..Len(q), q[j].u = Size
    PROVE  Messages(SubSeq(q, 1, j))
<1> DEFINE r == SubSeq(q, 1, j)
<1>1. Len(r) = j /\ \A i \in 1..j : r[i] = q[i]
  BY PrefixIs
<1> Size \in Nat \ {0}
  BY NumbersAssumption
<1> HIDE DEF r
<1>2. ASSUME NEW i \in 1..Len(r), NEW d \in 0..Size - r[i].u
      PROVE  i + d <= Len(r) /\ r[i + d] = [m |-> r[i].m, u |-> r[i].u + d]
  <2>0. i \in 1..Len(q) /\ r[i] = q[i] /\ q[i] \in Unit
    BY <1>1
  <2>1. i \in 1..Len(q) /\ r[i] = q[i] /\ q[i] \in Unit /\ d \in Nat
    BY <2>0 DEF Unit
  <2>2. i + d <= Len(q) /\ q[i + d] = [m |-> q[i].m, u |-> q[i].u + d]
    BY <2>1 DEF Messages
  <2>3. i + d <= j
    <3>1. ASSUME i + d > j PROVE FALSE
      <4>1. j - i \in 0..Size - q[i].u /\ j - i < d
        BY SMTT(60), <1>1, <2>1, <3>1 DEF Unit
      <4>2. q[i + (j - i)] = [m |-> q[i].m, u |-> q[i].u + (j - i)]
        BY <4>1, <2>1 DEF Messages
      <4>3. i + (j - i) = j
        BY <1>1
      <4>4. q[j].u = q[i].u + (j - i)
        BY <4>2, <4>3
      <4> QED BY SMTT(60), <2>1, <4>1, <4>4 DEF Unit
    <3> QED BY <3>1, <1>1
  <2> QED BY <1>1, <2>1, <2>2, <2>3
<1>3. ASSUME NEW i \in 1..Len(r) - 1, r[i].u = Size
      PROVE  r[i + 1].u = 1
  <2>1. r[i] = q[i] /\ r[i + 1] = q[i + 1] /\ i \in 1..Len(q) - 1
    BY <1>1
  <2> QED BY <1>3, <2>1 DEF Messages
<1>4. Messages(r)
  BY <1>2, <1>3 DEF Messages
<1> QED BY <1>4 DEF r

\* ... and one list after another that ends with the end of a message
LEMMA MessagesConcat ==
    ASSUME NEW p \in Seq(Unit), NEW q \in Seq(Unit), Messages(p), Messages(q), Starts(q)
    PROVE  Messages(p \o q)
<1> DEFINE r == p \o q
<1>1. /\ Len(r) = Len(p) + Len(q)
      /\ \A i \in 1..Len(p) + Len(q) : r[i] = IF i <= Len(p) THEN p[i] ELSE q[i - Len(p)]
  BY ConcatIs
<1> Size \in Nat \ {0}
  BY NumbersAssumption
<1> HIDE DEF r
<1>2. ASSUME NEW i \in 1..Len(r), NEW d \in 0..Size - r[i].u
      PROVE  i + d <= Len(r) /\ r[i + d] = [m |-> r[i].m, u |-> r[i].u + d]
  <2>1. CASE i <= Len(p)
    <3>1. i \in 1..Len(p) /\ r[i] = p[i] /\ p[i] \in Unit
      BY <1>1, <2>1
    <3>2. i + d <= Len(p) /\ p[i + d] = [m |-> p[i].m, u |-> p[i].u + d] /\ d \in Nat
      BY <3>1 DEF Messages, Unit
    <3>3. r[i + d] = p[i + d]
      <4>1. i + d \in 1..Len(p) + Len(q) /\ i + d <= Len(p)
        BY <1>1, <3>1, <3>2
      <4> QED BY <1>1, <4>1
    <3> QED BY <1>1, <3>1, <3>2, <3>3
  <2>2. CASE i > Len(p)
    <3> DEFINE j == i - Len(p)
    <3>1. j \in 1..Len(q) /\ r[i] = q[j] /\ q[j] \in Unit
      BY <1>1, <2>2
    <3>2. j + d <= Len(q) /\ q[j + d] = [m |-> q[j].m, u |-> q[j].u + d] /\ d \in Nat
      BY SMTT(60), <3>1 DEF Messages, Unit
    <3>3. (i + d) - Len(p) = j + d /\ i + d \in 1..Len(p) + Len(q) /\ i + d > Len(p)
      BY <3>1, <3>2, <2>2
    <3> QED BY <1>1, <3>1, <3>2, <3>3
  <2> QED BY <2>1, <2>2
<1>3. ASSUME NEW i \in 1..Len(r) - 1, r[i].u = Size
      PROVE  r[i + 1].u = 1
  <2>1. CASE i < Len(p)
    <3>1. r[i] = p[i] /\ r[i + 1] = p[i + 1] /\ i \in 1..Len(p) - 1
      BY <1>1, <2>1
    <3> QED BY <1>3, <3>1 DEF Messages
  <2>2. CASE i = Len(p)
    <3>1. r[i + 1] = q[1] /\ q # <<>>
      BY <1>1, <2>2
    <3> QED BY <3>1 DEF Starts
  <2>3. CASE i > Len(p)
    <3> DEFINE j == i - Len(p)
    <3>1. r[i] = q[j] /\ (i + 1) - Len(p) = j + 1 /\ j \in 1..Len(q) - 1
      BY <1>1, <2>3
    <3>2. r[i + 1] = q[j + 1]
      BY <1>1, <2>3, <3>1
    <3> QED BY <1>3, <3>1, <3>2 DEF Messages
  <2> QED BY <2>1, <2>2, <2>3
<1>4. Messages(r)
  BY <1>2, <1>3 DEF Messages
<1> QED BY <1>4 DEF r

\* A list is done when a message is
LEMMA MessagesEnd ==
    ASSUME NEW q \in Seq(Unit), Messages(q), q # <<>>
    PROVE  q[Len(q)].u = Size
<1>1. Len(q) \in 1..Len(q) /\ q[Len(q)] \in Unit /\ Size \in Nat
  BY NumbersAssumption
<1>2. ASSUME q[Len(q)].u # Size PROVE FALSE
  <2>1. 1 \in 0..Size - q[Len(q)].u
    BY <1>1, <1>2 DEF Unit
  <2>2. Len(q) + 1 <= Len(q)
    BY <1>1, <2>1 DEF Messages
  <2> QED BY <2>2
<1> QED BY <1>2

\* What follows a unit
LEMMA MessagesNext ==
    ASSUME NEW q \in Seq(Unit), Messages(q), NEW i \in 1..Len(q) - 1
    PROVE  IF q[i].u = Size THEN q[i + 1].u = 1
           ELSE q[i + 1] = [m |-> q[i].m, u |-> q[i].u + 1]
<1>1. i \in 1..Len(q) /\ q[i] \in Unit /\ Size \in Nat
  BY NumbersAssumption
<1>2. ASSUME q[i].u # Size PROVE q[i + 1] = [m |-> q[i].m, u |-> q[i].u + 1]
  <2>1. 1 \in 0..Size - q[i].u
    BY <1>1, <1>2 DEF Unit
  <2> QED BY <1>1, <2>1 DEF Messages
<1> QED BY <1>2 DEF Messages

\* The units of a message follow each other
LEMMA UnitsMessages ==
    ASSUME NEW m \in Msgs
    PROVE  Messages(Units(m)) /\ Starts(Units(m))
<1> Size \in Nat \ {0}
  BY NumbersAssumption
<1>1. Len(Units(m)) = Size /\ \A u \in 1..Size : Units(m)[u] = [m |-> m, u |-> u]
  BY UnitsAre
<1>2. ASSUME NEW i \in 1..Size, NEW d \in 0..Size - i
      PROVE  i + d <= Size /\ Units(m)[i + d] = [m |-> m, u |-> i + d]
  BY <1>1
<1>3. Units(m) # <<>> /\ Units(m)[1].u = 1
  BY <1>1
<1>4. \A i \in 1..Size : Units(m)[i].m = m /\ Units(m)[i].u = i
  BY <1>1
<1>5. \A i \in 1..Len(Units(m)) - 1 : Units(m)[i].u = Size => Units(m)[i + 1].u = 1
  BY <1>1, <1>4
<1>6. \A i \in 1..Len(Units(m)) : \A d \in 0..Size - Units(m)[i].u :
        i + d <= Len(Units(m)) /\ Units(m)[i + d] = [m |-> Units(m)[i].m, u |-> Units(m)[i].u + d]
  BY <1>1, <1>2, <1>4
<1> QED BY <1>3, <1>5, <1>6 DEF Messages, Starts

-----------------------------------------------------------------------------
(* What a socket has to send, and what writing leaves of it *)

\* What is to be sent, in the order of send_buffer
All(s) == s.dw \o Unsent(s)

\* The lists of a slot
WellListed(s) ==
    /\ Messages(s.dw) /\ Messages(s.high) /\ Messages(s.low)
    /\ Starts(s.low) /\ (s.dw # <<>> => Starts(s.high))

\* A slot that stays the same socket
SameSocketAs(r, s) ==
    /\ r.id = s.id /\ r.tcp = s.tcp /\ r.tag = s.tag /\ r.sending = s.sending /\ r.lock = s.lock

\* The lists of a slot, one after the other
LEMMA ThreeLists ==
    ASSUME NEW a \in Seq(Unit), NEW b \in Seq(Unit), NEW c \in Seq(Unit)
    PROVE  LET all == a \o (b \o c) IN
           /\ b \o c \in Seq(Unit) /\ Len(b \o c) = Len(b) + Len(c)
           /\ all \in Seq(Unit) /\ Len(all) = Len(a) + Len(b) + Len(c)
           /\ all = (a \o b) \o c
           /\ \A i \in 1..Len(a) : all[i] = a[i]
           /\ \A i \in 1..Len(b) : all[Len(a) + i] = b[i] /\ (b \o c)[i] = b[i]
           /\ \A i \in 1..Len(c) : all[Len(a) + Len(b) + i] = c[i] /\ (b \o c)[Len(b) + i] = c[i]
<1> DEFINE bc == b \o c
           ab == a \o b
<1>1. /\ bc \in Seq(Unit) /\ Len(bc) = Len(b) + Len(c)
      /\ \A i \in 1..Len(b) : bc[i] = b[i]
      /\ \A i \in 1..Len(c) : bc[Len(b) + i] = c[i]
      /\ \A i \in 1..Len(b) + Len(c) : bc[i] = IF i <= Len(b) THEN b[i] ELSE c[i - Len(b)]
  BY ConcatIs
<1>2. /\ ab \in Seq(Unit) /\ Len(ab) = Len(a) + Len(b)
      /\ \A i \in 1..Len(a) + Len(b) : ab[i] = IF i <= Len(a) THEN a[i] ELSE b[i - Len(a)]
  BY ConcatIs
<1> HIDE DEF bc, ab
<1>3. /\ a \o bc \in Seq(Unit) /\ Len(a \o bc) = Len(a) + Len(bc)
      /\ \A i \in 1..Len(a) : (a \o bc)[i] = a[i]
      /\ \A i \in 1..Len(bc) : (a \o bc)[Len(a) + i] = bc[i]
      /\ \A i \in 1..Len(a) + Len(bc) : (a \o bc)[i] = IF i <= Len(a) THEN a[i] ELSE bc[i - Len(a)]
  BY <1>1, ConcatIs
<1>4. /\ ab \o c \in Seq(Unit) /\ Len(ab \o c) = Len(ab) + Len(c)
      /\ \A i \in 1..Len(ab) + Len(c) : (ab \o c)[i] = IF i <= Len(ab) THEN ab[i] ELSE c[i - Len(ab)]
  BY <1>2, ConcatIs
<1>5. ASSUME NEW i \in 1..Len(c) PROVE (a \o bc)[Len(a) + Len(b) + i] = c[i]
  <2>1. Len(b) + i \in 1..Len(bc) /\ Len(a) + (Len(b) + i) = Len(a) + Len(b) + i
    BY <1>1
  <2>2. (a \o bc)[Len(a) + (Len(b) + i)] = bc[Len(b) + i]
    BY <2>1, <1>3
  <2> QED BY <2>1, <2>2, <1>1
<1>6. ASSUME NEW i \in 1..Len(b) PROVE (a \o bc)[Len(a) + i] = b[i]
  <2>1. i \in 1..Len(bc)
    BY <1>1
  <2> QED BY <2>1, <1>3, <1>1
<1>7. a \o bc = ab \o c
  <2>1. Len(a \o bc) = Len(ab \o c)
    BY <1>1, <1>2, <1>3, <1>4
  <2>2. ASSUME NEW i \in 1..Len(a) + Len(b) + Len(c) PROVE (a \o bc)[i] = (ab \o c)[i]
    <3>1. CASE i <= Len(a)
      BY <3>1, <1>1, <1>2, <1>3, <1>4
    <3>2. CASE i > Len(a) /\ i <= Len(a) + Len(b)
      <4>1. i - Len(a) \in 1..Len(b) /\ Len(a) + (i - Len(a)) = i
        BY <3>2
      <4>2. (a \o bc)[i] = b[i - Len(a)]
        BY <4>1, <1>6
      <4> QED BY <4>2, <3>2, <1>2, <1>4
    <3>3. CASE i > Len(a) + Len(b)
      <4>1. i - (Len(a) + Len(b)) \in 1..Len(c) /\ Len(a) + Len(b) + (i - (Len(a) + Len(b))) = i
        BY <3>3
      <4>2. (a \o bc)[i] = c[i - (Len(a) + Len(b))]
        BY <4>1, <1>5
      <4> QED BY <4>2, <3>3, <1>2, <1>4
    <3>4. i <= Len(a) \/ (i > Len(a) /\ i <= Len(a) + Len(b)) \/ i > Len(a) + Len(b)
      OBVIOUS
    <3> QED BY <3>1, <3>2, <3>3, <3>4
  <2>3. Len(a \o bc) = Len(a) + Len(b) + Len(c) /\ a \o bc \in Seq(Unit) /\ ab \o c \in Seq(Unit)
    BY <1>1, <1>3, <1>4
  <2>4. \A i \in 1..Len(a \o bc) : (a \o bc)[i] = (ab \o c)[i]
    BY <2>2, <2>3
  <2> QED BY <2>1, <2>3, <2>4, SameSequence
<1> QED BY <1>1, <1>3, <1>5, <1>6, <1>7 DEF bc, ab

\* ... are whole messages
LEMMA ThreeMessages ==
    ASSUME NEW a \in Seq(Unit), NEW b \in Seq(Unit), NEW c \in Seq(Unit),
           Messages(a), Messages(b), Messages(c), Starts(c), a # <<>> => Starts(b)
    PROVE  Messages(a \o (b \o c)) /\ Messages(a \o b)
<1>1. b \o c \in Seq(Unit) /\ Messages(b \o c)
  BY MessagesConcat, ConcatIs
<1>2. CASE a = <<>>
  <2>1. a \o (b \o c) = b \o c /\ a \o b = b
    BY <1>1, <1>2
  <2> QED BY <1>1, <2>1
<1>3. CASE a # <<>>
  <2>1. Starts(b \o c)
    <3>1. CASE b # <<>>
      <4>1. 1 \in 1..Len(b) /\ (b \o c)[1] = b[1]
        BY <3>1, ConcatIs
      <4> QED BY <4>1, <1>3, <3>1 DEF Starts
    <3>2. CASE b = <<>>
      <4>1. b \o c = c
        BY <3>2
      <4> QED BY <4>1
    <3> QED BY <3>1, <3>2
  <2> QED BY <1>1, <1>3, <2>1, MessagesConcat
<1> QED BY <1>2, <1>3

\* What is left of a message is there, up to its end
LEMMA RestOfMessage ==
    ASSUME NEW q \in Seq(Unit), Messages(q), q # <<>>
    PROVE  HeadUnits(q) \in 1..Len(q) /\ q[HeadUnits(q)].u = Size
<1>1. 1 \in 1..Len(q) /\ q[1] \in Unit /\ Head(q) = q[1] /\ Size \in Nat
  BY NumbersAssumption
<1>2. Size - q[1].u \in 0..Size - q[1].u /\ q[1].u \in 1..Size
  BY <1>1 DEF Unit
<1>3. 1 + (Size - q[1].u) <= Len(q) /\ q[1 + (Size - q[1].u)] = [m |-> q[1].m, u |-> q[1].u + (Size - q[1].u)]
  BY <1>1, <1>2 DEF Messages
<1>4. HeadUnits(q) = 1 + (Size - q[1].u)
  BY <1>1, <1>2 DEF HeadUnits
<1>5. q[HeadUnits(q)].u = q[1].u + (Size - q[1].u)
  BY <1>3, <1>4
<1> QED BY <1>1, <1>2, <1>3, <1>4, <1>5

\* The write ends in the high list ...
LEMMA EndsInHigh ==
    ASSUME NEW first \in Seq(Unit), NEW c \in Seq(Unit), NEW k \in 0..Len(first)
    PROVE  SubSeq(first, k + 1, Len(first)) \o c = SubSeq(first \o c, k + 1, Len(first \o c))
<1> DEFINE h == SubSeq(first, k + 1, Len(first))
           all == first \o c
           r == SubSeq(all, k + 1, Len(all))
<1>1. h \in Seq(Unit) /\ Len(h) = Len(first) - k /\ \A i \in 1..Len(first) - k : h[i] = first[i + k]
  BY SuffixIs
<1>2. /\ all \in Seq(Unit) /\ Len(all) = Len(first) + Len(c)
      /\ \A i \in 1..Len(first) + Len(c) : all[i] = IF i <= Len(first) THEN first[i] ELSE c[i - Len(first)]
  BY ConcatIs
<1> HIDE DEF h, all
<1>3. k \in 0..Len(all)
  BY <1>2
<1>4. r \in Seq(Unit) /\ Len(r) = Len(all) - k /\ \A i \in 1..Len(all) - k : r[i] = all[i + k]
  BY <1>2, <1>3, SuffixIs
<1> HIDE DEF r
<1>5. /\ h \o c \in Seq(Unit) /\ Len(h \o c) = Len(h) + Len(c)
      /\ \A i \in 1..Len(h) + Len(c) : (h \o c)[i] = IF i <= Len(h) THEN h[i] ELSE c[i - Len(h)]
  BY <1>1, ConcatIs
<1>6. ASSUME NEW i \in 1..Len(h \o c) PROVE (h \o c)[i] = r[i]
  <2>1. CASE i <= Len(h)
    BY <2>1, <1>1, <1>2, <1>4, <1>5
  <2>2. CASE i > Len(h)
    <3>1. i - Len(h) = (i + k) - Len(first) /\ i + k > Len(first)
      BY <2>2, <1>1
    <3>2. i \in 1..Len(all) - k /\ i + k \in 1..Len(first) + Len(c) /\ i \in 1..Len(h) + Len(c)
      BY <1>1, <1>2, <1>5, <2>2
    <3>3. (h \o c)[i] = c[i - Len(h)]
      BY SMTT(60), <3>2, <2>2, <1>1, <1>5
    <3>4. all[i + k] = c[(i + k) - Len(first)]
      BY <3>1, <3>2, <1>2
    <3>5. r[i] = all[i + k]
      BY <3>2, <1>4
    <3> QED BY <3>1, <3>3, <3>4, <3>5
  <2> QED BY SMTT(60), <2>1, <2>2, <1>1, <1>5
<1>7. Len(h \o c) = Len(r)
  BY <1>1, <1>2, <1>4, <1>5
<1> QED BY <1>4, <1>5, <1>6, <1>7, SameSequence DEF h, r, all

\* ... or in the low one
LEMMA EndsInLow ==
    ASSUME NEW first \in Seq(Unit), NEW c \in Seq(Unit), NEW j \in 0..Len(c)
    PROVE  SubSeq(c, j + 1, Len(c)) = SubSeq(first \o c, Len(first) + j + 1, Len(first \o c))
<1> DEFINE h == SubSeq(c, j + 1, Len(c))
           all == first \o c
           r == SubSeq(all, (Len(first) + j) + 1, Len(all))
<1>1. h \in Seq(Unit) /\ Len(h) = Len(c) - j /\ \A i \in 1..Len(c) - j : h[i] = c[i + j]
  BY SuffixIs
<1>2. /\ all \in Seq(Unit) /\ Len(all) = Len(first) + Len(c)
      /\ \A i \in 1..Len(c) : all[Len(first) + i] = c[i]
  BY ConcatIs
<1> HIDE DEF h, all
<1>3. Len(first) + j \in 0..Len(all)
  BY <1>2
<1>4. /\ r \in Seq(Unit) /\ Len(r) = Len(all) - (Len(first) + j)
      /\ \A i \in 1..Len(all) - (Len(first) + j) : r[i] = all[i + (Len(first) + j)]
  BY <1>2, <1>3, SuffixIs
<1> HIDE DEF r
<1>5. Len(h) = Len(r)
  BY <1>1, <1>2, <1>4
<1>6. ASSUME NEW i \in 1..Len(h) PROVE h[i] = r[i]
  <2>1. i \in 1..Len(all) - (Len(first) + j) /\ i + (Len(first) + j) = Len(first) + (i + j) /\ i + j \in 1..Len(c)
    BY <1>1, <1>2
  <2> QED BY <2>1, <1>1, <1>2, <1>4
<1>7. h = r
  BY <1>1, <1>4, <1>5, <1>6, SameSequence
<1> QED BY <1>7 DEF h, r, all

\* raise_uncomplete splits the low list behind the message at its head
LEMMA RaiseSplits ==
    ASSUME NEW low \in Seq(Unit), Messages(low)
    PROVE  LET n == IF Partial(low) THEN HeadUnits(low) ELSE 0
               high2 == SubSeq(low, 1, n)
               low2 == SubSeq(low, n + 1, Len(low))
           IN  /\ high2 \in Seq(Unit) /\ low2 \in Seq(Unit)
               /\ Messages(high2) /\ Messages(low2) /\ Starts(low2)
               /\ high2 \o low2 = low
               /\ \A i \in 1..Len(low2) : \E j \in 1..Len(low) : low2[i] = low[j]
<1> DEFINE n == IF Partial(low) THEN HeadUnits(low) ELSE 0
           high2 == SubSeq(low, 1, n)
           low2 == SubSeq(low, n + 1, Len(low))
<1>1. Messages(<<>>)
  BY DEF Messages
<1>3. n \in 0..Len(low) /\ (n > 0 => low[n].u = Size) /\ (n = 0 => Starts(low))
  <2>1. CASE Partial(low)
    <3>1. low # <<>>
      BY <2>1 DEF Partial
    <3>2. HeadUnits(low) \in 1..Len(low) /\ low[HeadUnits(low)].u = Size
      BY <3>1, RestOfMessage
    <3> QED BY <3>2, <2>1
  <2>2. CASE ~Partial(low)
    <3>1. ASSUME low # <<>> PROVE low[1].u = 1
      <4>1. Head(low) = low[1] /\ low[1] \in Unit
        BY <3>1
      <4>2. ~(low[1].u > 1) /\ low[1].u \in 1..Size /\ Size \in Nat
        BY <4>1, <3>1, <2>2, NumbersAssumption DEF Partial, Unit
      <4> QED BY <4>2
    <3>2. n = 0 /\ Starts(low)
      BY <3>1, <2>2 DEF Starts
    <3> QED BY <3>2
  <2> QED BY <2>1, <2>2
<1> HIDE DEF n
<1>4. high2 \in Seq(Unit) /\ Len(high2) = n /\ \A i \in 1..n : high2[i] = low[i]
  BY <1>3, PrefixIs
<1>5. low2 \in Seq(Unit) /\ Len(low2) = Len(low) - n /\ \A i \in 1..Len(low) - n : low2[i] = low[i + n]
  BY <1>3, SuffixIs
<1>6. Messages(low2)
  BY <1>3, MessagesSuffix
<1>7. Messages(high2)
  <2>1. CASE n = 0
    <3>1. high2 = <<>>
      BY <1>4, <2>1, LenIs
    <3> QED BY <3>1, <1>1
  <2>2. CASE n # 0
    <3>1. n \in 1..Len(low) /\ low[n].u = Size
      BY <1>3, <2>2
    <3> QED BY <3>1, MessagesPrefix
  <2> QED BY <2>1, <2>2
<1> HIDE DEF high2, low2
<1>8. Starts(low2)
  <2>1. CASE n = 0
    <3>1. low2 # <<>> => low # <<>> /\ low2[1] = low[1]
      BY <1>5, <2>1, LenIs
    <3> QED BY <3>1, <1>3, <2>1 DEF Starts
  <2>2. ASSUME n # 0, low2 # <<>> PROVE low2[1].u = 1
    <3>1. n \in 1..Len(low) - 1 /\ low2[1] = low[n + 1] /\ low[n].u = Size
      BY <1>3, <1>5, <2>2, LenIs
    <3> QED BY <3>1 DEF Messages
  <2> QED BY <2>1, <2>2 DEF Starts
<1>9. high2 \o low2 = low
  <2>1. /\ high2 \o low2 \in Seq(Unit) /\ Len(high2 \o low2) = Len(high2) + Len(low2)
        /\ \A i \in 1..Len(high2) + Len(low2) :
             (high2 \o low2)[i] = IF i <= Len(high2) THEN high2[i] ELSE low2[i - Len(high2)]
    BY <1>4, <1>5, ConcatIs
  <2>2. ASSUME NEW i \in 1..Len(low) PROVE (high2 \o low2)[i] = low[i]
    <3>1. CASE i <= n
      <4>1. i \in 1..n /\ i <= Len(high2) /\ i \in 1..Len(high2) + Len(low2)
        BY <3>1, <1>3, <1>4, <1>5
      <4>2. (high2 \o low2)[i] = high2[i]
        BY <4>1, <2>1
      <4> QED BY <4>1, <4>2, <1>4
    <3>2. CASE i > n
      <4>1. i - n \in 1..Len(low) - n /\ (i - n) + n = i /\ i \in 1..Len(high2) + Len(low2)
        BY <3>2, <1>3, <1>4, <1>5
      <4> QED BY <4>1, <3>2, <1>3, <1>4, <1>5, <2>1
    <3>3. i <= n \/ i > n
      BY <1>3
    <3> QED BY <3>1, <3>2, <3>3
  <2>3. Len(high2 \o low2) = Len(low)
    BY <1>3, <1>4, <1>5, <2>1
  <2> QED BY <2>1, <2>2, <2>3, SameSequence
<1>10. ASSUME NEW i \in 1..Len(low2) PROVE \E j \in 1..Len(low) : low2[i] = low[j]
  <2>1. i + n \in 1..Len(low) /\ low2[i] = low[i + n]
    BY <1>3, <1>5
  <2> QED BY <2>1
<1> QED BY <1>4, <1>5, <1>6, <1>7, <1>8, <1>9, <1>10 DEF n, high2, low2

\* Fields of a slot
LEMMA SlotLists ==
    ASSUME NEW s \in SlotTypes
    PROVE  /\ s.dw \in Seq(Unit) /\ s.high \in Seq(Unit) /\ s.low \in Seq(Unit)
           /\ Unsent(s) \in Seq(Unit) /\ All(s) \in Seq(Unit) /\ All(s) = s.dw \o (s.high \o s.low)
           /\ Len(s.dw) \in Nat /\ Len(s.high) \in Nat /\ Len(s.low) \in Nat /\ Len(All(s)) \in Nat
           /\ Len(All(s)) = Len(s.dw) + Len(s.high) + Len(s.low)
           /\ (All(s) = <<>>) <=> (s.dw = <<>> /\ Unsent(s) = <<>>)
<1>1. s.dw \in Seq(Unit) /\ s.high \in Seq(Unit) /\ s.low \in Seq(Unit)
  BY DEF SlotTypes
<1>2. Unsent(s) \in Seq(Unit) /\ All(s) \in Seq(Unit) /\ All(s) = s.dw \o (s.high \o s.low)
  BY <1>1, ConcatIs DEF Unsent, All
<1>3. Len(All(s)) = Len(s.dw) + Len(s.high) + Len(s.low)
  <2>1. \A a, b, c \in Seq(Unit) : Len(a \o (b \o c)) = Len(a) + Len(b) + Len(c)
    BY ThreeLists
  <2>2. Len(s.dw \o (s.high \o s.low)) = Len(s.dw) + Len(s.high) + Len(s.low)
    BY <1>1, <2>1
  <2> QED BY <1>2, <2>2
<1>4. Len(All(s)) = Len(s.dw) + Len(Unsent(s))
  BY <1>1, <1>2, ConcatIs DEF All
<1>5. \A n, k \in Nat : n + k = 0 <=> n = 0 /\ k = 0
  OBVIOUS
<1>6. Len(Unsent(s)) \in Nat /\ Len(s.dw) \in Nat /\ Len(s.high) \in Nat /\ Len(s.low) \in Nat /\ Len(All(s)) \in Nat
  BY <1>1, <1>2, LenIs
<1>7. (All(s) = <<>>) <=> (s.dw = <<>> /\ Unsent(s) = <<>>)
  BY <1>1, <1>2, <1>4, <1>5, <1>6, LenIs
<1> QED BY <1>1, <1>2, <1>3, <1>6, <1>7

\* ... for the lists of a slot
LEMMA AllMessages ==
    ASSUME NEW s \in SlotTypes, WellListed(s)
    PROVE  Messages(All(s)) /\ Messages(s.dw \o s.high)
BY SlotLists, ThreeMessages DEF WellListed

\* A slot with other lists
LEMMA SetHigh ==
    ASSUME NEW t \in SlotTypes, NEW high \in Seq(Unit)
    PROVE  LET r == [t EXCEPT !.high = high] IN
           /\ r \in SlotTypes /\ r.high = high /\ r.low = t.low /\ r.dw = t.dw
           /\ SameSocketAs(r, t) /\ r.type = t.type /\ r.write = t.write /\ r.wbSize = t.wbSize
BY DEF SlotTypes, SameSocketAs

\* send_list and raise_uncomplete: what was written is taken from the front, and the
\* low list begins with a message again
LEMMA AfterWriteIs ==
    ASSUME NEW s \in SlotTypes, WellListed(s), NEW k \in 0..Len(All(s))
    PROVE  LET r == AfterWrite(s, k) IN
           /\ r \in SlotTypes /\ WellListed(r) /\ r.dw = <<>>
           /\ All(r) = SubSeq(All(s), k + 1, Len(All(s))) /\ Unsent(r) = All(r)
           /\ SameSocketAs(r, s) /\ r.type = s.type /\ r.write = s.write
           /\ r.wbSize = s.wbSize + Len(s.dw) - k
           /\ \A i \in 1..Len(r.low) : \E j \in 1..Len(s.low) : r.low[i] = s.low[j]
<1> DEFINE r == AfterWrite(s, k)
           first == s.dw \o s.high
           all == All(s)
           w == s.wbSize + Len(s.dw) - k
<1>1. /\ s.dw \in Seq(Unit) /\ s.high \in Seq(Unit) /\ s.low \in Seq(Unit)
      /\ first \in Seq(Unit) /\ all = first \o s.low /\ all \in Seq(Unit)
  <2>1. /\ s.dw \in Seq(Unit) /\ s.high \in Seq(Unit) /\ s.low \in Seq(Unit)
        /\ all = s.dw \o (s.high \o s.low) /\ all \in Seq(Unit)
    BY SlotLists
  <2>2. \A a, b, c \in Seq(Unit) : a \o (b \o c) = (a \o b) \o c
    BY ThreeLists
  <2>3. s.dw \o (s.high \o s.low) = first \o s.low
    BY <2>1, <2>2
  <2>4. first \in Seq(Unit)
    BY <2>1, ConcatIs
  <2> QED BY <2>1, <2>3, <2>4
<1>2. Messages(first) /\ Messages(all)
  BY AllMessages
<1>3. k \in Nat /\ w \in Int /\ Len(first) \in Nat /\ Len(all) = Len(first) + Len(s.low) /\ Len(s.low) \in Nat
  <2>1. s.wbSize \in Int /\ Len(s.dw) \in Nat /\ Len(all) \in Nat
    BY <1>1, LenIs DEF SlotTypes
  <2>2. k \in Nat
    BY <2>1
  <2>3. Len(first) \in Nat /\ Len(s.low) \in Nat
    BY <1>1, LenIs
  <2>4. \A p, q \in Seq(Unit) : Len(p \o q) = Len(p) + Len(q)
    BY ConcatIs
  <2>5. Len(all) = Len(first) + Len(s.low)
    BY <1>1, <2>4
  <2>6. w \in Int
    BY <2>1, <2>2
  <2> QED BY <2>2, <2>3, <2>5, <2>6
<1>4. Messages(<<>>)
  BY DEF Messages
<1>9. <<>> \in Seq(Unit)
  OBVIOUS
<1>10. LET t == [s EXCEPT !.dw = <<>>, !.wbSize = w] IN
       /\ t \in SlotTypes /\ t.high = s.high /\ t.low = s.low /\ t.dw = <<>>
       /\ SameSocketAs(t, s) /\ t.type = s.type /\ t.write = s.write /\ t.wbSize = w
  <2>1. PICK e \in Seq(Unit) : e = <<>>
    BY <1>9
  <2>2. PICK ww \in Int : ww = w
    BY <1>3
  <2>3. LET t == [s EXCEPT !.dw = e, !.wbSize = ww] IN
       /\ t \in SlotTypes /\ t.high = s.high /\ t.low = s.low /\ t.dw = e
       /\ SameSocketAs(t, s) /\ t.type = s.type /\ t.write = s.write /\ t.wbSize = ww
    BY DEF SlotTypes, SameSocketAs
  <2> QED BY <2>1, <2>2, <2>3
<1>5. ASSUME NEW q \in Seq(Unit) PROVE <<>> \o q = q
  OBVIOUS
<1> HIDE DEF w, first
<1>6. CASE k < Len(first)
  <2> DEFINE high == SubSeq(first, k + 1, Len(first))
  <2>0. k \in 0..Len(first)
    BY <1>3, <1>6
  <2>1. high \in Seq(Unit) /\ Messages(high)
    BY <1>1, <1>2, <2>0, SuffixIs, MessagesSuffix
  <2>2. high \o s.low = SubSeq(all, k + 1, Len(all))
    BY ZenonT(60), <1>1, <2>0, EndsInHigh
  <2>3. r = [[s EXCEPT !.dw = <<>>, !.wbSize = w] EXCEPT !.high = high]
    BY <1>6 DEF AfterWrite, w, first
  <2> HIDE DEF high, r
  <2>4. /\ r \in SlotTypes /\ r.high = high /\ r.low = s.low /\ r.dw = <<>>
        /\ SameSocketAs(r, s) /\ r.type = s.type /\ r.write = s.write /\ r.wbSize = w
    <3> DEFINE t == [s EXCEPT !.dw = <<>>, !.wbSize = w]
    <3>1. /\ t \in SlotTypes /\ t.low = s.low /\ t.dw = <<>>
          /\ SameSocketAs(t, s) /\ t.type = s.type /\ t.write = s.write /\ t.wbSize = w
      BY <1>10
    <3>2. r = [t EXCEPT !.high = high]
      BY <2>3
    <3> HIDE DEF t
    <3>3. /\ r \in SlotTypes /\ r.high = high /\ r.low = t.low /\ r.dw = t.dw
          /\ SameSocketAs(r, t) /\ r.type = t.type /\ r.write = t.write /\ r.wbSize = t.wbSize
      BY <2>1, <3>1, <3>2, SetHigh
    <3> QED BY <3>1, <3>3 DEF SameSocketAs
  <2>5. WellListed(r)
    BY <2>1, <2>4, <1>4 DEF WellListed
  <2>6. Unsent(r) = SubSeq(all, k + 1, Len(all)) /\ All(r) = Unsent(r)
    BY <2>1, <2>2, <2>4, <1>5, SlotLists DEF Unsent, All
  <2> QED BY <2>4, <2>5, <2>6 DEF r, w
<1>7. CASE k >= Len(first)
  <2> DEFINE j == k - Len(first)
             low == SubSeq(s.low, k - Len(first) + 1, Len(s.low))
             n == IF Partial(low) THEN HeadUnits(low) ELSE 0
             high2 == SubSeq(low, 1, n)
             low2 == SubSeq(low, n + 1, Len(low))
  <2>1. j \in 0..Len(s.low) /\ Len(first) + j + 1 = k + 1
    BY <1>1, <1>3, <1>7
  <2>2. /\ low \in Seq(Unit) /\ Messages(low) /\ low = SubSeq(all, k + 1, Len(all))
        /\ Len(low) = Len(s.low) - j /\ \A i \in 1..Len(s.low) - j : low[i] = s.low[i + j]
    <3>1. low = SubSeq(s.low, j + 1, Len(s.low))
      OBVIOUS
    <3> HIDE DEF j, low
    <3>2. Messages(s.low)
      BY DEF WellListed
    <3>3. low \in Seq(Unit) /\ Len(low) = Len(s.low) - j /\ \A i \in 1..Len(s.low) - j : low[i] = s.low[i + j]
      BY <1>1, <2>1, <3>1, SuffixIs
    <3>4. Messages(low)
      BY <1>1, <2>1, <3>1, <3>2, MessagesSuffix
    <3>5. low = SubSeq(first \o s.low, Len(first) + j + 1, Len(first \o s.low))
      BY <1>1, <2>1, <3>1, EndsInLow
    <3> QED BY <1>1, <2>1, <3>3, <3>4, <3>5
  <2>3. r = [[s EXCEPT !.dw = <<>>, !.wbSize = w] EXCEPT !.high = high2, !.low = low2]
    <3>1. ~(k < Len(first))
      BY <1>3, <1>7
    <3> QED BY <3>1 DEF AfterWrite, w, first
  <2> HIDE DEF low, j
  <2>4. /\ high2 \in Seq(Unit) /\ low2 \in Seq(Unit)
        /\ Messages(high2) /\ Messages(low2) /\ Starts(low2) /\ high2 \o low2 = low
        /\ \A i \in 1..Len(low2) : \E l \in 1..Len(low) : low2[i] = low[l]
    BY <2>2, RaiseSplits
  <2> HIDE DEF high2, low2, r
  <2>5. /\ r \in SlotTypes /\ r.high = high2 /\ r.low = low2 /\ r.dw = <<>>
        /\ SameSocketAs(r, s) /\ r.type = s.type /\ r.write = s.write /\ r.wbSize = w
    <3> DEFINE t == [s EXCEPT !.dw = <<>>, !.wbSize = w]
    <3>1. /\ t \in SlotTypes /\ t.low = s.low /\ t.dw = <<>>
          /\ SameSocketAs(t, s) /\ t.type = s.type /\ t.write = s.write /\ t.wbSize = w
      BY <1>10
    <3>2. r = [t EXCEPT !.high = high2, !.low = low2]
      BY <2>3
    <3> HIDE DEF t
    <3>3. /\ r \in SlotTypes /\ r.high = high2 /\ r.low = low2 /\ r.dw = t.dw
          /\ SameSocketAs(r, t) /\ r.type = t.type /\ r.write = t.write /\ r.wbSize = t.wbSize
      <4>1. high2 \in Seq(Unit) /\ low2 \in Seq(Unit)
        BY <2>4
      <4>2. PICK tt \in SlotTypes : tt = t
        BY <3>1
      <4>3. PICK hh \in Seq(Unit) : hh = high2
        BY <4>1
      <4>4. PICK ll \in Seq(Unit) : ll = low2
        BY <4>1
      <4>5. LET rr == [tt EXCEPT !.high = hh, !.low = ll] IN
            /\ rr \in SlotTypes /\ rr.high = hh /\ rr.low = ll /\ rr.dw = tt.dw
            /\ SameSocketAs(rr, tt) /\ rr.type = tt.type /\ rr.write = tt.write /\ rr.wbSize = tt.wbSize
        BY DEF SlotTypes, SameSocketAs
      <4> QED BY <4>2, <4>3, <4>4, <4>5, <3>2
    <3> QED BY <3>1, <3>3 DEF SameSocketAs
  <2>6. WellListed(r)
    BY <2>4, <2>5, <1>4 DEF WellListed
  <2>7. Unsent(r) = SubSeq(all, k + 1, Len(all)) /\ All(r) = Unsent(r)
    BY <2>2, <2>4, <2>5, <1>5, SlotLists DEF Unsent, All
  <2>8. ASSUME NEW i \in 1..Len(r.low) PROVE \E l \in 1..Len(s.low) : r.low[i] = s.low[l]
    <3>1. PICK l \in 1..Len(low) : r.low[i] = low[l]
      BY <2>4, <2>5
    <3>2. l + j \in 1..Len(s.low) /\ low[l] = s.low[l + j]
      BY SMTT(60), <1>3, <2>1, <2>2
    <3> QED BY <3>1, <3>2
  <2> QED BY <2>5, <2>6, <2>7, <2>8 DEF r, w
<1>8. k < Len(first) \/ k >= Len(first)
  BY <1>3
<1> QED BY <1>6, <1>7, <1>8

\* The two ends of force_close
LEMMA FreedIs ==
    ASSUME NEW s \in SlotTypes
    PROVE  /\ Freed(s) \in SlotTypes /\ SameSocketAs(Freed(s), s)
           /\ Freed(s).type = s.type /\ Freed(s).write = s.write /\ Freed(s).dw = s.dw
           /\ Freed(s).high = <<>> /\ Freed(s).low = <<>>
<1>0. <<>> \in Seq(Unit)
  OBVIOUS
<1>1. PICK e \in Seq(Unit) : e = <<>>
  BY <1>0
<1>2. LET t == [s EXCEPT !.high = e, !.low = e] IN
      /\ t \in SlotTypes /\ SameSocketAs(t, s)
      /\ t.type = s.type /\ t.write = s.write /\ t.dw = s.dw
      /\ t.high = e /\ t.low = e
  BY DEF SlotTypes, SameSocketAs
<1> QED BY <1>1, <1>2 DEF Freed

\* A closed slot
LEMMA ClosedIs ==
    ASSUME NEW s \in SlotTypes
    PROVE  /\ Closed(s) \in SlotTypes /\ SameSocketAs(Closed(s), s)
           /\ Closed(s).type = "INVALID" /\ Closed(s).write = FALSE /\ Closed(s).dw = <<>>
<1>0. <<>> \in Seq(Unit)
  OBVIOUS
<1>1. PICK e \in Seq(Unit) : e = <<>>
  BY <1>0
<1>2. PICK t \in SlotTypes : t = Freed(s)
  BY FreedIs
<1>3. SameSocketAs(t, s)
  BY <1>2, FreedIs
<1>4. "INVALID" \in Types
  BY DEF Types
<1>5. LET r == [t EXCEPT !.type = "INVALID", !.dw = e, !.write = FALSE] IN
      /\ r \in SlotTypes /\ SameSocketAs(r, t)
      /\ r.type = "INVALID" /\ r.write = FALSE /\ r.dw = e
  BY <1>4 DEF SlotTypes, SameSocketAs
<1>6. SameSocketAs([t EXCEPT !.type = "INVALID", !.dw = e, !.write = FALSE], s)
  BY <1>3, <1>5 DEF SameSocketAs
<1> QED BY <1>1, <1>2, <1>5, <1>6 DEF Closed

\* Nothing waits when all lists are empty
LEMMA NotWaiting ==
    ASSUME NEW s \in SlotTypes
    PROVE  LET r == [s EXCEPT !.write = FALSE] IN
           /\ r \in SlotTypes /\ SameSocketAs(r, s) /\ r.type = s.type /\ r.write = FALSE
           /\ r.dw = s.dw /\ r.high = s.high /\ r.low = s.low /\ r.wbSize = s.wbSize
BY DEF SlotTypes, SameSocketAs

\* The outcomes of send_buffer: nothing, k units, or the end of the socket
Blocked(s, r) == r.slot = s /\ r.units = <<>>

\* send_buffer has written k units, and the socket stays
Wrote(s, r, k) ==
    /\ s.lock = None /\ r.units = SubSeq(All(s), 1, k)
    /\ SameSocketAs(r.slot, s) /\ r.slot.type = s.type /\ (r.slot.write => s.write)
    /\ WellListed(r.slot) /\ r.slot.dw = <<>>
    /\ All(r.slot) = SubSeq(All(s), k + 1, Len(All(s))) /\ Unsent(r.slot) = All(r.slot)
    /\ \A i \in 1..Len(r.slot.low) : \E j \in 1..Len(s.low) : r.slot.low[i] = s.low[j]

\* ... or it is closed
Gone(s, r, k) ==
    /\ s.lock = None /\ r.units = SubSeq(All(s), 1, k)
    /\ SameSocketAs(r.slot, s) /\ r.slot.type = "INVALID" /\ ~r.slot.write

\* What send_buffer can come to: a slot, the units that were written, and the assertions
LEMMA Outcomes ==
    ASSUME NEW s \in SlotTypes, WellListed(s), NEW least, NEW r \in SendBuffer(s, least)
    PROVE  /\ r.slot \in SlotTypes /\ r.units \in Seq(Unit)
           /\ Blocked(s, r) \/ \E k \in 0..Len(All(s)) : Wrote(s, r, k) \/ Gone(s, r, k)
<1>1. All(s) \in Seq(Unit) /\ Len(All(s)) \in Nat /\ Len(s.dw) \in Nat /\ s.wbSize \in Int
  BY SlotLists DEF SlotTypes
<1>2. CASE s.lock # None
  <2>1. r = Nothing(s)
    BY <1>2 DEF SendBuffer
  <2>2. r.slot = s /\ r.units = <<>>
    BY <2>1 DEF Nothing
  <2> QED BY <2>2 DEF Blocked
<1>4. ASSUME NEW k \in 0..Len(All(s)), s.lock = None,
             r = [slot |-> IF k = Len(All(s)) THEN AllSent(AfterWrite(s, k)) ELSE AfterWrite(s, k),
                  units |-> SubSeq(All(s), 1, k),
                  ok |-> ~Partial(s.low) /\ WbSizeZero(AfterWrite(s, k))]
      PROVE  r.slot \in SlotTypes /\ r.units \in Seq(Unit) /\ (Wrote(s, r, k) \/ Gone(s, r, k))
  <2> DEFINE a == AfterWrite(s, k)
  <2>1. /\ a \in SlotTypes /\ WellListed(a) /\ a.dw = <<>>
        /\ All(a) = SubSeq(All(s), k + 1, Len(All(s))) /\ Unsent(a) = All(a)
        /\ SameSocketAs(a, s) /\ a.type = s.type /\ a.write = s.write
        /\ a.wbSize = s.wbSize + Len(s.dw) - k
        /\ \A i \in 1..Len(a.low) : \E j \in 1..Len(s.low) : a.low[i] = s.low[j]
    BY AfterWriteIs
  <2>2. r.slot = (IF k = Len(All(s)) THEN AllSent(a) ELSE a) /\ r.units = SubSeq(All(s), 1, k)
    BY <1>4
  <2> HIDE DEF a
  <2>0. s.lock = None
    BY <1>4
  <2>3. r.units \in Seq(Unit)
    BY <1>1, <2>2, PrefixIs
  <2>7. CASE k # Len(All(s))
    <3>1. r.slot = a /\ r.units = SubSeq(All(s), 1, k)
      BY <2>2, <2>7
    <3> QED BY <2>0, <2>1, <2>3, <3>1 DEF Wrote
  <2>8. CASE k = Len(All(s)) /\ s.type = "HALFCLOSE"
    <3>1. r.slot = Closed(a)
      BY <2>1, <2>2, <2>8 DEF AllSent
    <3>2. /\ r.slot \in SlotTypes /\ SameSocketAs(r.slot, a)
          /\ r.slot.type = "INVALID" /\ r.slot.write = FALSE
      BY <2>1, <3>1, ClosedIs
    <3>3. SameSocketAs(r.slot, s)
      BY <2>1, <3>2 DEF SameSocketAs
    <3> QED BY <2>0, <2>2, <2>3, <3>2, <3>3 DEF Gone
  <2>9. CASE k = Len(All(s)) /\ s.type # "HALFCLOSE"
    <3> DEFINE t == [a EXCEPT !.write = FALSE]
    <3>1. r.slot = t
      BY <2>1, <2>2, <2>9 DEF AllSent
    <3>2. /\ t \in SlotTypes /\ SameSocketAs(t, a) /\ t.type = a.type /\ t.write = FALSE
          /\ t.dw = a.dw /\ t.high = a.high /\ t.low = a.low /\ t.wbSize = a.wbSize
      BY <2>1, NotWaiting
    <3> HIDE DEF t
    <3>3. SameSocketAs(t, s)
      BY <2>1, <3>2 DEF SameSocketAs
    <3>4. All(t) = All(a) /\ Unsent(t) = Unsent(a)
      BY <3>2 DEF All, Unsent
    <3>5. WellListed(t)
      BY <2>1, <3>2 DEF WellListed
    <3>6. r.units = SubSeq(All(s), 1, k)
      BY <2>2
    <3>7. t.type = s.type /\ ~t.write /\ t.dw = <<>> /\ t.low = a.low
      BY <2>1, <3>2
    <3> QED BY <2>0, <2>1, <2>3, <3>1, <3>2, <3>3, <3>4, <3>5, <3>6, <3>7 DEF Wrote
  <2> QED BY <2>7, <2>8, <2>9
<1>5. ASSUME s.lock = None, r = [slot |-> Closed(s), units |-> <<>>, ok |-> ~Partial(s.low)]
      PROVE  r.slot \in SlotTypes /\ r.units \in Seq(Unit) /\ Gone(s, r, 0)
  <2>1. r.slot = Closed(s) /\ r.units = <<>>
    BY <1>5
  <2>2. <<>> = SubSeq(All(s), 1, 0) /\ <<>> \in Seq(Unit)
    BY <1>1
  <2> QED BY <1>5, <2>1, <2>2, ClosedIs DEF Gone
<1>6. CASE s.lock = None
  <2>1. \/ \E k \in 0..Len(All(s)) :
             r = [slot |-> IF k = Len(All(s)) THEN AllSent(AfterWrite(s, k)) ELSE AfterWrite(s, k),
                  units |-> SubSeq(All(s), 1, k),
                  ok |-> ~Partial(s.low) /\ WbSizeZero(AfterWrite(s, k))]
        \/ r = [slot |-> Closed(s), units |-> <<>>, ok |-> ~Partial(s.low)]
    BY <1>6 DEF SendBuffer, All
  <2>2. 0 \in 0..Len(All(s))
    BY <1>1
  <2> QED BY <1>4, <1>5, <1>6, <2>1, <2>2
<1> QED BY <1>2, <1>6

-----------------------------------------------------------------------------
(* The changes of a slot *)

SameLists(r, s) ==
    r.high = s.high /\ r.low = s.low /\ r.dw = s.dw /\ r.wbSize = s.wbSize

\* A slot with another type
LEMMA SetType ==
    ASSUME NEW s \in SlotTypes, NEW type \in Types
    PROVE  LET r == [s EXCEPT !.type = type] IN
           /\ r \in SlotTypes /\ SameSocketAs(r, s) /\ SameLists(r, s)
           /\ r.type = type /\ r.write = s.write
BY DEF SlotTypes, SameSocketAs, SameLists

\* ... another id
LEMMA SetId ==
    ASSUME NEW s \in SlotTypes, NEW id \in Ids
    PROVE  LET r == [s EXCEPT !.id = id, !.tcp = FALSE] IN
           /\ r \in SlotTypes /\ SameLists(r, s)
           /\ r.type = s.type /\ r.write = s.write /\ r.id = id /\ ~r.tcp /\ r.lock = s.lock
<1>1. MaxId \in Nat
  BY NumbersAssumption
<1>2. PICK i \in 0..MaxId : i = id
  BY <1>1 DEF Ids
<1>3. LET r == [s EXCEPT !.id = i, !.tcp = FALSE] IN
      /\ r \in SlotTypes /\ SameLists(r, s)
      /\ r.type = s.type /\ r.write = s.write /\ r.id = i /\ ~r.tcp /\ r.lock = s.lock
  BY DEF SlotTypes, SameLists
<1> QED BY <1>2, <1>3

\* ... another lock
LEMMA SetLock ==
    ASSUME NEW s \in SlotTypes, NEW l \in Users \cup {None}
    PROVE  LET r == [s EXCEPT !.lock = l] IN
           /\ r \in SlotTypes /\ SameLists(r, s)
           /\ r.type = s.type /\ r.write = s.write /\ r.id = s.id /\ r.tcp = s.tcp /\ r.tag = s.tag
           /\ r.sending = s.sending /\ r.lock = l
BY DEF SlotTypes, SameLists

\* ... another count
LEMMA SetSending ==
    ASSUME NEW s \in SlotTypes, NEW n \in Int
    PROVE  LET r == [s EXCEPT !.sending = n] IN
           /\ r \in SlotTypes /\ SameLists(r, s)
           /\ r.type = s.type /\ r.write = s.write /\ r.id = s.id /\ r.tcp = s.tcp /\ r.tag = s.tag
           /\ r.lock = s.lock /\ r.sending = n
BY DEF SlotTypes, SameLists

\* ... another write flag
LEMMA SetWrite ==
    ASSUME NEW s \in SlotTypes, NEW type \in Types, NEW w \in BOOLEAN
    PROVE  LET r == [s EXCEPT !.type = type, !.write = w] IN
           /\ r \in SlotTypes /\ SameLists(r, s) /\ SameSocketAs(r, s)
           /\ r.type = type /\ r.write = w
BY DEF SlotTypes, SameLists, SameSocketAs

\* ... the rest of a direct write
LEMMA SetRest ==
    ASSUME NEW s \in SlotTypes, NEW q \in Seq(Unit)
    PROVE  LET r == [s EXCEPT !.dw = q, !.write = TRUE, !.lock = None] IN
           /\ r \in SlotTypes /\ r.dw = q /\ r.high = s.high /\ r.low = s.low /\ r.wbSize = s.wbSize
           /\ r.type = s.type /\ r.write /\ r.id = s.id /\ r.tcp = s.tcp /\ r.tag = s.tag
           /\ r.lock = None /\ r.sending = s.sending
BY DEF SlotTypes

\* The slot that KeepRest leaves
LEMMA WithRestIs ==
    ASSUME NEW s \in SlotTypes, NEW m \in Msgs, NEW k \in 0..Size - 1
    PROVE  LET r == WithRest(s, m, k) IN
           /\ r \in SlotTypes /\ r.high = s.high /\ r.low = s.low /\ r.wbSize = s.wbSize
           /\ r.type = s.type /\ r.write /\ r.id = s.id /\ r.tcp = s.tcp /\ r.tag = s.tag
           /\ r.lock = None /\ r.sending = s.sending
           /\ Len(r.dw) = Size - k /\ \A i \in 1..Size - k : r.dw[i] = [m |-> m, u |-> k + i]
           /\ Messages(r.dw)
<1> Size \in Nat \ {0}
  BY NumbersAssumption
<1>1. /\ Units(m) \in Seq(Unit) /\ Len(Units(m)) = Size /\ Messages(Units(m))
      /\ \A u \in 1..Size : Units(m)[u] = [m |-> m, u |-> u]
  BY UnitsAre, UnitsMessages
<1>0. PICK us \in Seq(Unit) : us = Units(m)
  BY <1>1
<1>2. k \in 0..Len(us) /\ Len(us) = Size /\ Messages(us)
  BY <1>0, <1>1
<1>3. PICK q \in Seq(Unit) : q = SubSeq(us, k + 1, Len(us))
  BY <1>2, SuffixIs
<1>4. Len(q) = Len(us) - k /\ (\A i \in 1..Len(us) - k : q[i] = us[i + k]) /\ Messages(q)
  BY <1>2, <1>3, SuffixIs, MessagesSuffix
<1>5. ASSUME NEW i \in 1..Size - k PROVE q[i] = [m |-> m, u |-> k + i]
  <2>1. i + k \in 1..Size /\ i + k = k + i
    OBVIOUS
  <2> QED BY <1>0, <1>1, <1>2, <1>4, <2>1
<1>6. q = SubSeq(Units(m), k + 1, Size) /\ Len(q) = Size - k
  BY <1>0, <1>2, <1>3, <1>4
<1>7. PICK r \in SlotTypes : r = [s EXCEPT !.dw = q, !.write = TRUE, !.lock = None]
  BY SetRest
<1>8. /\ r.dw = q /\ r.high = s.high /\ r.low = s.low /\ r.wbSize = s.wbSize
      /\ r.type = s.type /\ r.write /\ r.id = s.id /\ r.tcp = s.tcp /\ r.tag = s.tag
      /\ r.lock = None /\ r.sending = s.sending
  <2> HIDE DEF Unit
  <2> QED BY <1>7 DEF SlotTypes
<1>9. WithRest(s, m, k) = r
  BY <1>6, <1>7 DEF WithRest
<1> QED BY <1>4, <1>5, <1>6, <1>8, <1>9

\* The slot that new_fd leaves
LEMMA NewFdIs ==
    ASSUME slot \in [Slots -> SlotTypes], NEW id \in Ids, NEW type \in Types, NEW write \in BOOLEAN
    PROVE  LET r == NewFd(id, type, write) IN
           /\ r \in SlotTypes /\ r.type = type /\ r.id = id /\ r.tcp /\ r.tag = Tag(id)
           /\ r.sending = 0 /\ r.wbSize = 0 /\ r.dw = <<>> /\ r.write = write
           /\ r.high = At(id).high /\ r.low = At(id).low /\ r.lock = At(id).lock
<1>1. PICK e \in Seq(Unit) : e = <<>>
  <2>1. <<>> \in Seq(Unit)
    OBVIOUS
  <2> QED BY <2>1
<1>2. id \in Nat /\ id \in 0..MaxId /\ Tag(id) \in Nat
  BY HashType, NumbersAssumption DEF Ids
<1>3. PICK s \in SlotTypes : s = At(id)
  BY <1>2, AtIs
<1>4. PICK t \in Nat : t = Tag(id)
  BY <1>2
<1>6. PICK i \in 0..MaxId : i = id
  BY <1>2
<1>7. PICK a \in SlotTypes : a = [s EXCEPT !.type = type, !.id = i, !.tcp = TRUE, !.tag = t]
  BY DEF SlotTypes
<1>8. /\ a.type = type /\ a.id = i /\ a.tcp /\ a.tag = t
      /\ a.high = s.high /\ a.low = s.low /\ a.lock = s.lock
  BY <1>7 DEF SlotTypes
<1>13. PICK z \in Int : z = 0
  OBVIOUS
<1>11. PICK c \in SlotTypes : c = [a EXCEPT !.sending = z, !.wbSize = z]
  BY DEF SlotTypes
<1>12. /\ c.sending = z /\ c.wbSize = z
       /\ c.type = a.type /\ c.id = a.id /\ c.tcp = a.tcp /\ c.tag = a.tag
       /\ c.high = a.high /\ c.low = a.low /\ c.lock = a.lock
  BY <1>11 DEF SlotTypes
<1>9. PICK b \in SlotTypes : b = [c EXCEPT !.dw = e, !.write = write]
  BY DEF SlotTypes
<1>10. /\ b.sending = z /\ b.wbSize = z /\ b.dw = e /\ b.write = write
       /\ b.type = a.type /\ b.id = a.id /\ b.tcp = a.tcp /\ b.tag = a.tag
       /\ b.high = a.high /\ b.low = a.low /\ b.lock = a.lock
  BY <1>9, <1>12 DEF SlotTypes
<1>5. NewFd(id, type, write) = b
  BY <1>1, <1>3, <1>4, <1>6, <1>7, <1>9, <1>11, <1>13 DEF NewFd
<1> QED BY <1>1, <1>3, <1>4, <1>5, <1>6, <1>8, <1>10, <1>13

\* send_socket: a message is put behind what waits in the list of its priority, or in the
\* high one when nothing waits; or it comes too late
LEMMA AppendedIs ==
    ASSUME slot \in [Slots -> SlotTypes], NEW s \in SlotTypes, NEW id \in Ids, NEW m \in Msgs
    PROVE  LET r == Appended(s, id, m) IN
           /\ r \in SlotTypes /\ SameSocketAs(r, s) /\ r.type = s.type /\ r.dw = s.dw
           /\ r.write => s.write \/ s.type = "CONNECTED"
           /\ \/ r = s
              \/ /\ r.wbSize = s.wbSize + Size
                 /\ \/ r.high = s.high \o Units(m) /\ r.low = s.low
                       /\ (~m.low \/ (s.high = <<>> /\ s.low = <<>>))
                    \/ r.high = s.high /\ r.low = s.low \o Units(m) /\ m.low
<1> DEFINE first == Unsent(s) = <<>> /\ s.type = "CONNECTED"
           t == [s EXCEPT !.wbSize = @ + Size, !.write = @ \/ first]
           r == Appended(s, id, m)
<1>1. s.high \in Seq(Unit) /\ s.low \in Seq(Unit) /\ Units(m) \in Seq(Unit) /\ s.wbSize \in Int /\ Size \in Nat
  BY UnitsAre, NumbersAssumption DEF SlotTypes
<1>2. PICK h \in Seq(Unit) : h = s.high \o Units(m)
  BY <1>1, ConcatIs
<1>3. PICK l \in Seq(Unit) : l = s.low \o Units(m)
  BY <1>1, ConcatIs
<1>4. PICK w \in Int : w = s.wbSize + Size
  BY <1>1
<1>5. PICK b \in BOOLEAN : b = (s.write \/ first)
  OBVIOUS
<1>6. Unsent(s) = <<>> => s.high = <<>> /\ s.low = <<>>
  BY <1>1, ConcatIs, LenIs DEF Unsent
<1>7. CASE r = s
  BY <1>7 DEF SameSocketAs, SlotTypes
<1>8. PICK tt \in SlotTypes : tt = [s EXCEPT !.wbSize = w, !.write = b]
  BY DEF SlotTypes
<1>9. /\ SameSocketAs(tt, s) /\ tt.type = s.type /\ tt.dw = s.dw /\ tt.write = b /\ tt.wbSize = w
      /\ tt.high = s.high /\ tt.low = s.low
  BY <1>8 DEF SlotTypes, SameSocketAs
<1>10. CASE r = [tt EXCEPT !.low = l] /\ m.low
  BY ZenonT(60), <1>2, <1>3, <1>4, <1>5, <1>9, <1>10 DEF SlotTypes, SameSocketAs
<1>11. CASE r = [tt EXCEPT !.high = h] /\ (~m.low \/ first)
  BY <1>2, <1>3, <1>4, <1>5, <1>6, <1>9, <1>11 DEF SlotTypes, SameSocketAs
<1>12. tt = t
  BY <1>4, <1>5, <1>8
<1>13. \/ r = s
       \/ r = [tt EXCEPT !.low = tt.low \o Units(m)] /\ m.low
       \/ r = [tt EXCEPT !.high = tt.high \o Units(m)] /\ (~m.low \/ first)
  BY <1>8, <1>12 DEF Appended, SlotTypes
<1> QED BY <1>2, <1>3, <1>7, <1>9, <1>10, <1>11, <1>13

-----------------------------------------------------------------------------
(* What the parts of the state are *)

\* What a service may be doing
LEMMA UserIs ==
    ASSUME NEW v \in UserTypes
    PROVE  /\ v.pc \in Busy => v.m \in Msgs
           /\ v.pc = "reserved" => v.id \in Ids /\ v.cmd \in Opening
           /\ v.pc = "rest" => v.k \in 0..Size - 1
           /\ v.pc \in Busy \cup {"idle", "reserved"}
           /\ v.pc = "idle" <=> v = Idle
BY DEF UserTypes, Busy, Idle

\* What is in the pipe
LEMMA RequestIs ==
    ASSUME NEW r \in Requests
    PROVE  /\ r.id \in Ids
           /\ r.cmd \in Message => r.m \in Msgs
           /\ r.cmd \in {"O", "L", "S", "K", "shutdown"} \cup Message
BY DEF Requests, Message

\* The fields of a slot
LEMMA SlotIs ==
    ASSUME NEW s \in SlotTypes
    PROVE  /\ s.id \in Nat /\ s.id \in 0..MaxId /\ (s.id \in Ids <=> s.id # 0)
           /\ s.type \in Types /\ s.tcp \in BOOLEAN /\ s.write \in BOOLEAN
           /\ s.tag \in Nat /\ s.sending \in Int /\ s.wbSize \in Int /\ s.lock \in Users \cup {None}
<1>1. MaxId \in Nat /\ s.id \in 0..MaxId
  BY NumbersAssumption DEF SlotTypes
<1> QED BY <1>1 DEF SlotTypes, Ids

\* What the socket thread may be doing
LEMMA ThreadIs ==
    ASSUME Typed
    PROVE  /\ thread # Polling => thread.id \in Ids /\ thread.pc \in {"close", "clear"}
           /\ thread = Polling <=> thread.pc = "poll"
BY DEF Typed, Polling

\* Ids
LEMMA IdsAre ==
    ASSUME NEW id \in Ids
    PROVE  id \in Nat /\ id \in Int /\ id # 0 /\ HashId(id) \in Slots /\ Tag(id) \in Nat
BY HashType DEF Ids

-----------------------------------------------------------------------------
(* The kinds of steps *)

\* Nothing that claims a slot, hears of a socket or opens one changes
SlotsQuiet ==
    \A x \in Slots :
        /\ slot'[x].id = slot[x].id /\ slot'[x].tcp = slot[x].tcp
        /\ slot'[x].tag = slot[x].tag /\ slot'[x].type = slot[x].type
        /\ slot'[x].write => slot[x].write \/ slot[x].type \in {"CONNECTED", "HALFCLOSE"}

\* No service gets a new id or a new message
UsersQuiet ==
    \A u \in Users :
        /\ user'[u].pc = "reserved" <=> user[u].pc = "reserved"
        /\ user[u].pc = "reserved" => user'[u] = user[u]
        /\ user'[u].pc \in Busy => \/ user[u].pc \in Busy /\ user'[u].m = user[u].m
                                   \/ told[user'[u].m.to] # "none" /\ user'[u].m.from = u

EventsQuiet == \A e \in events' : \E f \in events : e.slot = f.slot

\* A step that gives no slot another socket, and no service another id
LEMMA QuietStep ==
    ASSUME Typed, NEW q \in Seq(Requests), Control(q),
           slot' \in [Slots -> SlotTypes], SlotsQuiet, UsersQuiet, EventsRight',
           user' \in [Users -> UserTypes],
           \A u \in Users : known'[u] \subseteq known[u],
           UNCHANGED <<allocId, thread, told>>
    PROVE  Control(q)'
<1> USE DEF Control
<1>1. \A id \in Ids : HashId(id) \in Slots
  BY IdsAre
<1>2. \A u \in Users : /\ user[u].pc = "reserved" => user[u].id \in Ids
                       /\ user'[u].pc = "reserved" => user'[u].id \in Ids
  BY UserIs DEF Typed
<1>3. \A i \in DOMAIN q : q[i].id \in Ids
  BY RequestIs
<1>4. thread # Polling => thread.id \in Ids
  BY ThreadIs
<1>5. Placed'
  BY DEF Placed, SlotsQuiet, Live
<1>6. Fresh(q)'
  BY DEF Fresh, SlotsQuiet, UsersQuiet
<1>7. Taken(q)'
  BY <1>1, <1>2 DEF Taken, SlotsQuiet, UsersQuiet, At
<1>8. Requested(q)'
  BY <1>1, <1>3 DEF Requested, SlotsQuiet, UsersQuiet, At
<1>9. ThreadRight'
  BY <1>1, <1>4, ThreadIs DEF ThreadRight, SlotsQuiet, At, Polling
<1>10. ToldRight'
  BY <1>1 DEF ToldRight, SlotsQuiet, At
<1>11. Addressed(q)'
  BY DEF Addressed, UsersQuiet
<1> QED BY <1>5, <1>6, <1>7, <1>8, <1>9, <1>10, <1>11

\* The events, when one slot changes
LEMMA EventsStay ==
    ASSUME Typed, EventsRight, SlotsQuiet, EventsQuiet, UNCHANGED thread
    PROVE  EventsRight'
<1>1. \A e \in events : e.slot \in Slots
  BY DEF Typed, Events
<1>2. SUFFICES ASSUME NEW e \in events'
               PROVE  /\ slot'[e.slot].type # "PACCEPT"
                      /\ slot'[e.slot].type = "INVALID" => thread'.pc = "clear" /\ slot'[e.slot].id = thread'.id
  BY DEF EventsRight
<1>3. PICK f \in events : e.slot = f.slot
  BY <1>2 DEF EventsQuiet
<1> QED BY <1>1, <1>3 DEF EventsRight, SlotsQuiet

\* One slot changes, and the thread was not in the middle of its closing: the slot of a
\* socket that is closed or goes on, or one that is given to a socket
NoClaim(id, q) ==
    /\ \A u \in Users : user[u].pc = "reserved" => HashId(user[u].id) # HashId(id)
    /\ \A i \in DOMAIN q : q[i].cmd \in Opening => HashId(q[i].id) # HashId(id)

\* One slot changes
OnlySlot(id, r) ==
    /\ slot'[HashId(id)] = r
    /\ \A x \in Slots : x # HashId(id) => slot'[x] = slot[x]

\* What the thread does about the socket of one slot
ThreadOf(id, r) ==
    \/ thread' = Polling /\ r.type # "INVALID"
    \/ thread' = [pc |-> "close", id |-> id] /\ r.type \in Live
    \/ thread' = [pc |-> "clear", id |-> id] /\ r.type = "INVALID"

\* ... and what a service is told of it
ToldOf(id, r) ==
    /\ \A other \in Ids : other # id => told'[other] = told[other]
    /\ told'[id] \in {told[id], "open"}
    /\ r.type \in Live => told'[id] # "closed"
    /\ r.type = "CONNECTED" => told'[id] = "open"

\* A step on the socket of one slot
Owned(id, r) ==
    /\ r.id = id /\ r.type # "RESERVE"
    /\ r.type \in Live => r.tcp
    /\ r.tcp => r.tag = Tag(id)
    /\ r.type \in {"INVALID", "PACCEPT"} => ~r.write

\* A step that changes a slot whose socket stays
LEMMA OwnStep ==
    ASSUME Typed, NEW q \in Seq(Requests), Control(q), NEW id \in Ids, NEW r \in SlotTypes,
           slot' \in [Slots -> SlotTypes], OnlySlot(id, r), Owned(id, r),
           NoClaim(id, q), thread.pc # "clear", ThreadOf(id, r), ToldOf(id, r),
           allocId' \in Nat, allocId <= allocId', id <= allocId', EventsQuiet, UNCHANGED user,
           \A u \in Users : known'[u] \subseteq known[u] \cup {id},
           r.type = "PACCEPT" => \A e \in events : slot[e.slot].type = "PACCEPT" \/ e.slot # HashId(id)
    PROVE  Control(q)'
<1> USE DEF Control
<1>1. \A i \in Ids : HashId(i) \in Slots /\ i \in Nat
  BY IdsAre
<1>2. \A u \in Users : user[u].pc = "reserved" => user[u].id \in Ids
  BY UserIs DEF Typed
<1>3. \A i \in DOMAIN q : q[i].id \in Ids
  BY RequestIs
<1>4. \A x \in Slots : slot[x].id \in Nat /\ (slot[x].tcp => slot[x].id \in Ids)
  BY SlotIs DEF Typed, Placed
<1>5. Placed'
  BY <1>1, <1>4 DEF Placed, OnlySlot, Owned
<1>6. Fresh(q)'
  <2>0. allocId \in Nat
    BY DEF Typed
  <2>1. \A x \in Slots : slot'[x].id <= allocId'
    BY <1>4, <2>0 DEF OnlySlot, Owned, Fresh
  <2>2. \A i \in Ids : told'[i] # "none" => i <= allocId'
    BY <1>1, <2>0 DEF ToldOf, Fresh
  <2>3. \A u \in Users : \A i \in known'[u] : i <= allocId'
    <3>1. \A u \in Users : known[u] \subseteq Ids
      BY DEF Typed
    <3> QED BY <1>1, <2>0, <3>1 DEF Fresh
  <2>4. \A i \in DOMAIN q : q[i].id <= allocId'
    BY <1>1, <1>3, <2>0 DEF Fresh
  <2>5. \A u \in Users : user'[u].pc = "reserved" => user'[u].id <= allocId'
    BY <1>1, <1>2, <2>0 DEF Fresh
  <2>6. thread' # Polling => thread'.id <= allocId'
    BY DEF ThreadOf
  <2> QED BY <2>1, <2>2, <2>3, <2>4, <2>5, <2>6 DEF Fresh
<1>7. Taken(q)'
  <2> SUFFICES ASSUME NEW u \in Users, user[u].pc = "reserved"
               PROVE  /\ At(user[u].id)'.type = "RESERVE" /\ At(user[u].id)'.id # user[u].id
                      /\ told'[user[u].id] = "none"
                      /\ \A v \in Users : user[u].id \notin known'[v]
                      /\ \A i \in DOMAIN q : q[i].id # user[u].id
                      /\ thread' # Polling => thread'.id # user[u].id
                      /\ \A v \in Users : user[v].pc = "reserved" /\ HashId(user[v].id) = HashId(user[u].id) => u = v
                      /\ \A i \in DOMAIN q : q[i].cmd \in Opening => HashId(q[i].id) # HashId(user[u].id)
    BY DEF Taken, At
  <2>1. user[u].id \in Ids /\ HashId(user[u].id) # HashId(id) /\ user[u].id # id
    BY <1>2 DEF NoClaim
  <2>2. At(user[u].id)' = At(user[u].id)
    BY <1>1, <2>1 DEF OnlySlot, At
  <2>3. told'[user[u].id] = told[user[u].id] /\ (thread' # Polling => thread'.id # user[u].id)
    BY <2>1 DEF ToldOf, ThreadOf
  <2> QED BY <2>1, <2>2, <2>3 DEF Taken
<1>8. Requested(q)'
  <2> SUFFICES ASSUME NEW i \in DOMAIN q, q[i].cmd \in Opening
               PROVE  /\ At(q[i].id)'.type = "RESERVE" /\ At(q[i].id)'.id = q[i].id /\ ~At(q[i].id)'.tcp
                      /\ told'[q[i].id] = "none"
                      /\ thread' # Polling => thread'.id # q[i].id
                      /\ \A j \in DOMAIN q : q[j].cmd \in Opening /\ HashId(q[j].id) = HashId(q[i].id) => i = j
    BY DEF Requested, At
  <2>1. q[i].id \in Ids /\ HashId(q[i].id) # HashId(id) /\ q[i].id # id
    BY <1>3 DEF NoClaim
  <2>2. At(q[i].id)' = At(q[i].id)
    BY <1>1, <2>1 DEF OnlySlot, At
  <2>3. told'[q[i].id] = told[q[i].id] /\ (thread' # Polling => thread'.id # q[i].id)
    BY <2>1 DEF ToldOf, ThreadOf
  <2> QED BY <2>1, <2>2, <2>3 DEF Requested
<1>9. ThreadRight'
  BY <1>1 DEF ThreadRight, OnlySlot, Owned, At, ThreadOf, Live, Polling
<1>10. ToldRight'
  <2>1. \A i \in Ids : told'[i] # "late"
    BY DEF ToldRight, ToldOf
  <2>2. ASSUME NEW i \in Ids, told'[i] = "closed", slot'[HashId(i)].id = i PROVE slot'[HashId(i)].type \notin Live
    BY <1>1, <2>2 DEF ToldRight, ToldOf, OnlySlot, Owned, At
  <2>3. ASSUME NEW x \in Slots, slot'[x].type = "CONNECTED" PROVE told'[slot'[x].id] = "open"
    <3>1. CASE x = HashId(id)
      BY <2>3, <3>1 DEF OnlySlot, Owned, ToldOf
    <3>2. CASE x # HashId(id)
      <4>1. slot'[x] = slot[x] /\ slot[x].id \in Ids /\ slot[x].id # id
        BY <1>4, <2>3, <3>2 DEF OnlySlot, Placed, Live, Types
      <4> QED BY <2>3, <4>1 DEF ToldRight, ToldOf
    <3> QED BY <3>1, <3>2
  <2> QED BY <2>1, <2>2, <2>3 DEF ToldRight, At
<1>11. EventsRight'
  <2> SUFFICES ASSUME NEW e \in events'
               PROVE  /\ slot'[e.slot].type # "PACCEPT"
                      /\ slot'[e.slot].type = "INVALID" => thread'.pc = "clear" /\ slot'[e.slot].id = thread'.id
    BY DEF EventsRight
  <2>1. PICK f \in events : e.slot = f.slot
    BY DEF EventsQuiet
  <2>2. e.slot \in Slots /\ slot[e.slot].type # "PACCEPT" /\ slot[e.slot].type # "INVALID"
    BY <2>1 DEF Typed, Events, EventsRight
  <2>3. CASE e.slot = HashId(id)
    <3>1. slot'[e.slot] = r
      BY <2>3 DEF OnlySlot
    <3>2. r.type # "PACCEPT"
      BY <2>1, <2>2, <2>3
    <3>3. r.type = "INVALID" => thread' = [pc |-> "clear", id |-> id]
      BY DEF ThreadOf, Live
    <3> QED BY <3>1, <3>2, <3>3 DEF Owned
  <2> QED BY <2>2, <2>3 DEF OnlySlot
<1>12. Addressed(q)'
  <2> SUFFICES ASSUME NEW u \in Users, user[u].pc \in Busy PROVE told'[user[u].m.to] # "none"
    BY DEF Addressed
  <2>1. user[u].m \in Msgs /\ told[user[u].m.to] # "none"
    BY UserIs DEF Typed, Addressed
  <2>2. user[u].m.to \in Ids
    BY <2>1 DEF Msgs
  <2> QED BY <2>1, <2>2 DEF ToldOf
<1> QED BY <1>5, <1>6, <1>7, <1>8, <1>9, <1>10, <1>11, <1>12

\* A service only hears that a socket it asked for is closed, or was closed before
LEMMA ToldStep ==
    ASSUME Typed, NEW q \in Seq(Requests), Control(q), NEW id \in Ids, id <= allocId,
           At(id).id = id => At(id).type \notin Live,
           \A u \in Users : user[u].pc = "reserved" => user[u].id # id,
           \A i \in DOMAIN q : q[i].cmd \in Opening => q[i].id # id,
           \A i \in Ids : i # id => told'[i] = told[i],
           told'[id] = "closed", thread' \in {thread, Polling}, EventsRight',
           UNCHANGED <<slot, user, allocId, known>>
    PROVE  Control(q)'
<1> USE DEF Control
<1>2. \A u \in Users : user[u].pc = "reserved" => user[u].id \in Ids
  BY UserIs DEF Typed
<1>3. \A i \in DOMAIN q : q[i].id \in Ids
  BY RequestIs
<1>4. \A x \in Slots : slot[x].tcp => slot[x].id \in Ids /\ HashId(slot[x].id) = x
  BY DEF Placed
<1>5. Placed'
  BY DEF Placed
<1>6. Fresh(q)'
  BY DEF Fresh
<1>7. Taken(q)'
  BY <1>2 DEF Taken, At
<1>8. Requested(q)'
  BY <1>3 DEF Requested, At
<1>9. ThreadRight'
  BY ThreadIs DEF ThreadRight, At, Polling
<1>10. ToldRight'
  <2>1. \A i \in Ids : told'[i] # "late"
    BY DEF ToldRight
  <2>2. ASSUME NEW i \in Ids, told'[i] = "closed", slot[HashId(i)].id = i PROVE slot[HashId(i)].type \notin Live
    BY <2>2 DEF ToldRight, At
  <2>3. ASSUME NEW x \in Slots, slot[x].type = "CONNECTED" PROVE told'[slot[x].id] = "open"
    <3>1. slot[x].id \in Ids /\ HashId(slot[x].id) = x
      BY <1>4, <2>3 DEF Placed, Live, Types
    <3>2. slot[x].id # id
      BY <2>3, <3>1 DEF Live, Types, At
    <3> QED BY <2>3, <3>1, <3>2 DEF ToldRight
  <2> QED BY <2>1, <2>2, <2>3 DEF ToldRight, At
<1>11. Addressed(q)'
  <2> SUFFICES ASSUME NEW u \in Users, user[u].pc \in Busy PROVE told'[user[u].m.to] # "none"
    BY DEF Addressed
  <2>1. user[u].m \in Msgs /\ told[user[u].m.to] # "none"
    BY UserIs DEF Typed, Addressed
  <2>2. user[u].m.to \in Ids
    BY <2>1 DEF Msgs
  <2> QED BY <2>1, <2>2
<1> QED BY <1>5, <1>6, <1>7, <1>8, <1>9, <1>10, <1>11

\* A command leaves the pipe
LEMMA TailIs ==
    ASSUME NEW p \in Seq(Requests), p # <<>>
    PROVE  /\ Tail(p) \in Seq(Requests) /\ Head(p) = p[1] /\ p[1] \in Requests /\ 1 \in DOMAIN p
           /\ \A i \in DOMAIN Tail(p) : i + 1 \in DOMAIN p /\ i + 1 # 1 /\ Tail(p)[i] = p[i + 1]
           /\ \A i, j \in DOMAIN Tail(p) : i + 1 = j + 1 => i = j
OBVIOUS

\* The pipe without its first request
LEMMA Popped ==
    ASSUME Typed, pipe # <<>>, Control(pipe), NEW q \in Seq(Requests), q = Tail(pipe)
    PROVE  Control(q)
<1> USE DEF Control
<1>1. pipe \in Seq(Requests)
  BY DEF Typed
<1>2. \A i \in DOMAIN q : i + 1 \in DOMAIN pipe /\ q[i] = pipe[i + 1]
  BY <1>1, TailIs
<1>3. \A i, j \in DOMAIN q : i + 1 = j + 1 => i = j
  BY <1>1, TailIs
<1>4. Fresh(q)
  BY <1>2 DEF Fresh
<1>5. Taken(q)
  BY <1>2 DEF Taken
<1>6. Requested(q)
  <2> SUFFICES ASSUME NEW i \in DOMAIN q, q[i].cmd \in Opening
               PROVE  /\ At(q[i].id).type = "RESERVE" /\ At(q[i].id).id = q[i].id /\ ~At(q[i].id).tcp
                      /\ told[q[i].id] = "none"
                      /\ thread # Polling => thread.id # q[i].id
                      /\ \A j \in DOMAIN q : q[j].cmd \in Opening /\ HashId(q[j].id) = HashId(q[i].id) => i = j
    BY DEF Requested
  <2>1. i + 1 \in DOMAIN pipe /\ q[i] = pipe[i + 1]
    BY <1>2
  <2>2. ASSUME NEW j \in DOMAIN q, q[j].cmd \in Opening, HashId(q[j].id) = HashId(q[i].id) PROVE i = j
    <3>1. j + 1 \in DOMAIN pipe /\ q[j] = pipe[j + 1]
      BY <1>2
    <3>2. i + 1 = j + 1
      BY <2>1, <2>2, <3>1 DEF Requested
    <3> QED BY <1>3, <3>2
  <2> QED BY <2>1, <2>2 DEF Requested
<1>7. Addressed(q)
  BY <1>2 DEF Addressed
<1> QED BY <1>4, <1>5, <1>6, <1>7

\* Nothing else waits for the slot of a socket that is being opened
LEMMA OpeningIsAlone ==
    ASSUME Typed, pipe # <<>>, Control(pipe), NEW q \in Seq(Requests), q = Tail(pipe),
           Head(pipe).cmd \in Opening
    PROVE  LET id == Head(pipe).id IN
           /\ id \in Ids /\ NoClaim(id, q) /\ id <= allocId
           /\ At(id).type = "RESERVE" /\ At(id).id = id /\ ~At(id).tcp /\ told[id] = "none"
<1> DEFINE id == Head(pipe).id
<1>1. pipe \in Seq(Requests)
  BY DEF Typed
<1>2. Head(pipe) = pipe[1] /\ 1 \in DOMAIN pipe /\ pipe[1] \in Requests
  BY <1>1, TailIs
<1>3. \A i \in DOMAIN q : i + 1 \in DOMAIN pipe /\ i + 1 # 1 /\ q[i] = pipe[i + 1]
  BY <1>1, TailIs
<1>4. id = pipe[1].id /\ id \in Ids
  BY <1>2, RequestIs
<1>5. NoClaim(id, q)
  <2>1. ASSUME NEW u \in Users, user[u].pc = "reserved" PROVE HashId(user[u].id) # HashId(id)
    BY <1>2, <1>4, <2>1 DEF Control, Taken
  <2>2. ASSUME NEW i \in DOMAIN q, q[i].cmd \in Opening PROVE HashId(q[i].id) # HashId(id)
    BY <1>2, <1>3, <1>4, <2>2 DEF Control, Requested
  <2> QED BY <2>1, <2>2 DEF NoClaim
<1> QED BY <1>2, <1>4, <1>5 DEF Control, Requested, Fresh

\* Nothing waits for the slot of an open socket
LEMMA OpenIsAlone ==
    ASSUME Typed, NEW q \in Seq(Requests), Control(q), NEW id \in Ids, At(id).type # "RESERVE"
    PROVE  NoClaim(id, q)
<1>1. \A u \in Users : user[u].pc = "reserved" => At(user[u].id).type = "RESERVE"
  BY DEF Control, Taken
<1>2. \A i \in DOMAIN q : q[i].cmd \in Opening => At(q[i].id).type = "RESERVE"
  BY DEF Control, Requested
<1> QED BY <1>1, <1>2 DEF NoClaim, At

\* What is known of the pipe, under its new name
LEMMA Settled ==
    ASSUME NEW q \in Seq(Requests), Control(q)', pipe' = q
    PROVE  Control(pipe)'
BY DEF Control, Fresh, Taken, Requested, Addressed

\* Something is asked of the socket thread
LEMMA AppendIs ==
    ASSUME NEW q \in Seq(Requests), NEW r \in Requests
    PROVE  /\ Append(q, r) \in Seq(Requests) /\ Len(Append(q, r)) = Len(q) + 1
           /\ \A i \in DOMAIN Append(q, r) :
                 \/ i \in DOMAIN q /\ Append(q, r)[i] = q[i]
                 \/ i = Len(q) + 1 /\ Append(q, r)[i] = r
           /\ \A i \in DOMAIN q : i \in DOMAIN Append(q, r) /\ i # Len(q) + 1 /\ Append(q, r)[i] = q[i]
           /\ Len(q) + 1 \in DOMAIN Append(q, r) /\ Append(q, r)[Len(q) + 1] = r
OBVIOUS

\* The pipe with one more request
LEMMA Pushed ==
    ASSUME NEW q \in Seq(Requests), Control(q)', NEW r \in Requests, pipe' = Append(q, r),
           r.cmd \notin Opening, r.id <= allocId',
           \A u \in Users : user'[u].pc = "reserved" => user'[u].id # r.id,
           r.cmd \in Message => r.m.to = r.id /\ (r.cmd = "P" <=> r.m.low)
    PROVE  Control(pipe)'
<1> USE DEF Control
<1>1. \A i \in DOMAIN pipe' : (i \in DOMAIN q /\ pipe'[i] = q[i]) \/ pipe'[i] = r
  BY AppendIs
<1>2. Fresh(pipe)'
  BY <1>1 DEF Fresh
<1>3. Taken(pipe)'
  BY <1>1 DEF Taken
<1>4. Requested(pipe)'
  BY <1>1 DEF Requested
<1>5. Addressed(pipe)'
  BY <1>1 DEF Addressed
<1> QED BY <1>2, <1>3, <1>4, <1>5

\* reserve_id takes the slot of a new id
LEMMA ReserveStep ==
    ASSUME Typed, Typed', Control(pipe), NEW u \in Users, NEW cmd \in Opening, Reserve(u, cmd)
    PROVE  Control(pipe)'
<1> USE DEF Control
<1>1. PICK id \in Ids : id = NextId
  BY NextIdIs DEF Reserve
<1>2. id > allocId /\ At(id).type = "INVALID" /\ id \in Nat /\ allocId \in Nat
  BY <1>1, NextIdIs, IdsAre DEF Reserve, Typed
<1>3. PICK r \in SlotTypes : r = [At(id) EXCEPT !.type = "RESERVE"]
  BY <1>2, AtIs, SetType DEF Typed, Types
<1>4. At(id) \in SlotTypes /\ "RESERVE" \in Types
  BY <1>2, AtIs DEF Typed, Types
<1>5. SameSocketAs(r, At(id)) /\ r.type = "RESERVE" /\ r.write = At(id).write
  BY <1>3, <1>4, SetType
<1>6. OnlySlot(id, r)
  BY <1>1, <1>2, <1>3, PutIs DEF Reserve, OnlySlot, Typed
<1>7. /\ user' = [user EXCEPT ![u] = [pc |-> "reserved", cmd |-> cmd, id |-> id]]
      /\ allocId' = id /\ UNCHANGED <<pipe, thread, events, told, known>> /\ user[u] = Idle
  BY <1>1 DEF Reserve
<1>8. /\ user'[u].pc = "reserved" /\ user'[u].id = id
      /\ \A v \in Users : v # u => user'[v] = user[v]
  BY <1>7 DEF Typed
<1>9. \A v \in Users : user[v].pc = "reserved" => user[v].id \in Ids /\ v # u
  BY <1>7, UserIs DEF Typed, Idle
<1>10. \A i \in Ids : HashId(i) \in Slots /\ i \in Nat
  BY IdsAre
<1>11. pipe \in Seq(Requests) /\ \A i \in DOMAIN pipe : pipe[i] \in Requests
  BY DEF Typed
<1>12. \A i \in DOMAIN pipe : pipe[i].id \in Ids
  BY <1>11, RequestIs
<1>13. thread # Polling => thread.id \in Ids
  BY ThreadIs
<1>14. \A x \in Slots : slot[x].id \in Nat
  BY SlotIs DEF Typed
<1>15. /\ \A v \in Users : user[v].pc = "reserved" => HashId(user[v].id) # HashId(id)
       /\ \A i \in DOMAIN pipe : pipe[i].cmd \in Opening => HashId(pipe[i].id) # HashId(id)
  BY <1>2 DEF Taken, Requested, At
<1>16. At(id) = slot[HashId(id)] /\ HashId(id) \in Slots
  BY <1>10 DEF At
<1>25. \A n \in Nat : n <= allocId => n <= allocId'
  BY <1>2, <1>7
<1>17. Placed'
  BY <1>2, <1>5, <1>6, <1>16 DEF Placed, OnlySlot, SameSocketAs, Live
<1>18. Fresh(pipe)'
  <2>1. \A x \in Slots : slot'[x].id <= allocId'
    BY <1>2, <1>5, <1>6, <1>7, <1>14, <1>16 DEF Fresh, OnlySlot, SameSocketAs
  <2>2. \A i \in Ids : told'[i] # "none" => i <= allocId'
    BY <1>2, <1>7, <1>10 DEF Fresh
  <2>3. \A v \in Users : \A i \in known'[v] : i <= allocId'
    <3>1. \A v \in Users : known[v] \subseteq Ids
      BY DEF Typed
    <3> QED BY <1>7, <1>10, <1>25, <3>1 DEF Fresh
  <2>4. \A i \in DOMAIN pipe : pipe[i].id <= allocId'
    BY <1>10, <1>12, <1>25 DEF Fresh
  <2>5. \A v \in Users : user'[v].pc = "reserved" => user'[v].id <= allocId'
    <3>1. ASSUME NEW v \in Users, v # u, user'[v].pc = "reserved" PROVE user'[v].id <= allocId'
      <4>1. user'[v] = user[v] /\ user[v].id \in Nat /\ user[v].id <= allocId
        BY <1>8, <1>9, <1>10, <3>1 DEF Fresh
      <4> QED BY <1>2, <1>7, <4>1
    <3> QED BY <1>2, <1>7, <1>8, <3>1
  <2>6. thread # Polling => thread.id <= allocId'
    BY <1>10, <1>13, <1>25 DEF Fresh
  <2> QED BY <1>7, <2>1, <2>2, <2>3, <2>4, <2>5, <2>6 DEF Fresh
<1>19. Taken(pipe)'
  <2> SUFFICES ASSUME NEW w \in Users, user'[w].pc = "reserved"
               PROVE  LET i == user'[w].id IN
                      /\ slot'[HashId(i)].type = "RESERVE" /\ slot'[HashId(i)].id # i
                      /\ told[i] = "none"
                      /\ \A v \in Users : i \notin known[v]
                      /\ \A j \in DOMAIN pipe : pipe[j].id # i
                      /\ thread # Polling => thread.id # i
                      /\ \A v \in Users : user'[v].pc = "reserved" /\ HashId(user'[v].id) = HashId(i) => w = v
                      /\ \A j \in DOMAIN pipe : pipe[j].cmd \in Opening => HashId(pipe[j].id) # HashId(i)
    BY <1>7 DEF Taken, At
  <2>1. CASE w = u
    <3>1. slot'[HashId(id)].type = "RESERVE" /\ slot'[HashId(id)].id # id
      BY <1>2, <1>5, <1>6, <1>14, <1>16 DEF OnlySlot, SameSocketAs, Fresh
    <3>2. told[id] = "none" /\ (\A v \in Users : id \notin known[v]) /\ (thread # Polling => thread.id # id)
          /\ \A j \in DOMAIN pipe : pipe[j].id # id
      BY <1>2 DEF Fresh
    <3>3. \A v \in Users : user'[v].pc = "reserved" /\ HashId(user'[v].id) = HashId(id) => u = v
      BY <1>8, <1>15
    <3> QED BY <1>8, <1>15, <2>1, <3>1, <3>2, <3>3
  <2>2. CASE w # u
    <3>1. user'[w] = user[w] /\ user[w].id \in Ids /\ HashId(user[w].id) # HashId(id)
      BY <1>8, <1>9, <1>15, <2>2
    <3>2. slot'[HashId(user[w].id)] = At(user[w].id)
      BY <1>6, <1>10, <3>1 DEF OnlySlot, At
    <3>3. \A v \in Users : user'[v].pc = "reserved" /\ HashId(user'[v].id) = HashId(user[w].id) => w = v
      BY <1>8, <3>1 DEF Taken
    <3> QED BY <3>1, <3>2, <3>3 DEF Taken
  <2> QED BY <2>1, <2>2
<1>20. Requested(pipe)'
  <2>1. ASSUME NEW i \in DOMAIN pipe, pipe[i].cmd \in Opening PROVE slot'[HashId(pipe[i].id)] = At(pipe[i].id)
    BY <1>6, <1>10, <1>12, <1>15, <2>1 DEF OnlySlot, At
  <2> QED BY <1>7, <2>1 DEF Requested, At
<1>21. ThreadRight'
  <2>1. thread.pc = "close" => HashId(thread.id) # HashId(id)
    BY <1>2 DEF ThreadRight, At, Live
  <2> QED BY <1>5, <1>6, <1>7, <1>10, <1>13, <1>16, <2>1 DEF ThreadRight, At, OnlySlot, SameSocketAs, Live, Polling
<1>22. ToldRight'
  BY <1>5, <1>6, <1>7, <1>10, <1>16 DEF ToldRight, At, OnlySlot, SameSocketAs, Live
<1>23. EventsRight'
  BY <1>5, <1>6, <1>7 DEF EventsRight, OnlySlot, Typed, Events
<1>24. Addressed(pipe)'
  BY <1>7, <1>8 DEF Addressed, Busy
<1> QED BY <1>17, <1>18, <1>19, <1>20, <1>21, <1>22, <1>23, <1>24

\* ... and its id is stored when the request is sent
LEMMA ReservedStep ==
    ASSUME Typed, Typed', Control(pipe), NEW u \in Users, Reserved(u)
    PROVE  Control(pipe)'
<1> USE DEF Control
<1>0. user[u].pc = "reserved" /\ user[u].id \in Ids /\ user[u].cmd \in Opening
  BY UserIs DEF Reserved, Typed
<1>1. PICK id \in Ids : id = user[u].id
  BY <1>0
<1>2. id \in Nat /\ HashId(id) \in Slots /\ At(id) \in SlotTypes /\ At(id) = slot[HashId(id)]
  BY IdsAre, AtIs DEF Typed, At
<1>3. PICK r \in SlotTypes : r = [At(id) EXCEPT !.id = id, !.tcp = FALSE]
  BY <1>2, SetId
<1>4. r.type = At(id).type /\ r.write = At(id).write /\ r.id = id /\ ~r.tcp
  BY <1>2, <1>3, SetId
<1>5. PICK c \in Opening : c = user[u].cmd
  BY <1>0
<1>6. PICK req \in Requests : req = [cmd |-> c, id |-> id, m |-> None]
  BY <1>5 DEF Requests, Opening
<1>7. req.cmd = c /\ req.id = id /\ req.cmd \in Opening /\ req.cmd \notin Message
  BY <1>6 DEF Opening, Message
<1>8. PICK q \in Seq(Requests) : q = pipe
  BY DEF Typed
<1>9. /\ pipe' = Append(q, req) /\ known' = [known EXCEPT ![u] = @ \cup {id}]
      /\ user' = [user EXCEPT ![u] = Idle] /\ UNCHANGED <<allocId, thread, events, told>>
  BY <1>1, <1>5, <1>6, <1>8 DEF Reserved, Request
<1>10. OnlySlot(id, r)
  BY <1>1, <1>2, <1>3, PutIs DEF Reserved, OnlySlot, Typed
<1>11. \A i \in DOMAIN pipe' : (i \in DOMAIN q /\ pipe'[i] = q[i]) \/ (i = Len(q) + 1 /\ pipe'[i] = req)
  BY <1>9, AppendIs
<1>12. /\ user'[u].pc = "idle"
       /\ \A v \in Users : v # u => user'[v] = user[v]
       /\ \A v \in Users : known'[v] \subseteq known[v] \cup {id}
  BY <1>9 DEF Typed, Idle
<1>13. /\ At(id).type = "RESERVE" /\ At(id).id # id
       /\ told[id] = "none"
       /\ \A v \in Users : id \notin known[v]
       /\ \A i \in DOMAIN q : q[i].id # id
       /\ thread # Polling => thread.id # id
       /\ \A v \in Users : user[v].pc = "reserved" /\ v # u => HashId(user[v].id) # HashId(id)
       /\ \A i \in DOMAIN q : q[i].cmd \in Opening => HashId(q[i].id) # HashId(id)
  BY <1>0, <1>1, <1>8 DEF Taken
<1>14. id <= allocId
  BY <1>0, <1>1 DEF Fresh
<1>15. \A i \in Ids : HashId(i) \in Slots
  BY IdsAre
<1>16. \A i \in DOMAIN q : q[i].id \in Ids
  BY RequestIs
<1>17. \A v \in Users : user[v].pc = "reserved" => user[v].id \in Ids
  BY UserIs DEF Typed
<1>18. thread # Polling => thread.id \in Ids
  BY ThreadIs
<1>19. Placed'
  BY <1>2, <1>4, <1>10, <1>13 DEF Placed, OnlySlot, Live
<1>20. Fresh(pipe)'
  BY <1>4, <1>7, <1>8, <1>9, <1>10, <1>11, <1>12, <1>14 DEF Fresh, OnlySlot
<1>21. Taken(pipe)'
  <2> SUFFICES ASSUME NEW w \in Users, user'[w].pc = "reserved"
               PROVE  LET i == user'[w].id IN
                      /\ slot'[HashId(i)].type = "RESERVE" /\ slot'[HashId(i)].id # i
                      /\ told[i] = "none"
                      /\ \A v \in Users : i \notin known'[v]
                      /\ \A j \in DOMAIN pipe' : pipe'[j].id # i
                      /\ thread # Polling => thread.id # i
                      /\ \A v \in Users : user'[v].pc = "reserved" /\ HashId(user'[v].id) = HashId(i) => w = v
                      /\ \A j \in DOMAIN pipe' : pipe'[j].cmd \in Opening => HashId(pipe'[j].id) # HashId(i)
    BY <1>9 DEF Taken, At
  <2>1. w # u /\ user'[w] = user[w]
    BY <1>12
  <2>2. user[w].id \in Ids /\ HashId(user[w].id) # HashId(id) /\ user[w].id # id /\ user[w].pc = "reserved"
    BY <1>13, <1>17, <2>1
  <2>3. slot'[HashId(user[w].id)] = At(user[w].id)
    BY <1>10, <1>15, <2>2 DEF OnlySlot, At
  <2>4. \A v \in Users : user'[v].pc = "reserved" /\ HashId(user'[v].id) = HashId(user[w].id) => w = v
    BY <1>12, <2>2 DEF Taken
  <2>5. \A j \in DOMAIN pipe' : pipe'[j].id # user[w].id
    BY <1>7, <1>8, <1>11, <2>2 DEF Taken
  <2>6. \A j \in DOMAIN pipe' : pipe'[j].cmd \in Opening => HashId(pipe'[j].id) # HashId(user[w].id)
    BY <1>7, <1>8, <1>11, <2>2 DEF Taken
  <2> QED BY <1>12, <2>1, <2>2, <2>3, <2>4, <2>5, <2>6 DEF Taken
<1>22. Requested(pipe)'
  <2> SUFFICES ASSUME NEW i \in DOMAIN pipe', pipe'[i].cmd \in Opening
               PROVE  LET k == pipe'[i].id IN
                      /\ slot'[HashId(k)].type = "RESERVE" /\ slot'[HashId(k)].id = k /\ ~slot'[HashId(k)].tcp
                      /\ told[k] = "none"
                      /\ thread # Polling => thread.id # k
                      /\ \A j \in DOMAIN pipe' : pipe'[j].cmd \in Opening /\ HashId(pipe'[j].id) = HashId(k) => i = j
    BY <1>9 DEF Requested, At
  <2>1. CASE i = Len(q) + 1 /\ pipe'[i] = req
    <3>1. \A j \in DOMAIN pipe' : pipe'[j].cmd \in Opening /\ HashId(pipe'[j].id) = HashId(id) => i = j
      BY <1>11, <1>13, <2>1
    <3> QED BY <1>4, <1>7, <1>10, <1>13, <2>1, <3>1 DEF OnlySlot
  <2>2. CASE i \in DOMAIN q /\ pipe'[i] = q[i]
    <3>1. q[i].id \in Ids /\ HashId(q[i].id) # HashId(id)
      BY <1>13, <1>16, <2>2
    <3>2. slot'[HashId(q[i].id)] = At(q[i].id)
      BY <1>10, <1>15, <3>1 DEF OnlySlot, At
    <3>3. \A j \in DOMAIN pipe' : pipe'[j].cmd \in Opening /\ HashId(pipe'[j].id) = HashId(q[i].id) => i = j
      BY <1>7, <1>8, <1>11, <2>2, <3>1 DEF Requested
    <3> QED BY <1>8, <2>2, <3>2, <3>3 DEF Requested
  <2> QED BY <1>11, <2>1, <2>2
<1>23. ThreadRight'
  <2>1. thread.pc = "close" => HashId(thread.id) # HashId(id)
    BY <1>13 DEF ThreadRight, At, Live
  <2> QED BY <1>4, <1>9, <1>10, <1>13, <1>15, <1>18, <2>1 DEF ThreadRight, At, OnlySlot, Live, Polling
<1>24. ToldRight'
  <2>1. \A i \in Ids : told'[i] # "late"
    BY <1>9 DEF ToldRight
  <2>2. ASSUME NEW i \in Ids, told[i] = "closed", slot'[HashId(i)].id = i PROVE slot'[HashId(i)].type \notin Live
    <3>1. CASE HashId(i) = HashId(id)
      BY <1>4, <1>10, <1>13, <3>1 DEF OnlySlot, Live
    <3>2. CASE HashId(i) # HashId(id)
      <4>1. slot'[HashId(i)] = slot[HashId(i)]
        BY <1>10, <1>15, <3>2 DEF OnlySlot
      <4> QED BY <2>2, <4>1 DEF ToldRight, At
    <3> QED BY <3>1, <3>2
  <2>3. ASSUME NEW x \in Slots, slot'[x].type = "CONNECTED" PROVE told[slot'[x].id] = "open"
    <3>1. slot'[x] = slot[x]
      BY <1>4, <1>10, <1>13, <2>3 DEF OnlySlot
    <3> QED BY <2>3, <3>1 DEF ToldRight
  <2> QED BY <1>9, <2>1, <2>2, <2>3 DEF ToldRight, At
<1>25. EventsRight'
  <2> SUFFICES ASSUME NEW e \in events
               PROVE  /\ slot'[e.slot].type # "PACCEPT"
                      /\ slot'[e.slot].type = "INVALID" => thread.pc = "clear" /\ slot'[e.slot].id = thread.id
    BY <1>9 DEF EventsRight
  <2>1. e.slot \in Slots
    BY DEF Typed, Events
  <2>2. CASE e.slot = HashId(id)
    BY <1>4, <1>10, <1>13, <2>2 DEF OnlySlot
  <2>3. CASE e.slot # HashId(id)
    <3>1. slot'[e.slot] = slot[e.slot]
      BY <1>10, <2>1, <2>3 DEF OnlySlot
    <3> QED BY <3>1 DEF EventsRight
  <2> QED BY <2>2, <2>3
<1>26. Addressed(pipe)'
  BY <1>7, <1>8, <1>9, <1>11, <1>12 DEF Addressed, Busy
<1> QED BY <1>19, <1>20, <1>21, <1>22, <1>23, <1>24, <1>25, <1>26

-----------------------------------------------------------------------------
(* The lists and the locks *)

\* The lists of every socket
Listed == \A x \in Slots : slot[x].type \in Live => WellListed(slot[x])

\* The lock of a socket that a worker writes to is not given to another, and the socket
\* stays open until the worker has left what it could not write
Locked ==
    \A u \in Users :
        /\ user[u].pc \in {"locked", "rest"} => At(user[u].m.to).lock = u
        /\ user[u].pc = "rest" => LET id == user[u].m.to IN
             /\ At(id).id = id /\ At(id).type \in {"CONNECTED", "HALFCLOSE"}
             /\ At(id).dw = <<>> /\ Starts(At(id).high)

Base == Typed /\ Listed /\ Locked /\ Control(pipe)

\* A locked slot stays locked, and keeps its socket while that is connected
KeptSlot(r, s) ==
    s.lock # None =>
        /\ r.lock = s.lock
        /\ s.type \in {"CONNECTED", "HALFCLOSE"} =>
             /\ r.id = s.id /\ r.type \in {"CONNECTED", "HALFCLOSE"} /\ r.dw = s.dw
             /\ Starts(s.high) => Starts(r.high)

\* The locks, when no locked slot changes its socket
LEMMA LockedStays ==
    ASSUME Typed, Locked, \A x \in Slots : KeptSlot(slot'[x], slot[x]),
           \A u \in Users : user'[u].pc \in {"locked", "rest"} => user'[u] = user[u]
    PROVE  Locked'
<1>1. \A u \in Users : user[u].pc \in {"locked", "rest"} => user[u].m.to \in Ids
  BY UserIs DEF Typed, Busy, Msgs
<1>2. \A id \in Ids : HashId(id) \in Slots
  BY IdsAre
<1>3. \A u \in Users : u # None
  BY UsersAssumption
<1> QED BY <1>1, <1>2, <1>3 DEF Locked, KeptSlot, At

\* What Told tells
LEMMA ToldIs ==
    ASSUME Typed, \A i \in Ids : told[i] # "late", NEW id \in Ids, NEW kind \in {"open", "closed", "data"},
           told' = Told(id, kind)
    PROVE  /\ told' \in [Ids -> {"none", "open", "closed", "late"}]
           /\ \A i \in Ids : i # id => told'[i] = told[i]
           /\ kind # "data" => told'[id] = kind
           /\ kind = "data" /\ told[id] = "open" => told' = told
BY DEF Told, Typed

\* An empty slot that is given to a socket
LEMMA EmptyIsListed ==
    ASSUME NEW s \in SlotTypes, s.high = <<>>, s.low = <<>>, s.dw = <<>>
    PROVE  WellListed(s)
BY DEF WellListed, Messages, Starts

\* Lists that are the same
LEMMA SameIsListed ==
    ASSUME NEW s \in SlotTypes, NEW r \in SlotTypes, SameLists(r, s), WellListed(s)
    PROVE  WellListed(r)
BY DEF WellListed, SameLists

\* A list that begins with the beginning of a message, and another one
LEMMA StartsConcat ==
    ASSUME NEW p \in Seq(Unit), NEW q \in Seq(Unit), Starts(p), Starts(q)
    PROVE  Starts(p \o q)
<1>1. CASE p = <<>>
  BY <1>1 DEF Starts
<1>2. CASE p # <<>>
  <2>1. (p \o q)[1] = p[1]
    BY <1>2
  <2> QED BY <1>2, <2>1 DEF Starts
<1> QED BY <1>1, <1>2

-----------------------------------------------------------------------------
(* The steps of the services *)

\* reserve_id takes a slot: the types, the places of ids and requests, and the locks
LEMMA ReserveBase ==
    ASSUME Base, NEW u \in Users, NEW cmd \in Opening, Reserve(u, cmd)
    PROVE  Base'
<1> USE DEF Base
<1>1. PICK id \in Ids : id = NextId
  BY NextIdIs DEF Reserve
<1>2. id \in Nat /\ id \in 0..MaxId /\ HashId(id) \in Slots
  BY IdsAre, NumbersAssumption DEF Ids
<1>3. At(id) \in SlotTypes /\ "RESERVE" \in Types /\ At(id).type = "INVALID"
  BY <1>1, <1>2, AtIs, NextIdIs DEF Typed, Types, Reserve
<1>4. PICK r \in SlotTypes : r = [At(id) EXCEPT !.type = "RESERVE"]
  BY <1>3, SetType
<1>5. SameSocketAs(r, At(id)) /\ SameLists(r, At(id)) /\ r.type = "RESERVE"
  BY <1>3, <1>4, SetType
<1>6. slot' \in [Slots -> SlotTypes] /\ OnlySlot(id, r)
  BY <1>1, <1>2, <1>4, PutIs DEF Reserve, OnlySlot, Typed
<1>7. /\ user' = [user EXCEPT ![u] = [pc |-> "reserved", cmd |-> cmd, id |-> id]]
      /\ allocId' = id /\ UNCHANGED <<pipe, thread, events, told, known, wire, sends>> /\ user[u] = Idle
  BY <1>1 DEF Reserve, kernel, Call
<1>8. Typed'
  <2>1. [pc |-> "reserved", cmd |-> cmd, id |-> id] \in UserTypes
    BY DEF UserTypes
  <2>2. user' \in [Users -> UserTypes]
    BY <1>7, <2>1 DEF Typed
  <2> QED BY <1>2, <1>6, <1>7, <2>2 DEF Typed
<1>9. Listed'
  BY <1>5, <1>6 DEF Listed, OnlySlot, Live
<1>10. Locked'
  <2>1. \A x \in Slots : KeptSlot(slot'[x], slot[x])
    BY <1>3, <1>5, <1>6 DEF KeptSlot, OnlySlot, SameSocketAs, At
  <2>2. \A v \in Users : user'[v].pc \in {"locked", "rest"} => user'[v] = user[v]
    BY <1>7 DEF Typed
  <2> QED BY <2>1, <2>2, LockedStays
<1>11. Control(pipe)'
  BY <1>8, ReserveStep
<1> QED BY <1>8, <1>9, <1>10, <1>11

\* reserve_id stores the id, and the request is sent: the types, the places of ids and requests, and the locks
LEMMA ReservedBase ==
    ASSUME Base, NEW u \in Users, Reserved(u)
    PROVE  Base'
<1> USE DEF Base
<1>1. PICK id \in Ids : id = user[u].id /\ user[u].pc = "reserved"
  BY UserIs DEF Reserved, Typed
<1>2. id \in Nat /\ id \in 0..MaxId /\ HashId(id) \in Slots /\ At(id) \in SlotTypes
  BY IdsAre, AtIs, NumbersAssumption DEF Ids, Typed
<1>3. PICK c \in Opening : c = user[u].cmd
  BY <1>1, UserIs DEF Typed
<1>4. PICK r \in SlotTypes : r = [At(id) EXCEPT !.id = id, !.tcp = FALSE]
  BY <1>2, SetId
<1>5. r.type = At(id).type /\ SameLists(r, At(id)) /\ r.lock = At(id).lock /\ At(id).type = "RESERVE"
  BY ZenonT(60), <1>1, <1>2, <1>4, SetId DEF Control, Taken
<1>6. slot' \in [Slots -> SlotTypes] /\ OnlySlot(id, r)
  BY <1>1, <1>2, <1>4, PutIs DEF Reserved, OnlySlot, Typed
<1>7. /\ user' = [user EXCEPT ![u] = Idle] /\ pipe' = Append(pipe, [cmd |-> c, id |-> id, m |-> None])
      /\ known' = [known EXCEPT ![u] = @ \cup {id}]
      /\ UNCHANGED <<allocId, thread, events, told, wire, sends>>
  BY <1>1, <1>3 DEF Reserved, kernel, count, Request
<1>8. Typed'
  <2>1. user' \in [Users -> UserTypes]
    BY <1>7 DEF Typed, UserTypes
  <2>2. [cmd |-> c, id |-> id, m |-> None] \in Requests
    BY DEF Requests, Opening
  <2>3. pipe' \in Seq(Requests)
    BY <1>7, <2>2, AppendIs DEF Typed
  <2>4. known' \in [Users -> SUBSET Ids]
    BY <1>7 DEF Typed
  <2> QED BY <1>6, <1>7, <2>1, <2>3, <2>4 DEF Typed
<1>9. Listed'
  BY <1>5, <1>6 DEF Listed, OnlySlot, Live
<1>10. Locked'
  <2>1. \A x \in Slots : KeptSlot(slot'[x], slot[x])
    BY <1>5, <1>6 DEF KeptSlot, OnlySlot, At
  <2>2. \A v \in Users : user'[v].pc \in {"locked", "rest"} => user'[v] = user[v]
    BY <1>7 DEF Typed, Idle
  <2> QED BY <2>1, <2>2, LockedStays
<1>11. Control(pipe)'
  BY <1>8, ReservedStep
<1> QED BY <1>8, <1>9, <1>10, <1>11

\* Ids and requests, when the slots stay
LEMMA QuietControl ==
    ASSUME Typed, Control(pipe), slot' \in [Slots -> SlotTypes], SlotsQuiet, UsersQuiet,
           user' \in [Users -> UserTypes], UNCHANGED <<allocId, pipe, thread, events, told, known>>
    PROVE  Control(pipe)'
<1>1. PICK q \in Seq(Requests) : q = pipe
  BY DEF Typed
<1>2. EventsRight'
  BY EventsStay DEF EventsQuiet, Control
<1>3. Control(q)'
  BY <1>1, <1>2, QuietStep
<1> QED BY <1>1, <1>3, Settled

\* A call puts its request into the pipe: the types, the places of ids and requests, and the locks
LEMMA AskBase ==
    ASSUME Base, NEW u \in Users, NEW cmd \in {"S", "K", "shutdown"}, NEW id \in Ids, Ask(u, cmd, id)
    PROVE  Base'
<1> USE DEF Base
<1>1. PICK q \in Seq(Requests) : q = pipe
  BY DEF Typed
<1>2. PICK req \in Requests : req = [cmd |-> cmd, id |-> id, m |-> None]
  BY DEF Requests
<1>3. /\ pipe' = Append(q, req) /\ id \in known[u] /\ \A v \in Users : known'[v] \subseteq known[v]
      /\ known' \in [Users -> SUBSET Ids]
      /\ UNCHANGED <<slot, allocId, thread, events, user, told, wire, sends>>
  BY <1>1, <1>2 DEF Ask, Request, kernel, Call, Typed
<1>4. req.cmd \notin Opening /\ req.cmd \notin Message /\ req.id = id
  BY <1>2 DEF Opening, Message
<1>5. Typed'
  BY <1>1, <1>3, AppendIs DEF Typed
<1>6. Listed'
  BY <1>3 DEF Listed
<1>7. Locked'
  BY <1>3 DEF Locked, At
<1>8. SlotsQuiet /\ UsersQuiet /\ EventsQuiet
  BY <1>3 DEF SlotsQuiet, UsersQuiet, EventsQuiet
<1>9. Control(q)'
  BY <1>1, <1>3, <1>5, <1>8, QuietStep, EventsStay DEF Typed, Control
<1>10. id <= allocId /\ \A v \in Users : user[v].pc = "reserved" => user[v].id # id
  BY <1>3 DEF Control, Fresh, Taken
<1>11. Control(pipe)'
  BY <1>3, <1>4, <1>9, <1>10, Pushed
<1> QED BY <1>5, <1>6, <1>7, <1>11

\* socket_server_send begins: the types, the places of ids and requests, and the locks
LEMMA SendBase ==
    ASSUME Base, NEW u \in Users, NEW id \in Ids, NEW low \in BOOLEAN, Send(u, id, low)
    PROVE  Base'
<1> USE DEF Base
<1>1. PICK m \in Msgs : m = [n |-> sends + 1, from |-> u, to |-> id, low |-> low]
  <2>1. PICK n \in Nat : n = sends + 1
    BY DEF Typed
  <2>2. [n |-> n, from |-> u, to |-> id, low |-> low] \in Msgs
    BY DEF Msgs
  <2> QED BY <2>1, <2>2
<1>2. m.to = id /\ m.from = u
  BY <1>1
<1>3. PICK pc \in {"ref", "direct"} : pc = IF low THEN "ref" ELSE "direct"
  OBVIOUS
<1>4. /\ user[u] = Idle /\ told[id] # "none"
      /\ user' = user \/ user' = [user EXCEPT ![u] = [pc |-> pc, m |-> m]]
      /\ UNCHANGED <<slot, allocId, pipe, thread, events, told, known, wire>> /\ sends' = sends + 1
  BY <1>1, <1>3 DEF Send, server, kernel
<1>5. [pc |-> pc, m |-> m] \in UserTypes
  BY DEF UserTypes, Busy
<1>6. user' \in [Users -> UserTypes]
  BY <1>4, <1>5 DEF Typed
<1>7. UsersQuiet
  <2>1. CASE user' = user
    BY <2>1 DEF UsersQuiet
  <2>2. CASE user' = [user EXCEPT ![u] = [pc |-> pc, m |-> m]]
    <3>1. user'[u].pc = pc /\ user'[u].m = m /\ \A v \in Users : v # u => user'[v] = user[v]
      BY <2>2 DEF Typed
    <3>2. pc \in Busy /\ pc # "reserved" /\ user[u].pc # "reserved"
      BY <1>4 DEF Busy, Idle
    <3> QED BY <1>2, <1>4, <3>1, <3>2 DEF UsersQuiet
  <2> QED BY <1>4, <2>1, <2>2
<1>8. Typed'
  BY <1>4, <1>6 DEF Typed
<1>9. Listed'
  BY <1>4 DEF Listed
<1>10. Locked'
  BY <1>4 DEF Locked, At, Typed
<1>11. Control(pipe)'
  BY <1>4, <1>6, <1>7, QuietControl DEF SlotsQuiet, Typed
<1> QED BY <1>8, <1>9, <1>10, <1>11

\* A step of a send goes on with the same message
LEMMA GotoIs ==
    ASSUME Typed, NEW u \in Users, user[u].pc \in Busy \ {"rest"}, NEW pc \in Busy \ {"rest"}, Goto(u, pc)
    PROVE  /\ user' \in [Users -> UserTypes] /\ UsersQuiet
           /\ user'[u].pc = pc /\ user'[u].m = user[u].m
           /\ \A v \in Users : v # u => user'[v] = user[v]
<1>1. user[u] \in [pc : Busy \ {"rest"}, m : Msgs]
  BY DEF Typed, UserTypes, Busy, Idle
<1>2. PICK v \in [pc : Busy \ {"rest"}, m : Msgs] : v = user[u]
  BY <1>1
<1>3. PICK w \in [pc : Busy \ {"rest"}, m : Msgs] : w = [v EXCEPT !.pc = pc]
  OBVIOUS
<1>4. w.pc = pc /\ w.m = v.m
  BY <1>3
<1>5. w \in UserTypes
  BY DEF UserTypes
<1>6. user' = [user EXCEPT ![u] = w]
  BY <1>2, <1>3 DEF Goto
<1>7. user' \in [Users -> UserTypes] /\ user'[u] = w /\ \A x \in Users : x # u => user'[x] = user[x]
  BY <1>5, <1>6 DEF Typed
<1>8. UsersQuiet
  <2>1. user'[u].pc # "reserved" /\ user[u].pc # "reserved" /\ user[u].pc \in Busy
    BY <1>4, <1>7 DEF Busy
  <2> QED BY <1>2, <1>4, <1>7, <2>1 DEF UsersQuiet
<1> QED BY <1>2, <1>4, <1>7, <1>8

\* A send is over
LEMMA IdleIs ==
    ASSUME Typed, NEW u \in Users, user[u].pc \in Busy, user' = [user EXCEPT ![u] = Idle]
    PROVE  /\ user' \in [Users -> UserTypes] /\ UsersQuiet /\ user'[u] = Idle /\ user'[u].pc = "idle"
           /\ \A v \in Users : v # u => user'[v] = user[v]
<1>1. user' \in [Users -> UserTypes] /\ user'[u] = Idle /\ \A v \in Users : v # u => user'[v] = user[v]
  BY DEF Typed, UserTypes
<1>2. user'[u].pc = "idle"
  BY <1>1 DEF Idle
<1> QED BY <1>1, <1>2 DEF UsersQuiet, Busy

\* can_direct_write without the lock: the types, the places of ids and requests, and the locks
LEMMA MayLockBase ==
    ASSUME Base, NEW u \in Users, MayLock(u)
    PROVE  Base'
<1> USE DEF Base
<1>1. PICK pc \in {"trylock", "ref"} : Goto(u, pc)
  BY DEF MayLock
<1>2. /\ user[u].pc \in Busy \ {"rest"} /\ pc \in Busy \ {"rest"} /\ user[u].pc = "direct"
      /\ UNCHANGED <<slot, allocId, pipe, thread, events, told, known, wire, sends>>
  BY DEF MayLock, Busy, server, kernel, count
<1>3. /\ user' \in [Users -> UserTypes] /\ UsersQuiet
      /\ user'[u].pc = pc /\ user'[u].m = user[u].m
      /\ \A v \in Users : v # u => user'[v] = user[v]
  BY <1>1, <1>2, GotoIs
<1>4. Typed'
  BY <1>2, <1>3 DEF Typed
<1>5. Listed'
  BY <1>2 DEF Listed
<1>6. Locked'
  BY <1>2, <1>3 DEF Locked, At
<1>7. Control(pipe)'
  BY <1>2, <1>3, QuietControl DEF SlotsQuiet, Typed
<1> QED BY <1>4, <1>5, <1>6, <1>7

\* The message of who is sending
LEMMA MessageTo ==
    ASSUME Typed, NEW u \in Users, user[u].pc \in Busy
    PROVE  /\ user[u].m \in Msgs /\ user[u].m.to \in Ids /\ HashId(user[u].m.to) \in Slots
           /\ At(user[u].m.to) \in SlotTypes
<1>1. user[u].m \in Msgs /\ user[u].m.to \in Ids
  BY UserIs DEF Typed, Msgs
<1> QED BY <1>1, IdsAre, AtIs DEF Typed

\* socket_trylock: the types, the places of ids and requests, and the locks
LEMMA TryLockBase ==
    ASSUME Base, NEW u \in Users, TryLock(u)
    PROVE  Base'
<1> USE DEF Base
<1>1. user[u].pc = "trylock" /\ user[u].pc \in Busy \ {"rest"} /\ {"locked", "ref"} \subseteq Busy \ {"rest"}
  BY DEF TryLock, Busy
<1>2. PICK id \in Ids : id = user[u].m.to
  BY <1>1, MessageTo
<1>3. HashId(id) \in Slots /\ At(id) \in SlotTypes /\ id \in Nat
  BY <1>2, IdsAre, AtIs DEF Typed
<1>4. UNCHANGED <<allocId, pipe, thread, events, told, known, wire, sends>>
  BY DEF TryLock, kernel, count
<1>5. CASE At(id).lock = None /\ Put(id, [At(id) EXCEPT !.lock = u]) /\ Goto(u, "locked")
  <2>1. PICK r \in SlotTypes : r = [At(id) EXCEPT !.lock = u]
    BY <1>3, SetLock
  <2>2. /\ SameLists(r, At(id)) /\ r.type = At(id).type /\ r.write = At(id).write /\ r.id = At(id).id
        /\ r.tcp = At(id).tcp /\ r.tag = At(id).tag /\ r.lock = u
    BY <1>3, <2>1, SetLock
  <2>3. slot' \in [Slots -> SlotTypes] /\ OnlySlot(id, r)
    BY <1>3, <1>5, <2>1, PutIs DEF OnlySlot, Typed
  <2>4. /\ user' \in [Users -> UserTypes] /\ UsersQuiet
        /\ user'[u].pc = "locked" /\ user'[u].m = user[u].m
        /\ \A v \in Users : v # u => user'[v] = user[v]
    BY <1>1, <1>5, GotoIs
  <2>5. Typed'
    BY <1>4, <2>3, <2>4 DEF Typed
  <2>6. Listed'
    BY <1>3, <2>2, <2>3, SameIsListed DEF Listed, OnlySlot, At
  <2>7. Locked'
    <3>1. ASSUME NEW v \in Users, v # u, user[v].pc \in {"locked", "rest"} PROVE HashId(user[v].m.to) # HashId(id)
      BY <1>5, <3>1, UsersAssumption DEF Locked, At
    <3>2. \A v \in Users : user[v].pc \in {"locked", "rest"} => HashId(user[v].m.to) \in Slots
      BY MessageTo DEF Busy
    <3>3. \A v \in Users : v # u /\ user[v].pc \in {"locked", "rest"} =>
             user'[v] = user[v] /\ slot'[HashId(user[v].m.to)] = slot[HashId(user[v].m.to)]
      BY SMTT(60), <2>3, <2>4, <3>1, <3>2 DEF OnlySlot
    <3>4. slot'[HashId(user'[u].m.to)].lock = u /\ user'[u].pc = "locked"
      BY <1>2, <2>2, <2>3, <2>4 DEF OnlySlot
    <3>5. \A v \in Users : v # u => user'[v] = user[v]
      BY <2>4
    <3>6. "locked" # "rest"
      OBVIOUS
    <3> QED BY SMTT(60), <3>3, <3>4, <3>5, <3>6 DEF Locked, At
  <2>8. SlotsQuiet
    BY <1>3, <2>2, <2>3 DEF SlotsQuiet, OnlySlot, At
  <2> QED BY <1>4, <2>3, <2>4, <2>5, <2>6, <2>7, <2>8, QuietControl
<1>6. CASE slot' = slot /\ Goto(u, "ref")
  <2>4. /\ user' \in [Users -> UserTypes] /\ UsersQuiet
        /\ user'[u].pc = "ref" /\ user'[u].m = user[u].m
        /\ \A v \in Users : v # u => user'[v] = user[v]
    BY <1>1, <1>6, GotoIs
  <2>5. Typed'
    BY <1>4, <1>6, <2>4 DEF Typed
  <2>6. Listed'
    BY <1>6 DEF Listed
  <2>7. Locked'
    BY <1>6, <2>4 DEF Locked, At
  <2> QED BY <1>4, <1>6, <2>4, <2>5, <2>6, <2>7, QuietControl DEF SlotsQuiet, Typed
<1> QED BY <1>2, <1>5, <1>6 DEF TryLock

\* The lock is given back
LEMMA UnlockBase ==
    ASSUME Base, NEW u \in Users, user[u].pc = "locked", NEW id \in Ids, id = user[u].m.to,
           NEW r \in SlotTypes, r = [At(id) EXCEPT !.lock = None], Put(id, r),
           user' \in [Users -> UserTypes], UsersQuiet, user'[u].pc \notin {"locked", "rest"},
           \A v \in Users : v # u => user'[v] = user[v],
           wire' \in [Ids -> Seq(Unit)],
           UNCHANGED <<allocId, pipe, thread, events, told, known, sends>>
    PROVE  Base'
<1> USE DEF Base
<1>1. HashId(id) \in Slots /\ At(id) \in SlotTypes /\ id \in Nat
  BY IdsAre, AtIs DEF Typed
<1>2. /\ SameLists(r, At(id)) /\ r.type = At(id).type /\ r.write = At(id).write /\ r.id = At(id).id
      /\ r.tcp = At(id).tcp /\ r.tag = At(id).tag
  <2>1. None \in Users \cup {None}
    OBVIOUS
  <2> QED BY ZenonT(60), <1>1, <2>1, SetLock
<1>3. slot' \in [Slots -> SlotTypes] /\ OnlySlot(id, r)
  BY <1>1, PutIs DEF OnlySlot, Typed
<1>4. Typed'
  BY <1>3 DEF Typed
<1>5. Listed'
  BY ZenonT(60), <1>1, <1>2, <1>3, SameIsListed DEF Listed, OnlySlot, At
<1>6. Locked'
  <2>1. ASSUME NEW v \in Users, v # u, user[v].pc \in {"locked", "rest"} PROVE HashId(user[v].m.to) # HashId(id)
    BY <2>1 DEF Locked, At
  <2>2. \A v \in Users : user[v].pc \in {"locked", "rest"} => HashId(user[v].m.to) \in Slots
    BY MessageTo DEF Busy
  <2>3. \A v \in Users : v # u /\ user[v].pc \in {"locked", "rest"} =>
           user'[v] = user[v] /\ slot'[HashId(user[v].m.to)] = slot[HashId(user[v].m.to)]
    BY SMTT(60), <1>3, <2>1, <2>2 DEF OnlySlot
  <2>4. user'[u].pc \notin {"locked", "rest"} /\ \A v \in Users : v # u => user'[v] = user[v]
    OBVIOUS
  <2> QED BY SMTT(60), <2>3, <2>4 DEF Locked, At
<1>7. SlotsQuiet
  BY <1>1, <1>2, <1>3 DEF SlotsQuiet, OnlySlot, At
<1> QED BY <1>3, <1>4, <1>5, <1>6, <1>7, QuietControl

\* write: the worker keeps the lock for the rest of the message
LEMMA DirectWriteBase ==
    ASSUME Base, NEW u \in Users, DirectWrite(u)
    PROVE  Base'
<1> USE DEF Base
<1>0. Size \in Nat \ {0}
  BY NumbersAssumption
<1>1. user[u].pc = "locked" /\ user[u].pc \in Busy \ {"rest"} /\ "ref" \in Busy \ {"rest"}
  BY DEF DirectWrite, Busy
<1>2. PICK m \in Msgs : m = user[u].m
  BY <1>1, MessageTo
<1>3. PICK id \in Ids : id = m.to
  BY DEF Msgs
<1>4. HashId(id) \in Slots /\ At(id) \in SlotTypes /\ id \in Nat
  BY IdsAre, AtIs DEF Typed
<1>5. UNCHANGED <<allocId, pipe, thread, events, told, known, sends>>
  BY DEF DirectWrite, count
<1>6. PICK r \in SlotTypes : r = [At(id) EXCEPT !.lock = None]
  <2>1. None \in Users \cup {None}
    OBVIOUS
  <2> QED BY <1>4, <2>1, SetLock
<1>7. CASE ~MayWrite(At(id), id)
  <2>1. Put(id, r) /\ Goto(u, "ref") /\ wire' = wire
    BY <1>2, <1>3, <1>6, <1>7 DEF DirectWrite
  <2>2. /\ user' \in [Users -> UserTypes] /\ UsersQuiet /\ user'[u].pc = "ref"
        /\ \A v \in Users : v # u => user'[v] = user[v]
    BY <1>1, <2>1, GotoIs
  <2>3. wire' \in [Ids -> Seq(Unit)]
    BY <2>1 DEF Typed
  <2> QED BY <1>1, <1>2, <1>3, <1>5, <1>6, <2>1, <2>2, <2>3, UnlockBase
<1>8. CASE MayWrite(At(id), id)
  <2>1. At(id).id = id /\ At(id).type = "CONNECTED" /\ At(id).dw = <<>> /\ Unsent(At(id)) = <<>>
    BY <1>8 DEF MayWrite, CanWrite, nomore_sending_data
  <2>2. PICK k \in 0..Size :
          /\ wire' = [wire EXCEPT ![id] = @ \o SubSeq(Units(m), 1, k)]
          /\ IF k = Size
             THEN Put(id, [At(id) EXCEPT !.lock = None]) /\ user' = [user EXCEPT ![u] = Idle]
             ELSE UNCHANGED slot /\ user' = [user EXCEPT ![u] = [pc |-> "rest", m |-> m, k |-> k]]
    BY <1>2, <1>3, <1>8, <2>1 DEF DirectWrite
  <2>3. wire' \in [Ids -> Seq(Unit)]
    <3>1. PICK p \in Seq(Unit) : p = SubSeq(Units(m), 1, k)
      BY <1>0, UnitsAre, PrefixIs
    <3>2. wire[id] \in Seq(Unit) /\ wire[id] \o p \in Seq(Unit)
      BY ConcatIs DEF Typed
    <3>3. wire' = [wire EXCEPT ![id] = wire[id] \o p]
      BY <2>2, <3>1
    <3> QED BY <3>2, <3>3 DEF Typed
  <2>4. CASE k = Size
    <3>1. Put(id, r) /\ user' = [user EXCEPT ![u] = Idle]
      BY <1>6, <2>2, <2>4
    <3>2. /\ user' \in [Users -> UserTypes] /\ UsersQuiet /\ user'[u].pc = "idle"
          /\ \A v \in Users : v # u => user'[v] = user[v]
      BY <1>1, <3>1, IdleIs
    <3> QED BY <1>1, <1>2, <1>3, <1>5, <1>6, <2>3, <3>1, <3>2, UnlockBase
  <2>5. CASE k # Size
    <3>1. slot' = slot /\ user' = [user EXCEPT ![u] = [pc |-> "rest", m |-> m, k |-> k]]
      BY <2>2, <2>5
    <3>2. k \in 0..Size - 1
      BY <1>0, <2>5
    <3>3. PICK v \in UserTypes : v = [pc |-> "rest", m |-> m, k |-> k]
      BY <3>2 DEF UserTypes
    <3>4. v.pc = "rest" /\ v.m = m
      BY <3>3
    <3>5. user' \in [Users -> UserTypes] /\ user'[u] = v /\ \A w \in Users : w # u => user'[w] = user[w]
      BY <3>1, <3>3 DEF Typed
    <3>6. UsersQuiet
      BY <1>1, <1>2, <3>4, <3>5 DEF UsersQuiet, Busy
    <3>7. Locked'
      <4>1. At(id).high = <<>> /\ Starts(At(id).high)
        BY <1>4, <2>1, SlotLists, ConcatIs, LenIs DEF Unsent, Starts
      <4>2. At(id).lock = u
        BY <1>1, <1>2, <1>3 DEF Locked
      <4> QED BY <1>3, <2>1, <3>1, <3>4, <3>5, <4>1, <4>2 DEF Locked, At
    <3>8. Typed'
      BY <1>5, <2>3, <3>1, <3>5 DEF Typed
    <3>9. Listed'
      BY <3>1 DEF Listed
    <3>10. Control(pipe)'
      BY <1>5, <3>1, <3>5, <3>6, QuietControl DEF SlotsQuiet, Typed
    <3> QED BY <3>7, <3>8, <3>9, <3>10
  <2> QED BY <2>4, <2>5
<1> QED BY <1>7, <1>8

\* ... which it leaves for the socket thread
LEMMA KeepRestBase ==
    ASSUME Base, NEW u \in Users, KeepRest(u)
    PROVE  Base'
<1> USE DEF Base
<1>1. user[u].pc = "rest" /\ user[u].pc \in Busy
  BY DEF KeepRest, Busy
<1>2. PICK m \in Msgs : m = user[u].m
  BY <1>1, MessageTo
<1>3. PICK id \in Ids : id = m.to
  BY DEF Msgs
<1>4. HashId(id) \in Slots /\ At(id) \in SlotTypes /\ id \in Nat /\ At(id) = slot[HashId(id)]
  BY IdsAre, AtIs DEF Typed, At
<1>5. PICK k \in 0..Size - 1 : k = user[u].k
  BY <1>1, UserIs DEF Typed
<1>6. PICK s \in SlotTypes : s = At(id)
  BY <1>4
<1>7. PICK r \in SlotTypes : r = WithRest(s, m, k)
  BY WithRestIs
<1>8. /\ r.high = s.high /\ r.low = s.low /\ r.type = s.type /\ r.id = s.id
      /\ r.tcp = s.tcp /\ r.tag = s.tag /\ Messages(r.dw)
  BY <1>7, WithRestIs
<1>9. /\ Put(id, r) /\ user' = [user EXCEPT ![u] = Idle]
      /\ UNCHANGED <<allocId, pipe, thread, events, told, known, wire, sends>>
  BY <1>2, <1>3, <1>5, <1>6, <1>7 DEF KeepRest, kernel, count
<1>10. /\ user' \in [Users -> UserTypes] /\ UsersQuiet /\ user'[u].pc = "idle"
       /\ \A v \in Users : v # u => user'[v] = user[v]
  BY <1>1, <1>9, IdleIs
<1>11. slot' \in [Slots -> SlotTypes] /\ OnlySlot(id, r)
  BY <1>4, <1>9, PutIs DEF OnlySlot, Typed
<1>12. s.id = id /\ s.type \in {"CONNECTED", "HALFCLOSE"} /\ Starts(s.high) /\ s.lock = u
  BY <1>1, <1>2, <1>3, <1>6 DEF Locked
<1>13. Typed'
  BY <1>9, <1>10, <1>11 DEF Typed
<1>14. Listed'
  <2>1. WellListed(s)
    BY <1>4, <1>6, <1>12 DEF Listed, Live, Types
  <2>2. WellListed(r)
    BY <1>8, <1>12, <2>1 DEF WellListed
  <2> QED BY <1>11, <2>2 DEF Listed, OnlySlot
<1>15. Locked'
  <2>1. ASSUME NEW v \in Users, v # u, user[v].pc \in {"locked", "rest"} PROVE HashId(user[v].m.to) # HashId(id)
    BY <1>6, <1>12, <2>1 DEF Locked, At
  <2>2. \A v \in Users : user[v].pc \in {"locked", "rest"} => HashId(user[v].m.to) \in Slots
    BY MessageTo DEF Busy
  <2> QED BY <1>10, <1>11, <2>1, <2>2 DEF Locked, At, OnlySlot
<1>16. SlotsQuiet
  BY <1>4, <1>6, <1>8, <1>11, <1>12 DEF SlotsQuiet, OnlySlot
<1> QED BY <1>9, <1>10, <1>11, <1>13, <1>14, <1>15, <1>16, QuietControl

\* inc_sending_ref
LEMMA SendingRefBase ==
    ASSUME Base, NEW u \in Users, SendingRef(u)
    PROVE  Base'
<1> USE DEF Base
<1>1. user[u].pc = "ref" /\ user[u].pc \in Busy \ {"rest"} /\ "pipe" \in Busy \ {"rest"}
  BY DEF SendingRef, Busy
<1>2. PICK id \in Ids : id = user[u].m.to
  BY <1>1, MessageTo
<1>3. HashId(id) \in Slots /\ At(id) \in SlotTypes /\ id \in Nat
  BY <1>2, IdsAre, AtIs DEF Typed
<1>4. UNCHANGED <<allocId, pipe, thread, events, told, known, wire, sends>> /\ Goto(u, "pipe")
  BY DEF SendingRef, kernel, count
<1>5. /\ user' \in [Users -> UserTypes] /\ UsersQuiet /\ user'[u].pc = "pipe"
      /\ \A v \in Users : v # u => user'[v] = user[v]
  BY <1>1, <1>4, GotoIs
<1>6. PICK s \in SlotTypes : s = At(id)
  BY <1>3
<1>7. PICK n \in Int : n = s.sending + 1
  BY SlotIs
<1>8. PICK r \in SlotTypes : r = [s EXCEPT !.sending = n]
  BY SetSending
<1>9. /\ SameLists(r, s) /\ r.type = s.type /\ r.write = s.write /\ r.id = s.id /\ r.tcp = s.tcp
      /\ r.tag = s.tag /\ r.lock = s.lock
  BY <1>8, SetSending
<1>10. slot' = slot \/ Put(id, r)
  BY <1>2, <1>6, <1>7, <1>8 DEF SendingRef
<1>11. slot' \in [Slots -> SlotTypes] /\ (slot' = slot \/ OnlySlot(id, r))
  BY <1>3, <1>10, PutIs DEF OnlySlot, Typed
<1>12. Typed'
  BY <1>4, <1>5, <1>11 DEF Typed
<1>13. Listed'
  BY <1>6, <1>9, <1>11, SameIsListed DEF Listed, OnlySlot, At
<1>14. Locked'
  <2>1. \A x \in Slots : KeptSlot(slot'[x], slot[x])
    BY <1>6, <1>9, <1>11 DEF KeptSlot, OnlySlot, SameLists, At
  <2>2. \A v \in Users : user'[v].pc \in {"locked", "rest"} => user'[v] = user[v]
    BY <1>5
  <2> QED BY <2>1, <2>2, LockedStays
<1>15. SlotsQuiet
  BY <1>6, <1>9, <1>11 DEF SlotsQuiet, OnlySlot, At
<1> QED BY <1>4, <1>5, <1>11, <1>12, <1>13, <1>14, <1>15, QuietControl

\* The message goes into the pipe: the types, the places of ids and requests, and the locks
LEMMA SendRequestBase ==
    ASSUME Base, NEW u \in Users, SendRequest(u)
    PROVE  Base'
<1> USE DEF Base
<1>1. user[u].pc = "pipe" /\ user[u].pc \in Busy
  BY DEF SendRequest, Busy
<1>2. PICK m \in Msgs : m = user[u].m
  BY <1>1, MessageTo
<1>3. PICK id \in Ids : id = m.to
  BY DEF Msgs
<1>4. PICK cmd \in Message : cmd = IF m.low THEN "P" ELSE "D"
  BY DEF Message
<1>5. PICK q \in Seq(Requests) : q = pipe
  BY DEF Typed
<1>6. PICK req \in Requests : req = [cmd |-> cmd, id |-> id, m |-> m]
  BY DEF Requests
<1>7. /\ pipe' = Append(q, req) /\ user' = [user EXCEPT ![u] = Idle]
      /\ UNCHANGED <<slot, allocId, thread, events, told, known, wire, sends>>
  BY <1>2, <1>3, <1>4, <1>5, <1>6 DEF SendRequest, Request, kernel, count
<1>8. /\ user' \in [Users -> UserTypes] /\ UsersQuiet /\ user'[u].pc = "idle"
      /\ \A v \in Users : v # u => user'[v] = user[v]
  BY <1>1, <1>7, IdleIs
<1>9. Typed'
  BY <1>5, <1>7, <1>8, AppendIs DEF Typed
<1>10. Listed'
  BY <1>7 DEF Listed
<1>11. Locked'
  BY <1>7, <1>8 DEF Locked, At
<1>12. Control(q)'
  BY <1>5, <1>7, <1>8, <1>9, QuietStep, EventsStay DEF SlotsQuiet, EventsQuiet, Typed, Control
<1>13. req.cmd = cmd /\ req.id = id /\ req.m = m /\ cmd \notin Opening /\ (cmd = "P" <=> m.low)
  BY <1>4, <1>6 DEF Opening, Message, Msgs
<1>14. told[id] # "none" /\ id <= allocId
  BY <1>1, <1>2, <1>3 DEF Control, Addressed, Fresh
<1>15. \A v \in Users : user'[v].pc = "reserved" => user'[v].id # id
  BY <1>8, <1>14 DEF Control, Taken
<1> QED BY <1>3, <1>7, <1>9, <1>10, <1>11, <1>12, <1>13, <1>14, <1>15, Pushed

-----------------------------------------------------------------------------
(* The steps of the socket thread; q is what they leave in the pipe *)

\* Fewer events
LEMMA EventsTyped ==
    ASSUME Typed, events' \subseteq [slot : Slots, read : BOOLEAN, write : BOOLEAN]
    PROVE  events' \subseteq Events
BY DEF Events

\* A step of the socket thread on one slot
LEMMA OwnBase ==
    ASSUME Typed, Listed, Locked, NEW q \in Seq(Requests), Control(q), pipe' = q,
           NEW id \in Ids, NEW r \in SlotTypes, Put(id, r), Owned(id, r), KeptSlot(r, At(id)),
           r.type \in Live => WellListed(r),
           NoClaim(id, q), thread.pc # "clear", ThreadOf(id, r), ToldOf(id, r),
           told' \in [Ids -> {"none", "open", "closed", "late"}],
           allocId' \in 0..MaxId, allocId <= allocId', id <= allocId',
           known' \in [Users -> SUBSET Ids], \A u \in Users : known'[u] \subseteq known[u] \cup {id},
           events' \subseteq Events, EventsQuiet,
           r.type = "PACCEPT" => \A e \in events : slot[e.slot].type = "PACCEPT" \/ e.slot # HashId(id),
           wire' \in [Ids -> Seq(Unit)], UNCHANGED <<user, sends>>
    PROVE  Base'
<1>1. id \in Nat /\ HashId(id) \in Slots
  BY IdsAre
<1>2. slot' \in [Slots -> SlotTypes] /\ OnlySlot(id, r)
  BY <1>1, PutIs DEF OnlySlot, Typed
<1>3. thread' \in {Polling} \cup [pc : {"close", "clear"}, id : Ids]
  BY DEF ThreadOf
<1>4. Typed'
  BY <1>2, <1>3 DEF Typed
<1>5. Listed'
  BY <1>2 DEF Listed, OnlySlot
<1>6. Locked'
  <2>1. \A x \in Slots : KeptSlot(slot'[x], slot[x])
    BY <1>1, <1>2 DEF KeptSlot, OnlySlot, At
  <2> QED BY <2>1, LockedStays
<1>7. allocId' \in Nat
  BY NumbersAssumption
<1>8. Control(q)'
  BY <1>2, <1>7, OwnStep
<1> QED BY <1>4, <1>5, <1>6, <1>8, Settled DEF Base

\* ... that leaves the type and the id of the socket
LEMMA QuietBase ==
    ASSUME Typed, Listed, Locked, NEW q \in Seq(Requests), Control(q), pipe' = q,
           slot' \in [Slots -> SlotTypes], SlotsQuiet, \A x \in Slots : KeptSlot(slot'[x], slot[x]),
           \A x \in Slots : slot[x].type \in Live => WellListed(slot'[x]),
           events' \subseteq Events, EventsRight', wire' \in [Ids -> Seq(Unit)],
           UNCHANGED <<user, sends, allocId, thread, told, known>>
    PROVE  Base'
<1>1. Typed'
  BY DEF Typed
<1>2. Listed'
  BY DEF Listed, SlotsQuiet
<1>3. Locked'
  BY LockedStays
<1>4. UsersQuiet
  BY DEF UsersQuiet
<1>5. Control(q)'
  BY <1>4, QuietStep DEF Typed
<1> QED BY <1>1, <1>2, <1>3, <1>5, Settled DEF Base

\* ... that leaves every slot
LEMMA SameBase ==
    ASSUME Typed, Listed, Locked, NEW q \in Seq(Requests), Control(q), pipe' = q,
           events' \subseteq Events, EventsRight', wire' \in [Ids -> Seq(Unit)],
           UNCHANGED <<slot, user, sends, allocId, thread, told, known>>
    PROVE  Base'
<1>1. SlotsQuiet /\ (\A x \in Slots : KeptSlot(slot'[x], slot[x])) /\ slot' \in [Slots -> SlotTypes]
  BY DEF SlotsQuiet, KeptSlot, Typed
<1>2. \A x \in Slots : slot[x].type \in Live => WellListed(slot'[x])
  BY DEF Listed
<1> QED BY <1>1, <1>2, QuietBase

\* ... that tells a service
LEMMA ToldBase ==
    ASSUME Typed, Listed, Locked, NEW q \in Seq(Requests), Control(q), pipe' = q,
           NEW id \in Ids, id <= allocId,
           At(id).id = id => At(id).type \notin Live,
           \A u \in Users : user[u].pc = "reserved" => user[u].id # id,
           \A i \in DOMAIN q : q[i].cmd \in Opening => q[i].id # id,
           told' = Told(id, "closed"), thread' \in {thread, Polling},
           events' \subseteq Events, EventsRight',
           UNCHANGED <<slot, user, allocId, known, wire, sends>>
    PROVE  Base'
<1>1. /\ told' \in [Ids -> {"none", "open", "closed", "late"}]
      /\ \A i \in Ids : i # id => told'[i] = told[i]
      /\ told'[id] = "closed"
  BY ToldIs DEF Control, ToldRight
<1>2. Typed'
  BY <1>1 DEF Typed
<1>3. Listed' /\ Locked'
  BY DEF Listed, Locked, At
<1>4. Control(q)'
  BY <1>1, ToldStep
<1> QED BY <1>2, <1>3, <1>4, Settled DEF Base

\* A command that is taken from the pipe
LEMMA CommandIs ==
    ASSUME Typed, Control(pipe), NEW cmds, AtCommand(cmds)
    PROVE  /\ Control(Tail(pipe)) /\ Tail(pipe) \in Seq(Requests) /\ pipe' = Tail(pipe)
           /\ Head(pipe).id \in Ids /\ Head(pipe).id \in Nat /\ HashId(Head(pipe).id) \in Slots
           /\ At(Head(pipe).id) \in SlotTypes
           /\ Head(pipe).cmd \in cmds /\ Head(pipe) \in Requests /\ Head(pipe).id <= allocId
           /\ thread = Polling /\ thread.pc = "poll"
           /\ \A e \in events : slot[e.slot].type \notin {"INVALID", "PACCEPT"}
           /\ UNCHANGED <<allocId, events, user, known, sends>>
<1>1. pipe # <<>> /\ pipe' = Tail(pipe) /\ thread = Polling /\ Head(pipe).cmd \in cmds
      /\ UNCHANGED <<allocId, events, user, known, sends>>
  BY DEF AtCommand, count
<1>2. pipe \in Seq(Requests)
  BY DEF Typed
<1>3. Tail(pipe) \in Seq(Requests) /\ Head(pipe) = pipe[1] /\ pipe[1] \in Requests /\ 1 \in DOMAIN pipe
  BY <1>1, <1>2, TailIs
<1>4. Head(pipe).id \in Ids
  BY <1>3, RequestIs
<1>5. Control(Tail(pipe))
  <2>1. PICK q \in Seq(Requests) : q = Tail(pipe)
    BY <1>3
  <2>2. Control(q)
    BY <1>1, <2>1, Popped
  <2> QED BY <2>1, <2>2
<1>6. Head(pipe).id <= allocId
  BY <1>3 DEF Control, Fresh
<1>7. thread.pc = "poll"
  BY <1>1 DEF Polling
<1>8. \A e \in events : slot[e.slot].type \notin {"INVALID", "PACCEPT"}
  BY <1>7 DEF Control, EventsRight
<1> QED BY <1>1, <1>3, <1>4, <1>5, <1>6, <1>7, <1>8, IdsAre, AtIs DEF Typed

\* new_fd, with what it asserts
LEMMA NewFdOwned ==
    ASSUME Typed, NEW id \in Ids, NEW type \in {"CONNECTED", "CONNECTING", "PLISTEN", "PACCEPT"},
           NEW write \in BOOLEAN, type = "PACCEPT" => write = FALSE,
           Unsent(At(id)) = <<>>, At(id).type \in {"RESERVE", "INVALID"}
    PROVE  LET r == NewFd(id, type, write) IN
           /\ r \in SlotTypes /\ Owned(id, r) /\ KeptSlot(r, At(id)) /\ WellListed(r)
           /\ r.type = type /\ type \in Live /\ type # "INVALID"
<1>1. type \in Types /\ type \in Live /\ type \notin {"INVALID", "RESERVE"} /\ id \in Nat
  BY IdsAre DEF Types, Live
<1>2. At(id) \in SlotTypes
  BY <1>1, AtIs DEF Typed
<1>3. PICK r \in SlotTypes : r = NewFd(id, type, write)
  BY <1>1, NewFdIs DEF Typed
<1>4. /\ r.type = type /\ r.id = id /\ r.tcp /\ r.tag = Tag(id) /\ r.dw = <<>> /\ r.write = write
      /\ r.high = At(id).high /\ r.low = At(id).low /\ r.lock = At(id).lock
  BY <1>1, <1>3, NewFdIs DEF Typed
<1>5. At(id).high = <<>> /\ At(id).low = <<>>
  BY <1>2, SlotLists, ConcatIs, LenIs DEF Unsent
<1>6. WellListed(r)
  BY <1>4, <1>5, EmptyIsListed
<1>7. Owned(id, r)
  BY <1>1, <1>4 DEF Owned
<1>8. KeptSlot(r, At(id))
  BY <1>4 DEF KeptSlot
<1> QED BY <1>1, <1>3, <1>4, <1>6, <1>7, <1>8

\* open_socket: the types, the places of ids and requests, and the locks
LEMMA OpenSocketBase ==
    ASSUME Base, OpenSocket, ~aborted'
    PROVE  Base'
<1> USE DEF Base
<1>1. AtCommand({"O"})
  BY DEF OpenSocket
<1>2. PICK q \in Seq(Requests) : q = Tail(pipe)
  BY <1>1, CommandIs
<1>3. PICK id \in Ids : id = Head(pipe).id
  BY <1>1, CommandIs
<1>4. /\ Control(q) /\ pipe' = q /\ id \in Nat /\ At(id) \in SlotTypes /\ id <= allocId
      /\ Head(pipe).cmd = "O" /\ thread = Polling /\ thread.pc = "poll"
      /\ \A e \in events : slot[e.slot].type \notin {"INVALID", "PACCEPT"}
      /\ UNCHANGED <<allocId, events, user, known, sends>>
  BY <1>1, <1>2, <1>3, CommandIs
<1>5. /\ NoClaim(id, q) /\ At(id).type = "RESERVE" /\ At(id).id = id /\ ~At(id).tcp /\ told[id] = "none"
  BY <1>1, <1>2, <1>3, <1>4, OpeningIsAlone DEF AtCommand, Opening
<1>6. /\ events' \subseteq Events /\ EventsQuiet /\ wire' = wire /\ wire \in [Ids -> Seq(Unit)]
      /\ known' \in [Users -> SUBSET Ids] /\ (\A u \in Users : known'[u] \subseteq known[u] \cup {id})
      /\ allocId' \in 0..MaxId /\ allocId <= allocId' /\ id <= allocId'
  <2>1. allocId' = allocId /\ allocId \in 0..MaxId /\ allocId <= allocId
    BY <1>4, NumbersAssumption DEF Typed
  <2> QED BY <1>4, <2>1 DEF Typed, EventsQuiet, OpenSocket, kernel
<1>7. CASE /\ Put(id, [At(id) EXCEPT !.type = "INVALID"])
           /\ thread' = [pc |-> "clear", id |-> id]
           /\ told' = told
  <2>0. "INVALID" \in Types
    BY DEF Types
  <2>1. PICK r \in SlotTypes : r = [At(id) EXCEPT !.type = "INVALID"]
    BY <1>4, <2>0, SetType
  <2>2. SameSocketAs(r, At(id)) /\ r.type = "INVALID" /\ r.write = At(id).write
    BY <1>4, <2>0, <2>1, SetType
  <2>3. ~At(id).write
    BY <1>4, <1>5, IdsAre DEF Control, Placed, At
  <2>4. Owned(id, r)
    BY <1>5, <2>2, <2>3 DEF Owned, SameSocketAs, Live
  <2>5. KeptSlot(r, At(id)) /\ r.type \notin Live /\ r.type # "PACCEPT"
    BY <1>5, <2>2 DEF KeptSlot, SameSocketAs, Live
  <2>6. ThreadOf(id, r) /\ ToldOf(id, r) /\ told' \in [Ids -> {"none", "open", "closed", "late"}]
    BY <1>7, <2>2 DEF ThreadOf, ToldOf, Typed, Live
  <2> QED BY <1>4, <1>5, <1>6, <1>7, <2>1, <2>4, <2>5, <2>6, OwnBase
<1>8. ASSUME NEW type \in {"CONNECTED", "CONNECTING"}, NEW write \in BOOLEAN, Put(id, NewFd(id, type, write)),
             (told' = told /\ type = "CONNECTING") \/ told' = Told(id, "open"),
             aborted' = FdRefused(id), thread' = thread
      PROVE  Base'
  <2>1. Unsent(At(id)) = <<>>
    BY <1>8 DEF FdRefused
  <2>2. /\ Owned(id, NewFd(id, type, write)) /\ KeptSlot(NewFd(id, type, write), At(id))
        /\ WellListed(NewFd(id, type, write)) /\ NewFd(id, type, write) \in SlotTypes
        /\ NewFd(id, type, write).type = type /\ type \in Live /\ type # "INVALID"
    BY <1>5, <1>8, <2>1, NewFdOwned
  <2>3. PICK r \in SlotTypes : r = NewFd(id, type, write)
    BY <2>2
  <2>4. ThreadOf(id, r)
    BY <1>4, <1>8, <2>2, <2>3 DEF ThreadOf
  <2>5. told' \in [Ids -> {"none", "open", "closed", "late"}] /\ ToldOf(id, r)
    <3>1. CASE told' = told /\ type = "CONNECTING"
      BY <1>5, <2>2, <2>3, <3>1 DEF ToldOf, Typed
    <3>2. CASE told' = Told(id, "open")
      <4>1. /\ told' \in [Ids -> {"none", "open", "closed", "late"}]
            /\ \A i \in Ids : i # id => told'[i] = told[i]
            /\ told'[id] = "open"
        BY <1>4, <3>2, ToldIs DEF Control, ToldRight
      <4> QED BY <4>1 DEF ToldOf
    <3> QED BY <1>8, <3>1, <3>2
  <2>6. r.type # "PACCEPT"
    BY <1>8, <2>2, <2>3
  <2> QED BY <1>4, <1>5, <1>6, <1>8, <2>2, <2>3, <2>4, <2>5, <2>6, OwnBase
<1> QED BY <1>3, <1>7, <1>8 DEF OpenSocket

\* listen_socket: the types, the places of ids and requests, and the locks
LEMMA ListenSocketBase ==
    ASSUME Base, ListenSocket, ~aborted'
    PROVE  Base'
<1> USE DEF Base
<1>1. AtCommand({"L"})
  BY DEF ListenSocket
<1>2. PICK q \in Seq(Requests) : q = Tail(pipe)
  BY <1>1, CommandIs
<1>3. PICK id \in Ids : id = Head(pipe).id
  BY <1>1, CommandIs
<1>4. /\ Control(q) /\ pipe' = q /\ id \in Nat /\ At(id) \in SlotTypes /\ id <= allocId
      /\ Head(pipe).cmd = "L" /\ thread = Polling /\ thread.pc = "poll"
      /\ \A e \in events : slot[e.slot].type \notin {"INVALID", "PACCEPT"}
      /\ UNCHANGED <<allocId, events, user, known, sends>>
  BY <1>1, <1>2, <1>3, CommandIs
<1>5. /\ NoClaim(id, q) /\ At(id).type = "RESERVE" /\ told[id] = "none"
  BY <1>1, <1>2, <1>3, <1>4, OpeningIsAlone DEF AtCommand, Opening
<1>6. /\ events' \subseteq Events /\ EventsQuiet /\ wire' = wire /\ wire \in [Ids -> Seq(Unit)]
      /\ known' \in [Users -> SUBSET Ids] /\ (\A u \in Users : known'[u] \subseteq known[u] \cup {id})
      /\ allocId' \in 0..MaxId /\ allocId <= allocId' /\ id <= allocId'
  <2>1. allocId' = allocId /\ allocId \in 0..MaxId /\ allocId <= allocId
    BY <1>4, NumbersAssumption DEF Typed
  <2> QED BY <1>4, <2>1 DEF Typed, EventsQuiet, ListenSocket, kernel
<1>7. Put(id, NewFd(id, "PLISTEN", FALSE)) /\ Unsent(At(id)) = <<>> /\ thread' = thread /\ told' = told
  BY <1>3 DEF ListenSocket, FdRefused
<1>8. /\ Owned(id, NewFd(id, "PLISTEN", FALSE)) /\ KeptSlot(NewFd(id, "PLISTEN", FALSE), At(id))
      /\ WellListed(NewFd(id, "PLISTEN", FALSE)) /\ NewFd(id, "PLISTEN", FALSE) \in SlotTypes
      /\ NewFd(id, "PLISTEN", FALSE).type = "PLISTEN" /\ "PLISTEN" \in Live
  BY <1>5, <1>7, NewFdOwned
<1>9. PICK r \in SlotTypes : r = NewFd(id, "PLISTEN", FALSE)
  BY <1>8
<1>10. ThreadOf(id, r) /\ ToldOf(id, r) /\ told' \in [Ids -> {"none", "open", "closed", "late"}] /\ r.type # "PACCEPT"
  BY <1>4, <1>5, <1>7, <1>8, <1>9 DEF ThreadOf, ToldOf, Typed
<1> QED BY <1>4, <1>5, <1>6, <1>7, <1>8, <1>9, <1>10, OwnBase

\* start_socket: the types, the places of ids and requests, and the locks
LEMMA StartSocketBase ==
    ASSUME Base, StartSocket
    PROVE  Base'
<1> USE DEF Base
<1>1. AtCommand({"S"})
  BY DEF StartSocket
<1>2. PICK q \in Seq(Requests) : q = Tail(pipe)
  BY <1>1, CommandIs
<1>3. PICK id \in Ids : id = Head(pipe).id
  BY <1>1, CommandIs
<1>4. /\ Control(q) /\ pipe' = q /\ id \in Nat /\ At(id) \in SlotTypes /\ id <= allocId
      /\ HashId(id) \in Slots /\ Head(pipe).cmd = "S" /\ thread = Polling /\ thread.pc = "poll"
      /\ \A e \in events : slot[e.slot].type \notin {"INVALID", "PACCEPT"}
      /\ UNCHANGED <<allocId, events, user, known, sends>>
  BY <1>1, <1>2, <1>3, CommandIs
<1>5. PICK s \in SlotTypes : s = At(id)
  BY <1>4
<1>6. /\ events' \subseteq Events /\ EventsQuiet /\ wire' = wire /\ wire \in [Ids -> Seq(Unit)]
      /\ known' \in [Users -> SUBSET Ids] /\ (\A u \in Users : known'[u] \subseteq known[u] \cup {id})
      /\ allocId' \in 0..MaxId /\ allocId <= allocId' /\ id <= allocId'
  <2>1. allocId' = allocId /\ allocId \in 0..MaxId /\ allocId <= allocId
    BY <1>4, NumbersAssumption DEF Typed
  <2> QED BY <1>4, <2>1 DEF Typed, EventsQuiet, StartSocket, kernel
<1>7. CASE ~IsOpen(id)
  <2>1. told' = Told(id, "closed") /\ slot' = slot /\ thread' = thread
    BY <1>3, <1>7 DEF StartSocket
  <2>2. At(id).id = id => At(id).type \notin Live
    BY <1>7 DEF IsOpen, Live
  <2>3. \A u \in Users : user[u].pc = "reserved" => user[u].id # id
    BY <1>1, <1>3, CommandIs, TailIs DEF Control, Taken, Typed, AtCommand
  <2>4. \A i \in DOMAIN q : q[i].cmd \in Opening => q[i].id # id
    BY <1>4, <1>7 DEF IsOpen, Control, Requested
  <2>5. EventsRight'
    BY <1>4, <1>6, <2>1 DEF EventsRight, Control
  <2> QED BY <1>4, <1>6, <2>1, <2>2, <2>3, <2>4, <2>5, ToldBase
<1>8. CASE IsOpen(id) /\ s.type \in {"PACCEPT", "PLISTEN"} /\ thread' = thread
  <2>1. PICK type \in {"CONNECTED", "LISTEN"} : type = IF s.type = "PACCEPT" THEN "CONNECTED" ELSE "LISTEN"
    OBVIOUS
  <2>2. type \in Types /\ type \in Live /\ s.type \in Live /\ type \notin {"INVALID", "PACCEPT", "RESERVE"}
    BY <1>8, <2>1 DEF Types, Live
  <2>3. PICK r \in SlotTypes : r = [s EXCEPT !.type = type]
    BY <2>2, SetType
  <2>4. SameSocketAs(r, s) /\ SameLists(r, s) /\ r.type = type /\ r.write = s.write
    BY <2>2, <2>3, SetType
  <2>5. Put(id, r)
    <3>1. slot' = [slot EXCEPT ![HashId(id)].type = type]
      BY <1>3, <1>4, <1>5, <1>8, <2>1 DEF StartSocket, ForceClose, Polling
    <3> QED BY <1>5, <2>3, <3>1 DEF Put, At
  <2>6. told' = Told(id, "open")
    BY <1>3, <1>4, <1>5, <1>8 DEF StartSocket, ForceClose, Polling
  <2>7. /\ told' \in [Ids -> {"none", "open", "closed", "late"}]
        /\ \A i \in Ids : i # id => told'[i] = told[i]
        /\ told'[id] = "open"
    BY <1>4, <2>6, ToldIs DEF Control, ToldRight
  <2>8. Owned(id, r)
    <3>1. s.id = id /\ s.tcp /\ s.tag = Tag(id)
      BY <1>4, <1>5, <1>8, <2>2 DEF IsOpen, Control, Placed, At
    <3> QED BY <2>2, <2>4, <3>1 DEF Owned, SameSocketAs
  <2>9. KeptSlot(r, At(id)) /\ WellListed(r)
    <3>1. WellListed(s)
      BY <1>4, <1>5, <2>2 DEF Listed, At
    <3> QED BY <1>5, <1>8, <2>4, <3>1, SameIsListed DEF KeptSlot, SameSocketAs
  <2>10. ThreadOf(id, r) /\ ToldOf(id, r)
    BY <1>4, <1>8, <2>2, <2>4, <2>7 DEF ThreadOf, ToldOf
  <2>11. NoClaim(id, q)
    BY <1>4, <1>5, <1>8, OpenIsAlone
  <2> QED BY <1>4, <1>6, <2>2, <2>4, <2>5, <2>7, <2>8, <2>9, <2>10, <2>11, OwnBase
<1>9. CASE IsOpen(id) /\ s.type \notin {"PACCEPT", "PLISTEN"}
  <2>1. slot' = slot /\ thread' = thread /\ told' = (IF s.type = "CONNECTED" THEN Told(id, "open") ELSE told)
    BY <1>3, <1>5, <1>9 DEF StartSocket
  <2>2. told' = told
    <3>1. ASSUME s.type = "CONNECTED" PROVE told[id] = "open"
      BY <1>4, <1>5, <1>9, <3>1 DEF IsOpen, Control, ToldRight, At
    <3>2. ASSUME s.type = "CONNECTED" PROVE told' = told
      BY <1>4, <2>1, <3>1, <3>2 DEF Told, Typed
    <3> QED BY <2>1, <3>2
  <2>3. EventsRight'
    BY <1>4, <1>6, <2>1 DEF EventsRight, Control
  <2> QED BY <1>4, <1>6, <2>1, <2>2, <2>3, SameBase
<1>10. CASE IsOpen(id) /\ s.type \in {"PACCEPT", "PLISTEN"} /\ ForceClose(id) /\ told' = told
  <2>1. s.type \in Live /\ s.id = id /\ s.tcp /\ s.tag = Tag(id) /\ (s.type = "PACCEPT" => ~s.write) /\ WellListed(s)
    <3>1. s.type \in Live /\ s.id = id
      BY <1>5, <1>10 DEF IsOpen, Live, Types
    <3> QED BY <1>4, <1>5, <3>1 DEF Control, Placed, Listed, At
  <2>2. PICK r \in SlotTypes : r = Freed(s)
    BY FreedIs
  <2>3. SameSocketAs(r, s) /\ r.type = s.type /\ r.dw = s.dw /\ r.write = s.write /\ r.high = <<>> /\ r.low = <<>>
    BY <2>2, FreedIs
  <2>4. Put(id, r) /\ thread' = [pc |-> "close", id |-> id]
    BY <1>5, <1>10, <2>2 DEF ForceClose
  <2>5. Owned(id, r)
    BY <1>10, <2>1, <2>3 DEF Owned, SameSocketAs
  <2>6. KeptSlot(r, At(id)) /\ WellListed(r)
    BY <1>5, <1>10, <2>1, <2>3 DEF KeptSlot, SameSocketAs, WellListed, Messages, Starts
  <2>7. told[id] # "closed"
    BY <1>4, <1>5, <2>1 DEF Control, ToldRight, At
  <2>8. ThreadOf(id, r) /\ ToldOf(id, r)
    BY <1>10, <2>1, <2>3, <2>4, <2>7 DEF ThreadOf, ToldOf
  <2>9. told' \in [Ids -> {"none", "open", "closed", "late"}]
    BY <1>10 DEF Typed
  <2>10. NoClaim(id, q)
    BY <1>4, <1>5, <2>1, <1>10, OpenIsAlone DEF Live
  <2>11. r.type = "PACCEPT" => \A e \in events : slot[e.slot].type = "PACCEPT" \/ e.slot # HashId(id)
    BY <1>5, <2>3 DEF At
  <2> QED BY <1>4, <1>6, <2>4, <2>5, <2>6, <2>8, <2>9, <2>10, <2>11, OwnBase
<1>11. \/ ~IsOpen(id) \/ s.type \notin {"PACCEPT", "PLISTEN"} \/ thread' = thread
       \/ ForceClose(id) /\ told' = told
  BY <1>3, <1>5 DEF StartSocket
<1> QED BY <1>5, <1>7, <1>8, <1>9, <1>10, <1>11

\* What send_buffer does to the slot of an open socket
LEMMA OutcomeSlot ==
    ASSUME NEW s \in SlotTypes, WellListed(s), s.type \in Live, s.type = "PACCEPT" => ~s.write,
           NEW least, NEW r \in SendBuffer(s, least) \cup {Nothing(s)}
    PROVE  /\ r.slot \in SlotTypes /\ r.units \in Seq(Unit) /\ SameSocketAs(r.slot, s)
           /\ r.slot.type \in {s.type, "INVALID"} /\ (r.slot.write => s.write)
           /\ r.slot.type \in {"INVALID", "PACCEPT"} => ~r.slot.write
           /\ KeptSlot(r.slot, s) /\ (r.slot.type \in Live => WellListed(r.slot))
           /\ r.slot.type \in Live \cup {"INVALID"}
<1>0. <<>> \in Seq(Unit)
  OBVIOUS
<1>1. CASE r = Nothing(s)
  <2>1. r.slot = s /\ r.units = <<>>
    BY <1>1 DEF Nothing
  <2>2. SameSocketAs(s, s) /\ KeptSlot(s, s)
    BY DEF SameSocketAs, KeptSlot
  <2> QED BY <1>0, <2>1, <2>2 DEF Live
<1>2. CASE r \in SendBuffer(s, least)
  <2>1. /\ r.slot \in SlotTypes /\ r.units \in Seq(Unit)
        /\ Blocked(s, r) \/ \E k \in 0..Len(All(s)) : Wrote(s, r, k) \/ Gone(s, r, k)
    BY <1>2, Outcomes
  <2>2. CASE Blocked(s, r)
    <3>1. r.slot = s
      BY <2>2 DEF Blocked
    <3>2. SameSocketAs(s, s) /\ KeptSlot(s, s)
      BY DEF SameSocketAs, KeptSlot
    <3> QED BY <2>1, <3>1, <3>2 DEF Live
  <2>3. ASSUME NEW k \in 0..Len(All(s)), Wrote(s, r, k)
        PROVE  /\ SameSocketAs(r.slot, s) /\ r.slot.type = s.type /\ (r.slot.write => s.write)
               /\ KeptSlot(r.slot, s) /\ WellListed(r.slot)
    BY <2>3 DEF Wrote, KeptSlot
  <2>4. ASSUME NEW k \in 0..Len(All(s)), Gone(s, r, k)
        PROVE  SameSocketAs(r.slot, s) /\ r.slot.type = "INVALID" /\ ~r.slot.write /\ KeptSlot(r.slot, s)
    BY <2>4 DEF Gone, KeptSlot
  <2> QED BY <2>1, <2>2, <2>3, <2>4 DEF Live
<1> QED BY <1>1, <1>2

\* Units that are written
LEMMA WireIs ==
    ASSUME Typed, NEW id \in Ids, NEW units \in Seq(Unit), wire' = [wire EXCEPT ![id] = @ \o units]
    PROVE  /\ wire' \in [Ids -> Seq(Unit)] /\ wire'[id] = wire[id] \o units
           /\ \A i \in Ids : i # id => wire'[i] = wire[i]
<1>1. wire[id] \in Seq(Unit) /\ wire[id] \o units \in Seq(Unit)
  BY ConcatIs DEF Typed
<1> QED BY <1>1 DEF Typed

\* close_socket: the types, the places of ids and requests, and the locks
LEMMA CloseSocketBase ==
    ASSUME Base, CloseSocket, ~clobbered'
    PROVE  Base'
<1> USE DEF Base
<1>1. AtCommand({"K", "shutdown"})
  BY DEF CloseSocket
<1>2. PICK q \in Seq(Requests) : q = Tail(pipe)
  BY <1>1, CommandIs
<1>3. PICK id \in Ids : id = Head(pipe).id
  BY <1>1, CommandIs
<1>4. /\ Control(q) /\ pipe' = q /\ id \in Nat /\ At(id) \in SlotTypes /\ id <= allocId
      /\ HashId(id) \in Slots /\ Head(pipe).cmd \in {"K", "shutdown"} /\ thread = Polling /\ thread.pc = "poll"
      /\ \A e \in events : slot[e.slot].type \notin {"INVALID", "PACCEPT"}
      /\ UNCHANGED <<allocId, events, user, known, sends>>
  BY <1>1, <1>2, <1>3, CommandIs
<1>5. PICK s \in SlotTypes : s = At(id)
  BY <1>4
<1>6. /\ events' \subseteq Events /\ EventsQuiet
      /\ known' \in [Users -> SUBSET Ids] /\ (\A u \in Users : known'[u] \subseteq known[u] \cup {id})
      /\ allocId' \in 0..MaxId /\ allocId <= allocId' /\ id <= allocId'
  <2>1. allocId' = allocId /\ allocId \in 0..MaxId /\ allocId <= allocId
    BY <1>4, NumbersAssumption DEF Typed
  <2> QED BY <1>4, <2>1 DEF Typed, EventsQuiet
<1>7. CASE ~IsOpen(id)
  <2>1. told' = Told(id, "closed") /\ slot' = slot /\ wire' = wire /\ thread' = thread
    BY <1>3, <1>7 DEF CloseSocket
  <2>2. At(id).id = id => At(id).type \notin Live
    BY <1>7 DEF IsOpen, Live
  <2>3. \A u \in Users : user[u].pc = "reserved" => user[u].id # id
    BY <1>1, <1>3, CommandIs, TailIs DEF Control, Taken, Typed, AtCommand
  <2>4. \A i \in DOMAIN q : q[i].cmd \in Opening => q[i].id # id
    BY <1>4, <1>7 DEF IsOpen, Control, Requested
  <2>5. EventsRight'
    BY <1>4, <2>1 DEF EventsRight, Control
  <2> QED BY <1>4, <1>6, <2>1, <2>2, <2>3, <2>4, <2>5, ToldBase
<1>8. CASE IsOpen(id)
  <2>1. PICK r \in SendBuffer(s, 0) \cup {Nothing(s)} :
          /\ wire' = [wire EXCEPT ![id] = @ \o r.units]
          /\ IF r.slot.type = "INVALID"
             THEN Put(id, r.slot) /\ thread' = [pc |-> "clear", id |-> id]
             ELSE IF StaysOpen(r.slot, Head(pipe).cmd)
             THEN Put(id, [r.slot EXCEPT !.type = "HALFCLOSE"]) /\ UNCHANGED thread
             ELSE Put(id, Freed(r.slot)) /\ thread' = [pc |-> "close", id |-> id]
          /\ clobbered' = (clobbered \/ (s.type = "RESERVE"))
          /\ UNCHANGED told
    <3>1. SendBuffer(s, 0) \subseteq SendBuffer(s, 0) \cup {Nothing(s)} /\ Nothing(s) \in SendBuffer(s, 0) \cup {Nothing(s)}
      OBVIOUS
    <3> QED BY <1>3, <1>5, <1>8, <3>1 DEF CloseSocket
  <2>2. s.id = id /\ s.type \in Live /\ s.tcp /\ s.tag = Tag(id) /\ (s.type = "PACCEPT" => ~s.write) /\ WellListed(s)
    <3>1. s.type \in Live /\ s.id = id
      BY <1>5, <1>8, <2>1, SlotIs DEF IsOpen, Live
    <3> QED BY <1>4, <1>5, <3>1 DEF Control, Placed, Listed, At
  <2>3. PICK t \in SlotTypes : t = r.slot
    BY <2>2, OutcomeSlot
  <2>4. /\ r.units \in Seq(Unit) /\ SameSocketAs(t, s)
        /\ t.type \in {s.type, "INVALID"} /\ (t.write => s.write)
        /\ t.type \in {"INVALID", "PACCEPT"} => ~t.write
        /\ KeptSlot(t, s) /\ (t.type \in Live => WellListed(t)) /\ t.type \in Live \cup {"INVALID"}
    BY <2>2, <2>3, OutcomeSlot
  <2>5. wire' \in [Ids -> Seq(Unit)]
    BY <2>1, <2>4, WireIs
  <2>6. told' = told /\ told[id] # "closed" /\ (s.type = "CONNECTED" => told[id] = "open")
    BY <1>4, <1>5, <2>1, <2>2 DEF Control, ToldRight, At
  <2>7. NoClaim(id, q)
    BY <1>4, <1>5, <2>2, OpenIsAlone DEF Live
  <2>8. told' \in [Ids -> {"none", "open", "closed", "late"}]
    BY <2>6 DEF Typed
  <2>9. ASSUME NEW w \in SlotTypes, Put(id, w), w.id = id, w.tcp = s.tcp, w.tag = s.tag,
               w.type \in {s.type, "HALFCLOSE", "INVALID"}, w.type \in {"INVALID", "PACCEPT"} => ~w.write,
               KeptSlot(w, s), w.type \in Live => WellListed(w), ThreadOf(id, w)
        PROVE  Base'
    <3>1. w.type # "RESERVE" /\ (w.type = "PACCEPT" => s.type = "PACCEPT")
      BY <2>2, <2>9 DEF Live
    <3>2. Owned(id, w)
      BY <2>2, <2>9, <3>1 DEF Owned
    <3>3. ToldOf(id, w)
      BY <2>6, <2>9 DEF ToldOf
    <3>4. w.type = "PACCEPT" => \A e \in events : slot[e.slot].type = "PACCEPT" \/ e.slot # HashId(id)
      BY <1>5, <3>1 DEF At
    <3> QED BY <1>4, <1>5, <1>6, <2>5, <2>7, <2>8, <2>9, <3>2, <3>3, <3>4, OwnBase
  <2>10. CASE t.type = "INVALID"
    <3>1. Put(id, t) /\ ThreadOf(id, t)
      BY <2>1, <2>3, <2>10 DEF ThreadOf
    <3> QED BY <2>2, <2>4, <2>9, <2>10, <3>1 DEF SameSocketAs
  <2>11. CASE t.type # "INVALID" /\ StaysOpen(t, Head(pipe).cmd)
    <3>0. "HALFCLOSE" \in Types /\ "HALFCLOSE" \in Live
      BY DEF Types, Live
    <3>1. PICK w \in SlotTypes : w = [t EXCEPT !.type = "HALFCLOSE"]
      BY <3>0, SetType
    <3>2. SameSocketAs(w, t) /\ SameLists(w, t) /\ w.type = "HALFCLOSE"
      BY <3>0, <3>1, SetType
    <3>3. Put(id, w) /\ ThreadOf(id, w)
      BY <1>4, <2>1, <2>3, <2>11, <3>1, <3>2 DEF ThreadOf
    <3>4. KeptSlot(w, s)
      BY <2>4, <3>2 DEF KeptSlot, SameSocketAs, SameLists
    <3>5. WellListed(w)
      BY <2>4, <2>11, <3>2, SameIsListed
    <3> QED BY <2>2, <2>4, <2>9, <3>2, <3>3, <3>4, <3>5 DEF SameSocketAs
  <2>12. CASE t.type # "INVALID" /\ ~StaysOpen(t, Head(pipe).cmd)
    <3>1. PICK w \in SlotTypes : w = Freed(t)
      BY FreedIs
    <3>2. SameSocketAs(w, t) /\ w.type = t.type /\ w.dw = t.dw /\ w.write = t.write /\ w.high = <<>> /\ w.low = <<>>
      BY <3>1, FreedIs
    <3>3. Put(id, w) /\ ThreadOf(id, w)
      BY <2>1, <2>3, <2>4, <2>12, <3>1, <3>2 DEF ThreadOf, Live
    <3>4. KeptSlot(w, s)
      BY <2>4, <2>12, <3>2 DEF KeptSlot, SameSocketAs, Starts
    <3>5. WellListed(w)
      BY <2>4, <2>12, <3>2 DEF WellListed, Messages, Starts
    <3> QED BY <2>2, <2>4, <2>9, <3>2, <3>3, <3>4, <3>5 DEF SameSocketAs
  <2> QED BY <2>10, <2>11, <2>12
<1> QED BY <1>7, <1>8

\* A message that is put behind what waits keeps the lists whole
LEMMA AppendedListed ==
    ASSUME Typed, NEW s \in SlotTypes, NEW id \in Ids, NEW m \in Msgs
    PROVE  LET r == Appended(s, id, m) IN
           /\ r \in SlotTypes /\ SameSocketAs(r, s) /\ r.type = s.type
           /\ r.write => s.write \/ s.type = "CONNECTED"
           /\ KeptSlot(r, s) /\ (WellListed(s) => WellListed(r))
<1>0. slot \in [Slots -> SlotTypes]
  BY DEF Typed
<1>1. PICK r \in SlotTypes : r = Appended(s, id, m)
  BY <1>0, AppendedIs
<1>2. /\ SameSocketAs(r, s) /\ r.type = s.type /\ r.dw = s.dw
      /\ r.write => s.write \/ s.type = "CONNECTED"
      /\ \/ r = s
         \/ r.high = s.high \o Units(m) /\ r.low = s.low
         \/ r.high = s.high /\ r.low = s.low \o Units(m)
  BY SMTT(60), <1>0, <1>1, AppendedIs
<1>3. Units(m) \in Seq(Unit) /\ Messages(Units(m)) /\ Starts(Units(m))
  BY UnitsAre, UnitsMessages
<1>4. s.high \in Seq(Unit) /\ s.low \in Seq(Unit) /\ s.dw \in Seq(Unit)
  BY SlotLists
<1>5. /\ Starts(s.high) => Starts(r.high)
      /\ Starts(s.low) => Starts(r.low)
  BY <1>2, <1>3, <1>4, StartsConcat
<1>6. /\ Messages(s.high) => Messages(r.high)
      /\ Messages(s.low) => Messages(r.low)
  BY <1>2, <1>3, <1>4, MessagesConcat
<1>7. KeptSlot(r, s)
  BY <1>2, <1>5 DEF KeptSlot, SameSocketAs
<1>8. WellListed(s) => WellListed(r)
  BY <1>2, <1>5, <1>6 DEF WellListed
<1> QED BY <1>1, <1>2, <1>7, <1>8

\* send_socket and dec_sending_ref: the types, the places of ids and requests, and the locks
LEMMA SendSocketBase ==
    ASSUME Base, SendSocket
    PROVE  Base'
<1> USE DEF Base
<1>1. AtCommand({"D", "P"})
  BY DEF SendSocket
<1>2. PICK q \in Seq(Requests) : q = Tail(pipe)
  BY <1>1, CommandIs
<1>3. PICK id \in Ids : id = Head(pipe).id
  BY <1>1, CommandIs
<1>4. /\ Control(q) /\ pipe' = q /\ id \in Nat /\ At(id) \in SlotTypes /\ Head(pipe) \in Requests
      /\ HashId(id) \in Slots /\ Head(pipe).cmd \in {"D", "P"} /\ thread = Polling /\ thread.pc = "poll"
      /\ UNCHANGED <<allocId, events, user, known, sends>>
  BY <1>1, <1>2, <1>3, CommandIs
<1>5. PICK m \in Msgs : m = Head(pipe).m
  BY <1>4, RequestIs DEF Message
<1>6. PICK s \in SlotTypes : s = At(id)
  BY <1>4
<1>7. PICK t \in SlotTypes : t = Appended(s, id, m)
  BY AppendedListed
<1>8. /\ SameSocketAs(t, s) /\ t.type = s.type
      /\ t.write => s.write \/ s.type = "CONNECTED"
      /\ KeptSlot(t, s) /\ (WellListed(s) => WellListed(t))
  BY <1>7, AppendedListed
<1>9. PICK n \in Int : n = t.sending - 1
  BY SlotIs
<1>10. PICK w \in SlotTypes : w = [t EXCEPT !.sending = n]
  BY SetSending
<1>11. /\ SameLists(w, t) /\ w.type = t.type /\ w.write = t.write /\ w.id = t.id /\ w.tcp = t.tcp
       /\ w.tag = t.tag /\ w.lock = t.lock
  BY <1>10, SetSending
<1>12. Put(id, w) \/ Put(id, t)
  BY <1>3, <1>5, <1>6, <1>7, <1>9, <1>10 DEF SendSocket
<1>13. PICK r \in SlotTypes : Put(id, r) /\ r \in {w, t}
  BY <1>12
<1>14. /\ r.id = s.id /\ r.tcp = s.tcp /\ r.tag = s.tag /\ r.type = s.type
       /\ r.write => s.write \/ s.type = "CONNECTED"
       /\ KeptSlot(r, s) /\ (WellListed(s) => WellListed(r))
  <2>1. KeptSlot(w, s) /\ (WellListed(s) => WellListed(w))
    BY <1>8, <1>11, SameIsListed DEF KeptSlot, SameLists
  <2> QED BY <1>8, <1>11, <1>13, <2>1 DEF SameSocketAs
<1>15. slot' \in [Slots -> SlotTypes] /\ OnlySlot(id, r)
  BY <1>4, <1>13, PutIs DEF OnlySlot, Typed
<1>16. SlotsQuiet
  BY <1>6, <1>14, <1>15 DEF SlotsQuiet, OnlySlot, At
<1>17. \A x \in Slots : KeptSlot(slot'[x], slot[x]) /\ (slot[x].type \in Live => WellListed(slot'[x]))
  <2>1. \A x \in Slots : KeptSlot(slot[x], slot[x])
    BY DEF KeptSlot
  <2> QED BY <1>6, <1>14, <1>15, <2>1 DEF OnlySlot, At, Listed
<1>18. UNCHANGED <<thread, told, wire>>
  BY DEF SendSocket, kernel
<1>19. events' \subseteq Events /\ EventsRight' /\ wire' \in [Ids -> Seq(Unit)]
  <2>1. EventsQuiet
    BY <1>4 DEF EventsQuiet
  <2>2. EventsRight'
    BY <1>4, <1>16, <1>18, <2>1, EventsStay DEF Control
  <2> QED BY <1>4, <1>18, <2>2 DEF Typed
<1> QED BY <1>4, <1>15, <1>16, <1>17, <1>18, <1>19, QuietBase

\* force_close gets the lock: the types, the places of ids and requests, and the locks
LEMMA CloseFdBase ==
    ASSUME Base, CloseFd
    PROVE  Base'
<1> USE DEF Base
<1>1. thread.pc = "close" /\ thread.pc # "poll"
  BY DEF CloseFd
<1>2. PICK id \in Ids : id = thread.id
  BY <1>1, ThreadIs DEF Polling
<1>3. PICK q \in Seq(Requests) : q = pipe
  BY DEF Typed
<1>4. id \in Nat /\ HashId(id) \in Slots /\ At(id) \in SlotTypes
  BY IdsAre, AtIs DEF Typed
<1>5. PICK s \in SlotTypes : s = At(id)
  BY <1>4
<1>6. s.id = id /\ s.type \in Live /\ s.tcp /\ s.tag = Tag(id) /\ s.lock = None
  BY <1>1, <1>2, <1>4, <1>5 DEF Control, ThreadRight, Placed, At, CloseFd
<1>7. PICK r \in SlotTypes : r = Closed(s)
  BY ClosedIs
<1>8. SameSocketAs(r, s) /\ r.type = "INVALID" /\ r.write = FALSE
  BY <1>7, ClosedIs
<1>9. /\ Put(id, r) /\ thread' = [thread EXCEPT !.pc = "clear"]
      /\ UNCHANGED <<allocId, pipe, events, user, told, known, wire, sends>>
  BY <1>2, <1>5, <1>7 DEF CloseFd, kernel, count
<1>10. thread' = [pc |-> "clear", id |-> id]
  BY <1>1, <1>2, <1>9 DEF Typed, Polling
<1>11. Owned(id, r) /\ KeptSlot(r, s) /\ r.type \notin Live /\ r.type # "PACCEPT"
  BY <1>6, <1>8 DEF Owned, SameSocketAs, KeptSlot, Live
<1>12. ThreadOf(id, r) /\ ToldOf(id, r)
  BY <1>8, <1>9, <1>10 DEF ThreadOf, ToldOf, Live
<1>13. NoClaim(id, q)
  BY <1>3, <1>5, <1>6, OpenIsAlone DEF Live
<1>14. /\ allocId' \in 0..MaxId /\ allocId <= allocId' /\ id <= allocId'
  <2>1. allocId' = allocId /\ allocId \in 0..MaxId /\ allocId <= allocId
    BY <1>9, NumbersAssumption DEF Typed
  <2>2. id <= allocId
    BY <1>1, <1>2, ThreadIs DEF Control, Fresh
  <2> QED BY <2>1, <2>2
<1>15. /\ events' \subseteq Events /\ EventsQuiet /\ wire' \in [Ids -> Seq(Unit)]
       /\ known' \in [Users -> SUBSET Ids] /\ (\A u \in Users : known'[u] \subseteq known[u] \cup {id})
       /\ told' \in [Ids -> {"none", "open", "closed", "late"}]
  BY <1>9 DEF EventsQuiet, Typed
<1> QED BY <1>1, <1>3, <1>5, <1>9, <1>11, <1>12, <1>13, <1>14, <1>15, OwnBase

\* clear_closed_event: the types, the places of ids and requests, and the locks
LEMMA ClearEventsBase ==
    ASSUME Base, ClearEvents
    PROVE  Base'
<1> USE DEF Base
<1>1. thread.pc = "clear" /\ thread.pc # "poll"
  BY DEF ClearEvents
<1>2. PICK id \in Ids : id = thread.id
  BY <1>1, ThreadIs DEF Polling
<1>3. PICK q \in Seq(Requests) : q = pipe
  BY DEF Typed
<1>4. /\ told' = Told(id, "closed") /\ thread' = Polling /\ events' = events \ ClosedEvents(id)
      /\ UNCHANGED <<slot, allocId, pipe, user, known, wire, sends>>
  BY <1>2 DEF ClearEvents, kernel, count
<1>5. thread # Polling
  BY <1>1 DEF Polling
<1>6. id <= allocId
  BY <1>2, <1>5 DEF Control, Fresh
<1>7. At(id).id = id => At(id).type \notin Live
  BY <1>1, <1>2 DEF Control, ThreadRight
<1>8. \A u \in Users : user[u].pc = "reserved" => user[u].id # id
  BY <1>2, <1>5 DEF Control, Taken
<1>9. \A i \in DOMAIN q : q[i].cmd \in Opening => q[i].id # id
  BY <1>2, <1>3, <1>5 DEF Control, Requested
<1>10. EventsRight'
  <2> SUFFICES ASSUME NEW e \in events'
               PROVE  slot[e.slot].type # "PACCEPT" /\ slot[e.slot].type # "INVALID"
    BY <1>4 DEF EventsRight
  <2>1. e \in events /\ e \notin ClosedEvents(id) /\ e.slot \in Slots
    BY <1>4 DEF Typed, Events
  <2>2. ASSUME slot[e.slot].type = "INVALID" PROVE FALSE
    <3>1. slot[e.slot].id = id
      BY <1>2, <2>1, <2>2 DEF Control, EventsRight
    <3>2. e.slot = HashId(id)
      BY <2>1, <3>1 DEF Control, Placed
    <3> QED BY <2>1, <2>2, <3>1, <3>2 DEF ClosedEvents, At
  <2> QED BY <2>1, <2>2 DEF Control, EventsRight
<1>11. events' \subseteq Events
  BY <1>4 DEF Typed
<1> QED BY <1>3, <1>4, <1>6, <1>7, <1>8, <1>9, <1>10, <1>11, ToldBase

-----------------------------------------------------------------------------
(* The events *)

\* sp_wait: the types, the places of ids and requests, and the locks
LEMMA WaitBase ==
    ASSUME Base, Wait
    PROVE  Base'
<1> USE DEF Base
<1>1. PICK q \in Seq(Requests) : q = pipe
  BY DEF Typed
<1>2. UNCHANGED <<slot, allocId, pipe, thread, user, told, known, wire, sends>> /\ thread = Polling
  BY DEF Wait, kernel, count
<1>3. \A e \in events' : /\ e \in [slot : Slots, read : BOOLEAN, write : BOOLEAN] /\ (e.read \/ e.write)
                         /\ e.read = Readable(slot[e.slot]) /\ e.write = slot[e.slot].write
  BY DEF Wait
<1>4. events' \subseteq Events
  BY <1>3 DEF Events
<1>5. EventsRight'
  <2> SUFFICES ASSUME NEW e \in events' PROVE slot[e.slot].type \notin {"PACCEPT", "INVALID"}
    BY <1>2 DEF EventsRight
  <2>1. e.slot \in Slots /\ (Readable(slot[e.slot]) \/ slot[e.slot].write)
    BY <1>3
  <2>2. slot[e.slot].type \in {"PACCEPT", "INVALID"} => ~slot[e.slot].write
    BY <2>1 DEF Control, Placed
  <2>3. slot[e.slot].type \in {"PACCEPT", "INVALID"} => ~Readable(slot[e.slot])
    BY DEF Readable
  <2> QED BY <2>1, <2>2, <2>3
<1>6. wire' \in [Ids -> Seq(Unit)]
  BY <1>2 DEF Typed
<1> QED BY <1>1, <1>2, <1>4, <1>5, <1>6, SameBase

\* has_cmd finds none: the types, the places of ids and requests, and the locks
LEMMA NoCommandBase ==
    ASSUME Base, NoCommand
    PROVE  Base'
<1> USE DEF Base
<1>1. PICK q \in Seq(Requests) : q = pipe
  BY DEF Typed
<1>2. UNCHANGED <<slot, allocId, pipe, thread, events, user, told, known, wire, sends>>
  BY DEF NoCommand, kernel, count
<1>3. events' \subseteq Events /\ wire' \in [Ids -> Seq(Unit)]
  BY <1>2 DEF Typed
<1>4. EventsRight'
  BY <1>2 DEF EventsRight, Control
<1> QED BY <1>1, <1>2, <1>3, <1>4, SameBase

\* An event that is handled
LEMMA EventIs ==
    ASSUME Base, NEW e, AtEvent(e)
    PROVE  /\ thread = Polling /\ thread.pc = "poll" /\ e \in events /\ e \in Events /\ e.slot \in Slots
           /\ slot[e.slot] \in SlotTypes /\ slot[e.slot].type \notin {"INVALID", "PACCEPT"}
           /\ \A f \in events : slot[f.slot].type \notin {"INVALID", "PACCEPT"}
           /\ UNCHANGED <<pipe, user, sends>>
           /\ slot[e.slot].type # "RESERVE" => LET s == slot[e.slot] IN
                /\ s.type \in Live /\ s.id \in Ids /\ s.id \in Nat /\ s.tcp /\ s.tag = Tag(s.id)
                /\ e.slot = HashId(s.id) /\ At(s.id) = s /\ WellListed(s)
                /\ s.id <= allocId /\ told[s.id] # "closed" /\ (s.type = "CONNECTED" => told[s.id] = "open")
                /\ NoClaim(s.id, pipe)
<1> USE DEF Base
<1>1. thread = Polling /\ e \in events /\ UNCHANGED <<pipe, user, sends>> /\ thread.pc = "poll"
  BY DEF AtEvent, count, Polling
<1>2. e \in Events /\ e.slot \in Slots /\ slot[e.slot] \in SlotTypes
  BY <1>1 DEF Typed, Events
<1>3. \A f \in events : slot[f.slot].type \notin {"INVALID", "PACCEPT"}
  BY <1>1 DEF Control, EventsRight
<1>4. ASSUME slot[e.slot].type # "RESERVE"
      PROVE  LET s == slot[e.slot] IN
             /\ s.type \in Live /\ s.id \in Ids /\ s.id \in Nat /\ s.tcp /\ s.tag = Tag(s.id)
             /\ e.slot = HashId(s.id) /\ At(s.id) = s /\ WellListed(s)
             /\ s.id <= allocId /\ told[s.id] # "closed" /\ (s.type = "CONNECTED" => told[s.id] = "open")
             /\ NoClaim(s.id, pipe)
  <2>1. PICK s \in SlotTypes : s = slot[e.slot]
    BY <1>2
  <2>2. s.type \in Live
    BY <1>1, <1>3, <1>4, <2>1, SlotIs DEF Live
  <2>3. s.tcp /\ s.id \in Ids /\ s.tag = Tag(s.id) /\ e.slot = HashId(s.id)
    BY <1>2, <2>1, <2>2 DEF Control, Placed
  <2>4. At(s.id) = s /\ WellListed(s) /\ s.id <= allocId
    BY <1>2, <2>1, <2>2, <2>3 DEF At, Listed, Control, Fresh
  <2>5. told[s.id] # "closed" /\ (s.type = "CONNECTED" => told[s.id] = "open")
    BY <1>2, <2>1, <2>2, <2>3, <2>4 DEF Control, ToldRight
  <2>6. NoClaim(s.id, pipe)
    <3>1. PICK q \in Seq(Requests) : q = pipe
      BY DEF Typed
    <3> QED BY <2>2, <2>3, <2>4, <3>1, OpenIsAlone DEF Live
  <2> QED BY <2>1, <2>2, <2>3, <2>4, <2>5, <2>6, IdsAre
<1> QED BY <1>1, <1>2, <1>3, <1>4

\* force_close begins: the lists are freed
LEMMA ForceCloseBase ==
    ASSUME Base, NEW e, AtEvent(e), slot[e.slot].type # "RESERVE", ForceClose(slot[e.slot].id),
           events' \subseteq Events, EventsQuiet, UNCHANGED <<allocId, told, known, wire>>
    PROVE  Base'
<1> USE DEF Base
<1>1. PICK s \in SlotTypes : s = slot[e.slot]
  BY EventIs
<1>2. PICK id \in Ids : id = s.id
  BY <1>1, EventIs
<1>3. PICK q \in Seq(Requests) : q = pipe
  BY DEF Typed
<1>4. /\ thread = Polling /\ thread.pc = "poll" /\ UNCHANGED <<pipe, user, sends>>
      /\ s.type \notin {"INVALID", "PACCEPT"} /\ s.type \in Live /\ s.id = id /\ s.tcp /\ s.tag = Tag(id)
      /\ At(id) = s /\ WellListed(s) /\ id <= allocId
      /\ told[id] # "closed" /\ (s.type = "CONNECTED" => told[id] = "open") /\ NoClaim(id, q)
  BY <1>1, <1>2, <1>3, EventIs
<1>5. PICK r \in SlotTypes : r = Freed(s)
  BY FreedIs
<1>6. /\ SameSocketAs(r, s) /\ r.type = s.type /\ r.write = s.write /\ r.dw = s.dw
      /\ r.high = <<>> /\ r.low = <<>>
  BY <1>5, FreedIs
<1>7. Put(id, r) /\ thread' = [pc |-> "close", id |-> id]
  BY <1>1, <1>2, <1>4, <1>5 DEF ForceClose
<1>8. Owned(id, r)
  BY <1>4, <1>6 DEF Owned, SameSocketAs, Live
<1>9. KeptSlot(r, s) /\ WellListed(r)
  BY <1>4, <1>6 DEF KeptSlot, SameSocketAs, WellListed, Messages, Starts
<1>10. ThreadOf(id, r) /\ ToldOf(id, r)
  BY <1>4, <1>6, <1>7 DEF ThreadOf, ToldOf
<1>11. /\ allocId' \in 0..MaxId /\ allocId <= allocId' /\ id <= allocId'
       /\ wire' \in [Ids -> Seq(Unit)] /\ told' \in [Ids -> {"none", "open", "closed", "late"}]
       /\ known' \in [Users -> SUBSET Ids] /\ (\A u \in Users : known'[u] \subseteq known[u] \cup {id})
  <2>1. allocId' = allocId /\ allocId \in 0..MaxId /\ allocId <= allocId
    BY NumbersAssumption DEF Typed
  <2> QED BY <1>4, <2>1 DEF Typed
<1> QED BY <1>3, <1>4, <1>6, <1>7, <1>8, <1>9, <1>10, <1>11, OwnBase

\* report_connect: the types, the places of ids and requests, and the locks
LEMMA ReportConnectBase ==
    ASSUME Base, NEW e, ReportConnect(e)
    PROVE  Base'
<1> USE DEF Base
<1>0. AtEvent(e) /\ slot[e.slot].type = "CONNECTING" /\ UNCHANGED <<allocId, known, wire>> /\ events' = events \ {e}
  BY DEF ReportConnect, kernel
<1>1. PICK s \in SlotTypes : s = slot[e.slot]
  BY <1>0, EventIs
<1>2. PICK id \in Ids : id = s.id
  BY <1>0, <1>1, EventIs
<1>3. PICK q \in Seq(Requests) : q = pipe
  BY DEF Typed
<1>4. /\ thread = Polling /\ thread.pc = "poll" /\ UNCHANGED <<pipe, user, sends>>
      /\ s.type = "CONNECTING" /\ s.type \in Live /\ s.id = id /\ s.tcp /\ s.tag = Tag(id)
      /\ At(id) = s /\ WellListed(s) /\ id <= allocId /\ NoClaim(id, q)
  BY <1>0, <1>1, <1>2, <1>3, EventIs
<1>5. events' \subseteq Events /\ EventsQuiet
  BY <1>0 DEF Typed, EventsQuiet
<1>6. CASE ForceClose(s.id) /\ told' = told
  BY <1>0, <1>1, <1>5, <1>6, ForceCloseBase
<1>7. CASE /\ Put(s.id, [s EXCEPT !.type = "CONNECTED", !.write = @ /\ ~nomore_sending_data(s)])
           /\ told' = Told(s.id, "open") /\ thread' = thread
  <2>1. PICK w \in BOOLEAN : w = (s.write /\ ~nomore_sending_data(s))
    OBVIOUS
  <2>0. "CONNECTED" \in Types /\ "CONNECTED" \in Live
    BY DEF Types, Live
  <2>2. PICK r \in SlotTypes : r = [s EXCEPT !.type = "CONNECTED", !.write = w]
    BY <2>0, SetWrite
  <2>3. SameLists(r, s) /\ SameSocketAs(r, s) /\ r.type = "CONNECTED" /\ r.write = w
    BY <2>0, <2>2 DEF SlotTypes, SameLists, SameSocketAs
  <2>4. Put(id, r)
    BY <1>4, <1>7, <2>1, <2>2
  <2>5. Owned(id, r)
    BY <1>4, <2>3 DEF Owned, SameSocketAs
  <2>6. KeptSlot(r, s) /\ WellListed(r)
    BY <1>4, <2>3, SameIsListed DEF KeptSlot, SameSocketAs
  <2>7. /\ told' \in [Ids -> {"none", "open", "closed", "late"}]
        /\ \A i \in Ids : i # id => told'[i] = told[i]
        /\ told'[id] = "open"
    BY <1>4, <1>7, ToldIs DEF Control, ToldRight
  <2>8. ThreadOf(id, r) /\ ToldOf(id, r)
    BY <1>4, <1>7, <2>3, <2>7 DEF ThreadOf, ToldOf
  <2>9. /\ allocId' \in 0..MaxId /\ allocId <= allocId' /\ id <= allocId' /\ wire' \in [Ids -> Seq(Unit)]
        /\ known' \in [Users -> SUBSET Ids] /\ (\A u \in Users : known'[u] \subseteq known[u] \cup {id})
    <3>1. allocId' = allocId /\ allocId \in 0..MaxId /\ allocId <= allocId
      BY <1>0, NumbersAssumption DEF Typed
    <3> QED BY <1>0, <1>4, <3>1 DEF Typed
  <2> QED BY <1>3, <1>4, <1>5, <2>3, <2>4, <2>5, <2>6, <2>7, <2>8, <2>9, OwnBase
<1> QED BY <1>1, <1>6, <1>7 DEF ReportConnect

\* report_accept takes the slot of a new id
LEMMA ReportAcceptBase ==
    ASSUME Base, NEW e, ReportAccept(e), ~aborted'
    PROVE  Base'
<1> USE DEF Base
<1>0. /\ AtEvent(e) /\ UNCHANGED <<thread, told, wire>> /\ events' = events \ {e}
  BY DEF ReportAccept, kernel
<1>1. PICK q \in Seq(Requests) : q = pipe
  BY DEF Typed
<1>2. /\ thread = Polling /\ thread.pc = "poll" /\ UNCHANGED <<pipe, user, sends>>
      /\ \A f \in events : slot[f.slot].type \notin {"INVALID", "PACCEPT"}
  BY <1>0, EventIs
<1>3. events' \subseteq Events /\ EventsQuiet /\ wire' \in [Ids -> Seq(Unit)]
      /\ told' \in [Ids -> {"none", "open", "closed", "late"}]
  BY <1>0 DEF Typed, EventsQuiet
<1>4. CASE Reservable = {}
  <2>1. UNCHANGED <<slot, allocId, known>>
    BY <1>4 DEF ReportAccept
  <2>2. EventsRight'
    BY <1>0, <1>2, <2>1 DEF EventsRight
  <2> QED BY <1>0, <1>1, <1>2, <1>3, <2>1, <2>2, SameBase
<1>5. CASE Reservable # {}
  <2>1. PICK id \in Ids : id = NextId
    BY <1>5, NextIdIs
  <2>2. id > allocId /\ At(id).type = "INVALID" /\ id \in Nat /\ HashId(id) \in Slots /\ At(id) = slot[HashId(id)]
    BY <1>5, <2>1, NextIdIs, IdsAre DEF At
  <2>3. /\ Put(id, NewFd(id, "PACCEPT", FALSE)) /\ allocId' = id
        /\ known' = [u \in Users |-> known[u] \cup {id}] /\ Unsent(At(id)) = <<>>
    BY <1>5, <2>1 DEF ReportAccept
  <2>4. /\ Owned(id, NewFd(id, "PACCEPT", FALSE)) /\ KeptSlot(NewFd(id, "PACCEPT", FALSE), At(id))
        /\ WellListed(NewFd(id, "PACCEPT", FALSE)) /\ NewFd(id, "PACCEPT", FALSE) \in SlotTypes
        /\ NewFd(id, "PACCEPT", FALSE).type = "PACCEPT" /\ "PACCEPT" \in Live
    BY <2>2, <2>3, NewFdOwned
  <2>5. PICK r \in SlotTypes : r = NewFd(id, "PACCEPT", FALSE)
    BY <2>4
  <2>6. told[id] = "none"
    BY <2>2 DEF Control, Fresh, Typed
  <2>7. ThreadOf(id, r) /\ ToldOf(id, r)
    BY <1>0, <1>2, <2>4, <2>5, <2>6 DEF ThreadOf, ToldOf
  <2>8. NoClaim(id, q)
    BY <1>1, <2>2, OpenIsAlone
  <2>9. /\ allocId' \in 0..MaxId /\ allocId <= allocId' /\ id <= allocId'
        /\ known' \in [Users -> SUBSET Ids] /\ (\A u \in Users : known'[u] \subseteq known[u] \cup {id})
    <3>1. allocId' = id /\ id \in 0..MaxId /\ allocId <= id /\ id <= id
      BY <2>2, <2>3, NumbersAssumption DEF Typed, Ids
    <3>2. known \in [Users -> SUBSET Ids]
      BY DEF Typed
    <3> QED BY <2>3, <3>1, <3>2
  <2>10. \A f \in events : slot[f.slot].type = "PACCEPT" \/ f.slot # HashId(id)
    BY <1>2, <2>2
  <2> QED BY <1>0, <1>1, <1>2, <1>3, <2>3, <2>4, <2>5, <2>7, <2>8, <2>9, <2>10, OwnBase
<1> QED BY <1>4, <1>5

\* forward_message_tcp: the types, the places of ids and requests, and the locks
LEMMA ReadBase ==
    ASSUME Base, NEW e, Read(e)
    PROVE  Base'
<1> USE DEF Base
<1>0. AtEvent(e) /\ slot[e.slot].type \in Stream \cup {"PLISTEN"} /\ UNCHANGED <<allocId, known, wire>>
  BY DEF Read
<1>1. PICK s \in SlotTypes : s = slot[e.slot]
  BY <1>0, EventIs
<1>2. s.type # "RESERVE"
  BY <1>0, <1>1 DEF Stream
<1>3. PICK q \in Seq(Requests) : q = pipe
  BY DEF Typed
<1>4. CASE events' = events \ {e} /\ ForceClose(s.id) /\ told' = told
  <2>1. events' \subseteq Events /\ EventsQuiet
    BY <1>4 DEF Typed, EventsQuiet
  <2> QED BY <1>0, <1>1, <1>2, <1>4, <2>1, ForceCloseBase
<1>5. CASE /\ events' = (events \ {e}) \cup (IF e.write THEN {[e EXCEPT !.read = FALSE]} ELSE {})
           /\ told' = IF s.id \in inbox /\ s.type # "HALFCLOSE" THEN Told(s.id, "data") ELSE told
           /\ slot' = slot /\ thread' = thread
           /\ s.type # "PLISTEN"
  <2>1. /\ thread = Polling /\ thread.pc = "poll" /\ UNCHANGED <<pipe, user, sends>> /\ e \in Events
        /\ \A f \in events : slot[f.slot].type \notin {"INVALID", "PACCEPT"}
        /\ e \in events /\ s.type # "PACCEPT" /\ s.id \in Ids /\ (s.type = "CONNECTED" => told[s.id] = "open")
    BY <1>0, <1>1, <1>2, EventIs
  <2>2. told' = told
    <3>1. ASSUME s.type # "HALFCLOSE" PROVE told[s.id] = "open"
      BY <1>0, <1>1, <1>5, <2>1, <3>1 DEF Stream
    <3>2. ASSUME s.type # "HALFCLOSE" PROVE Told(s.id, "data") = told
      BY <2>1, <3>1, <3>2 DEF Told, Typed
    <3> QED BY <1>5, <3>2
  <2>3. PICK f \in Events : f = [e EXCEPT !.read = FALSE]
    BY <2>1 DEF Events
  <2>4. f.slot = e.slot /\ events' \subseteq events \cup {f}
    BY <1>5, <2>1, <2>3 DEF Events
  <2>5. events' \subseteq Events
    BY <2>4 DEF Typed
  <2>6. EventsRight'
    BY <1>5, <2>1, <2>4 DEF EventsRight
  <2>7. wire' \in [Ids -> Seq(Unit)]
    BY <1>0 DEF Typed
  <2> QED BY <1>0, <1>3, <1>5, <2>1, <2>2, <2>5, <2>6, <2>7, SameBase
<1> QED BY <1>1, <1>4, <1>5 DEF Read

\* send_buffer of a write event: the types, the places of ids and requests, and the locks
LEMMA WriteBase ==
    ASSUME Base, NEW e, Write(e)
    PROVE  Base'
<1> USE DEF Base
<1>0. /\ AtEvent(e) /\ slot[e.slot].type \in Stream \cup {"PLISTEN"} /\ UNCHANGED <<allocId, known, told>>
      /\ events' = events \ {e}
  BY DEF Write
<1>1. PICK s \in SlotTypes : s = slot[e.slot]
  BY <1>0, EventIs
<1>2. s.type # "RESERVE"
  BY <1>0, <1>1 DEF Stream
<1>3. PICK q \in Seq(Requests) : q = pipe
  BY DEF Typed
<1>4. PICK id \in Ids : id = s.id
  BY <1>0, <1>1, <1>2, EventIs
<1>5. /\ thread = Polling /\ thread.pc = "poll" /\ UNCHANGED <<pipe, user, sends>>
      /\ s.type \notin {"INVALID", "PACCEPT"} /\ s.type \in Live /\ s.id = id /\ s.tcp /\ s.tag = Tag(id)
      /\ At(id) = s /\ WellListed(s) /\ id <= allocId /\ e.slot = HashId(id) /\ id \in Nat
      /\ told[id] # "closed" /\ (s.type = "CONNECTED" => told[id] = "open") /\ NoClaim(id, q)
  BY <1>0, <1>1, <1>2, <1>3, <1>4, EventIs
<1>6. PICK r \in SendBuffer(s, 1) :
         /\ slot' = [slot EXCEPT ![e.slot] = r.slot]
         /\ wire' = [wire EXCEPT ![id] = @ \o r.units]
         /\ thread' = IF r.slot.type = "INVALID" THEN [pc |-> "clear", id |-> r.slot.id] ELSE thread
  BY <1>1, <1>4 DEF Write
<1>7. r \in SendBuffer(s, 1) \cup {Nothing(s)}
  OBVIOUS
<1>8. PICK t \in SlotTypes : t = r.slot
  BY <1>5, <1>7, OutcomeSlot
<1>9. /\ r.units \in Seq(Unit) /\ SameSocketAs(t, s)
      /\ t.type \in {s.type, "INVALID"} /\ (t.write => s.write)
      /\ t.type \in {"INVALID", "PACCEPT"} => ~t.write
      /\ KeptSlot(t, s) /\ (t.type \in Live => WellListed(t)) /\ t.type \in Live \cup {"INVALID"}
  BY <1>5, <1>7, <1>8, OutcomeSlot
<1>10. Put(id, t) /\ t.id = id
  BY <1>5, <1>6, <1>8, <1>9 DEF Put, SameSocketAs
<1>11. Owned(id, t) /\ t.type # "PACCEPT"
  BY <1>5, <1>9 DEF Owned, SameSocketAs, Live
<1>12. ThreadOf(id, t) /\ ToldOf(id, t)
  BY <1>0, <1>5, <1>6, <1>8, <1>9, <1>10 DEF ThreadOf, ToldOf
<1>13. /\ allocId' \in 0..MaxId /\ allocId <= allocId' /\ id <= allocId'
       /\ told' \in [Ids -> {"none", "open", "closed", "late"}]
       /\ known' \in [Users -> SUBSET Ids] /\ (\A u \in Users : known'[u] \subseteq known[u] \cup {id})
       /\ events' \subseteq Events /\ EventsQuiet
  <2>1. allocId' = allocId /\ allocId \in 0..MaxId /\ allocId <= allocId
    BY <1>0, NumbersAssumption DEF Typed
  <2> QED BY <1>0, <1>5, <2>1 DEF Typed, EventsQuiet
<1>14. wire' \in [Ids -> Seq(Unit)]
  BY <1>6, <1>9, WireIs
<1> QED BY <1>3, <1>5, <1>9, <1>10, <1>11, <1>12, <1>13, <1>14, OwnBase

\* An event of a closed socket: the types, the places of ids and requests, and the locks
LEMMA StaleBase ==
    ASSUME Base, NEW e, Stale(e)
    PROVE  Base'
<1> USE DEF Base
<1>0. AtEvent(e) /\ UNCHANGED <<slot, allocId, thread, told, known, wire>> /\ events' = events \ {e}
  BY DEF Stale, kernel
<1>1. PICK q \in Seq(Requests) : q = pipe
  BY DEF Typed
<1>2. /\ UNCHANGED <<pipe, user, sends>> /\ \A f \in events : slot[f.slot].type \notin {"INVALID", "PACCEPT"}
  BY <1>0, EventIs
<1>3. events' \subseteq Events /\ wire' \in [Ids -> Seq(Unit)]
  BY <1>0 DEF Typed
<1>4. EventsRight'
  BY <1>0, <1>2 DEF EventsRight
<1> QED BY <1>0, <1>1, <1>2, <1>3, <1>4, SameBase

\* The peers: the types, the places of ids and requests, and the locks
LEMMA PeerBase ==
    ASSUME Base, NEW id \in Ids, PeerSends(id) \/ PeerGoes(id)
    PROVE  Base'
<1> USE DEF Base
<1>1. UNCHANGED <<slot, pipe, thread, events, allocId, user, wire, told, known, sends>>
  BY DEF PeerSends, PeerGoes, server, count
<1>2. Typed' /\ Listed' /\ Locked'
  BY <1>1 DEF Typed, Listed, Locked, At
<1>3. SlotsQuiet /\ UsersQuiet
  BY <1>1 DEF SlotsQuiet, UsersQuiet
<1> QED BY <1>1, <1>2, <1>3, QuietControl DEF Typed

-----------------------------------------------------------------------------
(* The invariant holds *)

\* The first state: the types, the places of ids and requests, and the locks
LEMMA InitBase == Init => Base
<1> SUFFICES ASSUME Init PROVE Base
  OBVIOUS
<1>1. <<>> \in Seq(Unit) /\ <<>> \in Seq(Requests) /\ 0 \in 0..MaxId /\ 0 \in Nat /\ 0 \in Int /\ 0 \notin Ids
  BY NumbersAssumption DEF Ids
<1>2. PICK e \in Seq(Unit) : e = <<>>
  BY <1>1
<1>3. PICK z \in 0..MaxId : z = 0 /\ z \in Nat /\ z \in Int
  BY <1>1
<1>4. PICK s \in SlotTypes :
         s = [type |-> "INVALID", id |-> z, tcp |-> FALSE, high |-> e, low |-> e, wbSize |-> z,
              tag |-> z, sending |-> z, dw |-> e, lock |-> None, write |-> FALSE]
  BY <1>3 DEF SlotTypes, Types
<1>5. slot = [x \in Slots |-> s]
  BY <1>2, <1>3, <1>4 DEF Init
<1>6. s.type = "INVALID" /\ s.id = 0 /\ ~s.tcp /\ ~s.write
  BY <1>3, <1>4
<1>7. user = [u \in Users |-> Idle] /\ Idle.pc = "idle" /\ Idle \in UserTypes
  BY DEF Init, Idle, UserTypes
<1>8. thread = Polling /\ thread.pc = "poll" /\ pipe = <<>> /\ events = {} /\ allocId = 0 /\ sends = 0
      /\ told = [id \in Ids |-> "none"] /\ known = [u \in Users |-> {}] /\ wire = [id \in Ids |-> <<>>]
  BY DEF Init, Polling
<1>9. Typed
  <2>1. slot \in [Slots -> SlotTypes] /\ user \in [Users -> UserTypes] /\ wire \in [Ids -> Seq(Unit)]
    BY <1>1, <1>5, <1>7, <1>8
  <2>2. told \in [Ids -> {"none", "open", "closed", "late"}] /\ known \in [Users -> SUBSET Ids]
    BY <1>8
  <2> QED BY <1>1, <1>8, <2>1, <2>2 DEF Typed
<1>10. \A x \in Slots : slot[x].type = "INVALID" /\ slot[x].id = 0 /\ ~slot[x].tcp /\ ~slot[x].write
  BY <1>5, <1>6
<1>11. Listed
  BY <1>10 DEF Listed, Live
<1>12. \A u \in Users : user[u].pc = "idle"
  BY <1>7
<1>13. Locked
  BY <1>12 DEF Locked
<1>14. \A id \in Ids : HashId(id) \in Slots
  BY IdsAre
<1>15. Placed
  BY <1>1, <1>10 DEF Placed, Live
<1>16. Fresh(pipe)
  BY <1>8, <1>10, <1>12 DEF Fresh
<1>17. Taken(pipe) /\ Requested(pipe) /\ Addressed(pipe)
  BY <1>8, <1>12 DEF Taken, Requested, Addressed, Busy
<1>18. ThreadRight /\ ToldRight /\ EventsRight
  BY <1>8, <1>10 DEF ThreadRight, ToldRight, EventsRight
<1> QED BY <1>9, <1>11, <1>13, <1>15, <1>16, <1>17, <1>18 DEF Base, Control

\* The layers of the invariant hold while Sound does
SoundBase == Sound => Base

\* What the services and their workers do: the types, the places of ids and requests, and the locks
LEMMA UserStepBase ==
    ASSUME Base, NEW u \in Users, Service(u) \/ UserStep(u)
    PROVE  Base'
<1>1. ASSUME NEW cmd \in {"O", "L"}, Reserve(u, cmd) PROVE Base'
  BY <1>1, ReserveBase DEF Opening
<1>2. ASSUME NEW id \in Ids, NEW cmd \in {"S", "K", "shutdown"}, Ask(u, cmd, id) PROVE Base'
  BY <1>2, AskBase
<1>3. ASSUME NEW id \in Ids, NEW low \in BOOLEAN, Send(u, id, low) PROVE Base'
  BY <1>3, SendBase
<1> QED BY <1>1, <1>2, <1>3, ReservedBase, MayLockBase, TryLockBase, DirectWriteBase, KeepRestBase,
           SendingRefBase, SendRequestBase DEF Service, UserStep

\* What the socket thread does: the types, the places of ids and requests, and the locks
LEMMA PollBase ==
    ASSUME Base, Poll, Sound'
    PROVE  Base'
<1> USE DEF Sound
<1>1. CASE Command
  BY <1>1, OpenSocketBase, ListenSocketBase, StartSocketBase, CloseSocketBase, SendSocketBase DEF Command
<1>2. CASE CloseFd \/ ClearEvents \/ NoCommand \/ Wait
  BY <1>2, CloseFdBase, ClearEventsBase, NoCommandBase, WaitBase
<1>3. ASSUME NEW e \in events, ReportConnect(e) \/ ReportAccept(e) \/ Read(e) \/ Write(e) \/ Stale(e) PROVE Base'
  BY <1>3, ReportConnectBase, ReportAcceptBase, ReadBase, WriteBase, StaleBase
<1> QED BY <1>1, <1>2, <1>3 DEF Poll

\* An assertion that has failed, and a slot that was clobbered, stay so
LEMMA SoundBefore ==
    ASSUME Next, Sound'
    PROVE  Sound
<1> USE DEF Sound
<1>0. ~aborted
  BY DEF Next
<1>1. ASSUME NEW u \in Users, Service(u) \/ UserStep(u) PROVE clobbered' = clobbered
  BY <1>1 DEF Service, UserStep, Reserve, Ask, Send, Reserved, MayLock, TryLock, DirectWrite, KeepRest,
              SendingRef, SendRequest, over
<1>2. CASE Command
  <2>1. CASE CloseSocket
    BY <1>0, <2>1 DEF CloseSocket, over
  <2>2. CASE OpenSocket
    BY <1>0, <2>2 DEF OpenSocket
  <2>3. CASE ListenSocket
    BY <1>0, <2>3 DEF ListenSocket
  <2>4. CASE StartSocket
    BY <1>0, <2>4 DEF StartSocket, over
  <2>5. CASE SendSocket
    BY <1>0, <2>5 DEF SendSocket
  <2> QED BY <1>2, <2>1, <2>2, <2>3, <2>4, <2>5 DEF Command
<1>3. ASSUME CloseFd \/ ClearEvents \/ NoCommand \/ Wait PROVE clobbered' = clobbered
  BY <1>3 DEF CloseFd, ClearEvents, NoCommand, Wait, over
<1>4. ASSUME NEW e \in events, ReportConnect(e) \/ ReportAccept(e) \/ Read(e) \/ Write(e) \/ Stale(e)
      PROVE  clobbered' = clobbered
  BY <1>4 DEF ReportConnect, ReportAccept, Read, Write, Stale, over
<1>5. ASSUME NEW id \in Ids, PeerSends(id) \/ PeerGoes(id) PROVE clobbered' = clobbered
  BY <1>5 DEF PeerSends, PeerGoes, over
<1>6. CASE Poll
  BY <1>0, <1>2, <1>3, <1>4, <1>6 DEF Poll
<1> QED BY <1>0, <1>1, <1>5, <1>6 DEF Next

\* Every step: the types, the places of ids and requests, and the locks
LEMMA NextBase ==
    ASSUME Base, Next, Sound'
    PROVE  Base'
<1>1. ASSUME NEW u \in Users, Service(u) \/ UserStep(u) PROVE Base'
  BY <1>1, UserStepBase
<1>2. CASE Poll
  BY <1>2, PollBase
<1>3. ASSUME NEW id \in Ids, PeerSends(id) \/ PeerGoes(id) PROVE Base'
  BY <1>3, PeerBase
<1> QED BY <1>1, <1>2, <1>3 DEF Next

\* No step at all: the types, the places of ids and requests, and the locks
LEMMA StutterBase ==
    ASSUME Base, UNCHANGED vars
    PROVE  Base'
<1>1. UNCHANGED <<slot, pipe, thread, events, allocId, user, wire, told, known, sends>>
  BY DEF vars, server, kernel, count
<1>2. Typed' /\ Listed' /\ Locked'
  BY <1>1 DEF Base, Typed, Listed, Locked, At
<1>3. SlotsQuiet /\ UsersQuiet
  BY <1>1 DEF SlotsQuiet, UsersQuiet
<1> QED BY <1>1, <1>2, <1>3, QuietControl DEF Base, Typed

\* Whatever the services, the peers and the kernel do: the id of a slot, the lock of a
\* socket and what is asked of the thread fit together, until an assertion fails or
\* close_socket meets a slot that is being reserved
THEOREM Basic == Spec => []SoundBase
<1>1. Init => SoundBase
  BY InitBase DEF SoundBase
<1>2. SoundBase /\ [Next]_vars => SoundBase'
  <2> SUFFICES ASSUME SoundBase, [Next]_vars, Sound' PROVE Base'
    BY DEF SoundBase
  <2>1. CASE Next
    BY <2>1, SoundBefore, NextBase DEF SoundBase
  <2>2. CASE UNCHANGED vars
    <3>1. Sound
      BY <2>2 DEF Sound, vars, over
    <3> QED BY <2>2, <3>1, StutterBase DEF SoundBase
  <2> QED BY <2>1, <2>2
<1> QED BY <1>1, <1>2, PTL DEF Spec

\* A service hears of data only while its socket is open, for any number of slots,
\* sockets and services: the events of a closed socket are dropped before its slot is
\* given to another
THEOREM DataWhileOpenHolds == Spec => []DataWhileOpen
<1>1. SoundBase => DataWhileOpen
  BY DEF SoundBase, DataWhileOpen, Base, Control, ToldRight
<1> QED BY <1>1, Basic, PTL

-----------------------------------------------------------------------------
(* s->sending: the messages in the pipe, and those about to be.  The services    *)
(* may be without number, but those about to send are not                        *)

\* The messages to a socket that are in the pipe, and those about to be
InPipe(id, q) == {i \in DOMAIN q : q[i].cmd \in Message /\ q[i].id = id}
AtPipe(id, us) == {u \in Users : us[u].pc = "pipe" /\ us[u].m.to = id}

\* What SendingExact says of an open socket, of every slot in use
Counted ==
    /\ \A id \in Ids : IsFiniteSet(AtPipe(id, user))
    /\ \A i \in DOMAIN pipe : pipe[i].cmd \in Message => told[pipe[i].id] # "none"
    /\ \A x \in Slots : slot[x].tcp =>
          slot[x].sending = Cardinality(InPipe(slot[x].id, pipe)) + Cardinality(AtPipe(slot[x].id, user))

\* The messages to a socket in the pipe
LEMMA InPipeFinite ==
    ASSUME NEW q \in Seq(Requests), NEW id
    PROVE  IsFiniteSet(InPipe(id, q)) /\ Cardinality(InPipe(id, q)) \in Nat
<1>1. DOMAIN q = 1..Len(q) /\ Len(q) \in Nat /\ Len(q) \in Int /\ 1 \in Int
  OBVIOUS
<1>2. IsFiniteSet(DOMAIN q)
  BY <1>1, FS_Interval
<1>3. InPipe(id, q) \in SUBSET DOMAIN q
  BY DEF InPipe
<1>4. IsFiniteSet(InPipe(id, q))
  BY <1>2, <1>3, FS_Subset
<1> QED BY <1>4, FS_CardinalityType

\* A request is put into the pipe
LEMMA InPipeAppend ==
    ASSUME NEW q \in Seq(Requests), NEW r \in Requests, NEW id
    PROVE  Cardinality(InPipe(id, Append(q, r))) =
             IF r.cmd \in Message /\ r.id = id THEN Cardinality(InPipe(id, q)) + 1 ELSE Cardinality(InPipe(id, q))
<1>1. PICK p \in Seq(Requests) : p = Append(q, r)
  BY AppendIs
<1>2. /\ \A i \in DOMAIN p : (i \in DOMAIN q /\ p[i] = q[i]) \/ (i = Len(q) + 1 /\ p[i] = r)
      /\ \A i \in DOMAIN q : i \in DOMAIN p /\ i # Len(q) + 1 /\ p[i] = q[i]
      /\ Len(q) + 1 \in DOMAIN p /\ p[Len(q) + 1] = r
  BY <1>1, AppendIs
<1>3. CASE r.cmd \in Message /\ r.id = id
  <2>1. InPipe(id, p) = InPipe(id, q) \cup {Len(q) + 1}
    BY <1>2, <1>3 DEF InPipe
  <2>2. Len(q) + 1 \notin InPipe(id, q)
    BY <1>2 DEF InPipe
  <2>3. Cardinality(InPipe(id, q) \cup {Len(q) + 1}) = Cardinality(InPipe(id, q)) + 1
    BY <2>2, InPipeFinite, FS_AddElement
  <2> QED BY <1>1, <1>3, <2>1, <2>3
<1>4. CASE ~(r.cmd \in Message /\ r.id = id)
  <2>1. InPipe(id, p) = InPipe(id, q)
    BY <1>2, <1>4 DEF InPipe
  <2> QED BY <1>1, <1>4, <2>1
<1> QED BY <1>3, <1>4

\* ... and taken from it
LEMMA InPipeTail ==
    ASSUME NEW p \in Seq(Requests), p # <<>>, NEW id
    PROVE  Cardinality(InPipe(id, Tail(p))) =
             IF Head(p).cmd \in Message /\ Head(p).id = id THEN Cardinality(InPipe(id, p)) - 1
             ELSE Cardinality(InPipe(id, p))
<1>1. PICK q \in Seq(Requests) : q = Tail(p)
  BY TailIs
<1>2. /\ Head(p) = p[1] /\ 1 \in DOMAIN p
      /\ \A i \in DOMAIN q : i + 1 \in DOMAIN p /\ i + 1 # 1 /\ q[i] = p[i + 1]
      /\ \A i, j \in DOMAIN q : i + 1 = j + 1 => i = j
  BY <1>1, TailIs
<1>3. \A j \in DOMAIN p : j # 1 => \E i \in DOMAIN q : i + 1 = j
  <2>1. SUFFICES ASSUME NEW j \in DOMAIN p, j # 1 PROVE \E i \in DOMAIN q : i + 1 = j
    OBVIOUS
  <2>2. j - 1 \in DOMAIN q /\ (j - 1) + 1 = j
    BY <1>1, <2>1
  <2> QED BY <2>2
<1> DEFINE S == InPipe(id, q)
           T == InPipe(id, p) \ {1}
           f == [i \in S |-> i + 1]
<1>4. f \in Bijection(S, T)
  <2>1. \A i \in S : f[i] = i + 1 /\ i \in DOMAIN q
    BY DEF InPipe
  <2>2. f \in [S -> T]
    BY <1>2 DEF InPipe
  <2>3. \A a, b \in S : f[a] = f[b] => a = b
    BY <1>2, <2>1
  <2>4. \A t \in T : \E i \in S : f[i] = t
    <3>1. SUFFICES ASSUME NEW t \in T PROVE \E i \in S : f[i] = t
      OBVIOUS
    <3>2. PICK i \in DOMAIN q : i + 1 = t
      BY <1>3, <3>1 DEF InPipe
    <3>3. i \in S
      BY <1>2, <3>1, <3>2 DEF InPipe
    <3> QED BY <2>1, <3>2, <3>3
  <2> QED BY <2>2, <2>3, <2>4 DEF Bijection, Injection, IsInjective, Surjection
<1>5. IsFiniteSet(S) /\ IsFiniteSet(InPipe(id, p))
  BY InPipeFinite
<1>6. Cardinality(T) = Cardinality(S)
  <2>1. ExistsBijection(S, T)
    BY <1>4 DEF ExistsBijection
  <2> HIDE DEF S, T
  <2> QED BY <1>5, <2>1, FS_Bijection
<1>7. Cardinality(T) = IF 1 \in InPipe(id, p) THEN Cardinality(InPipe(id, p)) - 1 ELSE Cardinality(InPipe(id, p))
  BY <1>5, FS_RemoveElement
<1>8. 1 \in InPipe(id, p) <=> Head(p).cmd \in Message /\ Head(p).id = id
  BY <1>2 DEF InPipe
<1> QED BY <1>1, <1>6, <1>7, <1>8

\* A slot counts as before, or is new
SameCount(r, s) ==
    \/ r.id = s.id /\ r.tcp = s.tcp /\ r.sending = s.sending
    \/ ~r.tcp
    \/ r.sending = 0 /\ r.id \in Ids /\ told[r.id] = "none"

SlotsCount == \A x \in Slots : SameCount(slot'[x], slot[x])

ToldStays == \A id \in Ids : told[id] # "none" => told'[id] # "none"

\* Steps that neither count a message nor take one from the pipe
LEMMA CountedStays ==
    ASSUME Base, Counted, SlotsCount, ToldStays,
           \A id : Cardinality(InPipe(id, pipe')) = Cardinality(InPipe(id, pipe)),
           \A i \in DOMAIN pipe' : pipe'[i].cmd \in Message => \E j \in DOMAIN pipe : pipe'[i] = pipe[j],
           \A id \in Ids : AtPipe(id, user') = AtPipe(id, user)
    PROVE  Counted'
<1> USE DEF Base
<1>1. \A i \in DOMAIN pipe : pipe[i].id \in Ids
  BY RequestIs DEF Typed
<1>2. \A i \in DOMAIN pipe' : pipe'[i].cmd \in Message => told'[pipe'[i].id] # "none"
  BY <1>1 DEF Counted, ToldStays
<1>3. ASSUME NEW x \in Slots, slot'[x].tcp
      PROVE  slot'[x].sending = Cardinality(InPipe(slot'[x].id, pipe')) + Cardinality(AtPipe(slot'[x].id, user'))
  <2>1. CASE slot'[x].id = slot[x].id /\ slot'[x].tcp = slot[x].tcp /\ slot'[x].sending = slot[x].sending
    <3>1. slot[x].id \in Ids
      BY <1>3, <2>1 DEF Control, Placed
    <3> QED BY <1>3, <2>1, <3>1 DEF Counted
  <2>2. CASE slot'[x].sending = 0 /\ slot'[x].id \in Ids /\ told[slot'[x].id] = "none"
    <3>1. PICK id \in Ids : id = slot'[x].id
      BY <2>2
    <3>2. InPipe(id, pipe) = {}
      BY <2>2, <3>1 DEF InPipe, Counted
    <3>3. AtPipe(id, user) = {}
      BY <2>2, <3>1 DEF AtPipe, Control, Addressed, Busy
    <3>4. Cardinality(InPipe(id, pipe')) = 0 /\ Cardinality(AtPipe(id, user')) = 0
      BY <3>2, <3>3, FS_EmptySet
    <3> QED BY <2>2, <3>1, <3>4
  <2> QED BY <1>3, <2>1, <2>2 DEF SlotsCount, SameCount
<1>4. \A id \in Ids : IsFiniteSet(AtPipe(id, user'))
  BY DEF Counted
<1> QED BY <1>2, <1>3, <1>4 DEF Counted

\* The counts, when one slot changes
LEMMA PutCount ==
    ASSUME Typed, NEW id \in Ids, NEW r, Put(id, r), SameCount(r, At(id))
    PROVE  SlotsCount
<1>1. HashId(id) \in Slots
  BY IdsAre
<1> QED BY <1>1 DEF Put, Typed, SlotsCount, SameCount, At

\* ... when none does
LEMMA SameSlotsCount ==
    ASSUME UNCHANGED slot
    PROVE  SlotsCount
BY DEF SlotsCount, SameCount

\* Nobody is told less
LEMMA ToldGrows ==
    ASSUME Typed, NEW id \in Ids, NEW kind \in {"open", "closed", "data"}, told' = Told(id, kind)
    PROVE  ToldStays
BY DEF ToldStays, Told, Typed

\* The count, when nothing is sent
LEMMA CountedQuiet ==
    ASSUME Base, Counted, SlotsCount, ToldStays, UNCHANGED <<pipe, user>>
    PROVE  Counted'
<1>1. \A i \in DOMAIN pipe' : \E j \in DOMAIN pipe : pipe'[i] = pipe[j]
  OBVIOUS
<1>2. \A id \in Ids : AtPipe(id, user') = AtPipe(id, user)
  OBVIOUS
<1>3. \A id : Cardinality(InPipe(id, pipe')) = Cardinality(InPipe(id, pipe))
  OBVIOUS
<1> QED BY <1>1, <1>2, <1>3, CountedStays

\* ... by a command that is no message
LEMMA CountedCommand ==
    ASSUME Base, Counted, NEW cmds, AtCommand(cmds), cmds \cap Message = {}, SlotsCount, ToldStays
    PROVE  Counted'
<1>1. PICK p \in Seq(Requests) : p = pipe
  BY DEF Base, Typed
<1>2. p # <<>> /\ pipe' = Tail(p) /\ user' = user /\ Head(p).cmd \notin Message
  BY <1>1 DEF AtCommand
<1>3. \A id : Cardinality(InPipe(id, Tail(p))) = Cardinality(InPipe(id, p))
  BY <1>2, InPipeTail
<1>4. \A i \in DOMAIN Tail(p) : i + 1 \in DOMAIN p /\ Tail(p)[i] = p[i + 1]
  BY <1>2, TailIs
<1> QED BY <1>1, <1>2, <1>3, <1>4, CountedStays

\* The steps of a service between two sends
LEMMA CountedUser ==
    ASSUME Base, Counted, SlotsCount, NEW u \in Users, UNCHANGED <<pipe, told>>,
           user[u].pc # "pipe", user'[u].pc # "pipe", \A v \in Users : v # u => user'[v] = user[v]
    PROVE  Counted'
<1>1. \A id \in Ids : AtPipe(id, user') = AtPipe(id, user)
  BY DEF AtPipe
<1>2. \A i \in DOMAIN pipe' : \E j \in DOMAIN pipe : pipe'[i] = pipe[j]
  OBVIOUS
<1>3. \A id : Cardinality(InPipe(id, pipe')) = Cardinality(InPipe(id, pipe))
  OBVIOUS
<1> QED BY <1>1, <1>2, <1>3, CountedStays DEF ToldStays

\* ... by a request that is no message
LEMMA CountedPush ==
    ASSUME Base, Counted, SlotsCount, NEW r \in Requests, r.cmd \notin Message, pipe' = Append(pipe, r),
           UNCHANGED told, \A u \in Users : user'[u].pc = "pipe" \/ user[u].pc = "pipe" => user'[u] = user[u]
    PROVE  Counted'
<1>1. PICK p \in Seq(Requests) : p = pipe
  BY DEF Base, Typed
<1>2. \A id : Cardinality(InPipe(id, pipe')) = Cardinality(InPipe(id, pipe))
  BY <1>1, InPipeAppend
<1>3. \A i \in DOMAIN pipe' : pipe'[i].cmd \in Message => \E j \in DOMAIN pipe : pipe'[i] = pipe[j]
  BY <1>1, AppendIs
<1>4. \A id \in Ids : AtPipe(id, user') = AtPipe(id, user)
  BY DEF AtPipe
<1> QED BY <1>2, <1>3, <1>4, CountedStays DEF ToldStays

\* reserve_id takes a slot: the count of sending
LEMMA ReserveCounted ==
    ASSUME Base, Counted, NEW u \in Users, NEW cmd \in Opening, Reserve(u, cmd)
    PROVE  Counted'
<1> USE DEF Base
<1>1. PICK id \in Ids : id = NextId
  BY NextIdIs DEF Reserve
<1>2. Put(id, [At(id) EXCEPT !.type = "RESERVE"]) /\ At(id) \in SlotTypes
      /\ user' = [user EXCEPT ![u] = [pc |-> "reserved", cmd |-> cmd, id |-> id]]
      /\ UNCHANGED <<pipe, told>> /\ user[u] = Idle
  BY <1>1, IdsAre, AtIs DEF Reserve, Typed
<1>3. SameCount([At(id) EXCEPT !.type = "RESERVE"], At(id))
  BY <1>2, SetType DEF SameCount, SlotTypes
<1>4. SlotsCount
  BY <1>2, <1>3, PutCount
<1>5. user[u].pc # "pipe" /\ user'[u].pc # "pipe" /\ \A v \in Users : v # u => user'[v] = user[v]
  BY <1>2 DEF Typed, Idle
<1> QED BY <1>2, <1>4, <1>5, CountedUser

\* reserve_id stores the id, and the request is sent: the count of sending
LEMMA ReservedCounted ==
    ASSUME Base, Counted, NEW u \in Users, Reserved(u)
    PROVE  Counted'
<1> USE DEF Base
<1>1. PICK id \in Ids : id = user[u].id /\ user[u].pc = "reserved"
  BY UserIs DEF Reserved, Typed
<1>2. PICK c \in Opening : c = user[u].cmd
  BY <1>1, UserIs DEF Typed
<1>3. /\ Put(id, [At(id) EXCEPT !.id = id, !.tcp = FALSE]) /\ At(id) \in SlotTypes
      /\ pipe' = Append(pipe, [cmd |-> c, id |-> id, m |-> None])
      /\ user' = [user EXCEPT ![u] = Idle] /\ told' = told
  BY <1>1, <1>2, IdsAre, AtIs DEF Reserved, Typed, Request
<1>4. SameCount([At(id) EXCEPT !.id = id, !.tcp = FALSE], At(id))
  BY <1>3 DEF SameCount, SlotTypes
<1>5. SlotsCount
  BY <1>3, <1>4, PutCount
<1>6. PICK r \in Requests : r = [cmd |-> c, id |-> id, m |-> None]
  BY DEF Requests, Opening
<1>8. r.cmd \notin Message
  BY <1>6 DEF Opening, Message
<1>7. \A v \in Users : user'[v].pc = "pipe" \/ user[v].pc = "pipe" => user'[v] = user[v]
  BY <1>1, <1>3 DEF Typed, Idle
<1> QED BY <1>3, <1>5, <1>6, <1>7, <1>8, CountedPush

\* A call puts its request into the pipe: the count of sending
LEMMA AskCounted ==
    ASSUME Base, Counted, NEW u \in Users, NEW cmd \in {"S", "K", "shutdown"}, NEW id \in Ids, Ask(u, cmd, id)
    PROVE  Counted'
<1>1. PICK r \in Requests : r = [cmd |-> cmd, id |-> id, m |-> None]
  BY DEF Requests
<1>2. pipe' = Append(pipe, r) /\ UNCHANGED <<slot, user, told>>
  BY <1>1 DEF Ask, Request
<1>3. r.cmd \notin Message
  BY <1>1 DEF Message
<1> QED BY <1>2, <1>3, SameSlotsCount, CountedPush

\* socket_server_send begins: the count of sending
LEMMA SendCounted ==
    ASSUME Base, Counted, NEW u \in Users, NEW id \in Ids, NEW low \in BOOLEAN, Send(u, id, low)
    PROVE  Counted'
<1>1. UNCHANGED <<slot, pipe, told>> /\ user[u] = Idle
      /\ user' \in {user, [user EXCEPT ![u] = [pc |-> IF low THEN "ref" ELSE "direct",
                       m |-> [n |-> sends + 1, from |-> u, to |-> id, low |-> low]]]}
  BY DEF Send, server
<1>2. user[u].pc # "pipe" /\ user'[u].pc # "pipe" /\ \A v \in Users : v # u => user'[v] = user[v]
  BY <1>1 DEF Base, Typed, Idle
<1> QED BY <1>1, <1>2, SameSlotsCount, CountedUser

\* can_direct_write without the lock: the count of sending
LEMMA MayLockCounted ==
    ASSUME Base, Counted, NEW u \in Users, MayLock(u)
    PROVE  Counted'
<1>1. UNCHANGED <<slot, pipe, told>> /\ user[u].pc = "direct"
      /\ user' = [user EXCEPT ![u].pc = IF CanWrite(At(user[u].m.to), user[u].m.to) THEN "trylock" ELSE "ref"]
  BY DEF MayLock, server, Goto
<1>2. user[u].pc \in Busy \ {"rest"} /\ {"trylock", "ref"} \subseteq Busy \ {"rest"}
  BY <1>1 DEF Busy
<1>3. PICK pc \in {"trylock", "ref"} : Goto(u, pc)
  BY <1>1 DEF Goto
<1>4. user'[u].pc = pc /\ \A v \in Users : v # u => user'[v] = user[v]
  BY <1>2, <1>3, GotoIs DEF Base
<1> QED BY <1>1, <1>4, SameSlotsCount, CountedUser

\* socket_trylock: the count of sending
LEMMA TryLockCounted ==
    ASSUME Base, Counted, NEW u \in Users, TryLock(u)
    PROVE  Counted'
<1> USE DEF Base
<1>1. user[u].pc = "trylock" /\ user[u].pc \in Busy \ {"rest"} /\ {"locked", "ref"} \subseteq Busy \ {"rest"}
  BY DEF TryLock, Busy
<1>2. PICK id \in Ids : id = user[u].m.to
  BY <1>1, MessageTo
<1>3. At(id) \in SlotTypes /\ UNCHANGED <<pipe, told>>
  BY IdsAre, AtIs DEF TryLock, Typed
<1>4. slot' = slot \/ Put(id, [At(id) EXCEPT !.lock = u])
  BY <1>2 DEF TryLock
<1>5. SlotsCount
  BY <1>3, <1>4, SameSlotsCount, PutCount DEF SameCount, SlotTypes
<1>6. PICK pc \in {"locked", "ref"} : Goto(u, pc)
  BY <1>2 DEF TryLock
<1>7. user'[u].pc = pc /\ \A v \in Users : v # u => user'[v] = user[v]
  BY <1>1, <1>6, GotoIs
<1> QED BY <1>1, <1>3, <1>5, <1>7, CountedUser

\* The worker writes, or gives the lock back: the count of sending
LEMMA DirectWriteCounted ==
    ASSUME Base, Counted, NEW u \in Users, DirectWrite(u)
    PROVE  Counted'
<1> USE DEF Base
<1>1. user[u].pc = "locked" /\ user[u].pc \in Busy \ {"rest"} /\ "ref" \in Busy \ {"rest"}
  BY DEF DirectWrite, Busy
<1>2. PICK id \in Ids : id = user[u].m.to
  BY <1>1, MessageTo
<1>3. At(id) \in SlotTypes /\ UNCHANGED <<pipe, told>>
  BY IdsAre, AtIs DEF DirectWrite, Typed
<1>4. slot' = slot \/ Put(id, [At(id) EXCEPT !.lock = None])
  BY <1>2 DEF DirectWrite
<1>5. SlotsCount
  BY <1>3, <1>4, SameSlotsCount, PutCount DEF SameCount, SlotTypes
<1>6. \/ Goto(u, "ref") \/ user' = [user EXCEPT ![u] = Idle]
      \/ \E k : user' = [user EXCEPT ![u] = [pc |-> "rest", m |-> user[u].m, k |-> k]]
  BY DEF DirectWrite
<1>7. user'[u].pc # "pipe" /\ \A v \in Users : v # u => user'[v] = user[v]
  <2>1. CASE Goto(u, "ref")
    BY <1>1, <2>1, GotoIs
  <2>2. CASE user' = [user EXCEPT ![u] = Idle]
    BY <2>2 DEF Typed, Idle
  <2>3. ASSUME NEW k, user' = [user EXCEPT ![u] = [pc |-> "rest", m |-> user[u].m, k |-> k]]
        PROVE  user'[u].pc # "pipe" /\ \A v \in Users : v # u => user'[v] = user[v]
    BY <2>3 DEF Typed
  <2> QED BY <1>6, <2>1, <2>2, <2>3
<1> QED BY <1>1, <1>3, <1>5, <1>7, CountedUser

\* The rest of a direct write goes into dw_buffer: the count of sending
LEMMA KeepRestCounted ==
    ASSUME Base, Counted, NEW u \in Users, KeepRest(u)
    PROVE  Counted'
<1> USE DEF Base
<1>1. user[u].pc = "rest" /\ user[u].pc \in Busy
  BY DEF KeepRest, Busy
<1>2. PICK m \in Msgs : m = user[u].m
  BY <1>1, MessageTo
<1>3. PICK id \in Ids : id = m.to
  BY DEF Msgs
<1>4. PICK s \in SlotTypes : s = At(id)
  BY IdsAre, AtIs DEF Typed
<1>5. PICK k \in 0..Size - 1 : k = user[u].k
  BY <1>1, UserIs DEF Typed
<1>6. Put(id, WithRest(s, m, k)) /\ user' = [user EXCEPT ![u] = Idle] /\ UNCHANGED <<pipe, told>>
  BY <1>2, <1>3, <1>4, <1>5 DEF KeepRest
<1>7. SameCount(WithRest(s, m, k), s)
  BY WithRestIs DEF SameCount
<1>8. SlotsCount
  BY <1>4, <1>6, <1>7, PutCount
<1>9. user'[u].pc # "pipe" /\ \A v \in Users : v # u => user'[v] = user[v]
  BY <1>6 DEF Typed, Idle
<1> QED BY <1>1, <1>6, <1>8, <1>9, CountedUser

\* inc_sending_ref counts the message at the socket it is for, and at no other
LEMMA SendingRefCounted ==
    ASSUME Base, Counted, NEW u \in Users, SendingRef(u)
    PROVE  Counted'
<1> USE DEF Base
<1>1. user[u].pc = "ref" /\ user[u].pc \in Busy \ {"rest"} /\ "pipe" \in Busy \ {"rest"}
  BY DEF SendingRef, Busy
<1>2. PICK id \in Ids : id = user[u].m.to
  BY <1>1, MessageTo
<1>3. Goto(u, "pipe") /\ UNCHANGED <<pipe, told>>
  BY DEF SendingRef
<1>4. user'[u].pc = "pipe" /\ user'[u].m.to = id /\ \A v \in Users : v # u => user'[v] = user[v]
  BY <1>1, <1>2, <1>3, GotoIs
<1>5. AtPipe(id, user') = AtPipe(id, user) \cup {u} /\ u \notin AtPipe(id, user)
  BY <1>1, <1>4 DEF AtPipe
<1>6. \A other \in Ids : other # id => AtPipe(other, user') = AtPipe(other, user)
  BY <1>1, <1>4 DEF AtPipe
<1>7. IsFiniteSet(AtPipe(id, user')) /\ Cardinality(AtPipe(id, user')) = Cardinality(AtPipe(id, user)) + 1
  BY <1>5, FS_AddElement DEF Counted
<1>8. Cardinality(AtPipe(id, user)) \in Nat /\ Cardinality(InPipe(id, pipe)) \in Nat
  BY FS_CardinalityType, InPipeFinite DEF Counted, Typed
<1>9. PICK s \in SlotTypes : s = At(id)
  BY IdsAre, AtIs DEF Typed
<1>10. PICK n \in Int : n = s.sending + 1
  BY SlotIs
<1>11. PICK r \in SlotTypes : r = [s EXCEPT !.sending = n]
  BY SetSending
<1>12. r.id = s.id /\ r.tcp = s.tcp /\ r.sending = s.sending + 1
  BY <1>10, <1>11, SetSending
<1>13. IF SameSocket(s, id) THEN Put(id, r) ELSE slot' = slot
  BY <1>2, <1>9, <1>10, <1>11 DEF SendingRef
<1>14. HashId(id) \in Slots /\ id \in Nat /\ s = slot[HashId(id)]
  BY <1>9, IdsAre DEF At
<1>15. ASSUME NEW x \in Slots, slot[x].tcp, slot[x].id = id PROVE x = HashId(id) /\ SameSocket(s, id)
  BY <1>14, <1>15 DEF Control, Placed, SameSocket
<1>16. SameSocket(s, id) => s.tcp /\ s.id = id
  BY <1>14, IdsAre, SlotAndTag DEF Control, Placed, SameSocket
<1>17. ASSUME NEW x \in Slots, slot'[x].tcp
       PROVE  slot'[x].sending = Cardinality(InPipe(slot'[x].id, pipe)) + Cardinality(AtPipe(slot'[x].id, user'))
  <2>1. CASE SameSocket(s, id) /\ x = HashId(id)
    <3>1. slot'[x] = r
      BY <1>13, <1>14, <2>1 DEF Put, Typed
    <3>2. s.sending = Cardinality(InPipe(id, pipe)) + Cardinality(AtPipe(id, user))
      BY <1>14, <1>16, <2>1 DEF Counted
    <3> QED BY <1>7, <1>8, <1>12, <1>16, <2>1, <3>1, <3>2
  <2>2. CASE ~(SameSocket(s, id) /\ x = HashId(id))
    <3>1. slot'[x] = slot[x]
      BY <1>13, <1>14, <2>2 DEF Put, Typed
    <3>2. slot[x].id \in Ids /\ slot[x].id # id
      BY <1>15, <1>17, <2>2, <3>1 DEF Control, Placed
    <3> QED BY <1>6, <1>17, <3>1, <3>2 DEF Counted
  <2> QED BY <2>1, <2>2
<1> QED BY <1>3, <1>6, <1>7, <1>17 DEF Counted

\* The message goes into the pipe: the count of sending
LEMMA SendRequestCounted ==
    ASSUME Base, Counted, NEW u \in Users, SendRequest(u)
    PROVE  Counted'
<1> USE DEF Base
<1>1. user[u].pc = "pipe" /\ user[u].pc \in Busy
  BY DEF SendRequest, Busy
<1>2. PICK m \in Msgs : m = user[u].m
  BY <1>1, MessageTo
<1>3. PICK id \in Ids : id = m.to
  BY DEF Msgs
<1>4. PICK cmd \in Message : cmd = IF m.low THEN "P" ELSE "D"
  BY DEF Message
<1>5. PICK q \in Seq(Requests) : q = pipe
  BY DEF Typed
<1>6. PICK req \in Requests : req = [cmd |-> cmd, id |-> id, m |-> m]
  BY DEF Requests
<1>7. /\ pipe' = Append(q, req) /\ user' = [user EXCEPT ![u] = Idle] /\ UNCHANGED <<slot, told>>
  BY <1>2, <1>3, <1>4, <1>5, <1>6 DEF SendRequest, Request
<1>8. user'[u].pc = "idle" /\ \A v \in Users : v # u => user'[v] = user[v]
  BY <1>7 DEF Typed, Idle
<1>9. AtPipe(id, user') = AtPipe(id, user) \ {u} /\ u \in AtPipe(id, user)
  BY <1>1, <1>2, <1>3, <1>8 DEF AtPipe
<1>10. \A other \in Ids : other # id => AtPipe(other, user') = AtPipe(other, user)
  BY <1>2, <1>3, <1>8 DEF AtPipe
<1>11. IsFiniteSet(AtPipe(id, user')) /\ Cardinality(AtPipe(id, user')) = Cardinality(AtPipe(id, user)) - 1
  BY <1>9, FS_RemoveElement DEF Counted
<1>12. /\ Cardinality(AtPipe(id, user)) \in Nat
       /\ \A i : Cardinality(InPipe(i, q)) \in Nat
  BY FS_CardinalityType, InPipeFinite DEF Counted
<1>13. req.cmd \in Message /\ req.id = id
  BY <1>6
<1>14. /\ Cardinality(InPipe(id, Append(q, req))) = Cardinality(InPipe(id, q)) + 1
       /\ \A i \in Ids : i # id => Cardinality(InPipe(i, Append(q, req))) = Cardinality(InPipe(i, q))
  BY <1>13, InPipeAppend
<1>15. told[id] # "none"
  BY <1>1, <1>2, <1>3 DEF Control, Addressed
<1>16. \A i \in DOMAIN pipe' : pipe'[i].cmd \in Message => told[pipe'[i].id] # "none"
  <2>1. \A i \in DOMAIN pipe' : (i \in DOMAIN q /\ pipe'[i] = q[i]) \/ (i = Len(q) + 1 /\ pipe'[i] = req)
    BY <1>7, AppendIs
  <2> QED BY <1>5, <1>13, <1>15, <2>1 DEF Counted
<1>17. ASSUME NEW x \in Slots, slot[x].tcp
       PROVE  slot[x].sending = Cardinality(InPipe(slot[x].id, pipe')) + Cardinality(AtPipe(slot[x].id, user'))
  <2>1. slot[x].id \in Ids
    BY <1>17 DEF Control, Placed
  <2>2. slot[x].sending = Cardinality(InPipe(slot[x].id, q)) + Cardinality(AtPipe(slot[x].id, user))
    BY <1>5, <1>17 DEF Counted
  <2>3. CASE slot[x].id = id
    BY <1>7, <1>11, <1>12, <1>14, <2>2, <2>3
  <2>4. CASE slot[x].id # id
    BY <1>7, <1>10, <1>14, <2>1, <2>2, <2>4
  <2> QED BY <2>3, <2>4
<1>18. \A i \in Ids : IsFiniteSet(AtPipe(i, user'))
  BY <1>10, <1>11 DEF Counted
<1> QED BY <1>7, <1>16, <1>17, <1>18 DEF Counted

\* dec_sending_ref takes it off again
LEMMA SendSocketCounted ==
    ASSUME Base, Counted, SendSocket
    PROVE  Counted'
<1> USE DEF Base
<1>1. AtCommand({"D", "P"})
  BY DEF SendSocket
<1>2. PICK p \in Seq(Requests) : p = pipe
  BY DEF Typed
<1>3. PICK id \in Ids : id = Head(p).id
  BY <1>1, <1>2, CommandIs
<1>4. /\ p # <<>> /\ pipe' = Tail(p) /\ Head(p).cmd \in Message /\ Head(p) \in Requests
      /\ UNCHANGED <<user, told>>
  BY <1>1, <1>2, CommandIs DEF AtCommand, Message, SendSocket
<1>5. PICK m \in Msgs : m = Head(p).m
  BY <1>4, RequestIs
<1>6. PICK s \in SlotTypes : s = At(id)
  BY IdsAre, AtIs DEF Typed
<1>7. PICK t \in SlotTypes : t = Appended(s, id, m)
  BY AppendedListed
<1>8. t.id = s.id /\ t.tcp = s.tcp /\ t.sending = s.sending
  BY <1>7, AppendedListed DEF SameSocketAs
<1>9. PICK n \in Int : n = t.sending - 1
  BY SlotIs
<1>10. PICK w \in SlotTypes : w = [t EXCEPT !.sending = n]
  BY SetSending
<1>11. w.id = t.id /\ w.tcp = t.tcp /\ w.sending = n
  BY <1>10, SetSending
<1>12. Put(id, IF t.id = id /\ t.tcp THEN w ELSE t)
  BY <1>2, <1>3, <1>5, <1>6, <1>7, <1>9, <1>10 DEF SendSocket
<1>13. HashId(id) \in Slots /\ s = slot[HashId(id)]
  BY <1>6, IdsAre DEF At
<1>14. /\ Cardinality(InPipe(id, Tail(p))) = Cardinality(InPipe(id, p)) - 1
       /\ \A i \in Ids : i # id => Cardinality(InPipe(i, Tail(p))) = Cardinality(InPipe(i, p))
  BY <1>3, <1>4, InPipeTail
<1>15. Cardinality(AtPipe(id, user)) \in Nat /\ Cardinality(InPipe(id, p)) \in Nat
  BY FS_CardinalityType, InPipeFinite DEF Counted
<1>16. ASSUME NEW x \in Slots, slot'[x].tcp
       PROVE  slot'[x].sending = Cardinality(InPipe(slot'[x].id, Tail(p))) + Cardinality(AtPipe(slot'[x].id, user))
  <2>1. slot'[x].id = slot[x].id /\ slot'[x].tcp = slot[x].tcp
    BY <1>8, <1>11, <1>12, <1>13 DEF Put, Typed
  <2>2. slot[x].sending = Cardinality(InPipe(slot[x].id, p)) + Cardinality(AtPipe(slot[x].id, user))
    BY <1>2, <1>16, <2>1 DEF Counted
  <2>3. slot[x].id \in Ids /\ HashId(slot[x].id) = x
    BY <1>16, <2>1 DEF Control, Placed
  <2>4. CASE slot[x].id = id
    <3>1. x = HashId(id) /\ slot'[x] = w
      BY <1>8, <1>12, <1>13, <1>16, <2>1, <2>3, <2>4 DEF Put, Typed
    <3> QED BY <1>8, <1>9, <1>11, <1>13, <1>14, <1>15, <2>1, <2>2, <2>4, <3>1
  <2>5. CASE slot[x].id # id
    <3>1. slot'[x].sending = slot[x].sending
      BY <1>8, <1>12, <1>13, <2>5 DEF Put, Typed
    <3> QED BY <1>14, <2>1, <2>2, <2>3, <2>5, <3>1
  <2> QED BY <2>4, <2>5
<1>17. \A i \in DOMAIN Tail(p) : Tail(p)[i].cmd \in Message => told[Tail(p)[i].id] # "none"
  <2>1. \A i \in DOMAIN Tail(p) : i + 1 \in DOMAIN p /\ Tail(p)[i] = p[i + 1]
    BY <1>4, TailIs
  <2> QED BY <1>2, <2>1 DEF Counted
<1>18. \A i \in Ids : IsFiniteSet(AtPipe(i, user))
  BY DEF Counted
<1> QED BY <1>4, <1>16, <1>17, <1>18 DEF Counted

\* The other commands
LEMMA NewFdCount ==
    ASSUME Typed, NEW id \in Ids, NEW type \in Types, NEW write \in BOOLEAN, told[id] = "none"
    PROVE  SameCount(NewFd(id, type, write), At(id))
<1>1. NewFd(id, type, write).sending = 0 /\ NewFd(id, type, write).id = id
  BY NewFdIs DEF Typed
<1> QED BY <1>1 DEF SameCount

\* open_socket: the count of sending
LEMMA OpenSocketCounted ==
    ASSUME Base, Counted, OpenSocket
    PROVE  Counted'
<1> USE DEF Base
<1>1. AtCommand({"O"}) /\ {"O"} \cap Message = {}
  BY DEF OpenSocket, Message
<1>2. PICK q \in Seq(Requests) : q = Tail(pipe)
  BY <1>1, CommandIs
<1>3. PICK id \in Ids : id = Head(pipe).id
  BY <1>1, CommandIs
<1>4. At(id) \in SlotTypes /\ Head(pipe).cmd = "O" /\ thread = Polling /\ {"CONNECTED", "CONNECTING", "INVALID"} \subseteq Types
  BY <1>1, <1>3, CommandIs DEF Types
<1>5. told[id] = "none"
  BY <1>1, <1>2, <1>3, <1>4, OpeningIsAlone DEF AtCommand, Opening
<1>6. \/ Put(id, [At(id) EXCEPT !.type = "INVALID"]) /\ told' = told
      \/ Put(id, NewFd(id, "CONNECTED", FALSE)) /\ told' = Told(id, "open")
      \/ Put(id, NewFd(id, "CONNECTING", TRUE)) /\ told' = told
  BY <1>3 DEF OpenSocket
<1>7. ToldStays
  BY <1>6, ToldGrows DEF ToldStays
<1>8. SameCount([At(id) EXCEPT !.type = "INVALID"], At(id))
  BY <1>4, SetType DEF SameCount, SameSocketAs
<1>9. SlotsCount
  BY <1>4, <1>5, <1>6, <1>8, NewFdCount, PutCount
<1> QED BY <1>1, <1>7, <1>9, CountedCommand

\* listen_socket: the count of sending
LEMMA ListenSocketCounted ==
    ASSUME Base, Counted, ListenSocket
    PROVE  Counted'
<1> USE DEF Base
<1>1. AtCommand({"L"}) /\ {"L"} \cap Message = {}
  BY DEF ListenSocket, Message
<1>2. PICK q \in Seq(Requests) : q = Tail(pipe)
  BY <1>1, CommandIs
<1>3. PICK id \in Ids : id = Head(pipe).id
  BY <1>1, CommandIs
<1>4. At(id) \in SlotTypes /\ Head(pipe).cmd = "L" /\ thread = Polling /\ "PLISTEN" \in Types
  BY <1>1, <1>3, CommandIs DEF Types
<1>5. told[id] = "none"
  BY <1>1, <1>2, <1>3, <1>4, OpeningIsAlone DEF AtCommand, Opening
<1>6. Put(id, NewFd(id, "PLISTEN", FALSE)) /\ told' = told
  BY <1>3 DEF ListenSocket
<1>7. SlotsCount
  BY <1>4, <1>5, <1>6, NewFdCount, PutCount
<1> QED BY <1>1, <1>6, <1>7, CountedCommand DEF ToldStays

\* start_socket: the count of sending
LEMMA StartSocketCounted ==
    ASSUME Base, Counted, StartSocket
    PROVE  Counted'
<1> USE DEF Base
<1>1. AtCommand({"S"}) /\ {"S"} \cap Message = {}
  BY DEF StartSocket, Message
<1>2. PICK id \in Ids : id = Head(pipe).id
  BY <1>1, CommandIs
<1>3. told' = told \/ told' = Told(id, "closed") \/ told' = Told(id, "open")
  BY <1>2 DEF StartSocket
<1>4. ToldStays
  BY <1>3, ToldGrows DEF ToldStays
<1>5. \/ slot' = slot \/ Put(id, Freed(At(id)))
      \/ \E type \in {"CONNECTED", "LISTEN"} : slot' = [slot EXCEPT ![HashId(id)].type = type]
  BY <1>2 DEF StartSocket, ForceClose
<1>6. ASSUME NEW type \in {"CONNECTED", "LISTEN"}, slot' = [slot EXCEPT ![HashId(id)].type = type] PROVE SlotsCount
  <2>1. type \in Types /\ At(id) \in SlotTypes
    BY IdsAre, AtIs DEF Types, Typed
  <2>2. Put(id, [At(id) EXCEPT !.type = type])
    BY <1>6 DEF Put, At
  <2>3. SameCount([At(id) EXCEPT !.type = type], At(id))
    BY <2>1, SetType DEF SameCount, SameSocketAs
  <2> QED BY <2>2, <2>3, PutCount
<1>8. ASSUME Put(id, Freed(At(id))) PROVE SlotsCount
  <2>1. At(id) \in SlotTypes
    BY IdsAre, AtIs DEF Typed
  <2> QED BY <1>8, <2>1, FreedIs, PutCount DEF SameCount, SameSocketAs
<1>7. SlotsCount
  BY <1>5, <1>6, <1>8, SameSlotsCount
<1> QED BY <1>1, <1>4, <1>7, CountedCommand

\* close_socket: the count of sending
LEMMA CloseSocketCounted ==
    ASSUME Base, Counted, CloseSocket, ~clobbered'
    PROVE  Counted'
<1> USE DEF Base
<1>1. AtCommand({"K", "shutdown"}) /\ {"K", "shutdown"} \cap Message = {}
  BY DEF CloseSocket, Message
<1>2. PICK id \in Ids : id = Head(pipe).id
  BY <1>1, CommandIs
<1>3. PICK s \in SlotTypes : s = At(id)
  BY <1>1, <1>2, CommandIs
<1>4. told' = told \/ told' = Told(id, "closed")
  BY <1>2 DEF CloseSocket
<1>5. ToldStays
  BY <1>4, ToldGrows DEF ToldStays
<1>6. CASE ~IsOpen(id)
  <2>1. slot' = slot
    BY <1>2, <1>6 DEF CloseSocket
  <2> QED BY <1>1, <1>5, <2>1, SameSlotsCount, CountedCommand
<1>7. CASE IsOpen(id)
  <2>1. PICK r \in SendBuffer(s, 0) \cup {Nothing(s)} :
          /\ \/ Put(id, r.slot) \/ Put(id, [r.slot EXCEPT !.type = "HALFCLOSE"]) \/ Put(id, Freed(r.slot))
          /\ clobbered' = (clobbered \/ (s.type = "RESERVE"))
    <3>1. SendBuffer(s, 0) \subseteq SendBuffer(s, 0) \cup {Nothing(s)} /\ Nothing(s) \in SendBuffer(s, 0) \cup {Nothing(s)}
      OBVIOUS
    <3> QED BY <1>2, <1>3, <1>7, <3>1 DEF CloseSocket
  <2>2. s.type \in Live /\ s.id = id
    BY <1>3, <1>7, <2>1, SlotIs DEF IsOpen, Live
  <2>3. (s.type = "PACCEPT" => ~s.write) /\ WellListed(s)
    BY <1>3, <2>2, IdsAre DEF Control, Placed, Listed, At
  <2>4. PICK t \in SlotTypes : t = r.slot
    BY <2>2, <2>3, OutcomeSlot
  <2>5. SameSocketAs(t, s)
    BY <2>2, <2>3, <2>4, OutcomeSlot
  <2>6. SameSocketAs([t EXCEPT !.type = "HALFCLOSE"], t) /\ SameSocketAs(Freed(t), t)
    BY SetType, FreedIs DEF Types
  <2>7. PICK w : Put(id, w) /\ SameSocketAs(w, s)
    BY <2>1, <2>4, <2>5, <2>6 DEF SameSocketAs
  <2>8. SlotsCount
    BY <1>3, <2>7, PutCount DEF SameCount, SameSocketAs
  <2> QED BY <1>1, <1>5, <2>8, CountedCommand
<1> QED BY <1>6, <1>7

\* force_close gets the lock: the count of sending
LEMMA CloseFdCounted ==
    ASSUME Base, Counted, CloseFd
    PROVE  Counted'
<1> USE DEF Base
<1>1. PICK id \in Ids : id = thread.id
  BY ThreadIs DEF Polling, CloseFd
<1>2. At(id) \in SlotTypes
  BY IdsAre, AtIs DEF Typed
<1>3. Put(id, Closed(At(id))) /\ UNCHANGED <<pipe, user, told>>
  BY <1>1 DEF CloseFd
<1>4. SlotsCount
  BY <1>2, <1>3, ClosedIs, PutCount DEF SameCount, SameSocketAs
<1> QED BY <1>3, <1>4, CountedQuiet DEF ToldStays

\* force_close begins: the count of sending
LEMMA ForceCloseCounted ==
    ASSUME Base, Counted, NEW id \in Ids, ForceClose(id), UNCHANGED <<pipe, user, told>>
    PROVE  Counted'
<1>1. At(id) \in SlotTypes /\ Put(id, Freed(At(id)))
  BY IdsAre, AtIs DEF Typed, Base, ForceClose
<1>2. SlotsCount
  BY <1>1, FreedIs, PutCount DEF SameCount, SameSocketAs, Base
<1> QED BY <1>2, CountedQuiet DEF ToldStays

\* report_connect: the count of sending
LEMMA ReportConnectCounted ==
    ASSUME Base, Counted, NEW e, ReportConnect(e)
    PROVE  Counted'
<1> USE DEF Base
<1>0. AtEvent(e) /\ slot[e.slot].type = "CONNECTING"
  BY DEF ReportConnect
<1>1. PICK s \in SlotTypes : s = slot[e.slot]
  BY <1>0, EventIs
<1>2. PICK id \in Ids : id = s.id
  BY <1>0, <1>1, EventIs
<1>3. At(id) = s /\ UNCHANGED <<pipe, user>>
  BY <1>0, <1>1, <1>2, EventIs
<1>4. CASE ForceClose(s.id) /\ told' = told
  BY <1>2, <1>3, <1>4, ForceCloseCounted
<1>5. CASE /\ Put(s.id, [s EXCEPT !.type = "CONNECTED", !.write = @ /\ ~nomore_sending_data(s)])
           /\ told' = Told(s.id, "open")
  <2>1. SameCount([s EXCEPT !.type = "CONNECTED", !.write = @ /\ ~nomore_sending_data(s)], s)
    BY DEF SameCount, SlotTypes
  <2>2. SlotsCount
    BY <1>2, <1>3, <1>5, <2>1, PutCount
  <2> QED BY <1>2, <1>3, <1>5, <2>2, ToldGrows, CountedQuiet
<1> QED BY <1>1, <1>4, <1>5 DEF ReportConnect

\* report_accept: the count of sending
LEMMA ReportAcceptCounted ==
    ASSUME Base, Counted, NEW e, ReportAccept(e)
    PROVE  Counted'
<1> USE DEF Base
<1>1. UNCHANGED <<pipe, user, told>>
  BY DEF ReportAccept, AtEvent
<1>2. CASE Reservable = {}
  BY <1>1, <1>2, SameSlotsCount, CountedQuiet DEF ReportAccept, ToldStays
<1>3. CASE Reservable # {}
  <2>1. PICK id \in Ids : id = NextId
    BY <1>3, NextIdIs
  <2>2. id > allocId /\ id \in Nat /\ "PACCEPT" \in Types
    BY <1>3, <2>1, NextIdIs, IdsAre DEF Types
  <2>3. Put(id, NewFd(id, "PACCEPT", FALSE))
    BY <1>3, <2>1 DEF ReportAccept
  <2>4. told[id] = "none"
    BY <2>2 DEF Control, Fresh, Typed
  <2>5. SlotsCount
    BY <2>2, <2>3, <2>4, NewFdCount, PutCount
  <2> QED BY <1>1, <2>5, CountedQuiet DEF ToldStays
<1> QED BY <1>2, <1>3

\* forward_message_tcp: the count of sending
LEMMA ReadCounted ==
    ASSUME Base, Counted, NEW e, Read(e)
    PROVE  Counted'
<1> USE DEF Base
<1>0. AtEvent(e) /\ slot[e.slot].type \in Stream \cup {"PLISTEN"}
  BY DEF Read
<1>1. slot[e.slot].type # "RESERVE"
  BY <1>0 DEF Stream
<1>2. PICK id \in Ids : id = slot[e.slot].id
  BY <1>0, <1>1, EventIs
<1>3. UNCHANGED <<pipe, user>>
  BY <1>0, EventIs
<1>4. \/ ForceClose(id) /\ told' = told
      \/ slot' = slot /\ (told' = told \/ told' = Told(id, "data"))
  BY <1>2 DEF Read
<1>5. CASE ForceClose(id) /\ told' = told
  BY <1>3, <1>5, ForceCloseCounted
<1>6. CASE slot' = slot /\ (told' = told \/ told' = Told(id, "data"))
  <2>1. ToldStays
    BY <1>6, ToldGrows DEF ToldStays
  <2> QED BY <1>3, <1>6, <2>1, SameSlotsCount, CountedQuiet
<1> QED BY <1>4, <1>5, <1>6

\* send_buffer of a write event: the count of sending
LEMMA WriteCounted ==
    ASSUME Base, Counted, NEW e, Write(e)
    PROVE  Counted'
<1> USE DEF Base
<1>0. AtEvent(e) /\ slot[e.slot].type \in Stream \cup {"PLISTEN"} /\ told' = told
  BY DEF Write
<1>1. PICK s \in SlotTypes : s = slot[e.slot]
  BY <1>0, EventIs
<1>2. s.type # "RESERVE"
  BY <1>0, <1>1 DEF Stream
<1>3. PICK id \in Ids : id = s.id
  BY <1>0, <1>1, <1>2, EventIs
<1>4. /\ UNCHANGED <<pipe, user>> /\ s.type # "PACCEPT" /\ s.type \in Live
      /\ At(id) = s /\ WellListed(s) /\ e.slot = HashId(id)
  BY <1>0, <1>1, <1>2, <1>3, EventIs
<1>5. PICK r \in SendBuffer(s, 1) : slot' = [slot EXCEPT ![e.slot] = r.slot]
  BY <1>1 DEF Write
<1>6. r \in SendBuffer(s, 1) \cup {Nothing(s)}
  OBVIOUS
<1>7. SameSocketAs(r.slot, s)
  BY <1>4, <1>6, OutcomeSlot
<1>8. Put(id, r.slot)
  BY <1>4, <1>5 DEF Put
<1>9. SlotsCount
  BY <1>4, <1>7, <1>8, PutCount DEF SameCount, SameSocketAs
<1> QED BY <1>0, <1>4, <1>9, CountedQuiet DEF ToldStays

\* Steps that leave the slots and the pipe
LEMMA OtherCounted ==
    ASSUME Base, Counted,
           ClearEvents \/ NoCommand \/ Wait \/ (\E e \in events : Stale(e)) \/ (\E id \in Ids : PeerSends(id) \/ PeerGoes(id))
    PROVE  Counted'
<1>1. UNCHANGED <<slot, pipe, user>>
  BY DEF ClearEvents, NoCommand, Wait, Stale, AtEvent, PeerSends, PeerGoes, server
<1>2. told' = told \/ \E id \in Ids : told' = Told(id, "closed")
  <2>1. CASE ClearEvents
    <3>1. PICK id \in Ids : id = thread.id
      BY <2>1, ThreadIs DEF Polling, ClearEvents, Base
    <3> QED BY <2>1, <3>1 DEF ClearEvents
  <2>2. CASE ~ClearEvents
    BY <2>2 DEF NoCommand, Wait, Stale, PeerSends, PeerGoes
  <2> QED BY <2>1, <2>2
<1>3. ToldStays
  BY <1>2, ToldGrows DEF ToldStays, Base
<1> QED BY <1>1, <1>3, SameSlotsCount, CountedQuiet

\* Every step: the count of sending
LEMMA NextCounted ==
    ASSUME Base, Counted, Next, Sound'
    PROVE  Counted'
<1>1. ASSUME NEW u \in Users, Service(u) \/ UserStep(u) PROVE Counted'
  <2>1. ASSUME NEW cmd \in {"O", "L"}, Reserve(u, cmd) PROVE Counted'
    BY <2>1, ReserveCounted DEF Opening
  <2>2. ASSUME NEW id \in Ids, NEW cmd \in {"S", "K", "shutdown"}, Ask(u, cmd, id) PROVE Counted'
    BY <2>2, AskCounted
  <2>3. ASSUME NEW id \in Ids, NEW low \in BOOLEAN, Send(u, id, low) PROVE Counted'
    BY <2>3, SendCounted
  <2> QED BY <1>1, <2>1, <2>2, <2>3, ReservedCounted, MayLockCounted, TryLockCounted, DirectWriteCounted,
             KeepRestCounted, SendingRefCounted, SendRequestCounted DEF Service, UserStep
<1>2. CASE Command
  BY <1>2, OpenSocketCounted, ListenSocketCounted, StartSocketCounted, CloseSocketCounted, SendSocketCounted
     DEF Command, Sound
<1>3. CASE CloseFd \/ ClearEvents \/ NoCommand \/ Wait
  BY <1>3, CloseFdCounted, OtherCounted
<1>4. ASSUME NEW e \in events, ReportConnect(e) \/ ReportAccept(e) \/ Read(e) \/ Write(e) \/ Stale(e) PROVE Counted'
  BY <1>4, ReportConnectCounted, ReportAcceptCounted, ReadCounted, WriteCounted, OtherCounted
<1>5. ASSUME NEW id \in Ids, PeerSends(id) \/ PeerGoes(id) PROVE Counted'
  BY <1>5, OtherCounted
<1> QED BY <1>1, <1>2, <1>3, <1>4, <1>5 DEF Next, Poll

\* The first state: the count of sending
LEMMA InitCounted == Init => Counted
<1> SUFFICES ASSUME Init PROVE Counted
  OBVIOUS
<1>1. pipe = <<>> /\ user = [u \in Users |-> Idle] /\ Idle.pc = "idle"
  BY DEF Init, Idle
<1>2. \A x \in Slots : ~slot[x].tcp
  BY DEF Init
<1>3. \A id \in Ids : AtPipe(id, user) = {}
  BY <1>1 DEF AtPipe
<1>4. \A id \in Ids : IsFiniteSet(AtPipe(id, user))
  <2>1. IsFiniteSet({})
    BY FS_EmptySet
  <2> QED BY <1>3, <2>1
<1>5. \A i \in DOMAIN pipe : FALSE
  BY <1>1
<1> QED BY <1>2, <1>4, <1>5 DEF Counted

SoundCount == Sound => Counted

\* The messages that s->sending counts are those in the pipe and those about to be
THEOREM Counting == Spec => [](SoundBase /\ SoundCount)
<1>1. Init => SoundBase /\ SoundCount
  BY InitBase, InitCounted DEF SoundBase, SoundCount
<1>2. SoundBase /\ SoundCount /\ [Next]_vars => (SoundBase /\ SoundCount)'
  <2> SUFFICES ASSUME SoundBase, SoundCount, [Next]_vars, Sound' PROVE Base' /\ Counted'
    BY DEF SoundBase, SoundCount
  <2>1. CASE Next
    BY <2>1, SoundBefore, NextBase, NextCounted DEF SoundBase, SoundCount
  <2>2. CASE UNCHANGED vars
    <3>1. Sound
      BY <2>2 DEF Sound, vars, over
    <3>2. UNCHANGED <<slot, pipe, user, told>>
      BY <2>2 DEF vars, server
    <3> QED BY <2>2, <3>1, <3>2, StutterBase DEF SoundBase, SoundCount, Counted
  <2> QED BY <2>1, <2>2
<1> QED BY <1>1, <1>2, PTL DEF Spec

\* s->sending counts the messages on the way to the socket, and no others, for any number
\* of services and sockets, though slots are used again: the assertion of
\* dec_sending_ref, and what a direct write relies on
THEOREM SendingExactHolds == Spec => []SendingExact
<1>1. SoundBase /\ SoundCount => SendingExact
  <2> SUFFICES ASSUME Base, Counted, NEW id \in Ids, IsOpen(id), At(id).tcp
               PROVE  At(id).sending = Cardinality(InPipe(id, pipe)) + Cardinality(AtPipe(id, user))
    BY DEF SoundBase, SoundCount, SendingExact, InPipe, AtPipe, Message
  <2>1. HashId(id) \in Slots
    BY IdsAre
  <2> QED BY <2>1 DEF Counted, IsOpen, At
<1> QED BY <1>1, Counting, PTL

-----------------------------------------------------------------------------
(* What is written to a connection.  A list follows what was written when its     *)
(* first unit is the next one of the message that was written last, or when       *)
(* that message is written whole and the list begins with another                 *)

\* q is what follows w on the connection: it goes on where w stops
Follows(w, q, closing) ==
    IF q # <<>> /\ q[1].u > 1
    THEN w # <<>> /\ w[Len(w)] = [m |-> q[1].m, u |-> q[1].u - 1]
    ELSE w = <<>> \/ w[Len(w)].u = Size \/ closing

\* Whole messages that were sent to the socket, but for the end of one that is being closed
Whole(w, id, closing) ==
    \A i \in 1..Len(w) :
        /\ w[i].m.to = id
        /\ IF w[i].u = 1 THEN i = 1 \/ w[i - 1].u = Size \/ closing
           ELSE i > 1 /\ w[i - 1] = [m |-> w[i].m, u |-> w[i].u - 1]

SentTo(q, id) == \A i \in 1..Len(q) : q[i].m.to = id

\* What a worker has not written of its message
Rest(v) == SubSeq(Units(v.m), v.k + 1, Size)

\* A worker holds the rest of a message to the socket
Resting(id) == \E u \in Users : user[u].pc = "rest" /\ user[u].m.to = id

\* Whole messages were written, and what waits in the slot, or in the hands of a worker
\* until then, follows
Streamed ==
    /\ \A id \in Ids : Whole(wire[id], id, Closing(id)) /\ (told[id] = "none" => wire[id] = <<>>)
    /\ \A x \in Slots : LET s == slot[x] IN s.type \in Live =>
          /\ SentTo(All(s), s.id)
          /\ Follows(wire[s.id], All(s), Closing(s.id)) \/ Resting(s.id)
          /\ told[s.id] = "none" => All(s) = <<>>
    /\ \A u \in Users : user[u].pc = "rest" =>
          LET id == user[u].m.to IN Follows(wire[id], Rest(user[u]), Closing(id))

\* A part of a list that follows is written, and the rest of the list follows
LEMMA WriteFollows ==
    ASSUME NEW w \in Seq(Unit), NEW q \in Seq(Unit), Messages(q), NEW closing \in BOOLEAN,
           Follows(w, q, closing), NEW k \in 0..Len(q)
    PROVE  Follows(w \o SubSeq(q, 1, k), SubSeq(q, k + 1, Len(q)), closing)
<1>1. PICK p \in Seq(Unit) : p = SubSeq(q, 1, k)
  BY PrefixIs
<1>2. PICK r \in Seq(Unit) : r = SubSeq(q, k + 1, Len(q))
  BY SuffixIs
<1>3. Len(p) = k /\ \A i \in 1..k : p[i] = q[i]
  BY <1>1, PrefixIs
<1>4. Len(r) = Len(q) - k /\ \A i \in 1..Len(q) - k : r[i] = q[i + k]
  BY <1>2, SuffixIs
<1>5. k \in Nat /\ Len(q) \in Nat
  BY LenIs
<1>6. CASE k = 0
  <2>1. p = <<>> /\ w \o <<>> = w
    BY <1>3, <1>6, LenIs
  <2>2. r = q
    <3>1. Len(r) = Len(q) /\ \A i \in 1..Len(r) : r[i] = q[i]
      BY <1>4, <1>5, <1>6
    <3> QED BY <3>1, SameSequence
  <2> QED BY <1>1, <1>2, <2>1, <2>2
<1>7. CASE k > 0
  <2>1. PICK v \in Seq(Unit) : v = w \o p
    BY ConcatIs
  <2>2. v # <<>> /\ v[Len(v)] = q[k]
    <3>4. Len(v) = Len(w) + Len(p) /\ \A i \in 1..Len(p) : v[Len(w) + i] = p[i]
      BY <2>1, ConcatIs
    <3>1. Len(v) = Len(w) + k /\ \A i \in 1..k : v[Len(w) + i] = p[i]
      BY <1>3, <3>4
    <3>2. k \in 1..k /\ v[Len(w) + k] = p[k] /\ p[k] = q[k]
      BY <1>3, <1>5, <1>7, <3>1
    <3>3. v # <<>>
      BY <1>5, <1>7, <3>1, LenIs
    <3> QED BY <3>1, <3>2, <3>3
  <2>3. CASE k = Len(q)
    <3>1. r = <<>>
      BY <1>4, <1>5, <2>3, LenIs
    <3>2. q # <<>> /\ q[k].u = Size
      BY <1>5, <1>7, <2>3, LenIs, MessagesEnd
    <3> QED BY <1>1, <1>2, <2>1, <2>2, <3>1, <3>2 DEF Follows
  <2>4. CASE k # Len(q)
    <3>1. k \in 1..Len(q) - 1 /\ 1 \in 1..Len(q) - k /\ 1 + k = k + 1
      BY <1>5, <1>7, <2>4
    <3>2. r[1] = q[k + 1] /\ r # <<>>
      BY <1>4, <3>1, LenIs
    <3>3. IF q[k].u = Size THEN q[k + 1].u = 1 ELSE q[k + 1] = [m |-> q[k].m, u |-> q[k].u + 1]
      BY <3>1, MessagesNext
    <3>4. q[k] \in Unit /\ q[k + 1] \in Unit
      BY <1>5, <3>1
    <3>5. CASE q[k].u = Size
      <4>1. ~(r[1].u > 1)
        BY <3>2, <3>3, <3>5
      <4> QED BY <1>1, <1>2, <2>1, <2>2, <3>5, <4>1 DEF Follows
    <3>6. CASE q[k].u # Size
      <4>3. q[k].u \in Nat /\ q[k].u >= 1
        BY SMTT(60), <3>4, NumbersAssumption DEF Unit
      <4>4. r[1].m = q[k].m /\ r[1].u = q[k].u + 1
        BY <3>2, <3>3, <3>6
      <4>1. r[1].u > 1 /\ r[1].m = q[k].m /\ r[1].u - 1 = q[k].u
        BY <4>3, <4>4
      <4>2. q[k] = [m |-> q[k].m, u |-> q[k].u]
        BY <3>4 DEF Unit
      <4> QED BY <1>1, <1>2, <2>1, <2>2, <3>2, <4>1, <4>2 DEF Follows
    <3> QED BY <3>5, <3>6
  <2> QED BY <2>3, <2>4
<1> QED BY <1>5, <1>6, <1>7

\* ... and what was written stays whole
LEMMA WriteWhole ==
    ASSUME NEW w \in Seq(Unit), NEW q \in Seq(Unit), Messages(q), NEW closing \in BOOLEAN, NEW id \in Ids,
           Whole(w, id, closing), Follows(w, q, closing), SentTo(q, id), NEW k \in 0..Len(q)
    PROVE  Whole(w \o SubSeq(q, 1, k), id, closing)
<1>1. PICK p \in Seq(Unit) : p = SubSeq(q, 1, k)
  BY PrefixIs
<1>2. Len(p) = k /\ \A i \in 1..k : p[i] = q[i]
  BY <1>1, PrefixIs
<1>3. k \in Nat /\ Len(q) \in Nat /\ Len(w) \in Nat
  BY LenIs
<1>4. PICK v \in Seq(Unit) : v = w \o p
  BY ConcatIs
<1>5. /\ Len(v) = Len(w) + k /\ (\A i \in 1..k : v[Len(w) + i] = p[i])
      /\ \A i \in 1..Len(w) : v[i] = w[i]
  <2>1. /\ Len(v) = Len(w) + Len(p) /\ (\A i \in 1..Len(p) : v[Len(w) + i] = p[i])
        /\ \A i \in 1..Len(w) : v[i] = w[i]
    BY <1>4, ConcatIs
  <2> QED BY <1>2, <2>1
<1>6. ASSUME NEW i \in 1..Len(v)
      PROVE  /\ v[i].m.to = id
             /\ IF v[i].u = 1 THEN i = 1 \/ v[i - 1].u = Size \/ closing
                ELSE i > 1 /\ v[i - 1] = [m |-> v[i].m, u |-> v[i].u - 1]
  <2>1. CASE i <= Len(w)
    <3>1. i \in 1..Len(w) /\ v[i] = w[i] /\ (i > 1 => i - 1 \in 1..Len(w) /\ v[i - 1] = w[i - 1])
      BY <1>3, <1>5, <2>1
    <3> QED BY <3>1 DEF Whole
  <2>2. CASE i = Len(w) + 1
    <3>1. 1 \in 1..k /\ k <= Len(q) /\ 1 \in 1..Len(q)
      BY <1>3, <1>5, <2>2
    <3>2. v[i] = q[1] /\ q # <<>> /\ q[1] \in Unit
      BY <1>2, <1>3, <1>5, <2>2, <3>1, LenIs
    <3>3. w # <<>> => i > 1 /\ v[i - 1] = w[Len(w)]
      <4>1. w # <<>> => Len(w) \in 1..Len(w) /\ i > 1 /\ i - 1 = Len(w)
        BY <1>3, <2>2, LenIs
      <4> QED BY <1>5, <4>1
    <3>4. w = <<>> => i = 1
      BY <2>2, LenIs
    <3>5. q[1].u \in Nat /\ q[1].u # 0
      <4>1. \A x \in Unit : x.u \in Nat /\ x.u # 0
        BY NumbersAssumption DEF Unit
      <4> QED BY <3>2, <4>1
    <3>6. q[1].m.to = id
      BY <3>1 DEF SentTo
    <3> QED BY SMTT(60), <3>2, <3>3, <3>4, <3>5, <3>6 DEF Follows
  <2>3. CASE i > Len(w) + 1
    <3> DEFINE j == (i - Len(w)) - 1
    <3>1. j \in 1..k /\ j + 1 \in 1..k /\ i = Len(w) + (j + 1) /\ i - 1 = Len(w) + j /\ i > 1
      BY <1>3, <1>5, <2>3
    <3>2. j \in 1..Len(q) - 1 /\ j + 1 \in 1..Len(q) /\ j \in 1..Len(q)
      BY <1>3, <3>1
    <3> HIDE DEF j
    <3>3. v[i] = q[j + 1] /\ v[i - 1] = q[j] /\ q[j] \in Unit /\ q[j + 1] \in Unit
      <4>1. v[i] = p[j + 1] /\ v[i - 1] = p[j]
        BY <1>5, <3>1
      <4>2. p[j + 1] = q[j + 1] /\ p[j] = q[j]
        BY <1>2, <3>1
      <4>3. q[j] \in Unit /\ q[j + 1] \in Unit
        BY <3>2
      <4> QED BY <4>1, <4>2, <4>3
    <3>4. IF q[j].u = Size THEN q[j + 1].u = 1 ELSE q[j + 1] = [m |-> q[j].m, u |-> q[j].u + 1]
      BY <3>2, MessagesNext
    <3>5. v[i].m.to = id
      BY <3>2, <3>3 DEF SentTo
    <3>6. CASE q[j].u = Size
      BY <3>1, <3>3, <3>4, <3>5, <3>6
    <3>7. CASE q[j].u # Size
      <4>2. q[j].u \in Nat /\ q[j].u >= 1 /\ q[j] = [m |-> q[j].m, u |-> q[j].u]
        BY SMTT(60), <3>3, NumbersAssumption DEF Unit
      <4>3. q[j + 1].m = q[j].m /\ q[j + 1].u = q[j].u + 1
        BY <3>4, <3>7
      <4>5. PICK n \in Nat : n = q[j].u /\ n >= 1
        BY <4>2
      <4>7. n + 1 # 1 /\ (n + 1) - 1 = n
        BY <4>5
      <4>8. q[j + 1].u = n + 1
        BY <4>3, <4>5
      <4>6. q[j + 1].u = n + 1 /\ n + 1 # 1 /\ (n + 1) - 1 = n
        BY <4>7, <4>8
      <4>4. q[j + 1].u # 1 /\ q[j + 1].u - 1 = q[j].u
        BY <4>5, <4>6
      <4>1. q[j + 1].u # 1 /\ q[j] = [m |-> q[j + 1].m, u |-> q[j + 1].u - 1]
        BY <4>2, <4>3, <4>4
      <4> QED BY <3>1, <3>3, <3>5, <4>1
    <3> QED BY <3>6, <3>7
  <2> QED BY <1>3, <2>1, <2>2, <2>3
<1>7. Whole(v, id, closing)
  BY <1>6 DEF Whole
<1> QED BY <1>1, <1>4, <1>7

\* When the socket is being closed, the end of a message may be missing
LEMMA ClosingFollows ==
    ASSUME NEW w, NEW q, NEW c \in BOOLEAN, NEW d \in BOOLEAN, c => d, Follows(w, q, c)
    PROVE  Follows(w, q, d)
BY DEF Follows

\* ... on the connection, too
LEMMA ClosingWhole ==
    ASSUME NEW w, NEW id, NEW c \in BOOLEAN, NEW d \in BOOLEAN, c => d, Whole(w, id, c)
    PROVE  Whole(w, id, d)
BY DEF Whole

-----------------------------------------------------------------------------
(* The steps that write nothing *)

ClosingStays == \A id \in Ids : Closing(id) => Closing(id)'

\* What is being closed stays so
LEMMA ClosedStays ==
    ASSUME Typed, \A id \in Ids : told[id] = "closed" => told'[id] = "closed",
           thread # Polling => \/ thread' # Polling /\ thread'.id = thread.id
                               \/ told'[thread.id] = "closed"
    PROVE  ClosingStays
BY DEF ClosingStays, Closing

\* ... when the thread does nothing and nobody is told
LEMMA SameClosing ==
    ASSUME UNCHANGED <<thread, told>>
    PROVE  ClosingStays /\ ToldStays
BY DEF ClosingStays, Closing, ToldStays

\* ... when a service is told
LEMMA ToldCloses ==
    ASSUME Typed, NEW id \in Ids, NEW kind \in {"open", "closed", "data"}, told' = Told(id, kind),
           told[id] # "closed" \/ kind = "closed", told[id] # "late", thread = Polling
    PROVE  ClosingStays
<1>1. \A i \in Ids : told[i] = "closed" => told'[i] = "closed"
  BY DEF Told, Typed
<1> QED BY <1>1, ClosedStays

\* A slot with the same to send as before, with what force_close leaves of it, or with nothing
SameStream(r, s) ==
    \/ s.type \in Live /\ r.id = s.id /\ All(r) = All(s) /\ r.low = s.low
    \/ s.type \in Live /\ r.id = s.id /\ All(r) = s.dw /\ r.low = <<>> /\ Closing(s.id)'
    \/ r.id \in Ids /\ All(r) = <<>> /\ r.low = <<>> /\ told[r.id] = "none"

StreamSlots == \A x \in Slots : slot'[x].type \in Live => SameStream(slot'[x], slot[x])

RestStays == \A u \in Users : user'[u].pc = "rest" \/ user[u].pc = "rest" => user'[u] = user[u]

\* The lists of a socket that is being closed are freed
LEMMA FreedFollows ==
    ASSUME NEW s \in SlotTypes, NEW w, NEW c, Follows(w, All(s), c)
    PROVE  Follows(w, s.dw, TRUE)
<1>1. s.dw # <<>> => All(s) # <<>> /\ All(s)[1] = s.dw[1]
  <2>1. s.dw \in Seq(Unit) /\ Unsent(s) \in Seq(Unit)
    BY SlotLists
  <2>2. s.dw # <<>> => 1 \in 1..Len(s.dw)
    BY <2>1, LenIs
  <2> QED BY <2>1, <2>2, SlotLists, ConcatIs DEF All
<1> QED BY <1>1 DEF Follows

\* The rest of a direct write, too, was sent to the socket
LEMMA FreedSentTo ==
    ASSUME NEW s \in SlotTypes, NEW id, SentTo(All(s), id)
    PROVE  SentTo(s.dw, id)
<1>1. s.dw \in Seq(Unit) /\ Unsent(s) \in Seq(Unit)
  BY SlotLists
<1>2. Len(All(s)) = Len(s.dw) + Len(Unsent(s)) /\ \A i \in 1..Len(s.dw) : All(s)[i] = s.dw[i]
  BY <1>1, ConcatIs DEF All
<1>3. \A i \in 1..Len(s.dw) : i \in 1..Len(All(s))
  BY <1>1, <1>2, LenIs
<1> QED BY <1>2, <1>3 DEF SentTo

\* Nothing follows anything
LEMMA NoneFollows ==
    ASSUME NEW c
    PROVE  Follows(<<>>, <<>>, c) /\ \A id : SentTo(<<>>, id)
BY DEF Follows, SentTo

\* What follows still does when the socket is being closed
LEMMA ClosingRises ==
    ASSUME ClosingStays, NEW id \in Ids, NEW w, NEW q, Follows(w, q, Closing(id))
    PROVE  Follows(w, q, Closing(id)')
BY DEF Follows, ClosingStays

\* Whole messages, when nothing is written or added
LEMMA StreamQuiet ==
    ASSUME Base, Streamed, UNCHANGED wire, ToldStays, ClosingStays, StreamSlots, RestStays
    PROVE  Streamed'
<1> USE DEF Base
<1>1. \A id \in Ids : told'[id] = "none" => told[id] = "none"
  BY DEF ToldStays
<1>2. ASSUME NEW id \in Ids PROVE Whole(wire[id], id, Closing(id)') /\ (told'[id] = "none" => wire[id] = <<>>)
  <2>1. Whole(wire[id], id, Closing(id))
    BY DEF Streamed
  <2>2. Closing(id) => Closing(id)'
    BY DEF ClosingStays
  <2>3. Whole(wire[id], id, Closing(id)')
    BY <2>1, <2>2 DEF Whole
  <2> QED BY <1>1, <2>3 DEF Streamed
<1>3. \A id : Resting(id) => Resting(id)'
  BY DEF Resting, RestStays
<1>4. ASSUME NEW x \in Slots, slot'[x].type \in Live, NEW r, r = slot'[x]
      PROVE  /\ SentTo(All(r), r.id)
             /\ r.id \in Ids
             /\ Follows(wire[r.id], All(r), Closing(r.id)') \/ Resting(r.id)'
             /\ told'[r.id] = "none" => All(r) = <<>>
  <2>1. PICK s \in SlotTypes : s = slot[x]
    BY DEF Typed
  <2>2. SameStream(r, s)
    BY <1>4, <2>1 DEF StreamSlots
  <2>3. ASSUME s.type \in Live
        PROVE  /\ s.id \in Ids /\ SentTo(All(s), s.id)
               /\ Follows(wire[s.id], All(s), Closing(s.id)) \/ Resting(s.id)
               /\ told[s.id] = "none" => All(s) = <<>>
    BY <2>1, <2>3 DEF Control, Placed, Streamed
  <2>4. CASE s.type \in Live /\ r.id = s.id /\ All(r) = All(s)
    <3>1. Follows(wire[s.id], All(s), Closing(s.id)') \/ Resting(s.id)'
      BY <1>3, <2>3, <2>4, ClosingRises
    <3> QED BY <1>1, <2>3, <2>4, <3>1
  <2>5. CASE s.type \in Live /\ r.id = s.id /\ All(r) = s.dw /\ Closing(s.id)'
    <3>1. Follows(wire[s.id], s.dw, TRUE) \/ Resting(s.id)'
      BY <1>3, <2>3, <2>5, FreedFollows
    <3>2. Follows(wire[s.id], s.dw, Closing(s.id)') \/ Resting(s.id)'
      BY <2>5, <3>1 DEF Follows
    <3>3. SentTo(s.dw, s.id)
      BY <2>3, <2>5, FreedSentTo
    <3>4. told'[s.id] = "none" => s.dw = <<>>
      BY <1>1, <2>3, <2>5, SlotLists
    <3> QED BY <2>3, <2>5, <3>2, <3>3, <3>4
  <2>6. CASE r.id \in Ids /\ All(r) = <<>> /\ told[r.id] = "none"
    <3>1. wire[r.id] = <<>>
      BY <2>6 DEF Streamed
    <3> QED BY <2>6, <3>1, NoneFollows
  <2> QED BY <2>2, <2>4, <2>5, <2>6 DEF SameStream
<1>5. ASSUME NEW u \in Users, user'[u].pc = "rest", NEW id, id = user'[u].m.to
      PROVE  Follows(wire[id], Rest(user'[u]), Closing(id)')
  <2>1. user'[u] = user[u] /\ user[u].pc = "rest"
    BY <1>5 DEF RestStays
  <2>2. id \in Ids /\ id = user[u].m.to
    BY <1>5, <2>1, MessageTo DEF Busy
  <2>3. Follows(wire[id], Rest(user[u]), Closing(id))
    BY <2>1, <2>2 DEF Streamed
  <2> QED BY <2>1, <2>2, <2>3, ClosingRises
<1> QED BY <1>2, <1>4, <1>5 DEF Streamed, Closing, Resting

\* One slot changes
LEMMA PutStream ==
    ASSUME Typed, NEW id \in Ids, NEW r, Put(id, r), r.type \in Live => SameStream(r, At(id))
    PROVE  StreamSlots
<1>1. HashId(id) \in Slots
  BY IdsAre
<1> QED BY <1>1 DEF Put, Typed, StreamSlots, SameStream, At

\* No slot changes
LEMMA SameSlots ==
    ASSUME UNCHANGED slot
    PROVE  StreamSlots
BY DEF StreamSlots, SameStream

\* What was written to a connection, and what waits for it in its slot
StreamOf(id) == IF At(id).id = id /\ At(id).type \in Live THEN wire[id] \o All(At(id)) ELSE wire[id]

\* Nothing is added to the streams, nor to the low lists, nor taken from the connections
Kept ==
    /\ \A id \in Ids :
          /\ Len(wire[id]) <= Len(wire'[id]) /\ Len(StreamOf(id)') <= Len(StreamOf(id))
          /\ \A i \in 1..Len(StreamOf(id)') : StreamOf(id)'[i] = StreamOf(id)[i]
    /\ \A x \in Slots : slot'[x].type \in Live => \A i \in 1..Len(slot'[x].low) :
          slot[x].type \in Live /\ \E j \in 1..Len(slot[x].low) : slot'[x].low[i] = slot[x].low[j]

\* A stream begins with what is written
LEMMA StreamIs ==
    ASSUME Typed, NEW id \in Ids
    PROVE  /\ wire[id] \in Seq(Unit) /\ StreamOf(id) \in Seq(Unit)
           /\ Len(wire[id]) \in Nat /\ Len(StreamOf(id)) \in Nat /\ Len(wire[id]) <= Len(StreamOf(id))
           /\ \A i \in 1..Len(wire[id]) : StreamOf(id)[i] = wire[id][i]
<1>1. PICK w \in Seq(Unit) : w = wire[id]
  BY DEF Typed
<1>2. PICK q \in Seq(Unit) : q = All(At(id))
  BY IdsAre, AtIs, SlotLists DEF Typed
<1>3. PICK a \in Seq(Unit) : a = w \o q
  BY ConcatIs
<1>4. Len(w) \in Nat /\ Len(a) \in Nat /\ Len(w) <= Len(a) /\ \A i \in 1..Len(w) : a[i] = w[i]
  BY <1>3, ConcatIs, LenIs
<1>5. StreamOf(id) = a \/ StreamOf(id) = w
  BY <1>1, <1>2, <1>3 DEF StreamOf
<1> QED BY <1>1, <1>4, <1>5

\* The streams, when nothing is written or added
LEMMA KeptQuiet ==
    ASSUME Typed, StreamSlots, UNCHANGED wire
    PROVE  Kept
<1>1. ASSUME NEW id \in Ids
      PROVE  /\ Len(wire[id]) <= Len(wire'[id]) /\ Len(StreamOf(id)') <= Len(StreamOf(id))
             /\ \A i \in 1..Len(StreamOf(id)') : StreamOf(id)'[i] = StreamOf(id)[i]
  <2>1. PICK w \in Seq(Unit) : w = wire[id] /\ w = wire'[id]
    BY DEF Typed
  <2>2. HashId(id) \in Slots
    BY IdsAre
  <2>3. PICK s \in SlotTypes : s = slot[HashId(id)]
    BY <2>2 DEF Typed
  <2>4. PICK a \in Seq(Unit) : a = StreamOf(id)
    BY StreamIs
  <2>5. Len(w) \in Nat /\ Len(a) \in Nat /\ Len(w) <= Len(a) /\ \A i \in 1..Len(w) : a[i] = w[i]
    BY <2>1, <2>4, StreamIs
  <2>6. PICK d \in Seq(Unit), h \in Seq(Unit) : d = s.dw /\ h = Unsent(s) /\ All(s) = d \o h
    BY SlotLists DEF All
  <2>7. \/ StreamOf(id)' = a \/ StreamOf(id)' = w
        \/ StreamOf(id)' = w \o d /\ a = w \o (d \o h)
    <3>1. CASE ~(At(id)'.id = id /\ At(id)'.type \in Live)
      BY <2>1, <3>1 DEF StreamOf
    <3>2. CASE At(id)'.id = id /\ At(id)'.type \in Live
      <4>1. PICK r : r = slot'[HashId(id)] /\ r.id = id /\ r.type \in Live
        BY <3>2 DEF At
      <4>2. StreamOf(id)' = w \o All(r)
        BY <2>1, <4>1 DEF StreamOf, At
      <4>3. SameStream(r, s)
        BY <2>2, <2>3, <4>1 DEF StreamSlots
      <4>4. s.type \in Live /\ r.id = s.id => a = w \o All(s)
        BY <2>1, <2>3, <2>4, <4>1 DEF StreamOf, At
      <4>5. w \o <<>> = w
        OBVIOUS
      <4> QED BY <2>6, <4>2, <4>3, <4>4, <4>5 DEF SameStream
    <3> QED BY <3>1, <3>2
  <2>8. CASE StreamOf(id)' = w \o d /\ a = w \o (d \o h)
    <3>1. PICK wd \in Seq(Unit) : wd = w \o d
      BY ConcatIs
    <3>2. a = wd \o h
      BY <2>8, <3>1, ThreeLists
    <3>3. Len(a) = Len(wd) + Len(h) /\ Len(wd) \in Nat /\ Len(h) \in Nat /\ \A i \in 1..Len(wd) : a[i] = wd[i]
      BY <3>2, ConcatIs
    <3>4. Len(wd) <= Len(a)
      BY <3>3
    <3>5. StreamOf(id)' = wd
      BY <2>8, <3>1
    <3>6. Len(StreamOf(id)') <= Len(a) /\ \A i \in 1..Len(StreamOf(id)') : StreamOf(id)'[i] = a[i]
      BY <3>3, <3>4, <3>5
    <3>7. Len(wire[id]) <= Len(wire'[id])
      BY <2>1, <2>5
    <3> QED BY <2>4, <3>6, <3>7
  <2>9. CASE StreamOf(id)' = a \/ StreamOf(id)' = w
    BY <2>1, <2>4, <2>5, <2>9
  <2> QED BY <2>7, <2>8, <2>9
<1>2. ASSUME NEW x \in Slots, slot'[x].type \in Live, NEW i \in 1..Len(slot'[x].low)
      PROVE  slot[x].type \in Live /\ \E j \in 1..Len(slot[x].low) : slot'[x].low[i] = slot[x].low[j]
  <2>1. SameStream(slot'[x], slot[x])
    BY <1>2 DEF StreamSlots
  <2>2. slot'[x].low # <<>>
    BY <1>2
  <2> QED BY <1>2, <2>1, <2>2 DEF SameStream
<1> QED BY <1>1, <1>2 DEF Kept

\* A step of a service that writes nothing
LEMMA UserStreamed ==
    ASSUME Base, Streamed, StreamSlots, UNCHANGED <<wire, told, thread>>, NEW u \in Users,
           user[u].pc # "rest", user'[u].pc # "rest", \A v \in Users : v # u => user'[v] = user[v]
    PROVE  Streamed' /\ Kept
<1>1. RestStays
  BY DEF RestStays
<1> QED BY <1>1, SameClosing, StreamQuiet, KeptQuiet DEF Base

\* ... and one of the socket thread
LEMMA ThreadStreamed ==
    ASSUME Base, Streamed, StreamSlots, ToldStays, ClosingStays, UNCHANGED <<wire, user>>
    PROVE  Streamed' /\ Kept
<1>1. RestStays
  BY DEF RestStays
<1> QED BY <1>1, StreamQuiet, KeptQuiet DEF Base

\* Lists that are the same make the same stream
LEMMA SameAll ==
    ASSUME NEW r, NEW s, SameLists(r, s)
    PROVE  All(r) = All(s) /\ Unsent(r) = Unsent(s) /\ r.low = s.low
BY DEF SameLists, All, Unsent

\* reserve_id takes a slot: whole messages
LEMMA ReserveStreamed ==
    ASSUME Base, Streamed, NEW u \in Users, NEW cmd \in Opening, Reserve(u, cmd)
    PROVE  Streamed' /\ Kept
<1> USE DEF Base
<1>1. PICK id \in Ids : id = NextId
  BY NextIdIs DEF Reserve
<1>2. At(id) \in SlotTypes
  BY IdsAre, AtIs DEF Typed
<1>3. /\ Put(id, [At(id) EXCEPT !.type = "RESERVE"])
      /\ user' = [user EXCEPT ![u] = [pc |-> "reserved", cmd |-> cmd, id |-> id]]
      /\ UNCHANGED <<wire, told, thread>> /\ user[u].pc # "rest"
  BY <1>1 DEF Reserve, kernel, Idle
<1>4. [At(id) EXCEPT !.type = "RESERVE"].type = "RESERVE" /\ "RESERVE" \notin Live
  BY <1>2, SetType DEF Types, Live
<1>5. StreamSlots
  BY <1>3, <1>4, PutStream
<1>6. user'[u].pc # "rest" /\ \A v \in Users : v # u => user'[v] = user[v]
  BY <1>3 DEF Typed
<1> QED BY <1>3, <1>5, <1>6, UserStreamed

\* reserve_id stores the id, and the request is sent: whole messages
LEMMA ReservedStreamed ==
    ASSUME Base, Streamed, NEW u \in Users, Reserved(u)
    PROVE  Streamed' /\ Kept
<1> USE DEF Base
<1>1. user[u].pc = "reserved"
  BY DEF Reserved
<1>2. PICK id \in Ids : id = user[u].id
  BY <1>1, UserIs DEF Typed
<1>3. At(id) \in SlotTypes /\ At(id).type = "RESERVE"
  BY <1>1, <1>2, IdsAre, AtIs DEF Typed, Control, Taken
<1>4. /\ Put(id, [At(id) EXCEPT !.id = id, !.tcp = FALSE])
      /\ user' = [user EXCEPT ![u] = Idle] /\ UNCHANGED <<wire, told, thread>>
  BY <1>2 DEF Reserved, kernel
<1>5. [At(id) EXCEPT !.id = id, !.tcp = FALSE].type = "RESERVE" /\ "RESERVE" \notin Live
  BY <1>3, SetId DEF Live
<1>6. StreamSlots
  BY <1>4, <1>5, PutStream
<1>7. user'[u].pc # "rest" /\ \A v \in Users : v # u => user'[v] = user[v]
  BY <1>4 DEF Typed, Idle
<1> QED BY <1>1, <1>4, <1>6, <1>7, UserStreamed

\* A call puts its request into the pipe: whole messages
LEMMA AskStreamed ==
    ASSUME Base, Streamed, NEW u \in Users, NEW cmd \in {"S", "K", "shutdown"}, NEW id \in Ids, Ask(u, cmd, id)
    PROVE  Streamed' /\ Kept
<1>1. UNCHANGED <<slot, wire, told, thread, user>> /\ user[u].pc # "rest"
  BY DEF Ask, kernel, Idle
<1> QED BY <1>1, SameSlots, UserStreamed

\* socket_server_send begins: whole messages
LEMMA SendStreamed ==
    ASSUME Base, Streamed, NEW u \in Users, NEW id \in Ids, NEW low \in BOOLEAN, Send(u, id, low)
    PROVE  Streamed' /\ Kept
<1>1. /\ UNCHANGED <<slot, wire, told, thread>> /\ user[u] = Idle
      /\ user' \in {user, [user EXCEPT ![u] = [pc |-> IF low THEN "ref" ELSE "direct",
                       m |-> [n |-> sends + 1, from |-> u, to |-> id, low |-> low]]]}
  BY DEF Send, server, kernel
<1>2. user[u].pc # "rest" /\ user'[u].pc # "rest" /\ \A v \in Users : v # u => user'[v] = user[v]
  BY <1>1 DEF Base, Typed, Idle
<1> QED BY <1>1, <1>2, SameSlots, UserStreamed

\* can_direct_write without the lock: whole messages
LEMMA MayLockStreamed ==
    ASSUME Base, Streamed, NEW u \in Users, MayLock(u)
    PROVE  Streamed' /\ Kept
<1>1. UNCHANGED <<slot, wire, told, thread>> /\ user[u].pc = "direct"
      /\ user' = [user EXCEPT ![u].pc = IF CanWrite(At(user[u].m.to), user[u].m.to) THEN "trylock" ELSE "ref"]
  BY DEF MayLock, server, kernel, Goto
<1>2. user[u].pc \in Busy \ {"rest"} /\ {"trylock", "ref"} \subseteq Busy \ {"rest"}
  BY <1>1 DEF Busy
<1>3. PICK pc \in {"trylock", "ref"} : Goto(u, pc)
  BY <1>1 DEF Goto
<1>4. user'[u].pc = pc /\ \A v \in Users : v # u => user'[v] = user[v]
  BY <1>2, <1>3, GotoIs DEF Base
<1> QED BY <1>1, <1>4, SameSlots, UserStreamed

\* socket_trylock: whole messages
LEMMA TryLockStreamed ==
    ASSUME Base, Streamed, NEW u \in Users, TryLock(u)
    PROVE  Streamed' /\ Kept
<1> USE DEF Base
<1>1. user[u].pc = "trylock" /\ user[u].pc \in Busy \ {"rest"} /\ {"locked", "ref"} \subseteq Busy \ {"rest"}
  BY DEF TryLock, Busy
<1>2. PICK id \in Ids : id = user[u].m.to
  BY <1>1, MessageTo
<1>3. PICK s \in SlotTypes : s = At(id)
  BY IdsAre, AtIs DEF Typed
<1>4. slot' = slot \/ Put(id, [s EXCEPT !.lock = u])
  BY <1>2, <1>3 DEF TryLock
<1>5. SameStream([s EXCEPT !.lock = u], s) \/ s.type \notin Live
  BY SetLock, SameAll DEF SameStream
<1>6. [s EXCEPT !.lock = u].type = s.type
  BY SetLock
<1>7. StreamSlots
  BY <1>3, <1>4, <1>5, <1>6, SameSlots, PutStream
<1>8. PICK pc \in {"locked", "ref"} : Goto(u, pc)
  BY <1>2 DEF TryLock
<1>9. user'[u].pc = pc /\ \A v \in Users : v # u => user'[v] = user[v]
  BY <1>1, <1>8, GotoIs
<1>10. UNCHANGED <<wire, told, thread>>
  BY DEF TryLock, kernel
<1> QED BY <1>1, <1>7, <1>9, <1>10, UserStreamed

\* inc_sending_ref: whole messages
LEMMA SendingRefStreamed ==
    ASSUME Base, Streamed, NEW u \in Users, SendingRef(u)
    PROVE  Streamed' /\ Kept
<1> USE DEF Base
<1>1. user[u].pc = "ref" /\ user[u].pc \in Busy \ {"rest"} /\ "pipe" \in Busy \ {"rest"}
  BY DEF SendingRef, Busy
<1>2. PICK id \in Ids : id = user[u].m.to
  BY <1>1, MessageTo
<1>3. PICK s \in SlotTypes : s = At(id)
  BY IdsAre, AtIs DEF Typed
<1>4. PICK n \in Int : n = s.sending + 1
  BY SlotIs
<1>5. slot' = slot \/ Put(id, [s EXCEPT !.sending = n])
  BY <1>2, <1>3, <1>4 DEF SendingRef
<1>6. SameStream([s EXCEPT !.sending = n], s) \/ s.type \notin Live
  BY SetSending, SameAll DEF SameStream
<1>7. [s EXCEPT !.sending = n].type = s.type
  BY SetSending
<1>8. StreamSlots
  BY <1>3, <1>5, <1>6, <1>7, SameSlots, PutStream
<1>9. Goto(u, "pipe") /\ UNCHANGED <<wire, told, thread>>
  BY DEF SendingRef, kernel
<1>10. user'[u].pc # "rest" /\ \A v \in Users : v # u => user'[v] = user[v]
  BY <1>1, <1>9, GotoIs
<1> QED BY <1>1, <1>8, <1>9, <1>10, UserStreamed

\* The message goes into the pipe: whole messages
LEMMA SendRequestStreamed ==
    ASSUME Base, Streamed, NEW u \in Users, SendRequest(u)
    PROVE  Streamed' /\ Kept
<1>1. user[u].pc = "pipe" /\ user' = [user EXCEPT ![u] = Idle] /\ UNCHANGED <<slot, wire, told, thread>>
  BY DEF SendRequest, kernel
<1>2. user'[u].pc # "rest" /\ \A v \in Users : v # u => user'[v] = user[v]
  BY <1>1 DEF Base, Typed, Idle
<1> QED BY <1>1, <1>2, SameSlots, UserStreamed

-----------------------------------------------------------------------------
(* ... and those of the socket thread *)

\* A new socket begins with nothing to send
LEMMA NewFdStream ==
    ASSUME Typed, NEW id \in Ids, NEW type \in Types, NEW write \in BOOLEAN, told[id] = "none",
           Unsent(At(id)) = <<>>
    PROVE  SameStream(NewFd(id, type, write), At(id))
<1>1. /\ NewFd(id, type, write) \in SlotTypes /\ NewFd(id, type, write).id = id
      /\ NewFd(id, type, write).dw = <<>>
      /\ NewFd(id, type, write).high = At(id).high /\ NewFd(id, type, write).low = At(id).low
  BY NewFdIs DEF Typed
<1>2. PICK r \in SlotTypes : r = NewFd(id, type, write)
  BY <1>1
<1>3. r.dw = <<>> /\ Unsent(r) = <<>>
  BY <1>1, <1>2 DEF Unsent
<1>4. All(r) = <<>>
  BY <1>3, SlotLists
<1>5. r.low = <<>>
  <2>1. Len(All(r)) = Len(r.dw) + Len(r.high) + Len(r.low) /\ Len(All(r)) = 0
    <3>1. Len(All(r)) = 0
      BY <1>4
    <3> QED BY <3>1, SlotLists
  <2>2. Len(r.low) = 0
    <3>1. Len(r.dw) \in Nat /\ Len(r.high) \in Nat /\ Len(r.low) \in Nat
      BY SlotLists
    <3>2. \A a, b, c \in Nat : a + b + c = 0 => c = 0
      OBVIOUS
    <3>3. Len(r.dw) + Len(r.high) + Len(r.low) = 0
      BY <2>1
    <3> QED BY <3>1, <3>2, <3>3
  <2> QED BY <2>2, SlotLists, LenIs
<1> QED BY <1>1, <1>2, <1>4, <1>5 DEF SameStream

\* open_socket: whole messages
LEMMA OpenSocketStreamed ==
    ASSUME Base, Streamed, OpenSocket, ~aborted'
    PROVE  Streamed' /\ Kept
<1> USE DEF Base
<1>1. AtCommand({"O"})
  BY DEF OpenSocket
<1>2. PICK q \in Seq(Requests) : q = Tail(pipe)
  BY <1>1, CommandIs
<1>3. PICK id \in Ids : id = Head(pipe).id
  BY <1>1, CommandIs
<1>4. At(id) \in SlotTypes /\ Head(pipe).cmd = "O" /\ thread = Polling /\ {"CONNECTED", "CONNECTING", "INVALID"} \subseteq Types
      /\ UNCHANGED user
  BY <1>1, <1>3, CommandIs DEF Types
<1>5. told[id] = "none"
  BY <1>1, <1>2, <1>3, <1>4, OpeningIsAlone DEF AtCommand, Opening
<1>6. \/ Put(id, [At(id) EXCEPT !.type = "INVALID"]) /\ told' = told
      \/ /\ Put(id, NewFd(id, "CONNECTED", FALSE)) /\ told' = Told(id, "open") /\ thread' = thread
         /\ Unsent(At(id)) = <<>>
      \/ Put(id, NewFd(id, "CONNECTING", TRUE)) /\ told' = told /\ Unsent(At(id)) = <<>>
  BY <1>3 DEF OpenSocket, FdRefused
<1>7. ToldStays /\ ClosingStays
  <2>1. CASE told' = told
    BY <1>4, <2>1, ClosedStays DEF ToldStays
  <2>2. CASE told' = Told(id, "open") /\ thread' = thread
    BY <1>4, <1>5, <2>2, ToldGrows, ToldCloses
  <2> QED BY <1>6, <2>1, <2>2
<1>8. [At(id) EXCEPT !.type = "INVALID"].type \notin Live
  BY <1>4, SetType DEF Live
<1>9. StreamSlots
  BY <1>4, <1>5, <1>6, <1>8, NewFdStream, PutStream
<1>10. wire' = wire
  BY DEF OpenSocket, kernel
<1> QED BY <1>4, <1>7, <1>9, <1>10, ThreadStreamed

\* listen_socket: whole messages
LEMMA ListenSocketStreamed ==
    ASSUME Base, Streamed, ListenSocket, ~aborted'
    PROVE  Streamed' /\ Kept
<1> USE DEF Base
<1>1. AtCommand({"L"})
  BY DEF ListenSocket
<1>2. PICK q \in Seq(Requests) : q = Tail(pipe)
  BY <1>1, CommandIs
<1>3. PICK id \in Ids : id = Head(pipe).id
  BY <1>1, CommandIs
<1>4. At(id) \in SlotTypes /\ Head(pipe).cmd = "L" /\ thread = Polling /\ "PLISTEN" \in Types /\ UNCHANGED user
  BY <1>1, <1>3, CommandIs DEF Types
<1>5. told[id] = "none"
  BY <1>1, <1>2, <1>3, <1>4, OpeningIsAlone DEF AtCommand, Opening
<1>6. Put(id, NewFd(id, "PLISTEN", FALSE)) /\ Unsent(At(id)) = <<>> /\ UNCHANGED <<told, thread, wire>>
  BY <1>3 DEF ListenSocket, FdRefused, kernel
<1>7. StreamSlots
  BY <1>4, <1>5, <1>6, NewFdStream, PutStream
<1> QED BY <1>4, <1>6, <1>7, SameClosing, ThreadStreamed

\* start_socket, when the socket is added: whole messages
LEMMA StartedStreamed ==
    ASSUME Base, Streamed, StartSocket, thread' = thread
    PROVE  Streamed' /\ Kept
<1> USE DEF Base
<1>1. AtCommand({"S"})
  BY DEF StartSocket
<1>2. PICK id \in Ids : id = Head(pipe).id
  BY <1>1, CommandIs
<1>3. PICK s \in SlotTypes : s = At(id)
  BY <1>1, <1>2, CommandIs
<1>4. UNCHANGED <<thread, wire, user>> /\ thread = Polling
  BY <1>1, CommandIs DEF StartSocket, kernel
<1>5. \/ told' = told \/ told' = Told(id, "closed")
      \/ told' = Told(id, "open") /\ IsOpen(id) /\ s.type \in {"PACCEPT", "PLISTEN", "CONNECTED"}
  BY <1>2, <1>3, <1>4 DEF StartSocket, ForceClose, Polling
<1>6. told[id] # "late" /\ (IsOpen(id) /\ s.type \in {"PACCEPT", "PLISTEN", "CONNECTED"} => told[id] # "closed")
  BY <1>3 DEF Control, ToldRight, IsOpen, Live, Types
<1>7. ToldStays /\ ClosingStays
  <2>1. CASE told' = told
    BY <1>4, <2>1, SameClosing
  <2>2. CASE told' = Told(id, "closed")
    BY <1>4, <1>6, <2>2, ToldGrows, ToldCloses
  <2>3. CASE told' = Told(id, "open") /\ told[id] # "closed"
    BY <1>4, <1>6, <2>3, ToldGrows, ToldCloses
  <2> QED BY <1>5, <1>6, <2>1, <2>2, <2>3
<1>8. \/ slot' = slot
      \/ s.type \in {"PACCEPT", "PLISTEN"} /\ \E type \in {"CONNECTED", "LISTEN"} : slot' = [slot EXCEPT ![HashId(id)].type = type]
  BY <1>2, <1>3, <1>4 DEF StartSocket, ForceClose, Polling
<1>9. ASSUME s.type \in {"PACCEPT", "PLISTEN"}, NEW type \in {"CONNECTED", "LISTEN"},
             slot' = [slot EXCEPT ![HashId(id)].type = type]
      PROVE  StreamSlots
  <2>1. type \in Types /\ s.type \in Live
    BY <1>9 DEF Types, Live
  <2>2. Put(id, [s EXCEPT !.type = type])
    BY <1>3, <1>9 DEF Put, At
  <2>3. SameStream([s EXCEPT !.type = type], s)
    BY <2>1, SetType, SameAll DEF SameStream, SameSocketAs
  <2> QED BY <1>3, <2>2, <2>3, PutStream
<1>10. StreamSlots
  BY <1>8, <1>9, SameSlots
<1> QED BY <1>4, <1>7, <1>10, ThreadStreamed

\* force_close gets the lock: whole messages
LEMMA CloseFdStreamed ==
    ASSUME Base, Streamed, CloseFd
    PROVE  Streamed' /\ Kept
<1> USE DEF Base
<1>1. thread.pc = "close" /\ thread # Polling
  BY DEF CloseFd, Polling
<1>2. PICK id \in Ids : id = thread.id
  BY <1>1, ThreadIs
<1>3. At(id) \in SlotTypes
  BY IdsAre, AtIs DEF Typed
<1>4. Put(id, Closed(At(id))) /\ thread' = [thread EXCEPT !.pc = "clear"] /\ UNCHANGED <<user, told, wire>>
  BY <1>2 DEF CloseFd, kernel
<1>5. Closed(At(id)).type \notin Live
  BY <1>3, ClosedIs DEF Live
<1>6. StreamSlots
  BY <1>4, <1>5, PutStream
<1>7. thread' = [pc |-> "clear", id |-> id]
  BY <1>1, <1>2, <1>4 DEF Typed, Polling
<1>8. thread' # Polling /\ thread'.id = thread.id
  BY <1>2, <1>7 DEF Polling
<1>9. ClosingStays /\ ToldStays
  BY <1>4, <1>8, ClosedStays DEF ToldStays
<1> QED BY <1>4, <1>6, <1>9, ThreadStreamed

\* clear_closed_event: whole messages
LEMMA ClearEventsStreamed ==
    ASSUME Base, Streamed, ClearEvents
    PROVE  Streamed' /\ Kept
<1> USE DEF Base
<1>1. thread.pc = "clear" /\ thread # Polling
  BY DEF ClearEvents, Polling
<1>2. PICK id \in Ids : id = thread.id
  BY <1>1, ThreadIs
<1>3. told' = Told(id, "closed") /\ thread' = Polling /\ UNCHANGED <<user, slot, wire>>
  BY <1>2 DEF ClearEvents, kernel
<1>4. \A i \in Ids : told[i] # "late"
  BY DEF Control, ToldRight
<1>5. told'[id] = "closed" /\ \A i \in Ids : i # id => told'[i] = told[i]
  BY <1>3, <1>4, ToldIs
<1>6. ClosingStays
  BY <1>2, <1>5, ClosedStays
<1> QED BY <1>3, <1>6, ToldGrows, SameSlots, ThreadStreamed

\* force_close begins: whole messages
LEMMA ForceCloseStreamed ==
    ASSUME Base, Streamed, NEW id \in Ids, ForceClose(id), At(id).id = id, At(id).type \in Live,
           thread = Polling, UNCHANGED <<user, told, wire>>
    PROVE  Streamed' /\ Kept
<1> USE DEF Base
<1>1. PICK s \in SlotTypes : s = At(id)
  BY IdsAre, AtIs DEF Typed
<1>2. Put(id, Freed(s)) /\ thread' = [pc |-> "close", id |-> id]
  BY <1>1 DEF ForceClose
<1>3. ClosingStays /\ ToldStays
  BY ClosedStays DEF ToldStays
<1>4. Closing(id)'
  BY <1>2 DEF Closing, Polling
<1>5. Freed(s).id = s.id /\ Freed(s).high = <<>> /\ Freed(s).low = <<>> /\ Freed(s).dw = s.dw
  BY FreedIs DEF SameSocketAs
<1>6. All(Freed(s)) = s.dw
  BY <1>5, SlotLists DEF All, Unsent
<1>7. SameStream(Freed(s), s)
  BY <1>1, <1>4, <1>5, <1>6 DEF SameStream
<1>8. StreamSlots
  BY <1>1, <1>2, <1>7, PutStream
<1> QED BY <1>3, <1>8, ThreadStreamed

\* start_socket: whole messages
LEMMA StartSocketStreamed ==
    ASSUME Base, Streamed, StartSocket
    PROVE  Streamed' /\ Kept
<1> USE DEF Base
<1>1. AtCommand({"S"})
  BY DEF StartSocket
<1>2. PICK id \in Ids : id = Head(pipe).id
  BY <1>1, CommandIs
<1>3. CASE ForceClose(id) /\ told' = told /\ IsOpen(id) /\ At(id).type \in {"PACCEPT", "PLISTEN"}
  <2>1. At(id).id = id /\ At(id).type \in Live
    BY <1>3 DEF IsOpen, Live, Types
  <2>2. thread = Polling /\ UNCHANGED <<user, wire>>
    BY <1>1, CommandIs DEF StartSocket, kernel
  <2> QED BY <1>3, <2>1, <2>2, ForceCloseStreamed
<1> QED BY <1>2, <1>3, StartedStreamed DEF StartSocket

\* report_connect: whole messages
LEMMA ReportConnectStreamed ==
    ASSUME Base, Streamed, NEW e, ReportConnect(e)
    PROVE  Streamed' /\ Kept
<1> USE DEF Base
<1>0. AtEvent(e) /\ slot[e.slot].type = "CONNECTING"
  BY DEF ReportConnect
<1>1. PICK s \in SlotTypes : s = slot[e.slot]
  BY <1>0, EventIs
<1>2. PICK id \in Ids : id = s.id
  BY <1>0, <1>1, EventIs
<1>3. /\ At(id) = s /\ UNCHANGED <<user, wire>> /\ thread = Polling /\ s.type \in Live
      /\ told[id] # "closed"
  BY <1>0, <1>1, <1>2, EventIs DEF ReportConnect, kernel
<1>4. CASE ForceClose(s.id) /\ told' = told
  BY <1>2, <1>3, <1>4, ForceCloseStreamed
<1>5. CASE /\ Put(s.id, [s EXCEPT !.type = "CONNECTED", !.write = @ /\ ~nomore_sending_data(s)])
           /\ told' = Told(s.id, "open") /\ thread' = thread
  <2>1. PICK w \in BOOLEAN : w = (s.write /\ ~nomore_sending_data(s))
    BY SlotIs
  <2>2. "CONNECTED" \in Types
    BY DEF Types
  <2>3. Put(id, [s EXCEPT !.type = "CONNECTED", !.write = w])
    BY <1>2, <1>5, <2>1
  <2>4. SameStream([s EXCEPT !.type = "CONNECTED", !.write = w], s)
    <3>1. PICK r \in SlotTypes : r = [s EXCEPT !.type = "CONNECTED", !.write = w]
      BY <2>2, SetWrite
    <3>2. SameLists(r, s) /\ r.id = s.id
      BY <2>2, <3>1 DEF SlotTypes, SameLists
    <3> QED BY <1>3, <3>1, <3>2, SameAll DEF SameStream
  <2>5. StreamSlots
    BY <1>3, <2>3, <2>4, PutStream
  <2>6. told[id] # "late"
    BY DEF Control, ToldRight
  <2>7. ClosingStays /\ ToldStays
    BY <1>2, <1>3, <1>5, <2>6, ToldGrows, ToldCloses
  <2> QED BY <1>3, <2>5, <2>7, ThreadStreamed
<1> QED BY <1>1, <1>4, <1>5 DEF ReportConnect

\* report_accept: whole messages
LEMMA ReportAcceptStreamed ==
    ASSUME Base, Streamed, NEW e, ReportAccept(e), ~aborted'
    PROVE  Streamed' /\ Kept
<1> USE DEF Base
<1>1. UNCHANGED <<user, told, wire, thread>>
  BY DEF ReportAccept, AtEvent, kernel
<1>2. CASE Reservable = {}
  BY <1>1, <1>2, SameSlots, SameClosing, ThreadStreamed DEF ReportAccept
<1>3. CASE Reservable # {}
  <2>1. PICK id \in Ids : id = NextId
    BY <1>3, NextIdIs
  <2>2. id > allocId /\ id \in Nat /\ "PACCEPT" \in Types
    BY <1>3, <2>1, NextIdIs, IdsAre DEF Types
  <2>3. Put(id, NewFd(id, "PACCEPT", FALSE)) /\ Unsent(At(id)) = <<>>
    BY <1>3, <2>1 DEF ReportAccept
  <2>4. told[id] = "none"
    BY <2>2 DEF Control, Fresh, Typed
  <2>5. StreamSlots
    BY <2>2, <2>3, <2>4, NewFdStream, PutStream
  <2> QED BY <1>1, <2>5, SameClosing, ThreadStreamed
<1> QED BY <1>2, <1>3

\* forward_message_tcp: whole messages
LEMMA ReadStreamed ==
    ASSUME Base, Streamed, NEW e, Read(e)
    PROVE  Streamed' /\ Kept
<1> USE DEF Base
<1>0. AtEvent(e) /\ slot[e.slot].type \in Stream \cup {"PLISTEN"}
  BY DEF Read
<1>1. slot[e.slot].type # "RESERVE"
  BY <1>0 DEF Stream
<1>2. PICK id \in Ids : id = slot[e.slot].id
  BY <1>0, <1>1, EventIs
<1>3. /\ UNCHANGED <<user, wire>> /\ thread = Polling /\ At(id) = slot[e.slot] /\ At(id).id = id
      /\ At(id).type \in Live /\ (At(id).type = "CONNECTED" => told[id] = "open")
      /\ At(id).type # "PACCEPT"
  BY <1>0, <1>1, <1>2, EventIs DEF Read
<1>4. \/ ForceClose(id) /\ told' = told
      \/ slot' = slot /\ thread' = thread
         /\ (told' = told \/ (At(id).type \notin {"HALFCLOSE", "PLISTEN"} /\ told' = Told(id, "data")))
  BY <1>2, <1>3 DEF Read
<1>5. CASE ForceClose(id) /\ told' = told
  BY <1>3, <1>5, ForceCloseStreamed
<1>6. CASE slot' = slot /\ thread' = thread
           /\ (told' = told \/ (At(id).type \notin {"HALFCLOSE", "PLISTEN"} /\ told' = Told(id, "data")))
  <2>1. At(id).type \notin {"HALFCLOSE", "PLISTEN"} => told[id] = "open"
    BY <1>0, <1>3 DEF Stream
  <2>2. \A i \in Ids : told[i] # "late"
    BY DEF Control, ToldRight
  <2>3. told' = told
    BY <1>6, <2>1, <2>2, ToldIs
  <2> QED BY <1>3, <1>6, <2>3, SameSlots, SameClosing, ThreadStreamed
<1> QED BY <1>4, <1>5, <1>6

\* Steps that leave the slots, what is told and what is written
LEMMA OtherStreamed ==
    ASSUME Base, Streamed,
           NoCommand \/ Wait \/ (\E e \in events : Stale(e)) \/ (\E id \in Ids : PeerSends(id) \/ PeerGoes(id))
    PROVE  Streamed' /\ Kept
<1>1. UNCHANGED <<slot, user, told, thread, wire>>
  BY DEF NoCommand, Wait, Stale, AtEvent, PeerSends, PeerGoes, server, kernel
<1> QED BY <1>1, SameSlots, SameClosing, ThreadStreamed

\* No step at all: whole messages
LEMMA StutterStreamed ==
    ASSUME Base, Streamed, UNCHANGED vars
    PROVE  Streamed' /\ Kept
<1>1. UNCHANGED <<slot, user, told, thread, wire>>
  BY DEF vars, server, kernel
<1> QED BY <1>1, SameSlots, SameClosing, ThreadStreamed

-----------------------------------------------------------------------------
(* The steps that write, and those that change what is to be written, are about   *)
(* one socket                                                                     *)

\* What is written to a connection is the beginning of what follows it
LEMMA Written ==
    ASSUME Base, Streamed, ClosingStays, ToldStays, NEW id \in Ids,
           NEW q \in Seq(Unit), Messages(q), SentTo(q, id), Follows(wire[id], q, Closing(id)),
           NEW k \in 0..Len(q), told[id] = "none" => q = <<>>,
           NEW p \in Seq(Unit), p = SubSeq(q, 1, k), wire' = [wire EXCEPT ![id] = @ \o p]
    PROVE  /\ \A i \in Ids : i # id => wire'[i] = wire[i]
           /\ Whole(wire'[id], id, Closing(id)')
           /\ Follows(wire'[id], SubSeq(q, k + 1, Len(q)), Closing(id)')
           /\ told'[id] = "none" => wire'[id] = <<>>
<1> USE DEF Base
<1>1. PICK w \in Seq(Unit) : w = wire[id]
  BY DEF Typed
<1>2. PICK c \in BOOLEAN : c = Closing(id)
  BY DEF Closing
<1>3. wire'[id] = w \o p /\ \A i \in Ids : i # id => wire'[i] = wire[i]
  BY <1>1, WireIs
<1>4. Whole(w, id, c) /\ Follows(w, q, c)
  BY <1>1, <1>2 DEF Streamed
<1>5. Whole(w \o p, id, c)
  BY <1>4, WriteWhole
<1>6. Follows(w \o p, SubSeq(q, k + 1, Len(q)), c)
  BY <1>4, WriteFollows
<1>7. c => Closing(id)'
  BY <1>2 DEF ClosingStays
<1>8. Whole(w \o p, id, Closing(id)')
  BY <1>5, <1>7 DEF Whole
<1>9. Follows(w \o p, SubSeq(q, k + 1, Len(q)), Closing(id)')
  BY <1>6, <1>7 DEF Follows
<1>10. told'[id] = "none" => w \o p = <<>>
  <2> SUFFICES ASSUME told'[id] = "none" PROVE w \o p = <<>>
    OBVIOUS
  <2>1. told[id] = "none"
    BY DEF ToldStays
  <2>2. w = <<>> /\ q = <<>>
    BY <1>1, <2>1 DEF Streamed
  <2>3. k = 0
    BY <2>2
  <2>4. p = <<>>
    BY <2>3
  <2> QED BY <2>2, <2>4
<1> QED BY <1>3, <1>8, <1>9, <1>10

\* Whole messages, when one socket writes
LEMMA StreamStep ==
    ASSUME Base, Streamed, ClosingStays, ToldStays, NEW id \in Ids,
           \A i \in Ids : i # id => wire'[i] = wire[i],
           Whole(wire'[id], id, Closing(id)'), told'[id] = "none" => wire'[id] = <<>>,
           NEW w, slot'[HashId(id)] = w, \A x \in Slots : x # HashId(id) => slot'[x] = slot[x],
           w.type \in Live => /\ w.id = id /\ SentTo(All(w), id)
                              /\ Follows(wire'[id], All(w), Closing(id)') \/ Resting(id)'
                              /\ told'[id] = "none" => All(w) = <<>>,
           \A u \in Users : user[u].pc = "rest" /\ user[u].m.to # id => user'[u] = user[u],
           \A u \in Users : user'[u].pc = "rest" =>
               \/ user'[u] = user[u] /\ user[u].m.to # id
               \/ user'[u].m.to = id /\ Follows(wire'[id], Rest(user'[u]), Closing(id)')
    PROVE  Streamed'
<1> USE DEF Base
<1>1. \A i \in Ids : told'[i] = "none" => told[i] = "none"
  BY DEF ToldStays
<1>2. ASSUME NEW i \in Ids PROVE Whole(wire'[i], i, Closing(i)') /\ (told'[i] = "none" => wire'[i] = <<>>)
  <2>1. CASE i = id
    BY <2>1
  <2>2. CASE i # id
    <3>1. Whole(wire[i], i, Closing(i)) /\ (Closing(i) => Closing(i)')
      BY DEF Streamed, ClosingStays
    <3>2. Whole(wire[i], i, Closing(i)')
      BY <3>1 DEF Whole
    <3> QED BY <1>1, <2>2, <3>2 DEF Streamed
  <2> QED BY <2>1, <2>2
<1>3. \A i : i # id /\ Resting(i) => Resting(i)'
  BY DEF Resting
<1>4. ASSUME NEW x \in Slots, slot'[x].type \in Live, NEW r, r = slot'[x]
      PROVE  /\ SentTo(All(r), r.id)
             /\ Follows(wire'[r.id], All(r), Closing(r.id)') \/ Resting(r.id)'
             /\ told'[r.id] = "none" => All(r) = <<>>
  <2>1. CASE x = HashId(id)
    <3>1. r = w /\ w.type \in Live /\ w.id = id
      BY <1>4, <2>1
    <3> QED BY <3>1
  <2>2. CASE x # HashId(id)
    <3>1. r = slot[x] /\ r.type \in Live
      BY <1>4, <2>2
    <3>2. r.id \in Ids /\ HashId(r.id) = x
      BY <3>1 DEF Control, Placed
    <3>3. r.id # id /\ wire'[r.id] = wire[r.id]
      BY <2>2, <3>2
    <3>4. /\ SentTo(All(r), r.id)
          /\ Follows(wire[r.id], All(r), Closing(r.id)) \/ Resting(r.id)
          /\ told[r.id] = "none" => All(r) = <<>>
      BY <3>1 DEF Streamed
    <3>5. Follows(wire[r.id], All(r), Closing(r.id)') \/ Resting(r.id)'
      BY <1>3, <3>2, <3>3, <3>4, ClosingRises
    <3> QED BY <1>1, <3>2, <3>3, <3>4, <3>5
  <2> QED BY <2>1, <2>2
<1>5. ASSUME NEW u \in Users, user'[u].pc = "rest", NEW i, i = user'[u].m.to
      PROVE  Follows(wire'[i], Rest(user'[u]), Closing(i)')
  <2>1. CASE user'[u] = user[u] /\ user[u].m.to # id
    <3>1. i \in Ids /\ i # id /\ user[u].pc = "rest" /\ i = user[u].m.to
      BY <1>5, <2>1, MessageTo DEF Busy
    <3>2. Follows(wire[i], Rest(user[u]), Closing(i))
      BY <3>1 DEF Streamed
    <3> QED BY <2>1, <3>1, <3>2, ClosingRises
  <2>2. CASE user'[u].m.to = id /\ Follows(wire'[id], Rest(user'[u]), Closing(id)')
    BY <1>5, <2>2
  <2> QED BY <1>5, <2>1, <2>2
<1> QED BY <1>2, <1>4, <1>5 DEF Streamed, Closing, Resting

\* Nobody has the rest of a message to a socket whose lock is free
LEMMA NotResting ==
    ASSUME Typed, Locked, NEW id, At(id).lock = None
    PROVE  ~Resting(id)
BY UsersAssumption DEF Locked, Resting

\* Lists one after the other, taken together in another way
LEMMA Regrouped ==
    ASSUME NEW v \in Seq(Unit), NEW p \in Seq(Unit), NEW r \in Seq(Unit)
    PROVE  (v \o p) \o r = v \o (p \o r)
<1>1. PICK c \in Seq(Unit) : c = v \o (p \o r)
  BY ThreeLists
<1>2. PICK a \in Seq(Unit) : a = v \o p
  BY ConcatIs
<1>3. c = a \o r
  BY <1>1, <1>2, ThreeLists
<1> QED BY <1>1, <1>2, <1>3

\* What was written and what is left are the stream that was there
LEMMA PartOfStream ==
    ASSUME NEW v \in Seq(Unit), NEW q \in Seq(Unit), NEW k \in 0..Len(q), NEW p \in Seq(Unit), p = SubSeq(q, 1, k)
    PROVE  /\ Len(v) <= Len(v \o p) /\ Len(v \o p) <= Len(v \o q) /\ Len(v \o q) \in Nat
           /\ (v \o p) \o SubSeq(q, k + 1, Len(q)) = v \o q
           /\ \A i \in 1..Len(v \o p) : (v \o p)[i] = (v \o q)[i]
<1>1. PICK r \in Seq(Unit) : r = SubSeq(q, k + 1, Len(q))
  BY SuffixIs
<1>2. Len(q) \in Nat /\ k \in Nat /\ k <= Len(q)
  BY LenIs
<1>3. Len(p) = k /\ \A i \in 1..k : p[i] = q[i]
  BY PrefixIs
<1>4. Len(r) = Len(q) - k /\ \A i \in 1..Len(q) - k : r[i] = q[i + k]
  BY <1>1, SuffixIs
<1>5. p \o r = q
  <2>1. PICK c \in Seq(Unit) : c = p \o r
    BY ConcatIs
  <2>2. Len(c) = Len(p) + Len(r) /\ \A i \in 1..Len(p) + Len(r) : c[i] = IF i <= Len(p) THEN p[i] ELSE r[i - Len(p)]
    BY <2>1, ConcatIs
  <2>3. Len(c) = Len(q) /\ \A i \in 1..Len(q) : c[i] = IF i <= k THEN p[i] ELSE r[i - k]
    BY <1>2, <1>3, <1>4, <2>2
  <2>4. ASSUME NEW i \in 1..Len(q) PROVE c[i] = q[i]
    <3>1. CASE i <= k
      BY <1>2, <1>3, <2>3, <3>1
    <3>2. CASE i > k
      <4>1. i - k \in 1..Len(q) - k /\ (i - k) + k = i
        BY <1>2, <3>2
      <4>2. r[i - k] = q[i]
        BY <1>4, <4>1
      <4>3. ~(i <= k)
        BY <1>2, <3>2
      <4> QED BY <2>3, <4>2, <4>3
    <3> QED BY <1>2, <3>1, <3>2
  <2> QED BY <2>1, <2>3, <2>4, SameSequence
<1>6. PICK a \in Seq(Unit) : a = v \o p
  BY ConcatIs
<1>7. a \o r = v \o q
  <2>1. \A x \in Seq(Unit), y \in Seq(Unit), z \in Seq(Unit) : (x \o y) \o z = x \o (y \o z)
    BY Regrouped
  <2>2. (v \o p) \o r = v \o (p \o r)
    BY ZenonT(60), <2>1
  <2> QED BY <1>5, <1>6, <2>2
<1>8. PICK b \in Seq(Unit) : b = a \o r
  BY ConcatIs
<1>9. Len(a) = Len(v) + Len(p) /\ Len(v) \in Nat /\ Len(p) \in Nat
  BY <1>6, ConcatIs
<1>10. Len(b) = Len(a) + Len(r) /\ Len(a) \in Nat /\ Len(r) \in Nat /\ \A i \in 1..Len(a) : b[i] = a[i]
  BY <1>8, ConcatIs
<1>11. Len(v) <= Len(a) /\ Len(a) <= Len(b)
  BY <1>9, <1>10
<1>12. b = v \o q /\ b = (v \o p) \o SubSeq(q, k + 1, Len(q)) /\ Len(b) \in Nat
  BY <1>1, <1>6, <1>7, <1>8, LenIs
<1> QED BY <1>6, <1>10, <1>11, <1>12

\* The thread writes a part of what waits; what is left follows
LEMMA SlotWritten ==
    ASSUME Base, Streamed, ClosingStays, NEW id \in Ids, NEW s \in SlotTypes, s = At(id),
           s.type \in Live, s.id = id, s.lock = None, NEW k \in 0..Len(All(s)),
           NEW w, Put(id, w),
           w.type \in Live => /\ w.id = id
                              /\ \/ All(w) = SubSeq(All(s), k + 1, Len(All(s)))
                                 \/ All(w) = <<>> /\ Closing(id)'
                              /\ \A i \in 1..Len(w.low) : \E j \in 1..Len(s.low) : w.low[i] = s.low[j],
           wire' = [wire EXCEPT ![id] = @ \o SubSeq(All(s), 1, k)], UNCHANGED <<told, user>>
    PROVE  Streamed' /\ Kept
<1> USE DEF Base
<1>1. PICK q \in Seq(Unit) : q = All(s)
  BY SlotLists
<1>2. HashId(id) \in Slots /\ slot[HashId(id)] = s
  BY IdsAre DEF At
<1>3. Messages(q)
  BY <1>1, <1>2, AllMessages DEF Listed
<1>4. SentTo(q, id) /\ (Follows(wire[id], q, Closing(id)) \/ Resting(id)) /\ (told[id] = "none" => q = <<>>)
  BY <1>1, <1>2 DEF Streamed
<1>5. ~Resting(id)
  BY NotResting
<1>6. PICK p \in Seq(Unit) : p = SubSeq(q, 1, k)
  BY <1>1, PrefixIs
<1>7. ToldStays /\ wire' = [wire EXCEPT ![id] = @ \o p]
  BY <1>1, <1>6 DEF ToldStays
<1>8. /\ \A i \in Ids : i # id => wire'[i] = wire[i]
      /\ Whole(wire'[id], id, Closing(id)')
      /\ Follows(wire'[id], SubSeq(q, k + 1, Len(q)), Closing(id)')
      /\ told'[id] = "none" => wire'[id] = <<>>
  BY <1>1, <1>3, <1>4, <1>5, <1>6, <1>7, Written
<1>9. slot'[HashId(id)] = w /\ \A x \in Slots : x # HashId(id) => slot'[x] = slot[x]
  BY <1>2 DEF Put, Typed
<1>10. ASSUME w.type \in Live
       PROVE  /\ w.id = id /\ SentTo(All(w), id) /\ Follows(wire'[id], All(w), Closing(id)')
              /\ told'[id] = "none" => All(w) = <<>>
  <2>1. CASE All(w) = SubSeq(q, k + 1, Len(q))
    <3>1. PICK r \in Seq(Unit) : r = SubSeq(q, k + 1, Len(q)) /\ Len(r) = Len(q) - k /\ \A i \in 1..Len(q) - k : r[i] = q[i + k]
      BY <1>1, SuffixIs
    <3>2. Len(q) \in Nat /\ k \in 0..Len(q)
      BY <1>1, LenIs
    <3>3. \A i \in 1..Len(r) : i + k \in 1..Len(q) /\ r[i] = q[i + k]
      BY <3>1, <3>2
    <3>4. SentTo(r, id)
      BY <1>4, <3>3 DEF SentTo
    <3>5. told[id] = "none" => r = <<>>
      BY <1>4, <3>1, <3>2, LenIs
    <3> QED BY <1>8, <1>10, <2>1, <3>1, <3>4, <3>5
  <2>2. CASE All(w) = <<>> /\ Closing(id)'
    BY <1>10, <2>2 DEF SentTo, Follows
  <2> QED BY <1>1, <1>10, <2>1, <2>2
<1>11. \A u \in Users : user'[u].pc = "rest" => user'[u] = user[u] /\ user[u].m.to # id
  BY <1>5 DEF Resting
<1>12. \A u \in Users : user[u].pc = "rest" /\ user[u].m.to # id => user'[u] = user[u]
  OBVIOUS
<1>13. Streamed'
  <2>1. w.type \in Live =>
            /\ w.id = id /\ SentTo(All(w), id)
            /\ Follows(wire'[id], All(w), Closing(id)') \/ Resting(id)'
            /\ told'[id] = "none" => All(w) = <<>>
    BY <1>10
  <2>2. \A u \in Users : user'[u].pc = "rest" =>
               \/ user'[u] = user[u] /\ user[u].m.to # id
               \/ user'[u].m.to = id /\ Follows(wire'[id], Rest(user'[u]), Closing(id)')
    BY <1>11
  <2> QED BY <1>7, <1>8, <1>9, <1>12, <2>1, <2>2, StreamStep
<1>14. PICK v \in Seq(Unit) : v = wire[id]
  BY DEF Typed
<1>15. wire'[id] = v \o p /\ \A i \in Ids : i # id => wire'[i] = wire[i]
  BY <1>7, <1>14, WireIs
<1>16. StreamOf(id) = v \o q
  BY <1>1, <1>2, <1>14 DEF StreamOf, At
<1>17. \A i \in Ids : i # id => StreamOf(i)' = StreamOf(i)
  <2> SUFFICES ASSUME NEW i \in Ids, i # id PROVE StreamOf(i)' = StreamOf(i)
    OBVIOUS
  <2>1. CASE HashId(i) = HashId(id)
    <3>1. At(i) = s /\ At(i)' = w /\ s.id # i /\ ~(w.id = i /\ w.type \in Live)
      BY <1>2, <1>9, <1>10, <2>1 DEF At
    <3> QED BY <1>15, <3>1 DEF StreamOf
  <2>2. CASE HashId(i) # HashId(id)
    <3>1. At(i)' = At(i)
      BY <1>9, <2>2, IdsAre DEF At
    <3> QED BY <1>15, <3>1 DEF StreamOf
  <2> QED BY <2>1, <2>2
<1>18. /\ Len(v) <= Len(wire'[id]) /\ Len(StreamOf(id)') <= Len(StreamOf(id))
       /\ \A i \in 1..Len(StreamOf(id)') : StreamOf(id)'[i] = StreamOf(id)[i]
  <2>1. StreamOf(id)' = v \o p \/ StreamOf(id)' = (v \o p) \o SubSeq(q, k + 1, Len(q))
    <3>1. w.type \in Live /\ All(w) = <<>> => wire'[id] \o All(w) = v \o p
      <4>1. (v \o p) \in Seq(Unit)
        BY ConcatIs
      <4> QED BY <1>15, <4>1
    <3> QED BY <1>1, <1>9, <1>15, <3>1 DEF StreamOf, At
  <2>2. k \in 0..Len(q) /\ p = SubSeq(q, 1, k)
    BY <1>1, <1>6
  <2>3. /\ Len(v) <= Len(v \o p) /\ Len(v \o p) <= Len(v \o q) /\ Len(v \o q) \in Nat
        /\ (v \o p) \o SubSeq(q, k + 1, Len(q)) = v \o q
        /\ \A i \in 1..Len(v \o p) : (v \o p)[i] = (v \o q)[i]
    BY ZenonT(60), <2>2, PartOfStream
  <2>4. CASE StreamOf(id)' = v \o p
    BY <1>15, <1>16, <2>3, <2>4
  <2>5. CASE StreamOf(id)' = v \o q
    BY <1>15, <1>16, <2>3, <2>5
  <2> QED BY <2>1, <2>3, <2>4, <2>5
<1>19. \A i \in Ids : i # id =>
         /\ Len(wire[i]) <= Len(wire'[i]) /\ Len(StreamOf(i)') <= Len(StreamOf(i))
         /\ \A j \in 1..Len(StreamOf(i)') : StreamOf(i)'[j] = StreamOf(i)[j]
  BY <1>15, <1>17, StreamIs
<1>20. \A x \in Slots : slot'[x].type \in Live => \A i \in 1..Len(slot'[x].low) :
          slot[x].type \in Live /\ \E j \in 1..Len(slot[x].low) : slot'[x].low[i] = slot[x].low[j]
  <2> SUFFICES ASSUME NEW x \in Slots, slot'[x].type \in Live, NEW i \in 1..Len(slot'[x].low)
               PROVE  slot[x].type \in Live /\ \E j \in 1..Len(slot[x].low) : slot'[x].low[i] = slot[x].low[j]
    OBVIOUS
  <2>1. CASE x = HashId(id)
    BY <1>2, <1>9, <2>1
  <2>2. CASE x # HashId(id)
    BY <1>9, <2>2
  <2> QED BY <2>1, <2>2
<1>21. Kept
  BY <1>14, <1>18, <1>19, <1>20 DEF Kept
<1> QED BY <1>13, <1>21

\* send_buffer of a write event: whole messages
LEMMA WriteStreamed ==
    ASSUME Base, Streamed, NEW e, Write(e)
    PROVE  Streamed' /\ Kept
<1> USE DEF Base
<1>0. AtEvent(e) /\ slot[e.slot].type \in Stream \cup {"PLISTEN"} /\ told' = told
  BY DEF Write
<1>1. PICK s \in SlotTypes : s = slot[e.slot]
  BY <1>0, EventIs
<1>2. s.type # "RESERVE"
  BY <1>0, <1>1 DEF Stream
<1>3. PICK id \in Ids : id = s.id
  BY <1>0, <1>1, <1>2, EventIs
<1>4. /\ UNCHANGED user /\ s.type \in Live /\ At(id) = s /\ WellListed(s) /\ e.slot = HashId(id)
      /\ thread = Polling
  BY <1>0, <1>1, <1>2, <1>3, EventIs
<1>5. PICK r \in SendBuffer(s, 1) :
        /\ slot' = [slot EXCEPT ![e.slot] = r.slot]
        /\ wire' = [wire EXCEPT ![id] = @ \o r.units]
  BY <1>1, <1>3 DEF Write
<1>6. PICK t \in SlotTypes : t = r.slot
  BY <1>4, Outcomes
<1>7. Put(id, t)
  BY <1>4, <1>5, <1>6 DEF Put
<1>8. ClosingStays /\ ToldStays
  BY <1>0, <1>4, ClosedStays DEF ToldStays
<1>9. Blocked(s, r) \/ \E k \in 0..Len(All(s)) : Wrote(s, r, k) \/ Gone(s, r, k)
  BY <1>4, Outcomes
<1>10. CASE Blocked(s, r)
  <2>1. t = s /\ r.units = <<>>
    BY <1>6, <1>10 DEF Blocked
  <2>2. wire' = wire
    BY <1>5, <2>1 DEF Typed
  <2>3. StreamSlots
    BY <1>4, <1>7, <2>1, <1>3, PutStream DEF SameStream
  <2> QED BY <1>4, <1>8, <2>2, <2>3, ThreadStreamed
<1>11. ASSUME NEW k \in 0..Len(All(s)), Wrote(s, r, k) PROVE Streamed' /\ Kept
  <2>1. /\ s.lock = None /\ r.units = SubSeq(All(s), 1, k) /\ t.id = s.id
        /\ All(t) = SubSeq(All(s), k + 1, Len(All(s)))
        /\ \A i \in 1..Len(t.low) : \E j \in 1..Len(s.low) : t.low[i] = s.low[j]
    BY <1>6, <1>11 DEF Wrote, SameSocketAs
  <2>2. wire' = [wire EXCEPT ![id] = @ \o SubSeq(All(s), 1, k)]
    BY <1>5, <2>1
  <2> QED BY <1>0, <1>3, <1>4, <1>7, <1>8, <2>1, <2>2, SlotWritten
<1>12. ASSUME NEW k \in 0..Len(All(s)), Gone(s, r, k) PROVE Streamed' /\ Kept
  <2>1. /\ s.lock = None /\ r.units = SubSeq(All(s), 1, k) /\ t.type \notin Live
    BY <1>6, <1>12 DEF Gone, Live
  <2>2. wire' = [wire EXCEPT ![id] = @ \o SubSeq(All(s), 1, k)]
    BY <1>5, <2>1
  <2> QED BY <1>0, <1>3, <1>4, <1>7, <1>8, <2>1, <2>2, SlotWritten
<1> QED BY <1>9, <1>10, <1>11, <1>12

\* What close_socket leaves in the slot: what was there, with another type, or nothing
LEMMA CloseSocketIs ==
    ASSUME Base, CloseSocket, ~clobbered', NEW id \in Ids, id = Head(pipe).id, IsOpen(id),
           NEW s \in SlotTypes, s = At(id)
    PROVE  /\ s.type \in Live /\ s.id = id /\ WellListed(s) /\ (s.type = "PACCEPT" => ~s.write)
           /\ UNCHANGED <<told, user>>
           /\ \E r \in SendBuffer(s, 0) \cup {Nothing(s)} :
                /\ wire' = [wire EXCEPT ![id] = @ \o r.units]
                /\ \/ r.slot.type = "INVALID" /\ Put(id, r.slot)
                   \/ r.slot.type # "INVALID" /\ Put(id, [r.slot EXCEPT !.type = "HALFCLOSE"])
                   \/ r.slot.type # "INVALID" /\ Put(id, Freed(r.slot)) /\ Closing(id)'
<1> USE DEF Base
<1>1. AtCommand({"K", "shutdown"})
  BY DEF CloseSocket
<1>2. s.type # "RESERVE"
  BY DEF CloseSocket
<1>3. s.type \in Live /\ s.id = id
  BY <1>2, SlotIs DEF IsOpen, Live
<1>4. (s.type = "PACCEPT" => ~s.write) /\ WellListed(s)
  BY <1>3, IdsAre DEF Control, Placed, Listed, At
<1>5. PICK r \in SendBuffer(s, 0) \cup {Nothing(s)} :
        /\ wire' = [wire EXCEPT ![id] = @ \o r.units] /\ told' = told
        /\ IF r.slot.type = "INVALID"
           THEN Put(id, r.slot) /\ thread' = [pc |-> "clear", id |-> id]
           ELSE IF StaysOpen(r.slot, Head(pipe).cmd)
           THEN Put(id, [r.slot EXCEPT !.type = "HALFCLOSE"]) /\ UNCHANGED thread
           ELSE Put(id, Freed(r.slot)) /\ thread' = [pc |-> "close", id |-> id]
  <2>1. SendBuffer(s, 0) \subseteq SendBuffer(s, 0) \cup {Nothing(s)} /\ Nothing(s) \in SendBuffer(s, 0) \cup {Nothing(s)}
    OBVIOUS
  <2> QED BY <2>1 DEF CloseSocket
<1>6. thread' = [pc |-> "close", id |-> id] => Closing(id)'
  BY DEF Closing, Polling
<1>7. user' = user
  BY <1>1, CommandIs
<1> QED BY <1>3, <1>4, <1>5, <1>6, <1>7

\* close_socket: whole messages
LEMMA CloseSocketStreamed ==
    ASSUME Base, Streamed, CloseSocket, ~clobbered'
    PROVE  Streamed' /\ Kept
<1> USE DEF Base
<1>1. AtCommand({"K", "shutdown"})
  BY DEF CloseSocket
<1>2. PICK id \in Ids : id = Head(pipe).id
  BY <1>1, CommandIs
<1>3. PICK s \in SlotTypes : s = At(id)
  BY <1>1, <1>2, CommandIs
<1>4. thread = Polling /\ UNCHANGED user
  BY <1>1, CommandIs
<1>5. CASE ~IsOpen(id)
  <2>1. UNCHANGED <<slot, thread, wire>> /\ told' = Told(id, "closed")
    BY <1>2, <1>5 DEF CloseSocket
  <2>2. told[id] # "late"
    BY DEF Control, ToldRight
  <2>3. ToldStays /\ ClosingStays
    BY <1>4, <2>1, <2>2, ToldGrows, ToldCloses
  <2> QED BY <1>4, <2>1, <2>3, SameSlots, ThreadStreamed
<1>6. CASE IsOpen(id)
  <2>1. s.type \in Live /\ s.id = id /\ WellListed(s) /\ UNCHANGED <<told, user>>
    BY <1>2, <1>3, <1>6, CloseSocketIs
  <2>2. PICK r \in SendBuffer(s, 0) \cup {Nothing(s)} :
          /\ wire' = [wire EXCEPT ![id] = @ \o r.units]
          /\ \/ r.slot.type = "INVALID" /\ Put(id, r.slot)
             \/ r.slot.type # "INVALID" /\ Put(id, [r.slot EXCEPT !.type = "HALFCLOSE"])
             \/ r.slot.type # "INVALID" /\ Put(id, Freed(r.slot)) /\ Closing(id)'
    BY <1>2, <1>3, <1>6, CloseSocketIs
  <2>3. /\ r.slot \in SlotTypes
        /\ Blocked(s, r) \/ \E k \in 0..Len(All(s)) : Wrote(s, r, k) \/ Gone(s, r, k)
    <3>1. CASE r \in SendBuffer(s, 0)
      BY <2>1, <3>1, Outcomes
    <3>2. CASE r = Nothing(s)
      BY <3>2 DEF Nothing, Blocked
    <3> QED BY <2>2, <3>1, <3>2
  <2>4. PICK t \in SlotTypes : t = r.slot
    BY <2>3
  <2>5. ClosingStays /\ ToldStays
    BY <1>4, <2>1, ClosedStays DEF ToldStays
  <2>6. PICK h \in SlotTypes : h = [t EXCEPT !.type = "HALFCLOSE"]
    BY SetType DEF Types
  <2>7. h.id = t.id /\ All(h) = All(t) /\ h.low = t.low
    <3>1. h.id = t.id /\ SameLists(h, t)
      BY <2>6 DEF SlotTypes, SameLists
    <3> QED BY <3>1, SameAll
  <2>8. PICK f \in SlotTypes : f = Freed(t)
    BY FreedIs
  <2>9. f.id = t.id /\ All(f) = t.dw /\ f.low = <<>>
    <3>1. f.id = t.id /\ f.high = <<>> /\ f.low = <<>> /\ f.dw = t.dw
      BY <2>8, FreedIs DEF SameSocketAs
    <3> QED BY <3>1, SlotLists DEF All, Unsent
  <2>10. \/ t.type = "INVALID" /\ Put(id, t)
         \/ Put(id, h)
         \/ Put(id, f) /\ Closing(id)'
    BY <2>2, <2>4, <2>6, <2>8
  <2>11. CASE Blocked(s, r)
    <3>1. t = s /\ r.units = <<>>
      BY <2>4, <2>11 DEF Blocked
    <3>2. wire' = wire
      BY <2>2, <3>1 DEF Typed
    <3>3. PICK w : Put(id, w) /\ (w.type \in Live => SameStream(w, s))
      BY <2>1, <2>7, <2>9, <2>10, <3>1 DEF SameStream, Live
    <3>4. StreamSlots
      BY <1>3, <3>3, PutStream
    <3> QED BY <1>4, <2>5, <3>2, <3>4, ThreadStreamed
  <2>12. ASSUME NEW k \in 0..Len(All(s)), Wrote(s, r, k) PROVE Streamed' /\ Kept
    <3>1. /\ s.lock = None /\ r.units = SubSeq(All(s), 1, k) /\ t.id = s.id /\ t.dw = <<>>
          /\ All(t) = SubSeq(All(s), k + 1, Len(All(s)))
          /\ \A i \in 1..Len(t.low) : \E j \in 1..Len(s.low) : t.low[i] = s.low[j]
      BY <2>4, <2>12 DEF Wrote, SameSocketAs
    <3>2. wire' = [wire EXCEPT ![id] = @ \o SubSeq(All(s), 1, k)]
      BY <2>2, <3>1
    <3>3. PICK w : /\ Put(id, w)
                   /\ w.type \in Live =>
                        /\ w.id = id
                        /\ All(w) = SubSeq(All(s), k + 1, Len(All(s))) \/ (All(w) = <<>> /\ Closing(id)')
                        /\ \A i \in 1..Len(w.low) : \E j \in 1..Len(s.low) : w.low[i] = s.low[j]
      <4>1. CASE t.type = "INVALID" /\ Put(id, t)
        BY <4>1 DEF Live
      <4>2. CASE Put(id, h)
        <5>1. h.id = id /\ All(h) = SubSeq(All(s), k + 1, Len(All(s))) /\ h.low = t.low
          BY <2>1, <2>7, <3>1
        <5>2. \A i \in 1..Len(h.low) : \E j \in 1..Len(s.low) : h.low[i] = s.low[j]
          BY <3>1, <5>1
        <5> QED BY <4>2, <5>1, <5>2
      <4>3. CASE Put(id, f) /\ Closing(id)'
        <5>1. f.id = id /\ All(f) = <<>> /\ Len(f.low) = 0
          BY <2>1, <2>9, <3>1
        <5>2. \A i \in 1..Len(f.low) : \E j \in 1..Len(s.low) : f.low[i] = s.low[j]
          BY <5>1
        <5> QED BY <4>3, <5>1, <5>2
      <4> QED BY <2>10, <4>1, <4>2, <4>3
    <3> QED BY <1>3, <2>1, <2>5, <3>1, <3>2, <3>3, SlotWritten
  <2>13. ASSUME NEW k \in 0..Len(All(s)), Gone(s, r, k) PROVE Streamed' /\ Kept
    <3>1. s.lock = None /\ r.units = SubSeq(All(s), 1, k) /\ t.type = "INVALID"
      BY <2>4, <2>13 DEF Gone
    <3>2. wire' = [wire EXCEPT ![id] = @ \o SubSeq(All(s), 1, k)]
      BY <2>2, <3>1
    <3>3. Put(id, t)
      BY <2>2, <2>4, <3>1
    <3>4. t.type \notin Live
      BY <3>1 DEF Live
    <3> QED BY <1>3, <2>1, <2>5, <3>1, <3>2, <3>3, <3>4, SlotWritten
  <2> QED BY <2>3, <2>11, <2>12, <2>13
<1> QED BY <1>5, <1>6

\* The rest of what follows, as a list, is the rest of the units of the message
LEMMA RestIs ==
    ASSUME NEW m \in Msgs, NEW k \in 0..Size - 1, NEW v, v.m = m, v.k = k
    PROVE  /\ Rest(v) \in Seq(Unit) /\ Rest(v) = SubSeq(Units(m), k + 1, Len(Units(m)))
           /\ Len(Rest(v)) = Size - k /\ \A i \in 1..Size - k : Rest(v)[i] = [m |-> m, u |-> k + i]
<1>1. PICK q \in Seq(Unit) : q = Units(m) /\ Len(q) = Size
  BY UnitsAre
<1>2. k \in 0..Len(q) /\ Size \in Nat
  BY <1>1, NumbersAssumption
<1>3. PICK r \in Seq(Unit) : r = SubSeq(q, k + 1, Len(q)) /\ Len(r) = Len(q) - k /\ \A i \in 1..Len(q) - k : r[i] = q[i + k]
  BY <1>2, SuffixIs
<1>4. Rest(v) = r
  BY <1>1, <1>3 DEF Rest
<1>5. \A i \in 1..Size - k : i + k \in 1..Size /\ i + k = k + i
  BY <1>2
<1>6. \A i \in 1..Size - k : r[i] = [m |-> m, u |-> k + i]
  BY SMTT(60), <1>1, <1>3, <1>5, UnitsAre
<1> QED BY <1>1, <1>3, <1>4, <1>6

\* A worker writes a part of its message, or all, to a socket with nothing else to send
LEMMA DirectWriteStreamed ==
    ASSUME Base, Streamed, NEW u \in Users, DirectWrite(u)
    PROVE  Streamed'
<1> USE DEF Base
<1>1. user[u].pc = "locked" /\ user[u].pc \in Busy \ {"rest"} /\ "ref" \in Busy \ {"rest"}
  BY DEF DirectWrite, Busy
<1>2. PICK m \in Msgs : m = user[u].m
  BY <1>1, MessageTo
<1>3. PICK id \in Ids : id = m.to
  BY DEF Msgs
<1>4. PICK s \in SlotTypes : s = At(id)
  BY IdsAre, AtIs DEF Typed
<1>5. HashId(id) \in Slots /\ s = slot[HashId(id)] /\ UNCHANGED <<told, thread>>
  BY <1>4, IdsAre DEF At, DirectWrite
<1>6. s.lock = u
  BY <1>1, <1>2, <1>3, <1>4 DEF Locked
<1>7. \A v \in Users : v # u => ~(user[v].pc = "rest" /\ user[v].m.to = id)
  BY <1>4, <1>6 DEF Locked
<1>8. ~Resting(id)
  BY <1>1, <1>7 DEF Resting
<1>9. PICK t \in SlotTypes : t = [s EXCEPT !.lock = None]
  BY SetLock
<1>10. SameLists(t, s) /\ t.type = s.type /\ t.id = s.id
  BY <1>9 DEF SlotTypes, SameLists
<1>11. t.type \in Live => SameStream(t, s)
  BY <1>10, SameAll DEF SameStream
<1>12. CASE ~MayWrite(s, id)
  <2>1. Put(id, t) /\ Goto(u, "ref") /\ wire' = wire
    BY <1>2, <1>3, <1>4, <1>9, <1>12 DEF DirectWrite
  <2>2. StreamSlots
    BY <1>4, <1>11, <2>1, PutStream
  <2>3. user'[u].pc = "ref" /\ \A v \in Users : v # u => user'[v] = user[v]
    BY <1>1, <2>1, GotoIs
  <2> QED BY <1>1, <1>5, <2>1, <2>2, <2>3, UserStreamed
<1>13. CASE MayWrite(s, id)
  <2>1. s.id = id /\ s.type = "CONNECTED" /\ s.type \in Live /\ Unsent(s) = <<>> /\ s.dw = <<>>
    BY <1>13 DEF MayWrite, CanWrite, nomore_sending_data, Live, Types
  <2>2. All(s) = <<>>
    BY <2>1, SlotLists
  <2>3. told[id] = "open"
    BY <1>5, <2>1 DEF Control, ToldRight
  <2>4. Follows(wire[id], <<>>, Closing(id))
    BY <1>5, <1>8, <2>1, <2>2 DEF Streamed
  <2>5. PICK q \in Seq(Unit) : q = Units(m) /\ Len(q) = Size
    BY UnitsAre
  <2>6. Messages(q) /\ SentTo(q, id)
    <3>1. Messages(q)
      BY <2>5, UnitsMessages
    <3>2. \A i \in 1..Len(q) : q[i] = [m |-> m, u |-> i]
      BY <2>5, UnitsAre
    <3>3. ASSUME NEW i \in 1..Len(q) PROVE q[i].m = m
      <4>1. q[i] = [m |-> m, u |-> i]
        BY <3>2
      <4> QED BY <4>1
    <3>4. SentTo(q, id)
      BY <1>3, <3>3 DEF SentTo
    <3> QED BY <3>1, <3>4
  <2>7. Follows(wire[id], q, Closing(id))
    <3>1. ~(q # <<>> /\ q[1].u > 1)
      BY <2>5, UnitsMessages DEF Starts
    <3> QED BY <2>4, <3>1 DEF Follows
  <2>8. PICK k \in 0..Size :
          /\ wire' = [wire EXCEPT ![id] = @ \o SubSeq(q, 1, k)]
          /\ \/ k = Size /\ Put(id, t) /\ user' = [user EXCEPT ![u] = Idle]
             \/ k # Size /\ slot' = slot /\ user' = [user EXCEPT ![u] = [pc |-> "rest", m |-> m, k |-> k]]
    BY ZenonT(60), <1>2, <1>3, <1>4, <1>9, <1>13, <2>1, <2>5 DEF DirectWrite
  <2>9. PICK p \in Seq(Unit) : p = SubSeq(q, 1, k)
    BY <2>5, PrefixIs
  <2>10. ClosingStays /\ ToldStays
    BY <1>5, SameClosing
  <2>11. wire' = [wire EXCEPT ![id] = @ \o p] /\ k \in 0..Len(q) /\ told[id] # "none"
    BY <2>3, <2>5, <2>8, <2>9
  <2>12. /\ \A i \in Ids : i # id => wire'[i] = wire[i]
         /\ Whole(wire'[id], id, Closing(id)')
         /\ Follows(wire'[id], SubSeq(q, k + 1, Len(q)), Closing(id)')
         /\ told'[id] = "none" => wire'[id] = <<>>
    BY <2>6, <2>7, <2>9, <2>10, <2>11, Written
  <2>13. \A v \in Users : v # u => user'[v] = user[v]
    BY <2>8 DEF Typed
  <2>14. \A v \in Users : user[v].pc = "rest" /\ user[v].m.to # id => user'[v] = user[v]
    BY <1>1, <2>13
  <2>15. told'[id] # "none"
    BY <1>5, <2>3
  <2>16. CASE k = Size
    <3>1. Put(id, t) /\ user' = [user EXCEPT ![u] = Idle]
      BY <2>8, <2>16
    <3>2. slot'[HashId(id)] = t /\ \A x \in Slots : x # HashId(id) => slot'[x] = slot[x]
      BY <1>5, <3>1 DEF Put, Typed
    <3>3. SubSeq(q, k + 1, Len(q)) = <<>>
      <4>1. PICK r \in Seq(Unit) : r = SubSeq(q, k + 1, Len(q)) /\ Len(r) = Len(q) - k
        BY <2>11, SuffixIs
      <4> QED BY <2>5, <2>16, <4>1, LenIs
    <3>4. All(t) = <<>>
      BY <1>10, <2>2, SameAll
    <3>5. t.id = id /\ SentTo(All(t), id) /\ Follows(wire'[id], All(t), Closing(id)')
      <4>1. Follows(wire'[id], All(t), Closing(id)')
        BY <2>12, <3>3, <3>4
      <4> QED BY <1>10, <2>1, <3>4, <4>1, NoneFollows
    <3>6. user'[u].pc = "idle"
      BY <3>1 DEF Typed, Idle
    <3>7. \A v \in Users : user'[v].pc = "rest" => user'[v] = user[v] /\ user[v].m.to # id
      BY <1>7, <2>13, <3>6
    <3> QED BY <2>10, <2>12, <2>14, <2>15, <3>2, <3>5, <3>7, StreamStep
  <2>17. CASE k # Size
    <3>1. slot' = slot /\ user' = [user EXCEPT ![u] = [pc |-> "rest", m |-> m, k |-> k]]
      BY <2>8, <2>17
    <3>2. slot'[HashId(id)] = s /\ \A x \in Slots : x # HashId(id) => slot'[x] = slot[x]
      BY <1>5, <3>1
    <3>3. k \in 0..Size - 1
      BY <2>17, NumbersAssumption
    <3>9. PICK v : v = [pc |-> "rest", m |-> m, k |-> k]
      OBVIOUS
    <3>10. user'[u] = v
      BY <3>1, <3>9 DEF Typed
    <3>4. v = user'[u] /\ v.pc = "rest" /\ v.m = m /\ v.k = k
      BY <3>9, <3>10
    <3>5. Rest(v) = SubSeq(q, k + 1, Len(q))
      BY <2>5, <3>4 DEF Rest
    <3>6. user'[u].m.to = id /\ Follows(wire'[id], Rest(user'[u]), Closing(id)')
      BY <1>3, <2>12, <3>4, <3>5
    <3>7. SentTo(All(s), id) /\ Resting(id)'
      BY <1>3, <2>2, <3>4 DEF SentTo, Resting
    <3>8. \A y \in Users : user'[y].pc = "rest" =>
             \/ user'[y] = user[y] /\ user[y].m.to # id
             \/ user'[y].m.to = id /\ Follows(wire'[id], Rest(user'[y]), Closing(id)')
      BY <1>7, <2>13, <3>6
    <3> QED BY <2>1, <2>10, <2>12, <2>14, <2>15, <3>2, <3>7, <3>8, StreamStep
  <2> QED BY <2>16, <2>17
<1> QED BY <1>12, <1>13

\* ... and leaves the rest before what has come since
LEMMA KeepRestStreamed ==
    ASSUME Base, Streamed, NEW u \in Users, KeepRest(u)
    PROVE  Streamed'
<1> USE DEF Base
<1>1. user[u].pc = "rest" /\ user[u].pc \in Busy
  BY DEF KeepRest, Busy
<1>2. PICK m \in Msgs : m = user[u].m
  BY <1>1, MessageTo
<1>3. PICK id \in Ids : id = m.to
  BY DEF Msgs
<1>4. PICK s \in SlotTypes : s = At(id)
  BY IdsAre, AtIs DEF Typed
<1>5. PICK k \in 0..Size - 1 : k = user[u].k
  BY <1>1, UserIs DEF Typed
<1>6. Put(id, WithRest(s, m, k)) /\ user' = [user EXCEPT ![u] = Idle] /\ UNCHANGED <<told, thread, wire>>
  BY <1>2, <1>3, <1>4, <1>5 DEF KeepRest, kernel
<1>7. HashId(id) \in Slots /\ s = slot[HashId(id)]
  BY <1>4, IdsAre DEF At
<1>8. s.lock = u /\ s.id = id /\ s.type \in {"CONNECTED", "HALFCLOSE"} /\ s.type \in Live /\ s.dw = <<>>
  BY <1>1, <1>2, <1>3, <1>4 DEF Locked, Live, Types
<1>9. \A v \in Users : v # u => ~(user[v].pc = "rest" /\ user[v].m.to = id)
  BY <1>4, <1>8 DEF Locked
<1>10. PICK t \in SlotTypes : t = WithRest(s, m, k)
  BY WithRestIs
<1>11. /\ t.high = s.high /\ t.low = s.low /\ t.type = s.type /\ t.id = s.id
       /\ Len(t.dw) = Size - k /\ \A i \in 1..Size - k : t.dw[i] = [m |-> m, u |-> k + i]
  BY <1>10, WithRestIs
<1>12. PICK r \in Seq(Unit) : /\ r = Rest(user[u]) /\ Len(r) = Size - k
                              /\ \A i \in 1..Size - k : r[i] = [m |-> m, u |-> k + i]
  <2>1. /\ Rest(user[u]) \in Seq(Unit) /\ Len(Rest(user[u])) = Size - k
        /\ \A i \in 1..Size - k : Rest(user[u])[i] = [m |-> m, u |-> k + i]
    BY <1>2, <1>5, RestIs
  <2> QED BY <2>1
<1>13. t.dw = r
  <2>1. PICK d \in Seq(Unit) : d = t.dw
    BY SlotLists
  <2>2. Len(d) = Len(r) /\ \A i \in 1..Size - k : d[i] = r[i]
    BY <1>11, <1>12, <2>1
  <2>3. \A i \in 1..Len(d) : d[i] = r[i]
    BY <1>12, <2>2
  <2> QED BY <2>1, <2>2, <2>3, SameSequence
<1>14. Follows(wire[id], r, Closing(id)) /\ SentTo(All(s), id)
  BY <1>1, <1>2, <1>3, <1>7, <1>8, <1>12 DEF Streamed
<1>15. PICK z \in Seq(Unit) : z = Unsent(s)
  BY SlotLists
<1>16. All(t) = r \o z /\ All(s) = <<>> \o z /\ <<>> \in Seq(Unit)
  BY <1>8, <1>11, <1>13, <1>15 DEF All, Unsent
<1>17. Len(r) >= 1 /\ r # <<>>
  <2>1. Size - k >= 1
    BY NumbersAssumption
  <2> QED BY <1>12, <2>1, LenIs
<1>18. PICK a \in Seq(Unit) : a = r \o z
  BY ConcatIs
<1>19. /\ Len(a) = Len(r) + Len(z) /\ Len(r) \in Nat /\ Len(z) \in Nat
       /\ (\A i \in 1..Len(r) : a[i] = r[i]) /\ \A i \in 1..Len(z) : a[Len(r) + i] = z[i]
  BY <1>18, ConcatIs
<1>20. a # <<>> /\ a[1] = r[1]
  BY <1>17, <1>19, LenIs
<1>21. Follows(wire[id], a, Closing(id))
  BY <1>14, <1>17, <1>20 DEF Follows
<1>22. SentTo(a, id)
  <2>1. All(s) = z
    BY <1>15, <1>16
  <2>2. ASSUME NEW i \in 1..Len(a) PROVE a[i].m.to = id
    <3>1. CASE i \in 1..Len(r)
      <4>1. r[i] = [m |-> m, u |-> k + i]
        BY <1>12, <3>1
      <4> QED BY <1>3, <1>19, <3>1, <4>1
    <3>2. CASE i \notin 1..Len(r)
      <4>1. PICK j \in 1..Len(z) : i = Len(r) + j
        <5>1. i - Len(r) \in 1..Len(z) /\ i = Len(r) + (i - Len(r))
          BY <1>19, <3>2
        <5> QED BY <5>1
      <4>2. z[j].m.to = id
        BY <1>14, <2>1 DEF SentTo
      <4> QED BY <1>19, <4>1, <4>2
    <3> QED BY <3>1, <3>2
  <2> QED BY <2>2 DEF SentTo
<1>23. ClosingStays /\ ToldStays
  BY <1>6, SameClosing
<1>24. told'[id] # "none"
  BY <1>1, <1>2, <1>3, <1>6 DEF Control, Addressed
<1>25. slot'[HashId(id)] = t /\ \A x \in Slots : x # HashId(id) => slot'[x] = slot[x]
  BY <1>6, <1>7, <1>10 DEF Put, Typed
<1>26. user'[u].pc = "idle" /\ \A v \in Users : v # u => user'[v] = user[v]
  BY <1>6 DEF Typed, Idle
<1>27. /\ \A v \in Users : user[v].pc = "rest" /\ user[v].m.to # id => user'[v] = user[v]
       /\ \A v \in Users : user'[v].pc = "rest" => user'[v] = user[v] /\ user[v].m.to # id
  BY <1>2, <1>3, <1>9, <1>26
<1>28. All(t) = a
  BY <1>16, <1>18
<1>29. t.id = id /\ SentTo(All(t), id) /\ Follows(wire'[id], All(t), Closing(id)')
  BY <1>6, <1>8, <1>11, <1>21, <1>22, <1>23, <1>28, ClosingRises
<1>30. \A i \in Ids : i # id => wire'[i] = wire[i]
  BY <1>6
<1>31. Whole(wire'[id], id, Closing(id)')
  <2>1. Whole(wire[id], id, Closing(id)) /\ (Closing(id) => Closing(id)')
    BY <1>23 DEF Streamed, ClosingStays
  <2> QED BY <1>6, <2>1 DEF Whole
<1> QED BY <1>23, <1>24, <1>25, <1>27, <1>29, <1>30, <1>31, StreamStep

\* Parts of what was sent to a socket were
LEMMA SentSplits ==
    ASSUME NEW p \in Seq(Unit), NEW q \in Seq(Unit), NEW id, SentTo(p \o q, id)
    PROVE  SentTo(p, id) /\ SentTo(q, id)
<1>1. PICK a \in Seq(Unit) : a = p \o q
  BY ConcatIs
<1>2. /\ Len(a) = Len(p) + Len(q) /\ Len(p) \in Nat /\ Len(q) \in Nat
      /\ (\A i \in 1..Len(p) : a[i] = p[i]) /\ \A i \in 1..Len(q) : a[Len(p) + i] = q[i]
  BY <1>1, ConcatIs
<1>3. /\ \A i \in 1..Len(p) : i \in 1..Len(a)
      /\ \A i \in 1..Len(q) : Len(p) + i \in 1..Len(a)
  BY <1>2
<1>4. \A i \in 1..Len(a) : a[i].m.to = id
  BY <1>1 DEF SentTo
<1>5. SentTo(p, id)
  BY <1>2, <1>3, <1>4 DEF SentTo
<1>6. SentTo(q, id)
  BY <1>2, <1>3, <1>4 DEF SentTo
<1> QED BY <1>5, <1>6

\* ... and lists that were, one after the other
LEMMA SentJoins ==
    ASSUME NEW p \in Seq(Unit), NEW q \in Seq(Unit), NEW id, SentTo(p, id), SentTo(q, id)
    PROVE  SentTo(p \o q, id)
<1>1. PICK a \in Seq(Unit) : a = p \o q
  BY ConcatIs
<1>2. /\ Len(a) = Len(p) + Len(q) /\ Len(p) \in Nat /\ Len(q) \in Nat
      /\ (\A i \in 1..Len(p) : a[i] = p[i]) /\ \A i \in 1..Len(q) : a[Len(p) + i] = q[i]
  BY <1>1, ConcatIs
<1>3. ASSUME NEW i \in 1..Len(a) PROVE a[i].m.to = id
  <2>1. CASE i \in 1..Len(p)
    BY <1>2, <2>1 DEF SentTo
  <2>2. CASE i \notin 1..Len(p)
    <3>1. PICK j \in 1..Len(q) : i = Len(p) + j
      <4>1. i - Len(p) \in 1..Len(q) /\ i = Len(p) + (i - Len(p))
        BY <1>2, <2>2
      <4> QED BY <4>1
    <3>2. q[j].m.to = id
      BY DEF SentTo
    <3> QED BY <1>2, <3>1, <3>2
  <2> QED BY <2>1, <2>2
<1> QED BY <1>1, <1>3 DEF SentTo

\* The first unit of two lists
LEMMA FirstOf ==
    ASSUME NEW p \in Seq(Unit), NEW q \in Seq(Unit), p # <<>>
    PROVE  p \o q # <<>> /\ (p \o q)[1] = p[1]
<1>1. PICK a \in Seq(Unit) : a = p \o q
  BY ConcatIs
<1>2. /\ Len(a) = Len(p) + Len(q) /\ Len(p) \in Nat /\ Len(q) \in Nat
      /\ (\A i \in 1..Len(p) : a[i] = p[i])
  BY <1>1, ConcatIs
<1>3. Len(p) >= 1
  BY <1>2, LenIs
<1>4. a[1] = p[1] /\ Len(a) # 0
  BY <1>2, <1>3
<1> QED BY <1>1, <1>4, LenIs

\* The units that are added to a list of the slot are in the stream of the slot
LEMMA AppendedSent ==
    ASSUME NEW d \in Seq(Unit), NEW h \in Seq(Unit), NEW l \in Seq(Unit), NEW q \in Seq(Unit),
           NEW a \in Seq(Unit), NEW b \in Seq(Unit), (a = h \o q /\ b = l) \/ (a = h /\ b = l \o q),
           NEW id, SentTo(d \o (h \o l), id), SentTo(q, id)
    PROVE  SentTo(d \o (a \o b), id)
<1>1. SentTo(d, id) /\ SentTo(h \o l, id)
  BY ConcatIs, SentSplits
<1>2. SentTo(h, id) /\ SentTo(l, id)
  BY <1>1, SentSplits
<1>3. SentTo(a, id) /\ SentTo(b, id)
  BY <1>2, SentJoins
<1>4. a \o b \in Seq(Unit) /\ SentTo(a \o b, id)
  BY <1>3, SentJoins, ConcatIs
<1> QED BY <1>1, <1>4, SentJoins

\* The first unit of the stream stays, or it is the first one of a message
SameFirst(new, old) ==
    \/ new # <<>> /\ old # <<>> /\ new[1].m = old[1].m /\ new[1].u = old[1].u
    \/ (new # <<>> => new[1].u = 1) /\ (old # <<>> => old[1].u = 1)

\* The first unit behind a list
LEMMA FirstBehind ==
    ASSUME NEW d \in Seq(Unit), NEW new \in Seq(Unit), NEW old \in Seq(Unit), SameFirst(new, old)
    PROVE  SameFirst(d \o new, d \o old)
<1>1. CASE d = <<>>
  <2>1. d \o new = new /\ d \o old = old
    BY <1>1
  <2> QED BY <2>1
<1>2. CASE d # <<>>
  <2>1. d \o new # <<>> /\ (d \o new)[1] = d[1]
    BY <1>2, FirstOf
  <2>2. d \o old # <<>> /\ (d \o old)[1] = d[1]
    BY <1>2, FirstOf
  <2> QED BY <2>1, <2>2 DEF SameFirst
<1> QED BY <1>1, <1>2

\* The first unit of lists that begin with the beginning of a message
LEMMA FirstStarts ==
    ASSUME NEW l \in Seq(Unit), NEW q \in Seq(Unit), Starts(l), Starts(q)
    PROVE  SameFirst(l \o q, l) /\ SameFirst(q \o l, l)
<1>1. l # <<>> => l \o q # <<>> /\ (l \o q)[1] = l[1]
  BY FirstOf
<1>2. q # <<>> => q \o l # <<>> /\ (q \o l)[1] = q[1]
  BY FirstOf
<1>3. (l = <<>> => l \o q = q) /\ (q = <<>> => q \o l = l)
  OBVIOUS
<1> QED BY <1>1, <1>2, <1>3 DEF SameFirst, Starts

\* The first unit to send, when a message is added to a list of the slot
LEMMA AppendedFirst ==
    ASSUME NEW d \in Seq(Unit), NEW h \in Seq(Unit), NEW l \in Seq(Unit), NEW q \in Seq(Unit),
           Starts(q), Starts(l)
    PROVE  /\ SameFirst(d \o ((h \o q) \o l), d \o (h \o l))
           /\ SameFirst(d \o (h \o (l \o q)), d \o (h \o l))
<1>1. h \o l \in Seq(Unit) /\ l \o q \in Seq(Unit) /\ q \o l \in Seq(Unit) /\ (h \o q) \o l = h \o (q \o l)
  <2>1. h \o l \in Seq(Unit) /\ l \o q \in Seq(Unit) /\ q \o l \in Seq(Unit)
    BY ConcatIs
  <2>2. h \o (q \o l) = (h \o q) \o l
    BY ThreeLists
  <2> QED BY <2>1, <2>2
<1>2. PICK lq \in Seq(Unit), ql \in Seq(Unit) : lq = l \o q /\ ql = q \o l
  BY <1>1
<1>3. SameFirst(lq, l) /\ SameFirst(ql, l)
  BY <1>2, FirstStarts
<1>4. SameFirst(h \o lq, h \o l) /\ SameFirst(h \o ql, h \o l)
  BY <1>3, FirstBehind
<1>5. h \o lq \in Seq(Unit) /\ h \o ql \in Seq(Unit)
  BY ConcatIs
<1>6. SameFirst(d \o (h \o lq), d \o (h \o l)) /\ SameFirst(d \o (h \o ql), d \o (h \o l))
  BY <1>1, <1>4, <1>5, FirstBehind
<1> QED BY <1>1, <1>2, <1>6

\* The thread takes a message from the pipe: it goes behind what waits in its list.  One
\* of high priority may go before one of low priority, but not between its units
LEMMA SendSocketStreamed ==
    ASSUME Base, Counted, Streamed, SendSocket
    PROVE  Streamed'
<1> USE DEF Base
<1>1. AtCommand({"D", "P"})
  BY DEF SendSocket
<1>2. PICK p \in Seq(Requests) : p = pipe
  BY DEF Typed
<1>3. PICK id \in Ids : id = Head(p).id
  BY <1>1, <1>2, CommandIs
<1>4. /\ p # <<>> /\ Head(p).cmd \in Message /\ Head(p) \in Requests /\ Head(p) = p[1] /\ 1 \in DOMAIN p
      /\ UNCHANGED <<user, told, thread, wire>>
  BY <1>1, <1>2, CommandIs, TailIs DEF AtCommand, Message, SendSocket, kernel
<1>5. PICK m \in Msgs : m = Head(p).m
  BY <1>4, RequestIs
<1>6. m.to = id /\ told[id] # "none"
  BY <1>2, <1>3, <1>4, <1>5 DEF Control, Addressed, Counted
<1>7. PICK s \in SlotTypes : s = At(id)
  BY IdsAre, AtIs DEF Typed
<1>8. HashId(id) \in Slots /\ s = slot[HashId(id)]
  BY <1>7, IdsAre DEF At
<1>9. PICK t \in SlotTypes : t = Appended(s, id, m)
  BY <1>8, AppendedIs DEF Typed
<1>10. /\ t.id = s.id /\ t.type = s.type /\ t.dw = s.dw
       /\ \/ t = s
          \/ /\ s.id = id
             /\ \/ t.high = s.high \o Units(m) /\ t.low = s.low
                \/ t.high = s.high /\ t.low = s.low \o Units(m)
  <2>1. slot \in [Slots -> SlotTypes]
    BY DEF Typed
  <2>2. /\ SameSocketAs(t, s) /\ t.type = s.type /\ t.dw = s.dw
        /\ \/ t = s
           \/ t.high = s.high \o Units(m) /\ t.low = s.low
           \/ t.high = s.high /\ t.low = s.low \o Units(m)
    BY SMTT(60), <1>9, <2>1, AppendedIs
  <2>3. ~IsOpen(id) => t = s
    BY <1>9 DEF Appended
  <2>4. IsOpen(id) => s.id = id
    BY <1>7 DEF IsOpen
  <2> QED BY <2>2, <2>3, <2>4 DEF SameSocketAs
<1>11. PICK n \in Int : n = t.sending - 1
  BY SlotIs
<1>12. PICK w \in SlotTypes : w = [t EXCEPT !.sending = n]
  BY SetSending
<1>13. w.id = t.id /\ w.type = t.type /\ SameLists(w, t)
  BY <1>12 DEF SlotTypes, SameLists
<1>14. Put(id, IF t.id = id /\ t.tcp THEN w ELSE t)
  BY <1>2, <1>3, <1>5, <1>7, <1>9, <1>11, <1>12 DEF SendSocket
<1>15. PICK v \in SlotTypes : Put(id, v) /\ v.id = t.id /\ v.type = t.type /\ All(v) = All(t) /\ v.low = t.low
  BY <1>13, <1>14, SameAll
<1>16. CASE t = s \/ s.type \notin Live
  <2>1. v.type \in Live => SameStream(v, s)
    BY <1>10, <1>15, <1>16 DEF SameStream
  <2>2. StreamSlots
    BY <1>7, <1>15, <2>1, PutStream
  <2> QED BY <1>4, <2>2, SameClosing, ThreadStreamed
<1>17. CASE /\ s.type \in Live /\ s.id = id
            /\ \/ t.high = s.high \o Units(m) /\ t.low = s.low
               \/ t.high = s.high /\ t.low = s.low \o Units(m)
  <2>1. PICK q \in Seq(Unit) : q = Units(m) /\ Starts(q) /\ q # <<>>
    <3>1. Len(Units(m)) = Size /\ Units(m) \in Seq(Unit) /\ Size # 0
      BY UnitsAre, NumbersAssumption
    <3> QED BY <3>1, UnitsMessages
  <2>2. SentTo(q, id)
    <3>2. Len(q) = Size /\ \A i \in 1..Size : q[i] = [m |-> m, u |-> i]
      BY <2>1, UnitsAre
    <3>1. \A i \in 1..Len(q) : q[i].m = m
      BY <3>2
    <3> QED BY <1>6, <3>1 DEF SentTo
  <2>3. SentTo(All(s), id) /\ (Follows(wire[id], All(s), Closing(id)) \/ Resting(id))
    BY <1>8, <1>17 DEF Streamed
  <2>4. WellListed(s)
    BY <1>8, <1>17 DEF Listed
  <2>5. PICK d \in Seq(Unit), h \in Seq(Unit), l \in Seq(Unit) : d = s.dw /\ h = s.high /\ l = s.low
    BY SlotLists
  <2>6. PICK a \in Seq(Unit), b \in Seq(Unit) :
          /\ All(t) = d \o (a \o b)
          /\ (a = h \o q /\ b = l) \/ (a = h /\ b = l \o q)
    <3>1. h \o q \in Seq(Unit) /\ l \o q \in Seq(Unit)
      BY ConcatIs
    <3>2. t.dw = d /\ ((t.high = h \o q /\ t.low = l) \/ (t.high = h /\ t.low = l \o q))
      BY <1>10, <1>17, <2>1, <2>5
    <3> QED BY <3>1, <3>2, SlotLists
  <2>7. All(s) = d \o (h \o l)
    BY <2>5, SlotLists
  <2>8. SentTo(All(t), id)
    <3>1. SentTo(d \o (h \o l), id)
      BY <2>3, <2>7
    <3>2. SentTo(d \o (a \o b), id)
      BY <2>2, <2>6, <3>1, AppendedSent
    <3> QED BY <2>6, <3>2
  <2>9. SameFirst(All(t), All(s))
    <3>1. Starts(l)
      BY <2>4, <2>5 DEF WellListed
    <3>2. /\ SameFirst(d \o ((h \o q) \o l), d \o (h \o l))
          /\ SameFirst(d \o (h \o (l \o q)), d \o (h \o l))
      BY <2>1, <3>1, AppendedFirst
    <3> QED BY <2>6, <2>7, <3>2
  <2>10. Follows(wire[id], All(t), Closing(id)) \/ Resting(id)
    BY <2>3, <2>9 DEF Follows, SameFirst
  <2>11. ClosingStays /\ ToldStays
    BY <1>4, SameClosing
  <2>12. slot'[HashId(id)] = v /\ \A x \in Slots : x # HashId(id) => slot'[x] = slot[x]
    BY <1>8, <1>15 DEF Put, Typed
  <2>13. Whole(wire'[id], id, Closing(id)')
    <3>1. Whole(wire[id], id, Closing(id)) /\ (Closing(id) => Closing(id)')
      BY <2>11 DEF Streamed, ClosingStays
    <3> QED BY <1>4, <3>1 DEF Whole
  <2>14. told'[id] # "none" /\ \A i \in Ids : i # id => wire'[i] = wire[i]
    BY <1>4, <1>6
  <2>15. Follows(wire'[id], All(v), Closing(id)') \/ Resting(id)'
    <3>1. Resting(id) => Resting(id)'
      BY <1>4 DEF Resting
    <3> QED BY <1>4, <1>15, <2>10, <2>11, <3>1, ClosingRises
  <2>16. v.id = id /\ SentTo(All(v), id)
    BY <1>10, <1>15, <1>17, <2>8
  <2>17. \A u \in Users : user'[u].pc = "rest" =>
            \/ user'[u] = user[u] /\ user[u].m.to # id
            \/ user'[u].m.to = id /\ Follows(wire'[id], Rest(user'[u]), Closing(id)')
    <3> SUFFICES ASSUME NEW u \in Users, user[u].pc = "rest", user[u].m.to = id
                 PROVE  Follows(wire'[id], Rest(user[u]), Closing(id)')
      BY <1>4
    <3>1. Follows(wire[id], Rest(user[u]), Closing(id))
      BY DEF Streamed
    <3> QED BY <1>4, <2>11, <3>1, ClosingRises
  <2>18. \A u \in Users : user[u].pc = "rest" /\ user[u].m.to # id => user'[u] = user[u]
    BY <1>4
  <2> QED BY <2>11, <2>12, <2>13, <2>14, <2>15, <2>16, <2>17, <2>18, StreamStep
<1> QED BY <1>10, <1>16, <1>17

\* Every step: whole messages
LEMMA NextStreamed ==
    ASSUME Base, Counted, Streamed, Next, Sound'
    PROVE  Streamed'
<1>1. ASSUME NEW u \in Users, Service(u) \/ UserStep(u) PROVE Streamed'
  <2>1. ASSUME NEW cmd \in {"O", "L"}, Reserve(u, cmd) PROVE Streamed'
    BY <2>1, ReserveStreamed DEF Opening
  <2>2. ASSUME NEW id \in Ids, NEW cmd \in {"S", "K", "shutdown"}, Ask(u, cmd, id) PROVE Streamed'
    BY <2>2, AskStreamed
  <2>3. ASSUME NEW id \in Ids, NEW low \in BOOLEAN, Send(u, id, low) PROVE Streamed'
    BY <2>3, SendStreamed
  <2> QED BY <1>1, <2>1, <2>2, <2>3, ReservedStreamed, MayLockStreamed, TryLockStreamed, DirectWriteStreamed,
             KeepRestStreamed, SendingRefStreamed, SendRequestStreamed DEF Service, UserStep
<1>2. CASE Command
  BY <1>2, OpenSocketStreamed, ListenSocketStreamed, StartSocketStreamed, CloseSocketStreamed, SendSocketStreamed
     DEF Command, Sound
<1>3. CASE CloseFd \/ ClearEvents \/ NoCommand \/ Wait
  BY <1>3, CloseFdStreamed, ClearEventsStreamed, OtherStreamed
<1>4. ASSUME NEW e \in events, ReportConnect(e) \/ ReportAccept(e) \/ Read(e) \/ Write(e) \/ Stale(e) PROVE Streamed'
  BY <1>4, ReportConnectStreamed, ReportAcceptStreamed, ReadStreamed, WriteStreamed, OtherStreamed DEF Sound
<1>5. ASSUME NEW id \in Ids, PeerSends(id) \/ PeerGoes(id) PROVE Streamed'
  BY <1>5, OtherStreamed
<1> QED BY <1>1, <1>2, <1>3, <1>4, <1>5 DEF Next, Poll

\* The first state: whole messages
LEMMA InitStreamed == Init => Streamed
<1> SUFFICES ASSUME Init PROVE Streamed
  OBVIOUS
<1>1. user = [u \in Users |-> Idle] /\ Idle.pc = "idle" /\ wire = [id \in Ids |-> <<>>]
  BY DEF Init, Idle
<1>2. \A x \in Slots : slot[x].type = "INVALID"
  BY DEF Init
<1>3. \A id : Whole(<<>>, id, Closing(id))
  BY DEF Whole
<1> QED BY <1>1, <1>2, <1>3 DEF Streamed, Live

SoundStream == Sound => Streamed

\* What is written to a connection is made of whole messages, and what waits for it
\* follows, whatever threads write and whatever part of it the kernel takes
THEOREM Streaming == Spec => [](SoundBase /\ SoundCount /\ SoundStream)
<1>1. Init => SoundBase /\ SoundCount /\ SoundStream
  BY InitBase, InitCounted, InitStreamed DEF SoundBase, SoundCount, SoundStream
<1>2. SoundBase /\ SoundCount /\ SoundStream /\ [Next]_vars => (SoundBase /\ SoundCount /\ SoundStream)'
  <2> SUFFICES ASSUME SoundBase, SoundCount, SoundStream, [Next]_vars, Sound' PROVE Base' /\ Counted' /\ Streamed'
    BY DEF SoundBase, SoundCount, SoundStream
  <2>1. CASE Next
    BY <2>1, SoundBefore, NextBase, NextCounted, NextStreamed DEF SoundBase, SoundCount, SoundStream
  <2>2. CASE UNCHANGED vars
    <3>1. Sound
      BY <2>2 DEF Sound, vars, over
    <3>2. UNCHANGED <<slot, pipe, user, told>>
      BY <2>2 DEF vars, server
    <3>3. Base /\ Counted /\ Streamed
      BY <3>1 DEF SoundBase, SoundCount, SoundStream
    <3>4. Counted'
      BY <3>2, <3>3 DEF Counted
    <3> QED BY <2>2, <3>3, <3>4, StutterBase, StutterStreamed
  <2> QED BY <2>1, <2>2
<1> QED BY <1>1, <1>2, PTL DEF Spec

\* A connection gets whole messages, one after the other, and only those sent to it, for
\* any number of workers that write to it directly and any size of the parts that the
\* kernel takes, until its socket is being closed
THEOREM StreamIsWholeHolds == Spec => []StreamIsWhole
<1>1. SoundBase /\ SoundStream => StreamIsWhole
  <2> SUFFICES ASSUME Base, Streamed, NEW id \in Ids, NEW i \in DOMAIN wire[id]
               PROVE  LET x == wire[id][i] IN
                      /\ x.m.to = id
                      /\ IF x.u = 1 THEN i = 1 \/ wire[id][i - 1].u = Size \/ Closing(id)
                         ELSE i > 1 /\ wire[id][i - 1] = [m |-> x.m, u |-> x.u - 1]
    BY DEF SoundBase, SoundStream, StreamIsWhole
  <2>1. wire[id] \in Seq(Unit)
    BY DEF Base, Typed
  <2>2. i \in 1..Len(wire[id])
    BY <2>1
  <2>3. Whole(wire[id], id, Closing(id))
    BY DEF Streamed
  <2> QED BY <2>2, <2>3 DEF Whole
<1> QED BY <1>1, Streaming, PTL

-----------------------------------------------------------------------------
(* The order of what is sent to a socket: what was written, what waits in its     *)
(* slot, and what waits in the pipe.  q is what is left in the pipe               *)

\* Message a may leave before message b
Ord(a, b) == (a.from = b.from /\ ~a.low /\ ~b.low) => a.n <= b.n

Before(p, q) == \A i \in 1..Len(p) : \A j \in 1..Len(q) : Ord(p[i].m, q[j].m)

InOrder(p) == \A i \in 1..Len(p) : \A j \in 1..Len(p) : i < j => Ord(p[i].m, p[j].m)

\* Nobody is sending what was sent before it
Numbered(m) == m.n <= sends /\ (user[m.from].pc \in Busy => m.n <= user[m.from].m.n)

StreamsOrdered ==
    \A id \in Ids :
        /\ InOrder(StreamOf(id))
        /\ \A i \in 1..Len(StreamOf(id)) : Numbered(StreamOf(id)[i].m)

QueueOrdered(q) ==
    \A i \in 1..Len(q) : q[i].cmd \in Message =>
        /\ Numbered(q[i].m)
        /\ \A k \in 1..Len(StreamOf(q[i].id)) : Ord(StreamOf(q[i].id)[k].m, q[i].m)
        /\ \A j \in 1..Len(q) : i < j /\ q[j].cmd \in Message /\ q[j].id = q[i].id => Ord(q[i].m, q[j].m)

LowAreLow ==
    \A x \in Slots : slot[x].type \in Live => \A i \in 1..Len(slot[x].low) : slot[x].low[i].m.low

\* Who holds the rest of a message has nothing else on the way to the socket
RestsLast(q) ==
    \A u \in Users : user[u].pc = "rest" => LET id == user[u].m.to IN
        /\ \A i \in 1..Len(StreamOf(id)) : i > Len(wire[id]) => StreamOf(id)[i].m.from # u
        /\ \A i \in 1..Len(q) : q[i].cmd \in Message /\ q[i].id = id => q[i].m.from # u

BusyNumbered == \A u \in Users : user[u].pc \in Busy => user[u].m.n <= sends

Ordered(q) == StreamsOrdered /\ QueueOrdered(q) /\ LowAreLow /\ RestsLast(q) /\ BusyNumbered

\* A stream is a list after the step, too
LEMMA StreamIsNext ==
    ASSUME Typed', NEW id \in Ids
    PROVE  StreamOf(id)' \in Seq(Unit) /\ Len(StreamOf(id)') \in Nat /\ wire'[id] \in Seq(Unit) /\ Len(wire'[id]) \in Nat
<1>1. PICK w \in Seq(Unit) : w = wire'[id]
  BY DEF Typed
<1>2. PICK s \in SlotTypes : s = slot'[HashId(id)]
  BY IdsAre DEF Typed
<1>3. PICK q \in Seq(Unit) : q = All(s)
  BY SlotLists
<1>4. PICK a \in Seq(Unit) : a = w \o q
  BY ConcatIs
<1>5. StreamOf(id)' = a \/ StreamOf(id)' = w
  BY <1>1, <1>2, <1>3, <1>4 DEF StreamOf, At
<1> QED BY <1>1, <1>5, LenIs

\* A list that another follows
LEMMA BeforeRight ==
    ASSUME NEW p \in Seq(Unit), NEW q \in Seq(Unit), NEW r \in Seq(Unit), Before(p, q), Before(p, r)
    PROVE  Before(p, q \o r)
<1>1. PICK a \in Seq(Unit) : a = q \o r
  BY ConcatIs
<1>2. /\ Len(a) = Len(q) + Len(r) /\ Len(q) \in Nat /\ Len(r) \in Nat
      /\ \A i \in 1..Len(q) + Len(r) : a[i] = IF i <= Len(q) THEN q[i] ELSE r[i - Len(q)]
  BY <1>1, ConcatIs
<1>3. ASSUME NEW i \in 1..Len(p), NEW j \in 1..Len(a) PROVE Ord(p[i].m, a[j].m)
  <2>1. CASE j <= Len(q)
    <3>1. j \in 1..Len(q) /\ a[j] = q[j]
      BY <1>2, <2>1
    <3> QED BY <3>1 DEF Before
  <2>2. CASE j > Len(q)
    <3>1. j - Len(q) \in 1..Len(r) /\ a[j] = r[j - Len(q)]
      BY <1>2, <2>2
    <3> QED BY <3>1 DEF Before
  <2> QED BY <1>2, <2>1, <2>2
<1> QED BY <1>1, <1>3 DEF Before

\* ... and a list that follows others
LEMMA BeforeLeft ==
    ASSUME NEW p \in Seq(Unit), NEW q \in Seq(Unit), NEW r \in Seq(Unit), Before(p, r), Before(q, r)
    PROVE  Before(p \o q, r)
<1>1. PICK a \in Seq(Unit) : a = p \o q
  BY ConcatIs
<1>2. /\ Len(a) = Len(p) + Len(q) /\ Len(p) \in Nat /\ Len(q) \in Nat
      /\ \A i \in 1..Len(p) + Len(q) : a[i] = IF i <= Len(p) THEN p[i] ELSE q[i - Len(p)]
  BY <1>1, ConcatIs
<1>3. ASSUME NEW i \in 1..Len(a), NEW j \in 1..Len(r) PROVE Ord(a[i].m, r[j].m)
  <2>1. CASE i <= Len(p)
    <3>1. i \in 1..Len(p) /\ a[i] = p[i]
      BY <1>2, <2>1
    <3> QED BY <3>1 DEF Before
  <2>2. CASE i > Len(p)
    <3>1. i - Len(p) \in 1..Len(q) /\ a[i] = q[i - Len(p)]
      BY <1>2, <2>2
    <3> QED BY <3>1 DEF Before
  <2> QED BY <1>2, <2>1, <2>2
<1> QED BY <1>1, <1>3 DEF Before

\* A list in order and one that follows it
LEMMA OrderJoins ==
    ASSUME NEW p \in Seq(Unit), NEW q \in Seq(Unit), InOrder(p), InOrder(q), Before(p, q)
    PROVE  InOrder(p \o q)
<1>1. PICK a \in Seq(Unit) : a = p \o q
  BY ConcatIs
<1>2. /\ Len(a) = Len(p) + Len(q) /\ Len(p) \in Nat /\ Len(q) \in Nat
      /\ \A i \in 1..Len(p) + Len(q) : a[i] = IF i <= Len(p) THEN p[i] ELSE q[i - Len(p)]
  BY <1>1, ConcatIs
<1>3. ASSUME NEW i \in 1..Len(a), NEW j \in 1..Len(a), i < j PROVE Ord(a[i].m, a[j].m)
  <2>1. CASE j <= Len(p)
    <3>1. i \in 1..Len(p) /\ j \in 1..Len(p) /\ a[i] = p[i] /\ a[j] = p[j]
      BY <1>2, <1>3, <2>1
    <3> QED BY <1>3, <3>1 DEF InOrder
  <2>2. CASE i <= Len(p) /\ j > Len(p)
    <3>1. i \in 1..Len(p) /\ a[i] = p[i] /\ j - Len(p) \in 1..Len(q) /\ a[j] = q[j - Len(p)]
      BY <1>2, <2>2
    <3> QED BY <3>1 DEF Before
  <2>3. CASE i > Len(p)
    <3>1. /\ i - Len(p) \in 1..Len(q) /\ a[i] = q[i - Len(p)] /\ j - Len(p) \in 1..Len(q) /\ a[j] = q[j - Len(p)]
          /\ i - Len(p) < j - Len(p)
      BY <1>2, <1>3, <2>3
    <3> QED BY <3>1 DEF InOrder
  <2> QED BY <1>2, <2>1, <2>2, <2>3
<1> QED BY <1>1, <1>3 DEF InOrder

\* The parts of a list in order
LEMMA OrderSplits ==
    ASSUME NEW p \in Seq(Unit), NEW q \in Seq(Unit), InOrder(p \o q)
    PROVE  InOrder(p) /\ InOrder(q) /\ Before(p, q)
<1>1. PICK a \in Seq(Unit) : a = p \o q
  BY ConcatIs
<1>2. /\ Len(a) = Len(p) + Len(q) /\ Len(p) \in Nat /\ Len(q) \in Nat
      /\ (\A i \in 1..Len(p) : a[i] = p[i]) /\ \A i \in 1..Len(q) : a[Len(p) + i] = q[i]
  BY <1>1, ConcatIs
<1>3. /\ \A i \in 1..Len(p) : i \in 1..Len(a)
      /\ \A i \in 1..Len(q) : Len(p) + i \in 1..Len(a)
  BY <1>2
<1>4. \A i \in 1..Len(a) : \A j \in 1..Len(a) : i < j => Ord(a[i].m, a[j].m)
  BY <1>1 DEF InOrder
<1>5. InOrder(p)
  BY <1>2, <1>3, <1>4 DEF InOrder
<1>6. InOrder(q)
  <2> SUFFICES ASSUME NEW i \in 1..Len(q), NEW j \in 1..Len(q), i < j PROVE Ord(q[i].m, q[j].m)
    BY DEF InOrder
  <2>1. Len(p) + i < Len(p) + j
    BY <1>2
  <2> QED BY <1>2, <1>3, <1>4, <2>1
<1>7. Before(p, q)
  <2> SUFFICES ASSUME NEW i \in 1..Len(p), NEW j \in 1..Len(q) PROVE Ord(p[i].m, q[j].m)
    BY DEF Before
  <2>1. i < Len(p) + j
    BY <1>2
  <2> QED BY <1>2, <1>3, <1>4, <2>1
<1> QED BY <1>5, <1>6, <1>7

-----------------------------------------------------------------------------
(* The order stays when nothing is added *)

\* Who is sending goes on with its message, or has the last number
SendersStay ==
    /\ sends' \in Nat /\ sends <= sends'
    /\ \A u \in Users : user'[u].pc \in Busy =>
          (user[u].pc \in Busy /\ user'[u].m = user[u].m) \/ user'[u].m.n = sends'

RestsQuiet == \A u \in Users : user'[u].pc = "rest" => user'[u] = user[u]

\* Numbered after the step
NumberedThen(m) == m.n <= sends' /\ (user'[m.from].pc \in Busy => m.n <= user'[m.from].m.n)

\* What was sent before stays so
LEMMA NumberedStays ==
    ASSUME Typed, SendersStay, NEW m \in Msgs, Numbered(m)
    PROVE  NumberedThen(m)
<1>1. m.from \in Users /\ m.n \in Nat /\ sends \in Nat
  BY DEF Msgs, Typed
<1>2. sends' \in Nat /\ sends <= sends' /\ m.n <= sends
  BY DEF SendersStay, Numbered
<1>3. m.n <= sends'
  BY <1>1, <1>2
<1>4. user'[m.from].pc \in Busy => m.n <= user'[m.from].m.n
  BY <1>1, <1>3 DEF SendersStay, Numbered
<1> QED BY <1>3, <1>4 DEF NumberedThen

\* Who is sending has a number
LEMMA BusyStays ==
    ASSUME Typed, SendersStay, BusyNumbered
    PROVE  BusyNumbered'
<1> SUFFICES ASSUME NEW u \in Users, user'[u].pc \in Busy PROVE user'[u].m.n <= sends'
  BY DEF BusyNumbered
<1>1. sends \in Nat /\ sends' \in Nat /\ sends <= sends'
  BY DEF Typed, SendersStay
<1>2. CASE user[u].pc \in Busy /\ user'[u].m = user[u].m
  <2>1. user[u].m.n <= sends /\ user[u].m \in Msgs
    BY <1>2, MessageTo DEF BusyNumbered
  <2>2. user[u].m.n \in Nat
    BY <2>1 DEF Msgs
  <2> QED BY <1>1, <1>2, <2>1, <2>2
<1>3. CASE user'[u].m.n = sends'
  BY <1>1, <1>3
<1> QED BY <1>2, <1>3 DEF SendersStay

\* The low lists
LEMMA LowStays ==
    ASSUME LowAreLow, Kept
    PROVE  LowAreLow'
BY SMTT(60) DEF LowAreLow, Kept

\* The streams
LEMMA StreamsStay ==
    ASSUME Typed, Typed', StreamsOrdered, Kept, SendersStay
    PROVE  StreamsOrdered'
<1>1. ASSUME NEW id \in Ids
      PROVE  InOrder(StreamOf(id)') /\ \A i \in 1..Len(StreamOf(id)') : NumberedThen(StreamOf(id)'[i].m)
  <2>1. PICK a \in Seq(Unit) : a = StreamOf(id)
    BY StreamIs
  <2>2. PICK b \in Seq(Unit) : b = StreamOf(id)'
    BY StreamIsNext
  <2>3. Len(b) <= Len(a) /\ \A i \in 1..Len(b) : b[i] = a[i]
    BY <2>1, <2>2 DEF Kept
  <2>4. \A i \in 1..Len(b) : i \in 1..Len(a)
    BY <2>3, LenIs
  <2>5. InOrder(a) /\ \A i \in 1..Len(a) : Numbered(a[i].m)
    BY <2>1 DEF StreamsOrdered
  <2>6. InOrder(b)
    BY <2>3, <2>4, <2>5 DEF InOrder
  <2>7. ASSUME NEW i \in 1..Len(b), NEW m, m = b[i].m PROVE NumberedThen(m)
    <3>1. b[i] \in Unit /\ Numbered(m)
      BY <2>3, <2>4, <2>5, <2>7
    <3>2. m \in Msgs
      BY <2>7, <3>1 DEF Unit
    <3> QED BY <3>1, <3>2, NumberedStays
  <2> QED BY <2>2, <2>6, <2>7
<1> QED BY <1>1 DEF StreamsOrdered, Numbered, NumberedThen

\* The pipe
LEMMA QueueStays ==
    ASSUME Typed, Typed', NEW q \in Seq(Requests), QueueOrdered(q), Kept, SendersStay
    PROVE  QueueOrdered(q)'
<1>1. ASSUME NEW i \in 1..Len(q), q[i].cmd \in Message, NEW m, m = q[i].m, NEW id, id = q[i].id
      PROVE  /\ NumberedThen(m)
             /\ \A k \in 1..Len(StreamOf(id)') : Ord(StreamOf(id)'[k].m, m)
  <2>1. m \in Msgs /\ id \in Ids
    BY <1>1, RequestIs
  <2>2. Numbered(m) /\ \A k \in 1..Len(StreamOf(id)) : Ord(StreamOf(id)[k].m, m)
    BY <1>1 DEF QueueOrdered
  <2>3. Len(StreamOf(id)) \in Nat /\ Len(StreamOf(id)') \in Nat
    BY <2>1, StreamIs, StreamIsNext
  <2>4. Len(StreamOf(id)') <= Len(StreamOf(id)) /\ \A k \in 1..Len(StreamOf(id)') : StreamOf(id)'[k] = StreamOf(id)[k]
    BY <2>1 DEF Kept
  <2>5. \A k \in 1..Len(StreamOf(id)') : k \in 1..Len(StreamOf(id))
    BY <2>3, <2>4
  <2>6. NumberedThen(m)
    BY <2>1, <2>2, NumberedStays
  <2> QED BY <2>2, <2>4, <2>5, <2>6
<1>2. \A i \in 1..Len(q) : q[i].cmd \in Message =>
        \A j \in 1..Len(q) : i < j /\ q[j].cmd \in Message /\ q[j].id = q[i].id => Ord(q[i].m, q[j].m)
  BY DEF QueueOrdered
<1> QED BY <1>1, <1>2 DEF QueueOrdered, Numbered, NumberedThen

\* Who holds the rest of a message
LEMMA RestsStay ==
    ASSUME Typed, Typed', NEW q \in Seq(Requests), RestsLast(q), Kept, RestsQuiet
    PROVE  RestsLast(q)'
<1>1. ASSUME NEW u \in Users, user'[u].pc = "rest", NEW id, id = user'[u].m.to
      PROVE  /\ \A i \in 1..Len(StreamOf(id)') : i > Len(wire'[id]) => StreamOf(id)'[i].m.from # u
             /\ \A i \in 1..Len(q) : q[i].cmd \in Message /\ q[i].id = id => q[i].m.from # u
  <2>1. user[u].pc = "rest" /\ id = user[u].m.to
    BY <1>1 DEF RestsQuiet
  <2>2. id \in Ids
    BY <2>1, MessageTo DEF Busy
  <2>3. /\ \A i \in 1..Len(StreamOf(id)) : i > Len(wire[id]) => StreamOf(id)[i].m.from # u
        /\ \A i \in 1..Len(q) : q[i].cmd \in Message /\ q[i].id = id => q[i].m.from # u
    BY <2>1 DEF RestsLast
  <2>4. Len(StreamOf(id)) \in Nat /\ Len(StreamOf(id)') \in Nat /\ Len(wire[id]) \in Nat /\ Len(wire'[id]) \in Nat
    BY <2>2, StreamIs, StreamIsNext
  <2>5. /\ Len(wire[id]) <= Len(wire'[id]) /\ Len(StreamOf(id)') <= Len(StreamOf(id))
        /\ \A i \in 1..Len(StreamOf(id)') : StreamOf(id)'[i] = StreamOf(id)[i]
    BY <2>2 DEF Kept
  <2>6. \A i \in 1..Len(StreamOf(id)') : i > Len(wire'[id]) => i \in 1..Len(StreamOf(id)) /\ i > Len(wire[id])
    BY <2>4, <2>5
  <2> QED BY <2>3, <2>5, <2>6
<1> QED BY <1>1 DEF RestsLast

\* The order, when nothing is added to the streams
LEMMA OrderedQuiet ==
    ASSUME Typed, Typed', NEW q \in Seq(Requests), Ordered(q), Kept, SendersStay, RestsQuiet
    PROVE  Ordered(q)'
<1>1. StreamsOrdered' /\ LowAreLow' /\ BusyNumbered'
  BY StreamsStay, LowStays, BusyStays DEF Ordered
<1>2. QueueOrdered(q)' /\ RestsLast(q)'
  BY QueueStays, RestsStay DEF Ordered
<1> QED BY <1>1, <1>2 DEF Ordered

\* What is left of the pipe is in order, and a request that is no message changes nothing
LEMMA OrderedTail ==
    ASSUME NEW p \in Seq(Requests), p # <<>>, NEW q \in Seq(Requests), q = Tail(p), Ordered(p)
    PROVE  Ordered(q)
<1>1. Len(p) \in Nat \ {0} /\ Len(q) = Len(p) - 1 /\ \A i \in 1..Len(q) : q[i] = p[i + 1] /\ i + 1 \in 1..Len(p)
  OBVIOUS
<1>2. QueueOrdered(q)
  <2> SUFFICES ASSUME NEW i \in 1..Len(q), q[i].cmd \in Message
               PROVE  /\ Numbered(q[i].m)
                      /\ \A k \in 1..Len(StreamOf(q[i].id)) : Ord(StreamOf(q[i].id)[k].m, q[i].m)
                      /\ \A j \in 1..Len(q) : i < j /\ q[j].cmd \in Message /\ q[j].id = q[i].id => Ord(q[i].m, q[j].m)
    BY DEF QueueOrdered
  <2>1. i + 1 \in 1..Len(p) /\ q[i] = p[i + 1]
    BY <1>1
  <2>2. /\ Numbered(q[i].m)
        /\ \A k \in 1..Len(StreamOf(q[i].id)) : Ord(StreamOf(q[i].id)[k].m, q[i].m)
        /\ \A j \in 1..Len(p) : i + 1 < j /\ p[j].cmd \in Message /\ p[j].id = q[i].id => Ord(q[i].m, p[j].m)
    BY <2>1 DEF QueueOrdered, Ordered
  <2>3. \A j \in 1..Len(q) : i < j => i + 1 < j + 1 /\ j + 1 \in 1..Len(p) /\ q[j] = p[j + 1]
    BY <1>1
  <2> QED BY <2>2, <2>3
<1>3. RestsLast(q)
  BY <1>1 DEF RestsLast, Ordered
<1> QED BY <1>2, <1>3 DEF Ordered

\* A request that is no message changes nothing
LEMMA OrderedPush ==
    ASSUME NEW p \in Seq(Requests), NEW r \in Requests, r.cmd \notin Message,
           NEW q \in Seq(Requests), q = Append(p, r), Ordered(p)
    PROVE  Ordered(q)
<1>1. /\ Len(p) \in Nat /\ Len(q) = Len(p) + 1 /\ q[Len(q)] = r /\ \A i \in 1..Len(p) : q[i] = p[i]
  OBVIOUS
<1>2. \A i \in 1..Len(q) : q[i].cmd \in Message => i \in 1..Len(p) /\ q[i] = p[i]
  <2> SUFFICES ASSUME NEW i \in 1..Len(q), q[i].cmd \in Message PROVE i \in 1..Len(p)
    BY <1>1
  <2>1. i # Len(q)
    BY <1>1
  <2> QED BY <1>1, <2>1
<1>3. QueueOrdered(q)
  BY <1>2 DEF QueueOrdered, Ordered
<1>4. RestsLast(q)
  BY <1>2 DEF RestsLast, Ordered
<1> QED BY <1>3, <1>4 DEF Ordered

-----------------------------------------------------------------------------
(* A message of a service is added: to the pipe, or to what is to be written *)

\* Every unit of a list is of one message
OneMessage(q, m) == \A i \in 1..Len(q) : q[i].m = m

\* One message is in order
LEMMA OneInOrder ==
    ASSUME NEW m \in Msgs, NEW q \in Seq(Unit), OneMessage(q, m)
    PROVE  InOrder(q)
<1>1. m.n \in Nat
  BY DEF Msgs
<1> QED BY <1>1 DEF InOrder, Ord, OneMessage

\* What is numbered goes before what its sender sends now
LEMMA NumberedBefore ==
    ASSUME Typed, NEW u \in Users, user[u].pc \in Busy, NEW m, m = user[u].m, m.from = u,
           NEW p \in Seq(Unit), \A i \in 1..Len(p) : Numbered(p[i].m), NEW q \in Seq(Unit), OneMessage(q, m)
    PROVE  Before(p, q) /\ \A i \in 1..Len(p) : Ord(p[i].m, m)
<1>1. ASSUME NEW i \in 1..Len(p) PROVE Ord(p[i].m, m)
  BY DEF Numbered, Ord
<1> QED BY <1>1 DEF Before, OneMessage

\* Who is sending has sent nothing later
LEMMA MessageNumbered ==
    ASSUME Typed, BusyNumbered, NEW u \in Users, user[u].pc \in Busy, NEW m, m = user[u].m, m.from = u
    PROVE  Numbered(m)
<1>1. m.n \in Nat /\ m.n <= sends
  <2>1. m \in Msgs
    BY MessageTo
  <2> QED BY <2>1 DEF BusyNumbered, Msgs
<1> QED BY <1>1 DEF Numbered

\* A message goes into the pipe
LEMMA OrderedMessage ==
    ASSUME Typed, NEW p \in Seq(Requests), Ordered(p), NEW u \in Users, user[u].pc \in Busy \ {"rest"},
           NEW r \in Requests, r.cmd \in Message, r.m = user[u].m, r.m.from = u,
           NEW q \in Seq(Requests), q = Append(p, r)
    PROVE  Ordered(q)
<1>1. /\ Len(p) \in Nat /\ Len(q) = Len(p) + 1 /\ q[Len(q)] = r /\ \A i \in 1..Len(p) : q[i] = p[i]
  OBVIOUS
<1>2. Numbered(r.m)
  BY MessageNumbered DEF Ordered
<1>3. PICK m \in Msgs : m = r.m
  BY RequestIs
<1>4. PICK id \in Ids : id = r.id
  BY RequestIs
<1>5. \A k \in 1..Len(StreamOf(id)) : Ord(StreamOf(id)[k].m, m)
  BY <1>3, <1>4 DEF Ordered, StreamsOrdered, Numbered, Ord
<1>6. \A i \in 1..Len(p) : p[i].cmd \in Message => Ord(p[i].m, m)
  BY <1>3 DEF Ordered, QueueOrdered, Numbered, Ord
<1>7. ASSUME NEW i \in 1..Len(q), q[i].cmd \in Message
      PROVE  /\ Numbered(q[i].m)
             /\ \A k \in 1..Len(StreamOf(q[i].id)) : Ord(StreamOf(q[i].id)[k].m, q[i].m)
             /\ \A j \in 1..Len(q) : i < j /\ q[j].cmd \in Message /\ q[j].id = q[i].id => Ord(q[i].m, q[j].m)
  <2>1. CASE i = Len(q)
    <3>1. \A j \in 1..Len(q) : ~(i < j)
      BY <1>1, <2>1
    <3> QED BY <1>1, <1>2, <1>3, <1>4, <1>5, <2>1, <3>1
  <2>2. CASE i # Len(q)
    <3>1. i \in 1..Len(p) /\ q[i] = p[i]
      BY <1>1, <2>2
    <3>2. \A j \in 1..Len(q) : j = Len(q) \/ (j \in 1..Len(p) /\ q[j] = p[j])
      BY <1>1
    <3>3. /\ Numbered(q[i].m)
          /\ \A k \in 1..Len(StreamOf(q[i].id)) : Ord(StreamOf(q[i].id)[k].m, q[i].m)
          /\ \A j \in 1..Len(p) : i < j /\ p[j].cmd \in Message /\ p[j].id = q[i].id => Ord(q[i].m, p[j].m)
      BY <1>7, <3>1 DEF Ordered, QueueOrdered
    <3>4. Ord(q[i].m, q[Len(q)].m)
      BY <1>1, <1>3, <1>6, <1>7, <3>1
    <3> QED BY <3>2, <3>3, <3>4
  <2> QED BY <2>1, <2>2
<1>8. ASSUME NEW v \in Users, user[v].pc = "rest", NEW i \in 1..Len(q), q[i].cmd \in Message, q[i].id = user[v].m.to
      PROVE  q[i].m.from # v
  <2>1. v # u
    BY <1>8
  <2>2. CASE i = Len(q)
    BY <1>1, <2>1, <2>2
  <2>3. CASE i # Len(q)
    <3>1. i \in 1..Len(p) /\ q[i] = p[i]
      BY <1>1, <2>3
    <3> QED BY <1>8, <3>1 DEF Ordered, RestsLast
  <2> QED BY <2>2, <2>3
<1>9. QueueOrdered(q)
  BY <1>7 DEF QueueOrdered
<1>10. RestsLast(q)
  BY <1>8 DEF Ordered, RestsLast
<1> QED BY <1>9, <1>10 DEF Ordered

\* Units of one message are added to the stream of a socket
Adds(id, m) ==
    /\ InOrder(StreamOf(id)')
    /\ \A k \in 1..Len(StreamOf(id)') :
          StreamOf(id)'[k].m = m \/ \E j \in 1..Len(StreamOf(id)) : StreamOf(id)'[k] = StreamOf(id)[j]
    /\ \A i \in Ids : i # id => StreamOf(i)' = StreamOf(i)

\* The order, when units of a message are added to a stream
LEMMA OrderedAdds ==
    ASSUME Typed, Typed', NEW q \in Seq(Requests), Ordered(q), SendersStay, NEW id \in Ids,
           NEW m \in Msgs, Numbered(m), Adds(id, m),
           \A j \in 1..Len(q) : q[j].cmd \in Message /\ q[j].id = id => Ord(m, q[j].m),
           LowAreLow', RestsLast(q)'
    PROVE  Ordered(q)'
<1> PICK old \in Seq(Unit) : old = StreamOf(id)
  BY StreamIs
<1> PICK new \in Seq(Unit) : new = StreamOf(id)'
  BY StreamIsNext
<1>0. /\ InOrder(new) /\ (\A k \in 1..Len(new) : new[k].m = m \/ \E j \in 1..Len(old) : new[k] = old[j])
      /\ \A i \in Ids : i # id => StreamOf(i)' = StreamOf(i)
  BY DEF Adds
<1>1. StreamsOrdered'
  <2>1. ASSUME NEW i \in Ids
        PROVE  InOrder(StreamOf(i)') /\ \A k \in 1..Len(StreamOf(i)') : NumberedThen(StreamOf(i)'[k].m)
    <3>1. CASE i = id
      <4>1. ASSUME NEW k \in 1..Len(new), NEW n, n = new[k].m PROVE NumberedThen(n)
        <5>1. n \in Msgs
          <6>1. new[k] \in Unit
            BY <4>1
          <6> QED BY <4>1, <6>1 DEF Unit
        <5>2. Numbered(n)
          BY <1>0, <4>1 DEF Ordered, StreamsOrdered
        <5> QED BY <5>1, <5>2, NumberedStays
      <4> QED BY <1>0, <3>1, <4>1
    <3>2. CASE i # id
      <4>1. PICK a \in Seq(Unit) : a = StreamOf(i) /\ a = StreamOf(i)'
        BY <1>0, <3>2, StreamIs
      <4>2. ASSUME NEW k \in 1..Len(a), NEW n, n = a[k].m PROVE NumberedThen(n)
        <5>1. n \in Msgs
          <6>1. a[k] \in Unit
            BY <4>2
          <6> QED BY <4>2, <6>1 DEF Unit
        <5>2. Numbered(n)
          BY <4>1, <4>2 DEF Ordered, StreamsOrdered
        <5> QED BY <5>1, <5>2, NumberedStays
      <4>3. InOrder(a)
        BY <1>0, <4>1 DEF Ordered, StreamsOrdered
      <4> QED BY <4>1, <4>2, <4>3
    <3> QED BY <3>1, <3>2
  <2> QED BY <2>1 DEF StreamsOrdered, Numbered, NumberedThen
<1>2. QueueOrdered(q)'
  <2>1. ASSUME NEW i \in 1..Len(q), q[i].cmd \in Message, NEW n, n = q[i].m, NEW to, to = q[i].id
        PROVE  NumberedThen(n) /\ \A k \in 1..Len(StreamOf(to)') : Ord(StreamOf(to)'[k].m, n)
    <3>1. n \in Msgs /\ to \in Ids
      BY <2>1, RequestIs
    <3>2. Numbered(n) /\ \A k \in 1..Len(StreamOf(to)) : Ord(StreamOf(to)[k].m, n)
      BY <2>1 DEF Ordered, QueueOrdered
    <3>3. NumberedThen(n)
      BY <3>1, <3>2, NumberedStays
    <3>4. CASE to = id
      <4>1. \A k \in 1..Len(old) : Ord(old[k].m, n)
        BY <3>2, <3>4
      <4>2. Ord(m, n)
        BY <2>1, <3>4
      <4>3. \A k \in 1..Len(new) : Ord(new[k].m, n)
        BY <1>0, <4>1, <4>2
      <4> QED BY <3>3, <3>4, <4>3
    <3>5. CASE to # id
      BY <1>0, <3>1, <3>2, <3>3, <3>5
    <3> QED BY <3>4, <3>5
  <2>2. \A i \in 1..Len(q) : q[i].cmd \in Message =>
          \A j \in 1..Len(q) : i < j /\ q[j].cmd \in Message /\ q[j].id = q[i].id => Ord(q[i].m, q[j].m)
    BY DEF Ordered, QueueOrdered
  <2> QED BY <2>1, <2>2 DEF QueueOrdered, Numbered, NumberedThen
<1>3. BusyNumbered'
  BY BusyStays DEF Ordered
<1> QED BY <1>1, <1>2, <1>3 DEF Ordered

\* The streams of the other sockets stay
LEMMA OtherStreams ==
    ASSUME NEW id \in Ids, NEW s, s = At(id), s.id = id, NEW w, slot'[HashId(id)] = w, w.id = id,
           \A x \in Slots : x # HashId(id) => slot'[x] = slot[x], \A i \in Ids : i # id => wire'[i] = wire[i]
    PROVE  \A i \in Ids : i # id => StreamOf(i)' = StreamOf(i)
<1> SUFFICES ASSUME NEW i \in Ids, i # id PROVE StreamOf(i)' = StreamOf(i)
  OBVIOUS
<1>1. CASE HashId(i) = HashId(id)
  <2>1. At(i) = s /\ At(i)' = w
    BY <1>1 DEF At
  <2> QED BY <2>1 DEF StreamOf
<1>2. CASE HashId(i) # HashId(id)
  <2>1. At(i)' = At(i)
    BY <1>2, IdsAre DEF At
  <2> QED BY <2>1 DEF StreamOf
<1> QED BY <1>1, <1>2

\* The low lists, when one slot changes
LEMMA OtherLow ==
    ASSUME LowAreLow, NEW x \in Slots, \A y \in Slots : y # x => slot'[y] = slot[y],
           slot'[x].type \in Live => \A i \in 1..Len(slot'[x].low) : slot'[x].low[i].m.low
    PROVE  LowAreLow'
BY DEF LowAreLow

\* With nothing counted in sending no message to the socket is in the pipe
LEMMA NothingInPipe ==
    ASSUME Typed, Counted, NEW x \in Slots, slot[x].tcp, slot[x].sending = 0,
           NEW p \in Seq(Requests), p = pipe, NEW id, id = slot[x].id
    PROVE  \A i \in 1..Len(p) : ~(p[i].cmd \in Message /\ p[i].id = id)
<1>1. slot[x].id \in 0..MaxId
  BY DEF Typed, SlotTypes
<1>2. PICK a \in Nat : a = Cardinality(InPipe(id, p))
  BY InPipeFinite
<1>3. CASE id \in Ids
  <2>1. IsFiniteSet(AtPipe(id, user))
    BY <1>3 DEF Counted
  <2>2. PICK b \in Nat : b = Cardinality(AtPipe(id, user))
    BY <2>1, FS_CardinalityType
  <2>3. a + b = 0
    BY <1>2, <2>2 DEF Counted
  <2>4. Cardinality(InPipe(id, p)) = 0 /\ IsFiniteSet(InPipe(id, p))
    BY <1>2, <2>3, InPipeFinite
  <2>5. InPipe(id, p) = {}
    BY <2>4, FS_EmptySet
  <2>6. DOMAIN p = 1..Len(p)
    OBVIOUS
  <2> QED BY <2>5, <2>6 DEF InPipe
<1>4. CASE id \notin Ids
  <2> SUFFICES ASSUME NEW i \in 1..Len(p) PROVE p[i].id \in Ids
    BY <1>4
  <2> QED BY RequestIs
<1> QED BY <1>3, <1>4

\* The worker writes, or gives the lock back: the order
LEMMA DirectWriteOrdered ==
    ASSUME Base, Typed', Counted, NEW p \in Seq(Requests), p = pipe, Ordered(p), NEW u \in Users, DirectWrite(u)
    PROVE  Ordered(p)'
<1> USE DEF Base
<1>1. user[u].pc = "locked" /\ user[u].pc \in Busy /\ user[u].pc \in Busy \ {"rest"} /\ "ref" \in Busy \ {"rest"}
  BY DEF DirectWrite, Busy
<1>2. PICK m \in Msgs : m = user[u].m
  BY <1>1, MessageTo
<1>3. PICK id \in Ids : id = m.to
  BY DEF Msgs
<1>4. PICK s \in SlotTypes : s = At(id)
  BY IdsAre, AtIs DEF Typed
<1>5. HashId(id) \in Slots /\ s = slot[HashId(id)]
  BY <1>4, IdsAre DEF At, DirectWrite
<1>6. s.lock = u
  BY <1>1, <1>2, <1>3, <1>4 DEF Locked
<1>7. \A v \in Users : v # u => ~(user[v].pc = "rest" /\ user[v].m.to = id)
  BY <1>4, <1>6 DEF Locked
<1>8. sends' = sends /\ sends \in Nat
  BY DEF DirectWrite, count, Typed
<1>9. PICK t \in SlotTypes : t = [s EXCEPT !.lock = None]
  BY SetLock
<1>10. SameLists(t, s) /\ t.type = s.type /\ t.id = s.id
  BY <1>9 DEF SlotTypes, SameLists
<1>11. All(t) = All(s) /\ t.low = s.low /\ (t.type \in Live => SameStream(t, s))
  BY <1>10, SameAll DEF SameStream
<1>12. CASE ~MayWrite(s, id)
  <2>1. Put(id, t) /\ Goto(u, "ref") /\ wire' = wire
    BY <1>2, <1>3, <1>4, <1>9, <1>12 DEF DirectWrite
  <2>2. StreamSlots
    BY <1>4, <1>11, <2>1, PutStream
  <2>3. user'[u].pc = "ref" /\ user'[u].m = user[u].m /\ \A v \in Users : v # u => user'[v] = user[v]
    BY <1>1, <2>1, GotoIs
  <2>4. SendersStay
    <3>1. \A v \in Users : user'[v].pc \in Busy => user[v].pc \in Busy /\ user'[v].m = user[v].m
      BY <1>1, <2>3
    <3> QED BY <1>8, <3>1 DEF SendersStay
  <2>5. RestsQuiet
    BY <2>3 DEF RestsQuiet
  <2>6. Kept
    BY <2>1, <2>2, KeptQuiet
  <2> QED BY <2>4, <2>5, <2>6, OrderedQuiet
<1>13. CASE MayWrite(s, id)
  <2>1. s.id = id /\ s.type = "CONNECTED" /\ s.type \in Live /\ Unsent(s) = <<>> /\ s.dw = <<>> /\ s.sending = 0
    BY <1>13 DEF MayWrite, CanWrite, nomore_sending_data, Live, Types
  <2>2. All(s) = <<>> /\ All(t) = <<>>
    BY <1>11, <2>1, SlotLists
  <2>3. PICK q \in Seq(Unit) : q = Units(m) /\ Len(q) = Size
    BY UnitsAre
  <2>4. PICK k \in 0..Size :
          /\ wire' = [wire EXCEPT ![id] = @ \o SubSeq(q, 1, k)]
          /\ \/ k = Size /\ Put(id, t) /\ user' = [user EXCEPT ![u] = Idle]
             \/ k # Size /\ slot' = slot /\ user' = [user EXCEPT ![u] = [pc |-> "rest", m |-> m, k |-> k]]
    <3>1. \E k \in 0..Size :
             /\ wire' = [wire EXCEPT ![s.id] = @ \o SubSeq(Units(m), 1, k)]
             /\ IF k = Size
                THEN Put(id, [s EXCEPT !.lock = None]) /\ user' = [user EXCEPT ![u] = Idle]
                ELSE slot' = slot /\ user' = [user EXCEPT ![u] = [pc |-> "rest", m |-> m, k |-> k]]
      BY <1>2, <1>3, <1>4, <1>13 DEF DirectWrite
    <3> QED BY <1>9, <2>1, <2>3, <3>1
  <2>5. k \in 0..Len(q)
    BY <2>3
  <2>6. PICK r \in Seq(Unit) : r = SubSeq(q, 1, k) /\ Len(r) = k /\ \A i \in 1..k : r[i] = q[i]
    BY <2>5, PrefixIs
  <2>7. OneMessage(r, m)
    <3>1. \A i \in 1..Size : q[i] = [m |-> m, u |-> i]
      BY <2>3, UnitsAre
    <3>2. ASSUME NEW i \in 1..k PROVE r[i].m = m
      <4>1. i \in 1..Size
        BY NumbersAssumption
      <4>2. r[i] = [m |-> m, u |-> i]
        BY <2>6, <3>1, <4>1
      <4> QED BY <4>2
    <3> QED BY <2>6, <3>2 DEF OneMessage
  <2>8. PICK a \in Seq(Unit) : a = wire[id]
    BY DEF Typed
  <2>9. PICK b \in Seq(Unit) : b = a \o r
    BY ConcatIs
  <2>10. wire'[id] = b /\ \A i \in Ids : i # id => wire'[i] = wire[i]
    BY <2>4, <2>6, <2>8, <2>9, WireIs
  <2>11. StreamOf(id) = a
    <3>1. a \o <<>> = a
      OBVIOUS
    <3> QED BY <1>4, <2>1, <2>2, <2>8, <3>1 DEF StreamOf
  <2>12. PICK w \in SlotTypes : /\ slot'[HashId(id)] = w /\ (\A x \in Slots : x # HashId(id) => slot'[x] = slot[x])
                                /\ w.id = id /\ All(w) = <<>> /\ w.low = s.low
    <3>1. CASE Put(id, t)
      <4>1. slot'[HashId(id)] = t /\ \A x \in Slots : x # HashId(id) => slot'[x] = slot[x]
        BY <1>5, <3>1 DEF Put, Typed
      <4> QED BY <1>10, <1>11, <2>1, <2>2, <4>1
    <3>2. CASE slot' = slot
      BY <1>5, <2>1, <2>2, <3>2
    <3> QED BY <2>4, <3>1, <3>2
  <2>13. StreamOf(id)' = b
    <3>1. b \o <<>> = b
      OBVIOUS
    <3> QED BY <2>10, <2>12, <3>1 DEF StreamOf, At
  <2>14. \A i \in Ids : i # id => StreamOf(i)' = StreamOf(i)
    BY <1>4, <2>1, <2>10, <2>12, OtherStreams
  <2>15. m.from = u
    BY <1>1, <1>2 DEF Control, Addressed
  <2>16. Numbered(m)
    BY <1>1, <1>2, <2>15, MessageNumbered DEF Ordered
  <2>17. InOrder(a) /\ \A i \in 1..Len(a) : Numbered(a[i].m)
    BY <2>11 DEF Ordered, StreamsOrdered
  <2>18. Before(a, r)
    BY <1>1, <1>2, <2>7, <2>15, <2>17, NumberedBefore
  <2>19. InOrder(b)
    BY <2>7, <2>9, <2>17, <2>18, OneInOrder, OrderJoins
  <2>20. \A j \in 1..Len(b) : b[j].m = m \/ \E i \in 1..Len(a) : b[j] = a[i]
    <3>1. /\ Len(b) = Len(a) + Len(r) /\ Len(a) \in Nat /\ Len(r) \in Nat
          /\ \A i \in 1..Len(a) + Len(r) : b[i] = IF i <= Len(a) THEN a[i] ELSE r[i - Len(a)]
      BY <2>9, ConcatIs
    <3>2. ASSUME NEW j \in 1..Len(b) PROVE b[j].m = m \/ \E i \in 1..Len(a) : b[j] = a[i]
      <4>1. CASE j <= Len(a)
        <5>1. j \in 1..Len(a) /\ b[j] = a[j]
          BY <3>1, <4>1
        <5> QED BY <5>1
      <4>2. CASE j > Len(a)
        <5>1. j - Len(a) \in 1..Len(r) /\ b[j] = r[j - Len(a)]
          BY <3>1, <4>2
        <5> QED BY <2>7, <5>1 DEF OneMessage
      <4> QED BY <3>1, <4>1, <4>2
    <3> QED BY <3>2
  <2>21. \A j \in 1..Len(p) : ~(p[j].cmd \in Message /\ p[j].id = id)
    <3>1. slot[HashId(id)].tcp /\ slot[HashId(id)].sending = 0 /\ id = slot[HashId(id)].id
      BY <1>5, <2>1 DEF Control, Placed
    <3> QED BY <1>5, <3>1, NothingInPipe
  <2>22. LowAreLow'
    <3>1. \A i \in 1..Len(w.low) : w.low[i].m.low
      BY <1>5, <2>1, <2>12 DEF Ordered, LowAreLow
    <3> QED BY <1>5, <2>12, <3>1, OtherLow DEF Ordered
  <2>23. user'[u] \in {Idle, [pc |-> "rest", m |-> m, k |-> k]} /\ \A v \in Users : v # u => user'[v] = user[v]
    BY <2>4 DEF Typed
  <2>24. user'[u].pc \in Busy => user'[u].m = m
    <3>1. Idle.pc = "idle" /\ "idle" \notin Busy
      BY DEF Idle, Busy
    <3> QED BY <2>23, <3>1
  <2>25. SendersStay
    <3>1. \A v \in Users : user'[v].pc \in Busy => user[v].pc \in Busy /\ user'[v].m = user[v].m
      BY <1>1, <1>2, <2>23, <2>24
    <3> QED BY <1>8, <3>1 DEF SendersStay
  <2>26. RestsLast(p)'
    <3> SUFFICES ASSUME NEW v \in Users, user'[v].pc = "rest", NEW to, to = user'[v].m.to
                 PROVE  /\ \A i \in 1..Len(StreamOf(to)') : i > Len(wire'[to]) => StreamOf(to)'[i].m.from # v
                        /\ \A i \in 1..Len(p) : p[i].cmd \in Message /\ p[i].id = to => p[i].m.from # v
      BY DEF RestsLast
    <3>1. CASE v = u
      <4>1. to = id
        BY <1>3, <2>24, <3>1 DEF Busy
      <4>2. \A i \in 1..Len(b) : ~(i > Len(b))
        BY LenIs
      <4> QED BY <2>10, <2>13, <2>21, <4>1, <4>2
    <3>2. CASE v # u
      <4>1. user[v].pc = "rest" /\ to = user[v].m.to /\ to # id
        BY <1>7, <2>23, <3>2
      <4>2. to \in Ids
        BY <4>1, MessageTo DEF Busy
      <4>3. StreamOf(to)' = StreamOf(to) /\ wire'[to] = wire[to]
        BY <2>10, <2>14, <4>1, <4>2
      <4> QED BY ZenonT(60), <4>1, <4>3 DEF Ordered, RestsLast
    <3> QED BY <3>1, <3>2
  <2>27. \A j \in 1..Len(p) : p[j].cmd \in Message /\ p[j].id = id => Ord(m, p[j].m)
    BY <2>21
  <2>28. Adds(id, m)
    BY <2>11, <2>13, <2>14, <2>19, <2>20 DEF Adds
  <2> QED BY <2>16, <2>22, <2>25, <2>26, <2>27, <2>28, OrderedAdds
<1> QED BY <1>12, <1>13

\* A list is put into another
\* The first n units stay, and of the others only those of m are new
InsertedIn(new, old, n, m) ==
    \A k \in 1..Len(new) :
        new[k].m = m \/ \E j \in 1..Len(old) : new[k] = old[j] /\ (j = k \/ (k > n /\ j > n))

\* Units of a message put into a list
LEMMA InsertedUnits ==
    ASSUME NEW w \in Seq(Unit), NEW r \in Seq(Unit), NEW z \in Seq(Unit), NEW m, OneMessage(r, m)
    PROVE  InsertedIn(w \o (r \o z), w \o z, Len(w), m)
<1>8. r \o z \in Seq(Unit)
  BY ConcatIs
<1>9. PICK new \in Seq(Unit) : new = w \o (r \o z)
  BY <1>8, ConcatIs
<1>10. PICK old \in Seq(Unit) : old = w \o z
  BY ConcatIs
<1> SUFFICES ASSUME NEW k \in 1..Len(new)
             PROVE  \/ new[k].m = m
                    \/ \E j \in 1..Len(old) : new[k] = old[j] /\ (j = k \/ (k > Len(w) /\ j > Len(w)))
  BY <1>9, <1>10 DEF InsertedIn
<1>1. PICK y \in Seq(Unit) : y = r \o z
  BY ConcatIs
<1>2. /\ Len(y) = Len(r) + Len(z) /\ Len(r) \in Nat /\ Len(z) \in Nat
      /\ \A i \in 1..Len(r) + Len(z) : y[i] = IF i <= Len(r) THEN r[i] ELSE z[i - Len(r)]
  BY <1>1, ConcatIs
<1>3. /\ Len(new) = Len(w) + Len(y) /\ Len(w) \in Nat /\ Len(y) \in Nat
      /\ \A i \in 1..Len(w) + Len(y) : new[i] = IF i <= Len(w) THEN w[i] ELSE y[i - Len(w)]
  BY <1>1, <1>9, ConcatIs
<1>4. /\ Len(old) = Len(w) + Len(z)
      /\ (\A i \in 1..Len(w) : old[i] = w[i]) /\ \A i \in 1..Len(z) : old[Len(w) + i] = z[i]
  BY <1>10, ConcatIs
<1>5. CASE k <= Len(w)
  <2>1. k \in 1..Len(w) /\ k \in 1..Len(old) /\ new[k] = w[k] /\ old[k] = w[k]
    BY <1>2, <1>3, <1>4, <1>5
  <2> QED BY <2>1
<1>6. CASE k > Len(w)
  <2>1. PICK i \in 1..Len(y) : i = k - Len(w) /\ new[k] = y[i]
    <3>1. k - Len(w) \in 1..Len(y) /\ new[k] = y[k - Len(w)]
      BY <1>3, <1>6
    <3> QED BY <3>1
  <2>2. CASE i <= Len(r)
    <3>1. i \in 1..Len(r) /\ y[i] = r[i]
      BY <1>2, <2>2
    <3> QED BY <2>1, <3>1 DEF OneMessage
  <2>3. CASE i > Len(r)
    <3>1. PICK g \in 1..Len(z) : g = i - Len(r) /\ y[i] = z[g]
      <4>1. i - Len(r) \in 1..Len(z) /\ y[i] = z[i - Len(r)]
        BY <1>2, <2>3
      <4> QED BY <4>1
    <3>2. Len(w) + g \in 1..Len(old) /\ old[Len(w) + g] = z[g] /\ Len(w) + g > Len(w)
      BY <1>2, <1>3, <1>4
    <3> QED BY <1>6, <2>1, <3>1, <3>2
  <2>4. i <= Len(r) \/ i > Len(r)
    BY <1>2, <1>3
  <2> QED BY <2>2, <2>3, <2>4
<1> QED BY <1>3, <1>5, <1>6

\* ... at a place where they are in order
LEMMA InsertedOrder ==
    ASSUME NEW w \in Seq(Unit), NEW r \in Seq(Unit), NEW z \in Seq(Unit), InOrder(w \o z), InOrder(r),
           Before(w, r), Before(r, z)
    PROVE  InOrder(w \o (r \o z))
<1>1. InOrder(w) /\ InOrder(z) /\ Before(w, z)
  BY OrderSplits
<1>2. r \o z \in Seq(Unit)
  BY ConcatIs
<1>3. InOrder(r \o z) /\ Before(w, r \o z)
  BY <1>1, OrderJoins, BeforeRight
<1> QED BY <1>1, <1>2, <1>3, OrderJoins

\* ... of a stream
LEMMA AddsInserted ==
    ASSUME Typed, StreamsOrdered, NEW id \in Ids, NEW m \in Msgs,
           NEW w \in Seq(Unit), NEW r \in Seq(Unit), NEW z \in Seq(Unit), OneMessage(r, m),
           StreamOf(id) = w \o z, StreamOf(id)' = w \o (r \o z), Before(w, r), Before(r, z),
           \A i \in Ids : i # id => StreamOf(i)' = StreamOf(i)
    PROVE  Adds(id, m)
<1>1. PICK old \in Seq(Unit) : old = w \o z
  BY ConcatIs
<1>2. r \o z \in Seq(Unit)
  BY ConcatIs
<1>3. PICK new \in Seq(Unit) : new = w \o (r \o z)
  BY <1>2, ConcatIs
<1>4. InOrder(w \o z)
  BY DEF StreamsOrdered
<1>5. InOrder(new)
  BY <1>3, <1>4, OneInOrder, InsertedOrder
<1>6. \A k \in 1..Len(new) : new[k].m = m \/ \E j \in 1..Len(old) : new[k] = old[j]
  <2>1. InsertedIn(w \o (r \o z), w \o z, Len(w), m)
    BY InsertedUnits
  <2>2. InsertedIn(new, old, Len(w), m)
    BY <1>1, <1>3, <2>1
  <2> QED BY <2>2 DEF InsertedIn
<1>7. StreamOf(id) = old /\ StreamOf(id)' = new
  BY <1>1, <1>3
<1> QED BY <1>5, <1>6, <1>7 DEF Adds

\* The rest of a direct write goes into dw_buffer: the order
LEMMA KeepRestOrdered ==
    ASSUME Base, Typed', NEW p \in Seq(Requests), p = pipe, Ordered(p), NEW u \in Users, KeepRest(u)
    PROVE  Ordered(p)'
<1> USE DEF Base
<1>1. user[u].pc = "rest" /\ user[u].pc \in Busy
  BY DEF KeepRest, Busy
<1>2. PICK m \in Msgs : m = user[u].m
  BY <1>1, MessageTo
<1>3. PICK id \in Ids : id = m.to
  BY DEF Msgs
<1>4. PICK s \in SlotTypes : s = At(id)
  BY IdsAre, AtIs DEF Typed
<1>5. PICK k \in 0..Size - 1 : k = user[u].k
  BY <1>1, UserIs DEF Typed
<1>6. /\ Put(id, WithRest(s, m, k)) /\ user' = [user EXCEPT ![u] = Idle] /\ wire' = wire
      /\ sends' = sends /\ sends \in Nat
  BY <1>2, <1>3, <1>4, <1>5 DEF KeepRest, kernel, count, Typed
<1>7. HashId(id) \in Slots /\ s = slot[HashId(id)]
  BY <1>4, IdsAre DEF At
<1>8. s.lock = u /\ s.id = id /\ s.type \in {"CONNECTED", "HALFCLOSE"} /\ s.type \in Live /\ s.dw = <<>>
  BY <1>1, <1>2, <1>3, <1>4 DEF Locked, Live, Types
<1>9. \A v \in Users : v # u => ~(user[v].pc = "rest" /\ user[v].m.to = id)
  BY <1>4, <1>8 DEF Locked
<1>10. PICK t \in SlotTypes : t = WithRest(s, m, k)
  BY WithRestIs
<1>11. /\ t.high = s.high /\ t.low = s.low /\ t.type = s.type /\ t.id = s.id
       /\ Len(t.dw) = Size - k /\ \A i \in 1..Size - k : t.dw[i] = [m |-> m, u |-> k + i]
  BY <1>10, WithRestIs
<1>12. PICK r \in Seq(Unit) : r = t.dw /\ OneMessage(r, m)
  <2>1. PICK r \in Seq(Unit) : r = t.dw
    BY SlotLists
  <2>2. ASSUME NEW i \in 1..Size - k PROVE r[i].m = m
    <3>1. r[i] = [m |-> m, u |-> k + i]
      BY <1>11, <2>1
    <3> QED BY <3>1
  <2>3. OneMessage(r, m)
    BY <1>11, <2>1, <2>2 DEF OneMessage
  <2> QED BY <2>1, <2>3
<1>13. PICK z \in Seq(Unit) : z = Unsent(s)
  BY SlotLists
<1>14. All(t) = r \o z /\ All(s) = z
  <2>1. <<>> \o z = z
    OBVIOUS
  <2> QED BY <1>8, <1>11, <1>12, <1>13, <2>1 DEF All, Unsent
<1>15. PICK w \in Seq(Unit) : w = wire[id] /\ w = wire'[id]
  BY <1>6 DEF Typed
<1>16. StreamOf(id) = w \o z
  BY <1>4, <1>8, <1>14, <1>15 DEF StreamOf
<1>17. slot'[HashId(id)] = t /\ \A x \in Slots : x # HashId(id) => slot'[x] = slot[x]
  BY <1>6, <1>7, <1>10 DEF Put, Typed
<1>18. StreamOf(id)' = w \o (r \o z)
  BY <1>8, <1>11, <1>14, <1>15, <1>17 DEF StreamOf, At
<1>19. \A i \in Ids : i # id => StreamOf(i)' = StreamOf(i)
  <2>1. t.id = id /\ \A i \in Ids : i # id => wire'[i] = wire[i]
    BY <1>6, <1>8, <1>11
  <2> QED BY <1>4, <1>8, <1>17, <2>1, OtherStreams
<1>20. m.from = u
  BY <1>1, <1>2 DEF Control, Addressed
<1>21. Numbered(m)
  BY <1>1, <1>2, <1>20, MessageNumbered DEF Ordered
<1>22. Before(w, r)
  <2>1. \A i \in 1..Len(StreamOf(id)) : Numbered(StreamOf(id)[i].m)
    BY DEF Ordered, StreamsOrdered
  <2>2. \A i \in 1..Len(w) : i \in 1..Len(StreamOf(id)) /\ StreamOf(id)[i] = w[i]
    <3>1. PICK a \in Seq(Unit) : a = StreamOf(id)
      BY StreamIs
    <3>2. Len(a) \in Nat /\ Len(w) \in Nat /\ Len(w) <= Len(a) /\ \A i \in 1..Len(w) : a[i] = w[i]
      BY <1>15, <3>1, StreamIs
    <3>3. \A i \in 1..Len(w) : i \in 1..Len(a)
      BY <3>2
    <3> QED BY <3>1, <3>2, <3>3
  <2>3. \A i \in 1..Len(w) : Numbered(w[i].m)
    BY <2>1, <2>2
  <2> QED BY <1>1, <1>2, <1>12, <1>20, <2>3, NumberedBefore
<1>23. /\ \A i \in 1..Len(StreamOf(id)) : i > Len(w) => StreamOf(id)[i].m.from # u
       /\ \A i \in 1..Len(p) : p[i].cmd \in Message /\ p[i].id = id => p[i].m.from # u
  BY <1>1, <1>2, <1>3, <1>15 DEF Ordered, RestsLast
<1>24. Before(r, z)
  <2>1. PICK a \in Seq(Unit) : a = w \o z
    BY ConcatIs
  <2>2. /\ Len(a) = Len(w) + Len(z) /\ Len(w) \in Nat /\ Len(z) \in Nat /\ \A i \in 1..Len(z) : a[Len(w) + i] = z[i]
    BY <2>1, ConcatIs
  <2>3. \A i \in 1..Len(z) : Len(w) + i \in 1..Len(a) /\ Len(w) + i > Len(w)
    BY <2>2
  <2>4. \A i \in 1..Len(a) : i > Len(w) => a[i].m.from # u
    BY <1>16, <1>23, <2>1
  <2>5. \A i \in 1..Len(z) : z[i].m.from # u
    BY <2>2, <2>3, <2>4
  <2> QED BY <1>12, <1>20, <2>5 DEF Before, Ord, OneMessage
<1>25. Adds(id, m)
  BY <1>12, <1>16, <1>18, <1>19, <1>22, <1>24, AddsInserted DEF Ordered
<1>26. \A j \in 1..Len(p) : p[j].cmd \in Message /\ p[j].id = id => Ord(m, p[j].m)
  BY <1>20, <1>23 DEF Ord
<1>27. LowAreLow'
  <2>1. \A i \in 1..Len(t.low) : t.low[i].m.low
    BY <1>7, <1>8, <1>11 DEF Ordered, LowAreLow
  <2> QED BY <1>7, <1>17, <2>1, OtherLow DEF Ordered
<1>28. user'[u].pc = "idle" /\ \A v \in Users : v # u => user'[v] = user[v]
  BY <1>6 DEF Typed, Idle
<1>29. SendersStay
  <2>1. \A v \in Users : user'[v].pc \in Busy => user[v].pc \in Busy /\ user'[v].m = user[v].m
    BY <1>28 DEF Busy
  <2> QED BY <1>6, <2>1 DEF SendersStay
<1>30. RestsLast(p)'
  <2> SUFFICES ASSUME NEW v \in Users, user'[v].pc = "rest", NEW to, to = user'[v].m.to
               PROVE  /\ \A i \in 1..Len(StreamOf(to)') : i > Len(wire'[to]) => StreamOf(to)'[i].m.from # v
                      /\ \A i \in 1..Len(p) : p[i].cmd \in Message /\ p[i].id = to => p[i].m.from # v
    BY DEF RestsLast
  <2>1. v # u /\ user[v].pc = "rest" /\ to = user[v].m.to
    BY <1>28
  <2>2. to \in Ids /\ to # id
    BY <1>9, <2>1, MessageTo DEF Busy
  <2>3. StreamOf(to)' = StreamOf(to) /\ wire'[to] = wire[to]
    BY <1>6, <1>19, <2>2
  <2> QED BY <2>1, <2>3 DEF Ordered, RestsLast
<1> QED BY <1>21, <1>25, <1>26, <1>27, <1>29, <1>30, OrderedAdds

\* Lists that are put behind one another, in whatever order
Join(p, q) == p \o q

\* Lists one after the other
LEMMA JoinIs ==
    ASSUME NEW p \in Seq(Unit), NEW q \in Seq(Unit)
    PROVE  Join(p, q) \in Seq(Unit) /\ Len(Join(p, q)) = Len(p) + Len(q)
BY ConcatIs DEF Join

\* ... in any grouping
LEMMA JoinAssociates ==
    ASSUME NEW p \in Seq(Unit), NEW q \in Seq(Unit), NEW r \in Seq(Unit)
    PROVE  Join(Join(p, q), r) = Join(p, Join(q, r))
BY Regrouped DEF Join

\* A message goes behind the stream, or before what has low priority
LEMMA AppendedStream ==
    ASSUME NEW w \in Seq(Unit), NEW d \in Seq(Unit), NEW h \in Seq(Unit), NEW l \in Seq(Unit),
           NEW x \in Seq(Unit)
    PROVE  /\ Join(w, Join(d, h)) \in Seq(Unit) /\ Len(w) <= Len(Join(w, Join(d, h)))
           /\ Join(Join(w, Join(d, h)), l) = Join(w, Join(d, Join(h, l)))
           /\ Join(Join(w, Join(d, h)), Join(x, l)) = Join(w, Join(d, Join(Join(h, x), l)))
<1>1. Join(d, h) \in Seq(Unit) /\ Join(h, l) \in Seq(Unit) /\ Join(x, l) \in Seq(Unit)
  BY JoinIs
<1>2. PICK v \in Seq(Unit) : v = Join(w, Join(d, h))
  BY <1>1, JoinIs
<1>3. Len(w) <= Len(v)
  <2>1. Len(v) = Len(w) + Len(Join(d, h))
    BY <1>1, <1>2, JoinIs
  <2>2. Len(w) \in Nat /\ Len(Join(d, h)) \in Nat
    BY <1>1, LenIs
  <2> QED BY <2>1, <2>2
<1>4. \A y \in Seq(Unit) : Join(v, y) = Join(w, Join(d, Join(h, y)))
  BY <1>1, <1>2, JoinAssociates, JoinIs
<1>5. Join(h, Join(x, l)) = Join(Join(h, x), l)
  BY JoinAssociates
<1> QED BY <1>1, <1>2, <1>3, <1>4, <1>5

\* ... and a message at the end
LEMMA AppendedLast ==
    ASSUME NEW w \in Seq(Unit), NEW d \in Seq(Unit), NEW h \in Seq(Unit), NEW l \in Seq(Unit),
           NEW x \in Seq(Unit)
    PROVE  Join(Join(w, Join(d, Join(h, l))), x) = Join(w, Join(d, Join(h, Join(l, x))))
<1>1. Join(h, l) \in Seq(Unit) /\ Join(d, Join(h, l)) \in Seq(Unit)
  BY JoinIs
<1> QED BY <1>1, JoinAssociates

\* Messages of low priority
AllLow(q) == \A i \in 1..Len(q) : q[i].m.low

\* Lists of messages of low priority
LEMMA LowJoins ==
    ASSUME NEW p \in Seq(Unit), NEW q \in Seq(Unit), AllLow(p), AllLow(q)
    PROVE  AllLow(p \o q)
<1>1. PICK a \in Seq(Unit) : a = p \o q
  BY ConcatIs
<1>2. /\ Len(a) = Len(p) + Len(q) /\ Len(p) \in Nat /\ Len(q) \in Nat
      /\ (\A i \in 1..Len(p) : a[i] = p[i]) /\ \A i \in 1..Len(q) : a[Len(p) + i] = q[i]
  BY <1>1, ConcatIs
<1>3. ASSUME NEW i \in 1..Len(a) PROVE a[i].m.low
  <2>1. CASE i \in 1..Len(p)
    BY <1>2, <2>1 DEF AllLow
  <2>2. CASE i \notin 1..Len(p)
    <3>1. PICK j \in 1..Len(q) : i = Len(p) + j
      <4>1. i - Len(p) \in 1..Len(q) /\ i = Len(p) + (i - Len(p))
        BY <1>2, <2>2
      <4> QED BY <4>1
    <3> QED BY <1>2, <3>1 DEF AllLow
  <2> QED BY <2>1, <2>2
<1> QED BY <1>1, <1>3 DEF AllLow

\* send_socket and dec_sending_ref: the order
LEMMA SendSocketOrdered ==
    ASSUME Base, Typed', Counted, NEW p \in Seq(Requests), p = pipe, Ordered(p), SendSocket,
           NEW q \in Seq(Requests), q = Tail(p)
    PROVE  Ordered(q)'
<1> USE DEF Base
<1>1. AtCommand({"D", "P"})
  BY DEF SendSocket
<1>2. PICK id \in Ids : id = Head(p).id
  BY <1>1, CommandIs
<1>3. /\ p # <<>> /\ Head(p).cmd \in Message /\ Head(p) \in Requests /\ Head(p) = p[1] /\ 1 \in 1..Len(p)
      /\ UNCHANGED <<user, wire, sends>>
  <2>1. p # <<>> /\ Head(p).cmd \in Message /\ Head(p) \in Requests /\ UNCHANGED <<user, wire, sends>>
    BY <1>1, CommandIs DEF AtCommand, Message, SendSocket, kernel
  <2>2. Head(p) = p[1] /\ 1 \in 1..Len(p)
    BY <2>1
  <2> QED BY <2>1, <2>2
<1>4. PICK m \in Msgs : m = Head(p).m
  BY <1>3, RequestIs
<1>5. Ordered(q)
  BY <1>3, OrderedTail
<1>6. PICK s \in SlotTypes : s = At(id)
  BY IdsAre, AtIs DEF Typed
<1>7. HashId(id) \in Slots /\ s = slot[HashId(id)]
  BY <1>6, IdsAre DEF At
<1>8. PICK t \in SlotTypes : t = Appended(s, id, m)
  BY <1>7, AppendedIs DEF Typed
<1>9. /\ t.id = s.id /\ t.type = s.type /\ t.dw = s.dw
      /\ \/ t = s
         \/ /\ s.id = id
            /\ \/ t.high = s.high \o Units(m) /\ t.low = s.low
               \/ t.high = s.high /\ t.low = s.low \o Units(m) /\ m.low
  <2>1. slot \in [Slots -> SlotTypes]
    BY DEF Typed
  <2>2. /\ SameSocketAs(t, s) /\ t.type = s.type /\ t.dw = s.dw
        /\ \/ t = s
           \/ t.high = s.high \o Units(m) /\ t.low = s.low
           \/ t.high = s.high /\ t.low = s.low \o Units(m) /\ m.low
    BY SMTT(60), <1>8, <2>1, AppendedIs
  <2>3. ~IsOpen(id) => t = s
    BY <1>8 DEF Appended
  <2>4. IsOpen(id) => s.id = id
    BY <1>6 DEF IsOpen
  <2> QED BY <2>2, <2>3, <2>4 DEF SameSocketAs
<1>10. PICK n \in Int : n = t.sending - 1
  BY SlotIs
<1>11. PICK v \in SlotTypes : Put(id, v) /\ v.id = t.id /\ v.type = t.type /\ All(v) = All(t) /\ v.low = t.low
  <2>1. PICK w \in SlotTypes : w = [t EXCEPT !.sending = n]
    BY SetSending
  <2>2. w.id = t.id /\ w.type = t.type /\ SameLists(w, t)
    BY <2>1 DEF SlotTypes, SameLists
  <2>3. Put(id, IF t.id = id /\ t.tcp THEN w ELSE t)
    BY <1>2, <1>4, <1>6, <1>8, <1>10, <2>1 DEF SendSocket
  <2> QED BY <2>2, <2>3, SameAll
<1>12. SendersStay /\ RestsQuiet
  BY <1>3 DEF SendersStay, RestsQuiet, Typed
<1>13. CASE t = s \/ s.type \notin Live
  <2>1. v.type \in Live => SameStream(v, s)
    BY <1>9, <1>11, <1>13 DEF SameStream
  <2>2. StreamSlots
    BY <1>6, <1>11, <2>1, PutStream
  <2>3. Kept
    BY <1>3, <2>2, KeptQuiet
  <2> QED BY <1>5, <1>12, <2>3, OrderedQuiet
<1>14. CASE /\ s.type \in Live /\ s.id = id
            /\ \/ t.high = s.high \o Units(m) /\ t.low = s.low
               \/ t.high = s.high /\ t.low = s.low \o Units(m) /\ m.low
  <2>1. PICK x \in Seq(Unit) : x = Units(m) /\ OneMessage(x, m)
    <3>1. PICK x \in Seq(Unit) : x = Units(m) /\ Len(x) = Size /\ \A i \in 1..Size : x[i] = [m |-> m, u |-> i]
      BY UnitsAre
    <3>2. ASSUME NEW i \in 1..Len(x) PROVE x[i].m = m
      <4>1. x[i] = [m |-> m, u |-> i]
        BY <3>1
      <4> QED BY <4>1
    <3> QED BY <3>1, <3>2 DEF OneMessage
  <2>2. PICK d \in Seq(Unit), h \in Seq(Unit), l \in Seq(Unit) : d = s.dw /\ h = s.high /\ l = s.low
    BY SlotLists
  <2>3. PICK w \in Seq(Unit) : w = wire[id] /\ w = wire'[id]
    BY <1>3 DEF Typed
  <2>4. slot'[HashId(id)] = v /\ \A y \in Slots : y # HashId(id) => slot'[y] = slot[y]
    BY <1>7, <1>11 DEF Put, Typed
  <2>5. v.id = id /\ v.type \in Live
    BY <1>9, <1>11, <1>14
  <2>6. All(s) = Join(d, Join(h, l))
    BY <2>2, SlotLists DEF Join
  <2>7. StreamOf(id) = Join(w, Join(d, Join(h, l)))
    BY <1>6, <1>14, <2>3, <2>6 DEF StreamOf, Join
  <2>8. StreamOf(id)' = Join(w, All(t))
    BY <1>11, <2>3, <2>4, <2>5 DEF StreamOf, At, Join
  <2>9. PICK a \in Seq(Unit), z \in Seq(Unit) :
          /\ Len(w) <= Len(a) /\ StreamOf(id) = Join(a, z) /\ StreamOf(id)' = Join(a, Join(x, z))
          /\ Before(x, z)
    <3>1. CASE t.high = Join(h, x) /\ t.low = l
      <4>1. All(t) = Join(d, Join(Join(h, x), l))
        BY <1>9, <2>2, <3>1, SlotLists DEF Join
      <4>2. PICK a \in Seq(Unit) : /\ Len(w) <= Len(a)
                                   /\ Join(a, l) = Join(w, Join(d, Join(h, l)))
                                   /\ Join(a, Join(x, l)) = Join(w, Join(d, Join(Join(h, x), l)))
        <5>1. /\ Join(w, Join(d, h)) \in Seq(Unit) /\ Len(w) <= Len(Join(w, Join(d, h)))
              /\ Join(Join(w, Join(d, h)), l) = Join(w, Join(d, Join(h, l)))
              /\ Join(Join(w, Join(d, h)), Join(x, l)) = Join(w, Join(d, Join(Join(h, x), l)))
          BY AppendedStream
        <5> QED BY <5>1
      <4>3. \A i \in 1..Len(l) : l[i].m.low
        BY <1>7, <1>14, <2>2 DEF Ordered, LowAreLow
      <4>4. Before(x, l)
        BY <4>3 DEF Before, Ord
      <4> QED BY <2>7, <2>8, <4>1, <4>2, <4>4
    <3>2. CASE t.high = h /\ t.low = Join(l, x) /\ m.low
      <4>1. All(t) = Join(d, Join(h, Join(l, x)))
        BY <1>9, <2>2, <3>2, SlotLists DEF Join
      <4>2. PICK a \in Seq(Unit) : a = StreamOf(id)
        BY StreamIs
      <4>3. Join(a, x) = Join(w, Join(d, Join(h, Join(l, x))))
        BY <2>7, <4>2, AppendedLast
      <4>4. <<>> \in Seq(Unit) /\ Join(a, <<>>) = a /\ Join(x, <<>>) = x
        BY DEF Join
      <4>5. Before(x, <<>>)
        BY DEF Before
      <4>6. Len(w) <= Len(a)
        BY <2>3, <4>2, StreamIs
      <4> QED BY <2>8, <4>1, <4>2, <4>3, <4>4, <4>5, <4>6
    <3>3. (t.high = Join(h, x) /\ t.low = l) \/ (t.high = h /\ t.low = Join(l, x) /\ m.low)
      BY <1>14, <2>1, <2>2 DEF Join
    <3> QED BY <3>1, <3>2, <3>3
  <2>10. /\ Numbered(m)
         /\ \A k \in 1..Len(StreamOf(id)) : Ord(StreamOf(id)[k].m, m)
         /\ \A j \in 1..Len(p) : 1 < j /\ p[j].cmd \in Message /\ p[j].id = id => Ord(m, p[j].m)
    BY <1>2, <1>3, <1>4 DEF Ordered, QueueOrdered
  <2>11. Before(a, x)
    <3>1. PICK b \in Seq(Unit) : b = a \o z
      BY ConcatIs
    <3>6. b = StreamOf(id)
      BY <2>9, <3>1 DEF Join
    <3>2. Len(b) = Len(a) + Len(z) /\ Len(a) \in Nat /\ Len(z) \in Nat /\ \A i \in 1..Len(a) : b[i] = a[i]
      BY <3>1, ConcatIs
    <3>3. \A i \in 1..Len(a) : i \in 1..Len(b)
      BY <3>2
    <3>4. \A i \in 1..Len(b) : Ord(b[i].m, m)
      BY <2>10, <3>6
    <3>5. \A i \in 1..Len(a) : Ord(a[i].m, m)
      BY <3>2, <3>3, <3>4
    <3> QED BY <2>1, <3>5 DEF Before, OneMessage
  <2>12. \A i \in Ids : i # id => StreamOf(i)' = StreamOf(i)
    BY <1>3, <1>6, <1>14, <2>4, <2>5, OtherStreams
  <2>13. Adds(id, m)
    <3>1. StreamOf(id) = a \o z /\ StreamOf(id)' = a \o (x \o z) /\ Before(x, z)
      BY <2>9 DEF Join
    <3>2. StreamsOrdered
      BY DEF Ordered
    <3> QED BY <2>1, <2>11, <2>12, <3>1, <3>2, AddsInserted
  <2>14. \A j \in 1..Len(q) : q[j].cmd \in Message /\ q[j].id = id => Ord(m, q[j].m)
    <3>1. \A j \in 1..Len(q) : j + 1 \in 1..Len(p) /\ 1 < j + 1 /\ q[j] = p[j + 1]
      BY <1>3
    <3> QED BY <2>10, <3>1
  <2>15. LowAreLow'
    <3>1. \A i \in 1..Len(l) : l[i].m.low
      BY <1>7, <1>14, <2>2 DEF Ordered, LowAreLow
    <3>2. v.low = l \/ (v.low = l \o x /\ m.low)
      BY <1>11, <1>14, <2>1, <2>2
    <3>3. CASE v.low = l \o x /\ m.low
      <4>1. \A i \in 1..Len(x) : x[i].m.low
        BY <2>1, <3>3 DEF OneMessage
      <4>2. AllLow(l \o x)
        BY <3>1, <4>1, LowJoins DEF AllLow
      <4>4. \A i \in 1..Len(v.low) : v.low[i].m.low
        BY <3>3, <4>2 DEF AllLow
      <4> QED BY <1>7, <2>4, <4>4, OtherLow DEF Ordered
    <3>4. CASE v.low = l
      BY <1>7, <2>4, <3>1, <3>4, OtherLow DEF Ordered
    <3> QED BY <3>2, <3>3, <3>4
  <2>16. RestsLast(q)'
    <3>0. wire' = wire /\ user' = user
      BY <1>3
    <3> SUFFICES ASSUME NEW u \in Users, user[u].pc = "rest", NEW to, to = user[u].m.to
                 PROVE  /\ \A i \in 1..Len(StreamOf(to)') : i > Len(wire[to]) => StreamOf(to)'[i].m.from # u
                        /\ \A i \in 1..Len(q) : q[i].cmd \in Message /\ q[i].id = to => q[i].m.from # u
      BY <3>0 DEF RestsLast
    <3>1. to \in Ids
      BY MessageTo DEF Busy
    <3>2. \A i \in 1..Len(q) : q[i].cmd \in Message /\ q[i].id = to => q[i].m.from # u
      BY <1>5 DEF Ordered, RestsLast
    <3>3. \A i \in 1..Len(StreamOf(to)) : i > Len(wire[to]) => StreamOf(to)[i].m.from # u
      BY <1>5 DEF Ordered, RestsLast
    <3>4. CASE to # id
      <4>1. StreamOf(to)' = StreamOf(to)
        BY <2>12, <3>1, <3>4
      <4> QED BY <3>2, <3>3, <4>1
    <3>5. CASE to = id
      <4>1. m.from # u
        BY ZenonT(60), <1>2, <1>3, <1>4, <3>5 DEF Ordered, RestsLast
      <4>2. InsertedIn(a \o (x \o z), a \o z, Len(a), m)
        BY <2>1, InsertedUnits
      <4>3. PICK old \in Seq(Unit) : old = StreamOf(id)
        BY StreamIs
      <4>4. PICK new \in Seq(Unit) : new = StreamOf(id)'
        BY StreamIsNext
      <4>5. InsertedIn(new, old, Len(a), m)
        BY <2>9, <4>2, <4>3, <4>4 DEF Join
      <4>6. Len(w) \in Nat /\ Len(a) \in Nat /\ Len(w) <= Len(a)
        BY <2>9, LenIs
      <4>7. \A i \in 1..Len(old) : i > Len(w) => old[i].m.from # u
        BY <2>3, <3>3, <3>5, <4>3
      <4>8. ASSUME NEW k \in 1..Len(new), k > Len(w), new[k].m # m PROVE new[k].m.from # u
        <5>1. PICK j \in 1..Len(old) : new[k] = old[j] /\ (j = k \/ (k > Len(a) /\ j > Len(a)))
          BY <4>5, <4>8 DEF InsertedIn
        <5>2. j > Len(w)
          BY <4>6, <4>8, <5>1
        <5> QED BY <4>7, <5>1, <5>2
      <4>9. \A k \in 1..Len(new) : k > Len(w) => new[k].m.from # u
        BY <4>1, <4>8
      <4> QED BY <2>3, <3>2, <3>5, <4>4, <4>9
    <3> QED BY <3>4, <3>5
  <2> QED BY <1>5, <1>12, <2>10, <2>13, <2>14, <2>15, <2>16, OrderedAdds
<1> QED BY <1>9, <1>13, <1>14

-----------------------------------------------------------------------------
(* The steps *)

\* A step of a service that begins to send nothing
LEMMA UserSenders ==
    ASSUME Typed, NEW u \in Users, sends' = sends, user[u].pc # "rest", user'[u].pc # "rest",
           user'[u].pc \in Busy => user[u].pc \in Busy /\ user'[u].m = user[u].m,
           \A v \in Users : v # u => user'[v] = user[v]
    PROVE  SendersStay /\ RestsQuiet
<1>1. sends \in Nat /\ sends' \in Nat /\ sends <= sends'
  BY DEF Typed
<1>2. \A v \in Users : user'[v].pc \in Busy => user[v].pc \in Busy /\ user'[v].m = user[v].m
  OBVIOUS
<1> QED BY <1>1, <1>2 DEF SendersStay, RestsQuiet

\* ... and one of anybody else
LEMMA NoSenders ==
    ASSUME Typed, sends' = sends, user' = user
    PROVE  SendersStay /\ RestsQuiet
<1>1. sends \in Nat /\ sends' \in Nat /\ sends <= sends'
  BY DEF Typed
<1> QED BY <1>1 DEF SendersStay, RestsQuiet

\* What is asked for by a call is no message
LEMMA CallIs ==
    ASSUME NEW cmd \in {"O", "L", "S", "K", "shutdown"}, NEW id \in Ids
    PROVE  [cmd |-> cmd, id |-> id, m |-> None] \in Requests /\ cmd \notin Message
<1>1. [cmd |-> cmd, id |-> id, m |-> None] \in Requests
  BY DEF Requests
<1> QED BY <1>1 DEF Message

\* reserve_id takes a slot: the order
LEMMA ReserveOrdered ==
    ASSUME Base, Streamed, Typed', Ordered(pipe), NEW u \in Users, NEW cmd \in Opening, Reserve(u, cmd)
    PROVE  Ordered(pipe)'
<1>1. PICK p \in Seq(Requests) : p = pipe /\ p = pipe'
  BY DEF Base, Typed, Reserve
<1>2. /\ sends' = sends /\ user[u] = Idle
      /\ user' = [user EXCEPT ![u] = [pc |-> "reserved", cmd |-> cmd, id |-> NextId]]
  BY DEF Reserve, Call
<1>3. user[u].pc # "rest" /\ user'[u].pc = "reserved" /\ \A v \in Users : v # u => user'[v] = user[v]
  BY <1>2 DEF Base, Typed, Idle
<1>4. SendersStay /\ RestsQuiet
  BY <1>2, <1>3, UserSenders DEF Base, Busy
<1>5. Kept /\ Ordered(p)
  BY <1>1, ReserveStreamed
<1>6. Ordered(p)'
  BY <1>4, <1>5, OrderedQuiet DEF Base
<1> QED BY <1>1, <1>6 DEF Ordered, QueueOrdered, RestsLast

\* reserve_id stores the id, and the request is sent: the order
LEMMA ReservedOrdered ==
    ASSUME Base, Streamed, Typed', Ordered(pipe), NEW u \in Users, Reserved(u)
    PROVE  Ordered(pipe)'
<1> USE DEF Base
<1>1. user[u].pc = "reserved" /\ user' = [user EXCEPT ![u] = Idle] /\ sends' = sends
  BY DEF Reserved, count
<1>2. user[u].cmd \in Opening /\ user[u].id \in Ids
  BY <1>1, UserIs DEF Typed
<1>3. PICK r \in Requests : r = [cmd |-> user[u].cmd, id |-> user[u].id, m |-> None] /\ r.cmd \notin Message
  <2>1. PICK cmd \in Opening, id \in Ids : cmd = user[u].cmd /\ id = user[u].id
    BY <1>2
  <2> QED BY <2>1, CallIs DEF Opening
<1>4. PICK p \in Seq(Requests) : p = pipe
  BY DEF Typed
<1>5. PICK q \in Seq(Requests) : q = pipe'
  BY DEF Typed
<1>6. q = Append(p, r)
  BY <1>3, <1>4, <1>5 DEF Reserved, Request
<1>7. user[u].pc # "rest" /\ user'[u].pc = "idle" /\ \A v \in Users : v # u => user'[v] = user[v]
  BY <1>1 DEF Typed, Idle
<1>8. SendersStay /\ RestsQuiet
  BY <1>1, <1>7, UserSenders DEF Busy
<1>9. Ordered(q)
  BY <1>3, <1>4, <1>6, OrderedPush
<1>10. Kept
  BY ReservedStreamed
<1>11. Ordered(q)'
  BY <1>8, <1>9, <1>10, OrderedQuiet
<1> QED BY <1>5, <1>11 DEF Ordered, QueueOrdered, RestsLast

\* A call puts its request into the pipe: the order
LEMMA AskOrdered ==
    ASSUME Base, Streamed, Typed', Ordered(pipe),
           NEW u \in Users, NEW cmd \in {"S", "K", "shutdown"}, NEW id \in Ids, Ask(u, cmd, id)
    PROVE  Ordered(pipe)'
<1> USE DEF Base
<1>1. sends' = sends /\ user' = user
  BY DEF Ask, Call
<1>3. PICK r \in Requests : r = [cmd |-> cmd, id |-> id, m |-> None] /\ r.cmd \notin Message
  BY CallIs
<1>4. PICK p \in Seq(Requests) : p = pipe
  BY DEF Typed
<1>5. PICK q \in Seq(Requests) : q = pipe'
  BY DEF Typed
<1>6. q = Append(p, r)
  BY <1>3, <1>4, <1>5 DEF Ask, Request
<1>8. SendersStay /\ RestsQuiet
  BY <1>1, NoSenders
<1>9. Ordered(q)
  BY <1>3, <1>4, <1>6, OrderedPush
<1>10. Kept
  BY AskStreamed
<1>11. Ordered(q)'
  BY <1>8, <1>9, <1>10, OrderedQuiet
<1> QED BY <1>5, <1>11 DEF Ordered, QueueOrdered, RestsLast

\* A new message has the last number
LEMMA SendOrdered ==
    ASSUME Base, Streamed, Typed', Ordered(pipe), NEW u \in Users, NEW id \in Ids, NEW low \in BOOLEAN,
           Send(u, id, low)
    PROVE  Ordered(pipe)'
<1> USE DEF Base
<1>1. PICK p \in Seq(Requests) : p = pipe /\ p = pipe'
  BY DEF Typed, Send, server
<1>2. PICK m : m = [n |-> sends + 1, from |-> u, to |-> id, low |-> low]
  OBVIOUS
<1>3. /\ sends' = sends + 1 /\ user[u] = Idle /\ m.n = sends + 1
      /\ user' \in {user, [user EXCEPT ![u] = [pc |-> IF low THEN "ref" ELSE "direct", m |-> m]]}
  BY <1>2 DEF Send
<1>4. /\ \A v \in Users : v # u => user'[v] = user[v]
      /\ user'[u] = user[u] \/ (user'[u].pc # "rest" /\ user'[u].m.n = sends')
  BY <1>3 DEF Typed
<1>5. sends' \in Nat /\ sends <= sends'
  BY <1>3 DEF Typed
<1>6. user[u].pc # "rest" /\ user[u].pc \notin Busy
  BY <1>3 DEF Idle, Busy
<1>7. SendersStay
  BY <1>4, <1>5, <1>6 DEF SendersStay
<1>8. RestsQuiet
  BY <1>4 DEF RestsQuiet
<1>9. Kept /\ Ordered(p)
  BY <1>1, SendStreamed
<1>10. Ordered(p)'
  BY <1>7, <1>8, <1>9, OrderedQuiet
<1> QED BY <1>1, <1>10 DEF Ordered, QueueOrdered, RestsLast

\* Steps of a sender between the parts of a send
LEMMA GotoOrdered ==
    ASSUME Base, Typed', Kept, Ordered(pipe), UNCHANGED <<pipe, sends>>,
           NEW u \in Users, user[u].pc \in Busy \ {"rest"}, NEW pc \in Busy \ {"rest"}, Goto(u, pc)
    PROVE  Ordered(pipe)'
<1> USE DEF Base
<1>1. PICK p \in Seq(Requests) : p = pipe /\ p = pipe'
  BY DEF Typed
<1>2. user'[u].pc = pc /\ user'[u].m = user[u].m /\ \A v \in Users : v # u => user'[v] = user[v]
  BY GotoIs
<1>3. SendersStay /\ RestsQuiet
  BY <1>2, UserSenders
<1>4. Ordered(p)
  BY <1>1
<1>5. Ordered(p)'
  BY <1>3, <1>4, OrderedQuiet
<1> QED BY <1>1, <1>5 DEF Ordered, QueueOrdered, RestsLast

\* The steps between the parts of a send: the order
LEMMA SenderOrdered ==
    ASSUME Base, Streamed, Typed', Ordered(pipe), NEW u \in Users, MayLock(u) \/ TryLock(u) \/ SendingRef(u)
    PROVE  Ordered(pipe)'
<1> DEFINE Quiet == Busy \ {"rest"}
<1>0. {"direct", "trylock", "locked", "ref", "pipe"} \subseteq Quiet
  BY DEF Busy
<1>1. Kept
  BY MayLockStreamed, TryLockStreamed, SendingRefStreamed
<1>2. UNCHANGED <<pipe, sends>> /\ user[u].pc \in Quiet
  BY <1>0 DEF MayLock, TryLock, SendingRef, server, count
<1>3. PICK pc \in Quiet : Goto(u, pc)
  <2>1. CASE MayLock(u)
    <3>1. Goto(u, "trylock") \/ Goto(u, "ref")
      BY <2>1 DEF MayLock, Goto
    <3> QED BY <1>0, <3>1
  <2>2. CASE TryLock(u)
    <3>1. Goto(u, "locked") \/ Goto(u, "ref")
      BY <2>2 DEF TryLock
    <3> QED BY <1>0, <3>1
  <2>3. CASE SendingRef(u)
    BY <1>0, <2>3 DEF SendingRef
  <2> QED BY <2>1, <2>2, <2>3
<1> QED BY <1>1, <1>2, <1>3, GotoOrdered

\* A message that goes into the pipe comes after those that its service sent before
LEMMA SendRequestOrdered ==
    ASSUME Base, Streamed, Typed', Ordered(pipe), NEW u \in Users, SendRequest(u)
    PROVE  Ordered(pipe)'
<1> USE DEF Base
<1>1. user[u].pc = "pipe" /\ user' = [user EXCEPT ![u] = Idle] /\ sends' = sends
  BY DEF SendRequest, count
<1>2. user[u].pc \in Busy /\ user[u].pc \in Busy \ {"rest"}
  BY <1>1 DEF Busy
<1>3. PICK m \in Msgs : m = user[u].m
  BY <1>2, MessageTo
<1>4. m.to \in Ids /\ m.from = u
  BY <1>2, <1>3 DEF Msgs, Control, Addressed
<1>5. PICK cmd \in Message : cmd = IF m.low THEN "P" ELSE "D"
  BY DEF Message
<1>6. PICK r \in Requests : r = [cmd |-> cmd, id |-> m.to, m |-> m] /\ r.cmd \in Message /\ r.m = m
  <2>1. PICK r : r = [cmd |-> cmd, id |-> m.to, m |-> m]
    OBVIOUS
  <2>2. r \in Requests
    BY <1>4, <2>1 DEF Requests
  <2> QED BY <2>1, <2>2
<1>7. PICK p \in Seq(Requests) : p = pipe
  BY DEF Typed
<1>8. PICK q \in Seq(Requests) : q = pipe'
  BY DEF Typed
<1>9. q = Append(p, r)
  BY <1>3, <1>5, <1>6, <1>7, <1>8 DEF SendRequest, Request
<1>10. user'[u].pc = "idle" /\ \A v \in Users : v # u => user'[v] = user[v]
  BY <1>1 DEF Typed, Idle
<1>11. SendersStay /\ RestsQuiet
  BY <1>1, <1>10, UserSenders DEF Busy
<1>12. Ordered(p) /\ r.m = user[u].m /\ r.m.from = u
  BY <1>3, <1>4, <1>6, <1>7
<1>13. Ordered(q)
  BY <1>2, <1>6, <1>9, <1>12, OrderedMessage
<1>14. Kept
  BY SendRequestStreamed
<1>15. Ordered(q)'
  BY <1>11, <1>13, <1>14, OrderedQuiet
<1> QED BY <1>8, <1>15 DEF Ordered, QueueOrdered, RestsLast

\* Steps of the socket thread that take a request from the pipe, and add nothing to the streams
LEMMA TakenOrdered ==
    ASSUME Base, Typed', Kept, Ordered(pipe), NEW cmds, AtCommand(cmds)
    PROVE  Ordered(pipe)'
<1> USE DEF Base
<1>1. PICK p \in Seq(Requests) : p = pipe
  BY DEF Typed
<1>2. PICK q \in Seq(Requests) : q = pipe'
  BY DEF Typed
<1>3. q = Tail(p) /\ p # <<>> /\ sends' = sends /\ user' = user
  BY <1>1, <1>2, CommandIs DEF AtCommand
<1>4. Ordered(p)
  BY <1>1
<1>5. Ordered(q)
  BY <1>3, <1>4, OrderedTail
<1>6. SendersStay /\ RestsQuiet
  BY <1>3, NoSenders
<1>7. Ordered(q)'
  BY <1>5, <1>6, OrderedQuiet
<1> QED BY <1>2, <1>7 DEF Ordered, QueueOrdered, RestsLast

\* A step that leaves the pipe, the services and the streams: the order
LEMMA SamePipeOrdered ==
    ASSUME Base, Typed', Kept, Ordered(pipe), UNCHANGED <<pipe, user, sends>>
    PROVE  Ordered(pipe)'
<1> USE DEF Base
<1>1. PICK p \in Seq(Requests) : p = pipe /\ p = pipe'
  BY DEF Typed
<1>2. SendersStay /\ RestsQuiet
  BY NoSenders
<1>3. Ordered(p)
  BY <1>1
<1>4. Ordered(p)'
  BY <1>2, <1>3, OrderedQuiet
<1> QED BY <1>1, <1>4 DEF Ordered, QueueOrdered, RestsLast

\* What the services and their workers do: the order
LEMMA UserOrdered ==
    ASSUME Base, Typed', Counted, Streamed, Ordered(pipe), NEW u \in Users, Service(u) \/ UserStep(u)
    PROVE  Ordered(pipe)'
<1>1. ASSUME NEW cmd \in {"O", "L"}, Reserve(u, cmd) PROVE Ordered(pipe)'
  BY <1>1, ReserveOrdered DEF Opening
<1>2. ASSUME NEW id \in Ids, NEW cmd \in {"S", "K", "shutdown"}, Ask(u, cmd, id) PROVE Ordered(pipe)'
  BY <1>2, AskOrdered
<1>3. ASSUME NEW id \in Ids, NEW low \in BOOLEAN, Send(u, id, low) PROVE Ordered(pipe)'
  BY <1>3, SendOrdered
<1>4. CASE Service(u)
  BY <1>1, <1>2, <1>3, <1>4 DEF Service
<1>5. CASE DirectWrite(u) \/ KeepRest(u)
  <2>1. PICK p \in Seq(Requests) : p = pipe /\ p = pipe'
    BY <1>5 DEF Base, Typed, DirectWrite, KeepRest
  <2>2. Ordered(p)
    BY <2>1
  <2>3. Ordered(p)'
    BY <1>5, <2>1, <2>2, DirectWriteOrdered, KeepRestOrdered
  <2> QED BY <2>1, <2>3 DEF Ordered, QueueOrdered, RestsLast
<1> QED BY <1>4, <1>5, ReservedOrdered, SenderOrdered, SendRequestOrdered DEF UserStep

\* The commands: the order
LEMMA CommandOrdered ==
    ASSUME Base, Typed', Counted, Streamed, Ordered(pipe), Command, Sound'
    PROVE  Ordered(pipe)'
<1>1. CASE SendSocket
  <2>1. PICK p \in Seq(Requests) : p = pipe
    BY DEF Base, Typed
  <2>2. PICK q \in Seq(Requests) : q = pipe'
    BY DEF Typed
  <2>3. q = Tail(p)
    BY <1>1, <2>1, <2>2 DEF SendSocket, AtCommand
  <2>4. Ordered(p)
    BY <2>1
  <2>5. Ordered(q)'
    BY <1>1, <2>1, <2>3, <2>4, SendSocketOrdered
  <2> QED BY <2>2, <2>5 DEF Ordered, QueueOrdered, RestsLast
<1>2. CASE OpenSocket \/ ListenSocket \/ StartSocket \/ CloseSocket
  <2>1. Kept
    BY <1>2, OpenSocketStreamed, ListenSocketStreamed, StartSocketStreamed, CloseSocketStreamed DEF Sound
  <2>2. \E cmds : AtCommand(cmds)
    BY <1>2 DEF OpenSocket, ListenSocket, StartSocket, CloseSocket
  <2> QED BY <2>1, <2>2, TakenOrdered
<1> QED BY <1>1, <1>2 DEF Command

\* The other steps of the socket thread, and the peers: the order
LEMMA OtherOrdered ==
    ASSUME Base, Typed', Streamed, Ordered(pipe), Sound',
           \/ CloseFd \/ ClearEvents \/ NoCommand \/ Wait
           \/ \E e \in events : ReportConnect(e) \/ ReportAccept(e) \/ Read(e) \/ Write(e) \/ Stale(e)
           \/ \E id \in Ids : PeerSends(id) \/ PeerGoes(id)
    PROVE  Ordered(pipe)'
<1>1. ASSUME NEW e \in events, ReportConnect(e) \/ ReportAccept(e) \/ Read(e) \/ Write(e)
      PROVE  Kept /\ UNCHANGED <<pipe, user, sends>>
  <2>1. Kept
    BY <1>1, ReportConnectStreamed, ReportAcceptStreamed, ReadStreamed, WriteStreamed DEF Sound
  <2>2. AtEvent(e)
    BY <1>1 DEF ReportConnect, ReportAccept, Read, Write
  <2> QED BY <2>1, <2>2 DEF AtEvent, count
<1>2. ASSUME CloseFd \/ ClearEvents PROVE Kept /\ UNCHANGED <<pipe, user, sends>>
  <2>1. Kept
    BY <1>2, CloseFdStreamed, ClearEventsStreamed
  <2> QED BY <1>2, <2>1 DEF CloseFd, ClearEvents, count
<1>3. ASSUME NoCommand \/ Wait \/ (\E e \in events : Stale(e)) \/ (\E id \in Ids : PeerSends(id) \/ PeerGoes(id))
      PROVE  Kept /\ UNCHANGED <<pipe, user, sends>>
  <2>1. Kept
    BY <1>3, OtherStreamed
  <2> QED BY <1>3, <2>1 DEF NoCommand, Wait, Stale, AtEvent, PeerSends, PeerGoes, server, count
<1>4. Kept /\ UNCHANGED <<pipe, user, sends>>
  BY <1>1, <1>2, <1>3
<1> QED BY <1>4, SamePipeOrdered

\* Every step: the order
LEMMA NextOrdered ==
    ASSUME Base, Typed', Counted, Streamed, Ordered(pipe), Next, Sound'
    PROVE  Ordered(pipe)'
<1>1. CASE \E u \in Users : Service(u) \/ UserStep(u)
  BY <1>1, UserOrdered
<1>2. CASE Command
  BY <1>2, CommandOrdered
<1>3. CASE ~Command /\ (Poll \/ \E id \in Ids : PeerSends(id) \/ PeerGoes(id))
  BY <1>3, OtherOrdered DEF Poll
<1> QED BY <1>1, <1>2, <1>3 DEF Next, Poll

\* The first state: the order
LEMMA InitOrdered == Init => Ordered(pipe)
<1> SUFFICES ASSUME Init PROVE Ordered(pipe)
  OBVIOUS
<1>1. /\ user = [u \in Users |-> Idle] /\ Idle.pc = "idle" /\ Idle.pc \notin Busy /\ Idle.pc # "rest"
      /\ wire = [id \in Ids |-> <<>>] /\ pipe = <<>> /\ Len(pipe) = 0
  BY DEF Init, Idle, Busy
<1>2. \A x \in Slots : slot[x].type \notin Live
  BY DEF Init, Live
<1>3. \A id \in Ids : StreamOf(id) = <<>> /\ Len(StreamOf(id)) = 0
  BY <1>1, <1>2, IdsAre DEF StreamOf, At
<1>4. StreamsOrdered
  BY <1>3 DEF StreamsOrdered, InOrder
<1>5. QueueOrdered(pipe) /\ LowAreLow /\ BusyNumbered /\ RestsLast(pipe)
  BY <1>1, <1>2 DEF QueueOrdered, LowAreLow, BusyNumbered, RestsLast
<1> QED BY <1>4, <1>5 DEF Ordered

SoundOrder == Sound => Ordered(pipe)

\* No step at all: the order
LEMMA StutterOrdered ==
    ASSUME Base, Streamed, Ordered(pipe), UNCHANGED vars
    PROVE  Ordered(pipe)'
<1>1. Base' /\ Kept
  BY StutterBase, StutterStreamed
<1>2. UNCHANGED <<pipe, user, sends>>
  BY DEF vars, server, count
<1> QED BY <1>1, <1>2, SamePipeOrdered DEF Base

\* What one service has sent with high priority is written, waits in the slot, waits in
\* the pipe and is being sent in the order of its numbers
THEOREM Ordering == Spec => [](SoundBase /\ SoundCount /\ SoundStream /\ SoundOrder)
<1>1. Init => SoundOrder
  BY InitOrdered DEF SoundOrder
<1>2. /\ SoundBase /\ SoundCount /\ SoundStream /\ SoundOrder /\ [Next]_vars
      /\ (SoundBase /\ SoundCount /\ SoundStream)'
      => SoundOrder'
  <2> SUFFICES ASSUME SoundBase, SoundCount, SoundStream, SoundOrder, [Next]_vars, SoundBase', Sound'
               PROVE  Ordered(pipe)'
    BY DEF SoundOrder
  <2>1. Typed'
    BY DEF SoundBase, Base
  <2>2. CASE Next
    BY <2>1, <2>2, SoundBefore, NextOrdered DEF SoundBase, SoundCount, SoundStream, SoundOrder
  <2>3. CASE UNCHANGED vars
    <3>1. Sound
      BY <2>3 DEF Sound, vars, over
    <3> QED BY <2>3, <3>1, StutterOrdered DEF SoundBase, SoundStream, SoundOrder
  <2> QED BY <2>2, <2>3
<1> QED BY <1>1, <1>2, Streaming, PTL DEF Spec

\* Messages of high priority of one service leave on a connection in the order in which it
\* sent them, whichever of them the worker wrote itself and whichever took the pipe
THEOREM SentInOrderHolds == Spec => []SentInOrder
<1>1. SoundBase /\ SoundOrder => SentInOrder
  <2> SUFFICES ASSUME Base, Ordered(pipe), NEW id \in Ids, NEW i \in DOMAIN wire[id], NEW j \in DOMAIN wire[id], i < j
               PROVE  Ord(wire[id][i].m, wire[id][j].m)
    BY DEF SoundBase, SoundOrder, SentInOrder, Ord
  <2>1. PICK w \in Seq(Unit) : w = wire[id]
    BY DEF Base, Typed
  <2>2. PICK a \in Seq(Unit) : a = StreamOf(id)
    BY StreamIs DEF Base
  <2>3. Len(w) \in Nat /\ Len(a) \in Nat /\ Len(w) <= Len(a) /\ \A k \in 1..Len(w) : a[k] = w[k]
    BY <2>1, <2>2, StreamIs DEF Base
  <2>4. i \in 1..Len(w) /\ j \in 1..Len(w)
    BY <2>1
  <2>5. i \in 1..Len(a) /\ j \in 1..Len(a)
    BY <2>3, <2>4
  <2>6. InOrder(a)
    BY <2>2 DEF Ordered, StreamsOrdered
  <2>7. Ord(a[i].m, a[j].m)
    BY <2>5, <2>6 DEF InOrder
  <2> QED BY <2>1, <2>3, <2>4, <2>7
<1> QED BY <1>1, Ordering, PTL
=============================================================================
