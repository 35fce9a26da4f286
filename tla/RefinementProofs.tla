-------------------------- MODULE RefinementProofs --------------------------
(***************************************************************************)
(* Two data structures of the runtime do what they stand for.  The ring of *)
(* a message queue implements the FIFO queue, for every set of messages    *)
(* and every size it starts with, however often it grows.  The timer wheel *)
(* implements the timer service, for any timers and delays, any number of  *)
(* slots and any time it starts at, across every cascade and the wrap of   *)
(* its clock.                                                              *)
(***************************************************************************)
EXTENDS MessageQueue, TimerWheel, FiniteSetTheorems, FunctionTheorems, WellFoundedInduction, TLAPS

\* A set of naturals that is not empty has a least element.
LEMMA Least ==
  ASSUME NEW T, T \subseteq Nat, T # {}
  PROVE  \E x \in T : \A y \in T : x <= y
<1> DEFINE R == {ss \in Nat \X Nat : ss[1] < ss[2]}
<1>1. IsWellFoundedOn(R, Nat)
  BY NatLessThanWellFounded DEF OpToRel
<1> HIDE DEF R
<1>2. PICK x \in T : \A y \in T : <<y, x>> \notin R
  BY <1>1, WFMin
<1>3. \A y \in T : ~ (y < x)
  BY <1>2 DEF R
<1> QED BY <1>3

-----------------------------------------------------------------------------
(* The ring of a message queue *)

\* The indices stay inside the buffer.
RingOK ==
  /\ cap \in Nat /\ cap > 1
  /\ head \in 0 .. cap - 1
  /\ tail \in 0 .. cap - 1
  /\ buffer \in [0 .. cap - 1 -> Message \cup {None}]

\* The i-th place after h in a ring of c places.
Place(h, c, i) == IF h + i - 1 < c THEN h + i - 1 ELSE h + i - 1 - c

-----------------------------------------------------------------------------
\* The ring is never said to hold more than one message less than its places.
LEMMA LengthRange ==
  ASSUME RingOK
  PROVE  Length(head, tail, cap) \in 0 .. cap - 1
BY DEF RingOK, Length

\* The contents are a sequence, read place by place from the head.
ReadFromHead ==
  /\ Contents \in Seq(Message \cup {None})
  /\ Len(Contents) = Length(head, tail, cap)
  /\ \A i \in 1 .. Length(head, tail, cap) :
       /\ Place(head, cap, i) \in 0 .. cap - 1
       /\ Contents[i] = buffer[Place(head, cap, i)]

\* What the queue holds is the ring read from its head, a place at a time.
LEMMA ContentsAre == RingOK => ReadFromHead
<1> SUFFICES ASSUME RingOK PROVE ReadFromHead
  OBVIOUS
<1> DEFINE n == Length(head, tail, cap)
<1>1. n \in Nat /\ n <= cap - 1
  BY LengthRange DEF RingOK
<1>2. \A i \in 1 .. n : Place(head, cap, i) \in 0 .. cap - 1
  BY <1>1 DEF RingOK, Place
<1>3. Contents = [i \in 1 .. n |-> buffer[Place(head, cap, i)]]
  BY DEF Contents, Place
<1>4. \A i \in 1 .. n : buffer[Place(head, cap, i)] \in Message \cup {None}
  BY <1>2 DEF RingOK
<1>5. Contents \in [1 .. n -> Message \cup {None}]
  <2> HIDE DEF n
  <2> QED BY <1>3, <1>4
<1>6. Contents \in Seq(Message \cup {None}) /\ Len(Contents) = n
  <2> HIDE DEF n
  <2> QED BY <1>1, <1>5
<1> QED
  BY <1>2, <1>3, <1>6 DEF ReadFromHead

\* The ring is empty when head and tail meet.
LEMMA EmptyWhenEqual ==
  ASSUME RingOK
  PROVE  /\ head = tail <=> Length(head, tail, cap) = 0
         /\ head = tail <=> Contents = <<>>
<1>1. head = tail <=> Length(head, tail, cap) = 0
  BY DEF RingOK, Length
<1> QED
  BY <1>1, ContentsAre DEF ReadFromHead

\* Adding i to the head of a ring and going round once is what % does.
LEMMA Around ==
  ASSUME RingOK, NEW i \in 0 .. cap - 1
  PROVE  (head + i) % cap = Place(head, cap, i + 1)
<1>1. CASE head + i < cap
  BY <1>1 DEF RingOK, Place
<1>2. CASE head + i >= cap
  BY <1>2 DEF RingOK, Place
<1> QED
  BY <1>1, <1>2 DEF RingOK

-----------------------------------------------------------------------------
\* A push appends its message, whether the ring wraps, grows or does neither.
LEMMA PushAppends ==
  ASSUME RingOK, NEW m \in Message, Push(m)
  PROVE  RingOK' /\ Contents' = Append(Contents, m)
<1> DEFINE n == Length(head, tail, cap)
           written == [buffer EXCEPT ![tail] = m]
<1>1. n \in 0 .. cap - 1
  BY LengthRange
<1>2. written \in [0 .. cap - 1 -> Message \cup {None}]
      /\ written[tail] = m
      /\ \A j \in 0 .. cap - 1 : j # tail => written[j] = buffer[j]
  BY DEF RingOK
<1>3. /\ Place(head, cap, n + 1) = tail
      /\ \A i \in 1 .. n : Place(head, cap, i) \in 0 .. cap - 1 /\ Place(head, cap, i) # tail
  BY DEF RingOK, Length, Place
<1>4. \A i \in 1 .. n + 1 : written[Place(head, cap, i)] = IF i = n + 1 THEN m ELSE Contents[i]
  <2>1. ASSUME NEW i \in 1 .. n PROVE written[Place(head, cap, i)] = Contents[i] /\ i # n + 1
    <3>1. Contents[i] = buffer[Place(head, cap, i)]
      BY ContentsAre DEF ReadFromHead
    <3> HIDE DEF n, written
    <3> QED BY <1>1, <1>2, <1>3, <3>1 DEF RingOK
  <2>2. written[Place(head, cap, n + 1)] = m
    BY <1>2, <1>3
  <2> HIDE DEF n, written
  <2>3. ASSUME NEW i \in 1 .. n + 1 PROVE i = n + 1 \/ i \in 1 .. n
    BY <1>1 DEF RingOK
  <2> QED BY <2>1, <2>2, <2>3
<1>5. SUFFICES RingOK' /\ Length(head, tail, cap)' = n + 1
               /\ \A i \in 1 .. n + 1 : Contents'[i] = written[Place(head, cap, i)]
  <2>0. ReadFromHead'
    BY <1>5, ContentsAre, PTL
  <2>1. Contents' \in Seq(Message \cup {None}) /\ Len(Contents') = n + 1
    BY <1>5, <2>0 DEF ReadFromHead
  <2>2. Contents \in Seq(Message \cup {None}) /\ Len(Contents) = n
    BY ContentsAre DEF ReadFromHead
  <2> HIDE DEF n, written
  <2>3. \A i \in 1 .. n + 1 : Contents'[i] = Append(Contents, m)[i]
    <3>1. ASSUME NEW i \in 1 .. n + 1 PROVE Contents'[i] = Append(Contents, m)[i]
      <4>1. CASE i = n + 1
        BY <1>1, <1>4, <1>5, <2>2, <4>1 DEF RingOK
      <4>2. CASE i \in 1 .. n
        BY <1>1, <1>4, <1>5, <2>2, <4>2 DEF RingOK
      <4>3. i = n + 1 \/ i \in 1 .. n
        BY <1>1 DEF RingOK
      <4> QED BY <4>1, <4>2, <4>3, Zenon
    <3> QED BY <3>1
  <2> QED
    BY SMTT(60), <1>1, <1>5, <2>1, <2>2, <2>3 DEF RingOK
<1>6. CASE After(tail) # head
  <2>1. buffer' = written /\ tail' = After(tail) /\ cap' = cap /\ head' = head
    BY <1>6 DEF Push
  <2>2. tail' \in 0 .. cap - 1
    BY <2>1 DEF RingOK, After
  <2>3. RingOK'
    BY <1>2, <2>1, <2>2 DEF RingOK
  <2>4. Length(head, tail, cap)' = n + 1
    BY <1>6, <2>1 DEF RingOK, Length, After
  <2>5. ReadFromHead'
    BY <2>3, ContentsAre, PTL
  <2> QED
    BY <2>1, <2>3, <2>4, <2>5 DEF ReadFromHead
<1>7. CASE After(tail) = head
  <2>1. buffer' = Unrolled(written) /\ head' = 0 /\ tail' = cap /\ cap' = 2 * cap
    BY <1>7 DEF Push
  <2>2. n = cap - 1
    BY <1>7 DEF RingOK, Length, After
  <2>3. /\ Unrolled(written) \in [0 .. 2 * cap - 1 -> Message \cup {None}]
        /\ \A i \in 0 .. cap - 1 : Unrolled(written)[i] = written[Place(head, cap, i + 1)]
    <3>1. \A i \in 0 .. cap - 1 : (head + i) % cap = Place(head, cap, i + 1)
                                  /\ Place(head, cap, i + 1) \in 0 .. cap - 1
      <4>1. \A i \in 0 .. cap - 1 : (head + i) % cap = Place(head, cap, i + 1)
        BY Around
      <4>2. \A i \in 0 .. cap - 1 : Place(head, cap, i + 1) \in 0 .. cap - 1
        BY DEF RingOK, Place
      <4> QED BY <4>1, <4>2
    <3> HIDE DEF written
    <3>2. \A i \in 0 .. 2 * cap - 1 : i < cap => i \in 0 .. cap - 1
      BY DEF RingOK
    <3> QED BY <1>2, <3>1, <3>2 DEF Unrolled, RingOK
  <2>4. RingOK'
    <3> HIDE DEF written
    <3> QED BY <2>1, <2>3 DEF RingOK
  <2>5. Length(head, tail, cap)' = n + 1
    BY <2>1, <2>2 DEF RingOK, Length
  <2>6. ReadFromHead'
    BY <2>4, ContentsAre, PTL
  <2>7. \A i \in 1 .. n + 1 : Place(head', cap', i) = i - 1 /\ i - 1 \in 0 .. cap - 1 /\ (i - 1) + 1 = i
    BY <2>1, <2>2 DEF RingOK, Place
  <2> HIDE DEF n, written
  <2> QED
    BY <2>1, <2>3, <2>4, <2>5, <2>6, <2>7 DEF ReadFromHead
<1> QED
  BY <1>6, <1>7

\* A pop takes the oldest message.
LEMMA PopTakesHead ==
  ASSUME RingOK, Pop
  PROVE  RingOK' /\ Contents # <<>> /\ popped' = Head(Contents) /\ Contents' = Tail(Contents)
<1> DEFINE n == Length(head, tail, cap)
<1>1. n \in 1 .. cap - 1 /\ Contents # <<>>
  BY LengthRange, EmptyWhenEqual DEF Pop, RingOK
<1>2. head' = After(head) /\ UNCHANGED <<cap, tail, buffer>> /\ popped' = buffer[head]
  BY DEF Pop
<1>3. RingOK'
  BY <1>2 DEF RingOK, After
<1>4. Length(head, tail, cap)' = n - 1
  BY <1>1, <1>2 DEF RingOK, Length, After
<1>5. Contents \in Seq(Message \cup {None}) /\ Len(Contents) = n
      /\ \A i \in 1 .. n : Contents[i] = buffer[Place(head, cap, i)]
  BY ContentsAre DEF ReadFromHead
<1>6. Contents' \in Seq(Message \cup {None}) /\ Len(Contents') = n - 1
      /\ \A i \in 1 .. n - 1 : Contents'[i] = buffer'[Place(head', cap', i)]
  <2>1. ReadFromHead'
    BY <1>3, ContentsAre, PTL
  <2> QED BY <1>4, <2>1 DEF ReadFromHead
<1>7. \A i \in 1 .. n - 1 : Place(head', cap', i) = Place(head, cap, i + 1)
  BY <1>1, <1>2 DEF RingOK, Place, After
<1>8. Place(head, cap, 1) = head
  BY DEF RingOK, Place
<1> HIDE DEF n
<1>9. popped' = Head(Contents)
  BY <1>1, <1>2, <1>5, <1>8 DEF RingOK
<1>10. \A i \in 1 .. n - 1 : Contents'[i] = Contents[i + 1]
  BY <1>1, <1>2, <1>5, <1>6, <1>7 DEF RingOK
<1>11. Contents' = Tail(Contents)
  BY <1>1, <1>5, <1>6, <1>10 DEF RingOK
<1> QED
  BY <1>1, <1>3, <1>9, <1>11

-----------------------------------------------------------------------------
\* The ring begins empty.
LEMMA InitRing == Init => RingOK /\ Fifo!Init
<1> SUFFICES ASSUME Init PROVE RingOK /\ Fifo!Init
  OBVIOUS
<1>1. RingOK
  BY SizeAssumption DEF Init, RingOK
<1>2. Contents = <<>>
  BY <1>1, EmptyWhenEqual DEF Init
<1> QED
  BY <1>1, <1>2 DEF Init, Fifo!Init

\* Each step keeps the ring in shape and is a step of the queue, or none of it.
LEMMA StepRing == RingOK /\ [Next]_vars => RingOK' /\ [Fifo!Next]_<<Contents, popped, length>>
<1> SUFFICES ASSUME RingOK, [Next]_vars PROVE RingOK' /\ [Fifo!Next]_<<Contents, popped, length>>
  OBVIOUS
<1>1. ASSUME UNCHANGED ring PROVE RingOK' /\ UNCHANGED Contents
  BY <1>1 DEF ring, RingOK, Contents, Length
<1>2. ASSUME NEW m \in Message, Push(m) PROVE RingOK' /\ Fifo!Next
  <2>1. Fifo!Push(m)
    BY <1>2, PushAppends DEF Push, Fifo!Push
  <2> QED BY <1>2, <2>1, PushAppends DEF Fifo!Next
<1>3. ASSUME Pop PROVE RingOK' /\ Fifo!Next
  <2>1. Fifo!Pop
    BY <1>3, PopTakesHead DEF Pop, Fifo!Pop
  <2> QED BY <1>3, <2>1, PopTakesHead DEF Fifo!Next
<1>4. ASSUME PopNothing PROVE RingOK' /\ Fifo!Next
  <2>1. UNCHANGED ring /\ UNCHANGED length /\ popped' = None /\ Contents = <<>>
    BY <1>4, EmptyWhenEqual DEF PopNothing
  <2> QED BY <1>1, <2>1 DEF Fifo!Next, Fifo!PopNothing
<1>5. ASSUME ReadLength PROVE RingOK' /\ Fifo!Next
  <2>1. UNCHANGED ring /\ UNCHANGED popped /\ length' = Len(Contents)
    BY <1>5, ContentsAre DEF ReadLength, ReadFromHead
  <2> QED BY <1>1, <2>1 DEF Fifo!Next, Fifo!ReadLength
<1>6. ASSUME ReadOverload PROVE RingOK' /\ UNCHANGED <<Contents, popped, length>>
  BY <1>1, <1>6 DEF ReadOverload
<1>7. ASSUME UNCHANGED vars PROVE RingOK' /\ UNCHANGED <<Contents, popped, length>>
  BY <1>1, <1>7 DEF vars
<1> QED
  BY <1>2, <1>3, <1>4, <1>5, <1>6, <1>7 DEF Next

\* The ring implements the FIFO queue: across every wrap and every expansion, what is
\* pushed is popped once and in order (skynet_mq_push, skynet_mq_pop).
THEOREM RingIsFifo == Spec => IsFifo
<1>1. Init => RingOK /\ Fifo!Init
  BY InitRing
<1>2. RingOK /\ [Next]_vars => RingOK' /\ [Fifo!Next]_<<Contents, popped, length>>
  BY StepRing
<1> QED
  BY <1>1, <1>2, PTL DEF Spec, IsFifo, Fifo!Spec

\* Only messages are in the window between head and tail, and nothing that was left
\* over in the buffer is ever popped (skynet_mq_pop).
MessagesOnly == RingOK /\ Contents \in Seq(Message)

\* Only messages lie between head and tail, and a pop never yields a place of
\* the ring that was not written.
THEOREM PopYieldsMessage == Spec => []MessagesOnly /\ [][Pop => popped' \in Message]_vars
<1>1. Init => MessagesOnly
  <2>1. ASSUME Init PROVE Contents = <<>>
    BY <2>1, InitRing, EmptyWhenEqual DEF Init
  <2> QED BY <2>1, InitRing DEF MessagesOnly
<1>2. MessagesOnly /\ [Next]_vars => MessagesOnly' /\ (Pop => popped' \in Message)
  <2> SUFFICES ASSUME MessagesOnly, [Next]_vars
               PROVE  MessagesOnly' /\ (Pop => popped' \in Message)
    OBVIOUS
  <2>1. RingOK /\ Contents \in Seq(Message) /\ RingOK'
    BY StepRing DEF MessagesOnly
  <2>2. ASSUME Pop PROVE Contents' \in Seq(Message) /\ popped' \in Message
    <3>1. Contents # <<>> /\ popped' = Head(Contents) /\ Contents' = Tail(Contents)
      BY <2>1, <2>2, PopTakesHead
    <3> QED BY <2>1, <3>1
  <2>3. ASSUME NEW m \in Message, Push(m) PROVE Contents' \in Seq(Message)
    <3>1. Contents' = Append(Contents, m)
      BY <2>1, <2>3, PushAppends
    <3> QED BY <2>1, <3>1
  <2>4. ASSUME PopNothing \/ ReadLength \/ ReadOverload \/ UNCHANGED vars
        PROVE  Contents' \in Seq(Message)
    <3>1. UNCHANGED ring
      BY <2>4 DEF PopNothing, ReadLength, ReadOverload, vars
    <3>2. Contents' = Contents
      BY <3>1 DEF ring, Contents, Length
    <3> QED BY <2>1, <3>2
  <2>5. Contents' \in Seq(Message)
    BY <2>2, <2>3, <2>4 DEF Next
  <2> QED BY <2>1, <2>2, <2>5 DEF MessagesOnly
<1> QED BY <1>1, <1>2, PTL DEF Spec

-----------------------------------------------------------------------------
\* The doubling loop of skynet_mq_pop, for the limits from m on.
Doubled(f, n, m) == f = [d \in m .. 2 * n |-> IF n <= d THEN d ELSE f[2 * d]]

\* The loop ends for every limit: a limit is decided by one that is twice as large.
LEMMA LoopEnds == ASSUME NEW n \in Nat, n > 0 PROVE \E f : Doubled(f, n, 1)
<1> DEFINE T == {m \in 1 .. n : \E f : Doubled(f, n, m)}
<1>1. n \in T
  <2> DEFINE f == [d \in n .. 2 * n |-> d]
  <2>1. Doubled(f, n, n)
    BY DEF Doubled
  <2> QED BY <2>1
<1>2. PICK m \in T : \A k \in T : m <= k
  <2> HIDE DEF T
  <2>1. T \subseteq Nat
    BY DEF T
  <2> QED BY <1>1, <2>1, Least
<1>3. ASSUME m # 1 PROVE FALSE
  <2>1. PICK f : Doubled(f, n, m)
    BY <1>2
  <2> DEFINE k == m - 1
             g == [d \in k .. 2 * n |-> IF d = k THEN f[2 * k] ELSE f[d]]
  <2>2. k \in 1 .. n - 1 /\ 2 * k \in m .. 2 * n
    BY <1>3
  <2>3. \A d \in m .. 2 * n : f[d] = (IF n <= d THEN d ELSE f[2 * d]) /\ g[d] = f[d]
    BY <2>1, <2>2 DEF Doubled
  <2>4. \A d \in k .. 2 * n : g[d] = IF n <= d THEN d ELSE g[2 * d]
    <3> SUFFICES ASSUME NEW d \in k .. 2 * n PROVE g[d] = IF n <= d THEN d ELSE g[2 * d]
      OBVIOUS
    <3>1. CASE d = k
      BY <2>2, <2>3, <3>1
    <3>2. CASE d # k
      <4>1. d \in m .. 2 * n /\ (n <= d \/ 2 * d \in m .. 2 * n)
        BY <2>2, <3>2
      <4> HIDE DEF g, k
      <4> QED BY <2>3, <4>1
    <3> QED BY <3>1, <3>2
  <2>5. Doubled(g, n, k)
    BY <2>4 DEF Doubled
  <2>6. k \in T
    BY <2>2, <2>5
  <2> QED BY <1>2, <2>2, <2>6
<1> QED BY <1>2, <1>3

\* The loop stops at the first doubling that reaches the length.
LEMMA LoopStops ==
  ASSUME NEW n \in Nat, NEW f, Doubled(f, n, 1), NEW limit \in 1 .. n - 1
  PROVE  f[limit] \in Nat /\ n <= f[limit] /\ f[limit] < 2 * n
<1> DEFINE Good(d) == f[d] \in Nat /\ n <= f[d] /\ f[d] < 2 * n
           T == {n - d : d \in {e \in 1 .. n - 1 : ~ Good(e)}}
<1>1. \A d \in 1 .. 2 * n : f[d] = IF n <= d THEN d ELSE f[2 * d]
  BY DEF Doubled
<1>2. \A d \in n .. 2 * n - 1 : Good(d)
  BY <1>1
<1>3. \A d \in 1 .. n - 1 : f[d] = f[2 * d] /\ 2 * d \in 1 .. 2 * n - 1
  BY <1>1
<1>4. ASSUME T # {} PROVE FALSE
  <2>1. T \subseteq Nat
    OBVIOUS
  <2> HIDE DEF T
  <2>2. PICK x \in T : \A y \in T : x <= y
    BY <1>4, <2>1, Least
  <2>3. PICK d \in 1 .. n - 1 : ~ Good(d) /\ x = n - d
    BY <2>2 DEF T
  <2>4. ~ Good(2 * d)
    BY <1>3, <2>3
  <2>5. 2 * d \in 1 .. n - 1
    <3> HIDE DEF Good
    <3>1. ~ (2 * d \in n .. 2 * n - 1)
      BY <1>2, <2>4
    <3> QED BY <1>3, <3>1
  <2>6. n - 2 * d \in T
    <3> HIDE DEF Good
    <3> QED BY <2>4, <2>5 DEF T
  <2> QED BY <2>2, <2>3, <2>6
<1>5. Good(limit)
  <2> HIDE DEF Good
  <2> QED BY <1>4
<1> QED BY <1>5

\* The threshold after the loop is at least what waits, and less than twice that if it was raised.
LEMMA RaisedIs ==
  ASSUME NEW n \in Nat, NEW limit \in Nat, limit > 0
  PROVE  /\ n <= limit => Raised(n, limit) = limit
         /\ n > limit => /\ Raised(n, limit) \in Nat
                         /\ n <= Raised(n, limit)
                         /\ Raised(n, limit) < 2 * n
<1>1. n <= limit => Raised(n, limit) = limit
  BY DEF Raised
<1>2. ASSUME n > limit
      PROVE  Raised(n, limit) \in Nat /\ n <= Raised(n, limit) /\ Raised(n, limit) < 2 * n
  <2> DEFINE f == CHOOSE g : Doubled(g, n, 1)
  <2>1. Doubled(f, n, 1)
    BY <1>2, LoopEnds
  <2>2. Raised(n, limit) = f[limit]
    BY <1>2 DEF Raised, Doubled
  <2> HIDE DEF f
  <2>3. f[limit] \in Nat /\ n <= f[limit] /\ f[limit] < 2 * n
    BY <1>2, <2>1, LoopStops
  <2> QED BY <2>2, <2>3
<1> QED BY <1>1, <1>2

\* The length that is kept for the warning is read before the next pop.
AlarmOK ==
  /\ RingOK
  /\ overload \in Nat
  /\ threshold \in Nat /\ threshold > 0
  /\ overload # 0 => reading
  /\ WarnsOncePerDoubling

\* A new queue has nothing to warn about.
LEMMA InitAlarm == Init => AlarmOK
BY InitRing, OverloadAssumption DEF Init, AlarmOK, WarnsOncePerDoubling

\* Every operation keeps the threshold a doubling of the one it began with.
LEMMA StepAlarm == AlarmOK /\ [Next]_vars => AlarmOK'
<1> SUFFICES ASSUME AlarmOK, [Next]_vars PROVE AlarmOK'
  OBVIOUS
<1>1. RingOK /\ RingOK'
  BY StepRing DEF AlarmOK
<1>2. CASE Pop
  <2> DEFINE n == Length(After(head), tail, cap)
  <2>1. n \in Nat
    BY <1>1, <1>2 DEF RingOK, Length, After, Pop
  <2>2. overload = 0 /\ overload' = (IF n > threshold THEN n ELSE overload)
        /\ threshold' = Raised(n, threshold) /\ reading' = TRUE
    BY <1>2 DEF Pop, AlarmOK
  <2> HIDE DEF n
  <2>3. CASE n > threshold
    <3>1. /\ Raised(n, threshold) \in Nat
          /\ n <= Raised(n, threshold)
          /\ Raised(n, threshold) < 2 * n
      BY <2>1, <2>3, RaisedIs DEF AlarmOK
    <3> QED BY <1>1, <2>1, <2>2, <2>3, <3>1 DEF AlarmOK, WarnsOncePerDoubling
  <2>4. CASE n <= threshold
    <3>1. Raised(n, threshold) = threshold
      BY <2>1, <2>4, RaisedIs DEF AlarmOK
    <3> QED BY <1>1, <2>1, <2>2, <2>4, <3>1 DEF AlarmOK, WarnsOncePerDoubling
  <2> QED BY <2>1, <2>3, <2>4 DEF AlarmOK
<1>3. ASSUME NEW m \in Message, Push(m) PROVE AlarmOK'
  BY <1>1, <1>3 DEF Push, alarm, AlarmOK, WarnsOncePerDoubling
<1>4. CASE PopNothing
  BY <1>1, <1>4, OverloadAssumption DEF PopNothing, AlarmOK, WarnsOncePerDoubling
<1>5. CASE ReadLength
  BY <1>1, <1>5 DEF ReadLength, alarm, AlarmOK, WarnsOncePerDoubling
<1>6. CASE ReadOverload
  BY <1>1, <1>6 DEF ReadOverload, AlarmOK, WarnsOncePerDoubling
<1>7. CASE UNCHANGED vars
  BY <1>1, <1>7 DEF vars, alarm, AlarmOK, WarnsOncePerDoubling
<1> QED
  BY <1>2, <1>3, <1>4, <1>5, <1>6, <1>7 DEF Next

\* A warning is raised once for each doubling of the backlog, whatever was pushed since
\* the last pop (skynet_mq_pop, skynet_mq_overload).
THEOREM WarnsOnce == Spec => []WarnsOncePerDoubling
<1>1. AlarmOK => WarnsOncePerDoubling
  BY DEF AlarmOK
<1> QED
  BY <1>1, InitAlarm, StepAlarm, PTL DEF Spec

-----------------------------------------------------------------------------
(* Division *)

\* What a division leaves and yields.
LEMMA Division ==
  ASSUME NEW m \in Nat \ {0}, NEW a \in Nat
  PROVE  a \div m \in Nat /\ a % m \in 0 .. m - 1 /\ a = m * (a \div m) + (a % m)
OBVIOUS

\* Quotient and remainder are unique.
LEMMA OneQuotient ==
  ASSUME NEW m \in Nat \ {0}, NEW q \in Int, NEW p \in Int,
         NEW r \in 0 .. m - 1, NEW t \in 0 .. m - 1, m * q + r = m * p + t
  PROVE  q = p /\ r = t
<1>1. ASSUME q > p PROVE FALSE
  <2>1. PICK d \in Nat : q = p + 1 + d
    BY <1>1
  <2>2. m * q = m * p + m + m * d /\ m * d >= 0
    BY <2>1
  <2>3. m * q \in Int /\ m * p \in Int /\ m * d \in Int
    OBVIOUS
  <2> QED BY <2>2, <2>3
<1>2. ASSUME p > q PROVE FALSE
  <2>1. PICK d \in Nat : p = q + 1 + d
    BY <1>2
  <2>2. m * p = m * q + m + m * d /\ m * d >= 0
    BY <2>1
  <2>3. m * q \in Int /\ m * p \in Int /\ m * d \in Int
    OBVIOUS
  <2> QED BY <2>2, <2>3
<1>3. q = p
  BY <1>1, <1>2
<1>4. m * q \in Int
  OBVIOUS
<1> QED BY <1>3, <1>4

\* A quotient is known by the multiple it is between.
LEMMA Quotient ==
  ASSUME NEW m \in Nat \ {0}, NEW q \in Int, NEW r \in 0 .. m - 1
  PROVE  (m * q + r) \div m = q /\ (m * q + r) % m = r
<1> DEFINE a == m * q + r
<1>1. a \in Int
  OBVIOUS
<1>2. a \div m \in Int /\ a % m \in 0 .. m - 1 /\ a = m * (a \div m) + (a % m)
  BY <1>1
<1> HIDE DEF a
<1>3. ASSUME NEW p \in Int, NEW t \in 0 .. m - 1, a = m * p + t PROVE p = q /\ t = r
  BY <1>3, OneQuotient DEF a
<1>4. a \div m = q /\ a % m = r
  BY <1>2, <1>3
<1> QED BY <1>4 DEF a

\* A number below the divisor is left as it is.
LEMMA Small ==
  ASSUME NEW m \in Nat \ {0}, NEW r \in 0 .. m - 1
  PROVE  r \div m = 0 /\ r % m = r
<1>1. r = m * 0 + r
  OBVIOUS
<1>2. \A q \in Int : (m * q + r) \div m = q /\ (m * q + r) % m = r
  BY Quotient
<1>3. (m * 0 + r) \div m = 0 /\ (m * 0 + r) % m = r
  BY <1>2
<1> QED BY <1>1, <1>3

\* A quotient does not fall when its dividend grows.
LEMMA DivisionGrows ==
  ASSUME NEW m \in Nat \ {0}, NEW a \in Nat, NEW b \in Nat, a <= b
  PROVE  a \div m <= b \div m
<1> DEFINE q == a \div m
           p == b \div m
<1>1. /\ q \in Nat /\ a % m \in 0 .. m - 1 /\ a = m * q + (a % m)
      /\ p \in Nat /\ b % m \in 0 .. m - 1 /\ b = m * p + (b % m)
  BY Division
<1> HIDE DEF q, p
<1>2. ASSUME q > p PROVE FALSE
  <2>1. PICK d \in Nat : q = p + 1 + d
    BY <1>1, <1>2
  <2>2. m * q = m * p + m + m * d /\ m * d >= 0
    BY <1>1, <2>1
  <2>3. m * q \in Int /\ m * p \in Int /\ m * d \in Int
    BY <1>1
  <2> QED BY <1>1, <2>2, <2>3
<1>3. q <= p
  BY <1>1, <1>2
<1> QED BY <1>3 DEF q, p

\* The next number has the next quotient or the same one.
LEMMA DivisionNext ==
  ASSUME NEW m \in Nat \ {0}, NEW a \in Nat
  PROVE  (a + 1) \div m = IF (a + 1) % m = 0 THEN a \div m + 1 ELSE a \div m
<1> DEFINE q == a \div m
           r == a % m
<1>1. q \in Nat /\ r \in 0 .. m - 1 /\ a = m * q + r
  BY Division
<1> HIDE DEF q, r
<1>2. CASE r = m - 1
  <2>1. a + 1 = m * (q + 1) + 0
    BY <1>1, <1>2
  <2>2. (a + 1) \div m = q + 1 /\ (a + 1) % m = 0
    BY <1>1, <2>1, Quotient
  <2> QED BY <2>2 DEF q
<1>3. CASE r # m - 1
  <2>1. a + 1 = m * q + (r + 1) /\ r + 1 \in 0 .. m - 1
    BY <1>1, <1>3
  <2>2. (a + 1) \div m = q /\ (a + 1) % m = r + 1
    BY <1>1, <2>1, Quotient
  <2>3. (a + 1) % m # 0
    BY <1>1, <2>2
  <2> QED BY <2>2, <2>3 DEF q
<1> QED BY <1>2, <1>3

\* Dividing twice is dividing by the product.
LEMMA DivisionTwice ==
  ASSUME NEW m \in Nat \ {0}, NEW n \in Nat \ {0}, NEW a \in Nat
  PROVE  /\ a \div (n * m) = (a \div m) \div n
         /\ a % (n * m) = 0 <=> a % m = 0 /\ (a \div m) % n = 0
<1> DEFINE q == a \div m
           r == a % m
           p == q \div n
           t == q % n
<1>1. q \in Nat /\ r \in 0 .. m - 1 /\ a = m * q + r
  BY Division
<1>2. p \in Nat /\ t \in 0 .. n - 1 /\ q = n * p + t
  BY <1>1, Division
<1> HIDE DEF q, r, p, t
<1>3. n * m \in Nat \ {0}
  OBVIOUS
<1>4. a = (n * m) * p + (m * t + r)
  <2>1. m * (n * p + t) = (n * m) * p + m * t
    BY <1>2
  <2> QED BY <1>1, <1>2, <2>1
<1>5. m * t + r \in 0 .. n * m - 1 /\ (m * t + r = 0 <=> t = 0 /\ r = 0)
  <2>1. PICK d \in Nat : n = t + 1 + d
    BY <1>2
  <2>2. n * m = m * t + m + m * d /\ m * d >= 0 /\ m * t >= 0 /\ m * d \in Int /\ m * t \in Int
    BY <1>2, <2>1
  <2>3. t # 0 => m * t > 0
    BY <1>2
  <2> QED BY <1>1, <1>2, <2>2, <2>3
<1>6. a \div (n * m) = p /\ a % (n * m) = m * t + r
  <2>1. ASSUME NEW w \in Nat \ {0}, NEW y \in Int, NEW z \in 0 .. w - 1
        PROVE  (w * y + z) \div w = y /\ (w * y + z) % w = z
    BY Quotient
  <2>2. p \in Int
    BY <1>2
  <2> QED BY <1>3, <1>4, <1>5, <2>1, <2>2
<1> QED BY <1>5, <1>6 DEF q, r, p, t

-----------------------------------------------------------------------------
(* Rounds of the clock, and where a node belongs *)

SpansOf(f) == f = [l \in 0 .. 4 |-> IF l = 0 THEN Near ELSE Level * f[l - 1]]

\* A slot of a level covers as many ticks as a whole round of the level below.
LEMMA Spans ==
  /\ \A l \in 0 .. 4 : Span[l] \in Nat \ {0}
  /\ Span[0] = Near
  /\ \A l \in 0 .. 3 : Span[l + 1] = Level * Span[l]
<1> DEFINE g == [l \in 0 .. 4 |-> IF l = 0 THEN Near ELSE IF l = 1 THEN Level * Near
                   ELSE IF l = 2 THEN Level * (Level * Near)
                   ELSE IF l = 3 THEN Level * (Level * (Level * Near))
                   ELSE Level * (Level * (Level * (Level * Near)))]
<1>1. SpansOf(g)
  <2>1. ASSUME NEW l \in 0 .. 4 PROVE g[l] = IF l = 0 THEN Near ELSE Level * g[l - 1]
    <3>1. l = 0 \/ l = 1 \/ l = 2 \/ l = 3 \/ l = 4
      OBVIOUS
    <3> QED BY <3>1
  <2>2. g = [l \in 0 .. 4 |-> g[l]]
    OBVIOUS
  <2> HIDE DEF g
  <2> QED BY <2>1, <2>2 DEF SpansOf
<1> HIDE DEF g
<1>2. SpansOf(CHOOSE f : SpansOf(f))
  BY <1>1
<1>3. Span = CHOOSE f : SpansOf(f)
  BY DEF Span, SpansOf
<1>4. \A l \in 0 .. 4 : Span[l] = IF l = 0 THEN Near ELSE Level * Span[l - 1]
  <2>1. Span = [l \in 0 .. 4 |-> IF l = 0 THEN Near ELSE Level * Span[l - 1]]
    BY <1>2, <1>3 DEF SpansOf
  <2> HIDE DEF Span
  <2> QED BY <2>1
<1>5. Span[0] = Near /\ Span[1] = Level * Span[0] /\ Span[2] = Level * Span[1]
      /\ Span[3] = Level * Span[2] /\ Span[4] = Level * Span[3]
  <2>1. Span[0] = Near
    BY <1>4
  <2>2. \A l \in 1 .. 4 : Span[l] = Level * Span[l - 1]
    BY <1>4
  <2> QED BY <2>1, <2>2
<1>6. \A k \in Nat \ {0} : Level * k \in Nat \ {0}
  BY WheelSizeAssumption
<1>7. Span[0] \in Nat \ {0} /\ Span[1] \in Nat \ {0} /\ Span[2] \in Nat \ {0}
      /\ Span[3] \in Nat \ {0} /\ Span[4] \in Nat \ {0}
  <2>1. Span[0] \in Nat \ {0}
    BY <1>5, WheelSizeAssumption
  <2>2. Span[1] \in Nat \ {0}
    BY <1>5, <1>6, <2>1
  <2>3. Span[2] \in Nat \ {0}
    BY <1>5, <1>6, <2>2
  <2>4. Span[3] \in Nat \ {0}
    BY <1>5, <1>6, <2>3
  <2> QED BY <1>5, <1>6, <2>1, <2>2, <2>3, <2>4
<1>8. \A l \in 0 .. 4 : l = 0 \/ l = 1 \/ l = 2 \/ l = 3 \/ l = 4
  OBVIOUS
<1>9. \A l \in 0 .. 3 : Span[l + 1] = Level * Span[l]
  <2>1. ASSUME NEW l \in 0 .. 3 PROVE Span[l + 1] = Level * Span[l]
    <3>1. l + 1 \in 0 .. 4 /\ l + 1 # 0 /\ (l + 1) - 1 = l
      OBVIOUS
    <3> QED BY <1>4, <3>1
  <2> QED BY <2>1
<1> QED BY <1>5, <1>7, <1>8, <1>9

\* The round of a level that a time is in.
Round(t, l) == t \div Span[l]

\* A round of a level is a number of rounds of the level below and a slot of it.
LEMMA Rounds ==
  ASSUME NEW t \in 0 .. Clock - 1
  PROVE  /\ \A l \in 0 .. 4 : Round(t, l) \in Nat
         /\ \A l \in 0 .. 3 : Round(t, l + 1) = Round(t, l) \div Level
         /\ \A l \in 0 .. 3 : /\ Index(t, l) \in 0 .. Level - 1
                              /\ Round(t, l) = Level * Round(t, l + 1) + Index(t, l)
         /\ Round(t, 4) = 0
         /\ t % Near \in 0 .. Near - 1
         /\ t = Near * Round(t, 0) + (t % Near)
<1>0. t \in Nat /\ t < Clock /\ Level \in Nat \ {0} /\ Near \in Nat \ {0} /\ Clock \in Nat
  BY Spans, WheelSizeAssumption DEF Clock
<1>1. ASSUME NEW l \in 0 .. 4 PROVE Round(t, l) \in Nat
  BY <1>0, Spans, Division DEF Round
<1>2. ASSUME NEW l \in 0 .. 3 PROVE Round(t, l + 1) = Round(t, l) \div Level
  <2>1. Span[l] \in Nat \ {0} /\ Span[l + 1] = Level * Span[l]
    BY Spans
  <2>2. \A m \in Nat \ {0} : t \div (Level * m) = (t \div m) \div Level
    BY <1>0, DivisionTwice
  <2>3. t \div (Level * Span[l]) = (t \div Span[l]) \div Level
    BY <2>1, <2>2
  <2> QED BY <2>1, <2>3 DEF Round
<1>3. ASSUME NEW l \in 0 .. 3
      PROVE  Index(t, l) \in 0 .. Level - 1 /\ Round(t, l) = Level * Round(t, l + 1) + Index(t, l)
  <2>1. Round(t, l) \in Nat /\ Index(t, l) = Round(t, l) % Level
    BY <1>1 DEF Index, Round
  <2> QED BY <1>0, <1>2, <2>1, Division
<1>4. Round(t, 4) = 0
  <2>1. t = Span[4] * 0 + t /\ t \in 0 .. Span[4] - 1 /\ Span[4] \in Nat \ {0}
    BY <1>0, Spans DEF Clock
  <2> QED BY <2>1, Quotient DEF Round
<1>5. t % Near \in 0 .. Near - 1 /\ t = Near * Round(t, 0) + (t % Near)
  BY <1>0, Spans, Division DEF Round
<1> QED BY <1>1, <1>2, <1>3, <1>4, <1>5

\* Times of the same round of a level are of the same round of the levels above.
LEMMA RoundsAbove ==
  ASSUME NEW t \in 0 .. Clock - 1, NEW e \in 0 .. Clock - 1, NEW k \in 0 .. 3, Round(t, k) = Round(e, k)
  PROVE  Round(t, k + 1) = Round(e, k + 1)
BY Rounds

\* A later time is in a later round or the same.
LEMMA RoundsGrow ==
  ASSUME NEW t \in 0 .. Clock - 1, NEW e \in 0 .. Clock - 1, t <= e, NEW k \in 0 .. 4
  PROVE  Round(t, k) <= Round(e, k)
<1>1. t \in Nat /\ e \in Nat /\ Span[k] \in Nat \ {0}
  BY Spans DEF Clock
<1> QED BY <1>1, DivisionGrows DEF Round

\* A tick begins a new round of a level when the time is a multiple of its span.
LEMMA RoundsNext ==
  ASSUME NEW t \in 0 .. Clock - 1, t + 1 \in 0 .. Clock - 1, NEW k \in 0 .. 4
  PROVE  Round(t + 1, k) = IF (t + 1) % Span[k] = 0 THEN Round(t, k) + 1 ELSE Round(t, k)
<1>1. t \in Nat /\ Span[k] \in Nat \ {0}
  BY Spans DEF Clock
<1> QED BY <1>1, DivisionNext DEF Round

\* A round begins where a round of the level below does, at index 0 of the level.
LEMMA RoundBegins ==
  ASSUME NEW t \in 0 .. Clock - 1, NEW k \in 0 .. 3
  PROVE  t % Span[k + 1] = 0 <=> t % Span[k] = 0 /\ Index(t, k) = 0
<1>1. t \in Nat /\ Span[k] \in Nat \ {0} /\ Span[k + 1] = Level * Span[k] /\ Level \in Nat \ {0}
  BY Spans, WheelSizeAssumption DEF Clock
<1>2. \A m \in Nat \ {0} : t % (Level * m) = 0 <=> t % m = 0 /\ (t \div m) % Level = 0
  BY <1>1, DivisionTwice
<1>3. t % (Level * Span[k]) = 0 <=> t % Span[k] = 0 /\ (t \div Span[k]) % Level = 0
  BY <1>1, <1>2
<1> QED BY <1>1, <1>3 DEF Index

\* The ticks to go until e.
ToGo(e, now) == (e - now) % Clock

\* How long a node has to wait, with the wrap of the clock or without it.
LEMMA ToGoIs ==
  ASSUME NEW e \in 0 .. Clock - 1, NEW t \in 0 .. Clock - 1
  PROVE  ToGo(e, t) = IF e >= t THEN e - t ELSE e - t + Clock
<1>0. Clock \in Nat \ {0}
  BY Spans DEF Clock
<1> HIDE DEF Clock
<1>1. CASE e >= t
  <2>1. e - t = Clock * 0 + (e - t) /\ e - t \in 0 .. Clock - 1
    BY <1>0, <1>1
  <2> QED BY <1>0, <1>1, <2>1, Quotient DEF ToGo
<1>2. CASE e < t
  <2>1. e - t = Clock * (-1) + (e - t + Clock) /\ e - t + Clock \in 0 .. Clock - 1
    BY <1>0, <1>2
  <2>2. ASSUME NEW q \in Int, NEW r \in 0 .. Clock - 1, e - t = Clock * q + r PROVE (e - t) % Clock = r
    BY <1>0, <2>2, Quotient
  <2>3. (e - t) % Clock = e - t + Clock
    BY <2>1, <2>2
  <2> QED BY <1>2, <2>3 DEF ToGo
<1> QED BY <1>0, <1>1, <1>2

\* What is not more than half the clock ahead, and in the same round of a level, is later.
LEMMA LaterInRound ==
  ASSUME NEW e \in 0 .. Clock - 1, NEW t \in 0 .. Clock - 1,
         NEW k \in 0 .. 3, Round(e, k) = Round(t, k), ToGo(e, t) \in 1 .. Clock \div 2 - 1
  PROVE  t < e
<1>1. Round(e, 3) = Round(t, 3)
  <2>1. /\ Round(e, 0) = Round(t, 0) => Round(e, 1) = Round(t, 1)
        /\ Round(e, 1) = Round(t, 1) => Round(e, 2) = Round(t, 2)
        /\ Round(e, 2) = Round(t, 2) => Round(e, 3) = Round(t, 3)
    BY Rounds
  <2>2. k = 0 \/ k = 1 \/ k = 2 \/ k = 3
    OBVIOUS
  <2> QED BY <2>1, <2>2
<1>2. PICK m \in Nat \ {0} : m = Span[3] /\ Clock = Level * m
  BY Spans DEF Clock
<1>3. Clock \in Nat /\ 2 * m <= Clock
  <2>1. PICK d \in Nat : Level = 2 + d
    BY WheelSizeAssumption
  <2>2. Clock = 2 * m + d * m /\ d * m >= 0 /\ d * m \in Int
    BY <1>2, <2>1
  <2> QED BY <2>2
<1>4. Clock \div 2 <= Clock - m
  BY <1>3
<1>5. e - t < m /\ t - e < m
  <2>1. e \in Nat /\ t \in Nat
    BY <1>3
  <2>2. /\ e \div m \in Nat /\ e % m \in 0 .. m - 1 /\ e = m * (e \div m) + (e % m)
        /\ t \div m \in Nat /\ t % m \in 0 .. m - 1 /\ t = m * (t \div m) + (t % m)
    BY <2>1, Division
  <2>3. e \div m = t \div m
    BY <1>1, <1>2 DEF Round
  <2> DEFINE q == e \div m
             r == e % m
             p == t % m
  <2>4. q \in Nat /\ r \in 0 .. m - 1 /\ p \in 0 .. m - 1 /\ e = m * q + r /\ t = m * q + p
    BY <2>2, <2>3
  <2> HIDE DEF q, r, p
  <2>5. m * q \in Int
    BY <2>4
  <2> QED BY <2>4, <2>5
<1>6. ToGo(e, t) = IF e >= t THEN e - t ELSE e - t + Clock
  BY ToGoIs
<1> HIDE DEF Clock
<1> QED BY <1>3, <1>4, <1>5, <1>6

\* Where a node is, as add_node puts it: on the near list or a level, and in which slot.
Addresses == ({-1} \X (0 .. Near - 1)) \cup ((0 .. 3) \X (0 .. Level - 1))
Home(e, now) ==
  IF SameAbove(e, now, Near) THEN <<-1, e % Near>>
  ELSE <<LevelOf(e, now), Index(e, LevelOf(e, now))>>

\* A node is on the first level of which its time and the clock are of one round.
LEMMA HomeIs ==
  ASSUME NEW e \in 0 .. Clock - 1, NEW t \in 0 .. Clock - 1
  PROVE  /\ Home(e, t) \in Addresses
         /\ Home(e, t)[1] = -1 <=> Round(e, 0) = Round(t, 0)
         /\ Home(e, t)[1] = -1 => Home(e, t) = <<-1, e % Near>>
         /\ \A l \in 0 .. 3 : /\ Home(e, t)[1] = l <=> Round(e, l) # Round(t, l) /\ Round(e, l + 1) = Round(t, l + 1)
                              /\ Home(e, t)[1] = l => Home(e, t) = <<l, Index(e, l)>>
<1>1. /\ SameAbove(e, t, Near) <=> Round(e, 0) = Round(t, 0)
      /\ SameAbove(e, t, Span[1]) <=> Round(e, 1) = Round(t, 1)
      /\ SameAbove(e, t, Span[2]) <=> Round(e, 2) = Round(t, 2)
      /\ SameAbove(e, t, Span[3]) <=> Round(e, 3) = Round(t, 3)
  BY Spans DEF SameAbove, Round
<1>2. Home(e, t) = IF Round(e, 0) = Round(t, 0) THEN <<-1, e % Near>>
                   ELSE IF Round(e, 1) = Round(t, 1) THEN <<0, Index(e, 0)>>
                   ELSE IF Round(e, 2) = Round(t, 2) THEN <<1, Index(e, 1)>>
                   ELSE IF Round(e, 3) = Round(t, 3) THEN <<2, Index(e, 2)>>
                   ELSE <<3, Index(e, 3)>>
  BY <1>1 DEF Home, LevelOf
<1>3. /\ Round(e, 0) = Round(t, 0) => Round(e, 1) = Round(t, 1)
      /\ Round(e, 1) = Round(t, 1) => Round(e, 2) = Round(t, 2)
      /\ Round(e, 2) = Round(t, 2) => Round(e, 3) = Round(t, 3)
      /\ Round(e, 4) = Round(t, 4)
  BY Rounds
<1>4. Index(e, 0) \in 0 .. Level - 1 /\ Index(e, 1) \in 0 .. Level - 1 /\ Index(e, 2) \in 0 .. Level - 1
      /\ Index(e, 3) \in 0 .. Level - 1 /\ e % Near \in 0 .. Near - 1
  BY Rounds
<1>5. Home(e, t) \in Addresses
  <2> HIDE DEF Home
  <2> QED BY <1>2, <1>4 DEF Addresses
<1>6. \A l \in 0 .. 3 : l = 0 \/ l = 1 \/ l = 2 \/ l = 3
  OBVIOUS
<1>7. /\ Home(e, t)[1] = -1 <=> Round(e, 0) = Round(t, 0)
      /\ Home(e, t)[1] = -1 => Home(e, t) = <<-1, e % Near>>
  BY <1>2
<1>8. ASSUME NEW l \in 0 .. 3
      PROVE  /\ Home(e, t)[1] = l <=> Round(e, l) # Round(t, l) /\ Round(e, l + 1) = Round(t, l + 1)
             /\ Home(e, t)[1] = l => Home(e, t) = <<l, Index(e, l)>>
  <2>1. CASE l = 0
    BY <1>2, <1>3, <2>1
  <2>2. CASE l = 1
    BY <1>2, <1>3, <2>2
  <2>3. CASE l = 2
    BY <1>2, <1>3, <2>3
  <2>4. CASE l = 3
    BY <1>2, <1>3, <2>4
  <2> QED BY <1>6, <2>1, <2>2, <2>3, <2>4
<1> QED BY <1>5, <1>7, <1>8

\* The levels of which a round begins with a time, in a slot that is not the first one, and
\* the slot that timer_shift moves then.
Begins(now) == {l \in 0 .. 3 : now % Span[l] = 0 /\ Index(now, l) # 0}
Lowest(now) == CHOOSE l \in Begins(now) : \A k \in Begins(now) : l <= k
Emptied(now) ==
  IF Wrapped(now) THEN <<3, 0>>
  ELSE IF Begins(now) = {} THEN <<-2, 0>>
  ELSE <<Lowest(now), Index(now, Lowest(now))>>

\* If a level has a round that begins with this time, and none below has, it is the lowest.
LEMMA LowestIs ==
  ASSUME NEW now \in 0 .. Clock - 1, NEW l \in 0 .. 3, l \in Begins(now)
  PROVE  Lowest(now) = l
<1>1. ASSUME NEW k \in 0 .. 3, k < l PROVE k \notin Begins(now)
  <2>1. \A j \in 0 .. 3 : now % Span[j + 1] = 0 => now % Span[j] = 0 /\ Index(now, j) = 0
    BY RoundBegins
  <2>2. /\ now % Span[1] = 0 => now % Span[0] = 0 /\ Index(now, 0) = 0
        /\ now % Span[2] = 0 => now % Span[1] = 0 /\ Index(now, 1) = 0
        /\ now % Span[3] = 0 => now % Span[2] = 0 /\ Index(now, 2) = 0
    BY <2>1
  <2>3. now % Span[l] = 0
    BY DEF Begins
  <2>4. Index(now, k) = 0
    <3>1. l = 0 \/ l = 1 \/ l = 2 \/ l = 3
      OBVIOUS
    <3>2. k = 0 \/ k = 1 \/ k = 2 \/ k = 3
      OBVIOUS
    <3> QED BY <1>1, <2>2, <2>3, <3>1, <3>2
  <2> QED BY <2>4 DEF Begins
<1>2. Begins(now) \subseteq 0 .. 3
  BY DEF Begins
<1>3. \A k \in Begins(now) : l <= k
  BY <1>1, <1>2
<1>4. /\ Lowest(now) \in Begins(now)
      /\ \A k \in Begins(now) : Lowest(now) <= k
  BY <1>3 DEF Lowest
<1> QED BY <1>2, <1>3, <1>4

\* A tick moves one slot at most: where a node is, it stays, unless its slot is the one that
\* timer_shift moves.
LEMMA HomeKept ==
  ASSUME NEW e \in 0 .. Clock - 1, NEW t \in 0 .. Clock - 1, NEW now \in 0 .. Clock - 1,
         now = (t + 1) % Clock, ToGo(e, t) \in 1 .. Clock \div 2 - 1,
         Home(e, t) # Emptied(now)
  PROVE  Home(e, now) = Home(e, t)
<1>0. Clock \in Nat \ {0}
  BY Spans DEF Clock
<1>1. \A k \in 0 .. 3 : Round(e, k) = Round(t, k) => t < e
  BY LaterInRound
<1>2. \A k \in 0 .. 4 : Round(e, k) \in Nat /\ Round(t, k) \in Nat /\ Round(now, k) \in Nat
  BY Rounds
<1>3. Round(e, 4) = 0 /\ Round(t, 4) = 0 /\ Round(now, 4) = 0
  BY Rounds
<1>4. CASE t = Clock - 1
  <2>1. now = 0
    <3> HIDE DEF Clock
    <3> QED BY <1>0, <1>4
  <2>2. \A k \in 0 .. 3 : Round(e, k) # Round(t, k)
    <3> HIDE DEF Clock
    <3> QED BY <1>0, <1>1, <1>4
  <2>3. Home(e, t) = <<3, Index(e, 3)>>
    <3>1. Round(e, 3) # Round(t, 3) /\ Round(e, 3 + 1) = Round(t, 3 + 1)
      BY <1>3, <2>2
    <3> QED BY <3>1, HomeIs
  <2>4. Index(e, 3) # 0
    BY <2>1, <2>3 DEF Emptied, Wrapped
  <2>5. Round(e, 3) # Round(now, 3)
    <3>1. Round(now, 3) = 0
      <4>1. Span[3] \in Nat \ {0} /\ 0 \in 0 .. Span[3] - 1
        BY Spans
      <4>2. 0 \div Span[3] = 0
        BY <4>1, Small
      <4> QED BY <2>1, <4>2 DEF Round
    <3>2. Round(e, 3) = Index(e, 3)
      <4>1. Round(e, 3) = Level * Round(e, 3 + 1) + Index(e, 3) /\ Index(e, 3) \in 0 .. Level - 1
        BY Rounds
      <4> QED BY <1>3, <4>1, WheelSizeAssumption
    <3> QED BY <2>4, <3>1, <3>2
  <2>6. Round(e, 3 + 1) = Round(now, 3 + 1)
    BY <1>3
  <2> QED BY <2>3, <2>5, <2>6, HomeIs
<1>5. CASE t # Clock - 1
  <2>1. t + 1 \in 0 .. Clock - 1 /\ now = t + 1
    <3> HIDE DEF Clock
    <3>1. t + 1 \in 0 .. Clock - 1
      BY <1>0, <1>5
    <3>2. (t + 1) % Clock = t + 1
      BY <1>0, <3>1, Small
    <3> QED BY <3>1, <3>2
  <2>2. now # 0
    <3> HIDE DEF Clock
    <3> QED BY <1>0, <2>1
  <2>3. \A k \in 0 .. 4 : Round(now, k) = IF now % Span[k] = 0 THEN Round(t, k) + 1 ELSE Round(t, k)
    BY <2>1, RoundsNext
  <2>4. ASSUME NEW k \in 0 .. 4, Round(e, k) = Round(t, k) PROVE Round(e, k) = Round(now, k)
    <3>1. CASE k = 4
      BY <1>3, <3>1
    <3>2. CASE k \in 0 .. 3
      <4>1. now <= e
        <5>1. t < e
          BY <1>1, <2>4, <3>2
        <5> HIDE DEF Clock
        <5> QED BY <1>0, <2>1, <5>1
      <4>2. Round(now, k) <= Round(e, k)
        BY <4>1, RoundsGrow
      <4> QED BY <1>2, <2>3, <2>4, <4>2
    <3> QED BY <3>1, <3>2
  <2>5. CASE Round(e, 0) = Round(t, 0)
    <3>1. Round(e, 0) = Round(now, 0)
      BY <2>4, <2>5
    <3> QED BY <2>5, <3>1, HomeIs
  <2>6. ASSUME NEW l \in 0 .. 3, Home(e, t)[1] = l PROVE Home(e, now) = Home(e, t)
    <3>1. Round(e, l) # Round(t, l) /\ Round(e, l + 1) = Round(t, l + 1) /\ Home(e, t) = <<l, Index(e, l)>>
      BY <2>6, HomeIs
    <3>2. Round(e, l + 1) = Round(now, l + 1)
      BY <2>4, <3>1
    <3>3. ASSUME Round(e, l) = Round(now, l) PROVE FALSE
      <4>1. now % Span[l] = 0
        BY <2>3, <3>1, <3>3
      <4>2. Index(now, l) = Index(e, l)
        BY <3>3 DEF Index, Round
      <4>3. Index(now, l) # 0
        <5>1. SUFFICES ASSUME Index(now, l) = 0 PROVE FALSE
          OBVIOUS
        <5>2. now % Span[l + 1] = 0
          BY <4>1, <5>1, RoundBegins
        <5>3. Round(now, l + 1) = Round(t, l + 1) + 1
          BY <2>3, <5>2
        <5> QED BY <1>2, <3>1, <3>2, <5>3
      <4>4. l \in Begins(now)
        BY <4>1, <4>3 DEF Begins
      <4>5. Emptied(now) = <<l, Index(now, l)>>
        BY <2>2, <4>4, LowestIs DEF Emptied, Wrapped
      <4> QED BY <3>1, <4>2, <4>5
    <3> QED BY <3>1, <3>2, <3>3, HomeIs
  <2>7. Home(e, t)[1] = -1 \/ Home(e, t)[1] \in 0 .. 3
    <3>1. Home(e, t) \in Addresses
      BY HomeIs
    <3> QED BY <3>1 DEF Addresses
  <2> QED BY <2>5, <2>6, <2>7, HomeIs
<1> QED BY <1>4, <1>5

-----------------------------------------------------------------------------
(* The lists of a wheel *)

\* The list at an address of a wheel.
IsWheel(w) ==
  w \in [near : [0 .. Near - 1 -> Seq(Node)], level : [0 .. 3 -> [0 .. Level - 1 -> Seq(Node)]]]
ListAt(w, a) == IF a[1] = -1 THEN w.near[a[2]] ELSE w.level[a[1]][a[2]]

\* The nodes of a list, each with the timers of its tick before it; those of a wheel.
Ahead(L, j) == {L[k].timer : k \in {i \in 1 .. j - 1 : L[i].expire = L[j].expire}}
Ranked(L) == {[node |-> L[j], behind |-> Ahead(L, j)] : j \in 1 .. Len(L)}
Held(w) == UNION {Ranked(ListAt(w, a)) : a \in Addresses}

\* Every node is where add_node would put it now; a timer is in the wheel once.
Placed(w, now) ==
  \A a \in Addresses : \A j \in 1 .. Len(ListAt(w, a)) : Home(ListAt(w, a)[j].expire, now) = a
Apart(w) ==
  \A a, b \in Addresses : \A j \in 1 .. Len(ListAt(w, a)), k \in 1 .. Len(ListAt(w, b)) :
    ListAt(w, a)[j].timer = ListAt(w, b)[k].timer => a = b /\ j = k

\* Every slot of a wheel holds a sequence of nodes.
LEMMA ListsAre ==
  ASSUME NEW w, IsWheel(w), NEW a \in Addresses
  PROVE  ListAt(w, a) \in Seq(Node)
<1>1. CASE a[1] = -1
  <2>1. a[2] \in 0 .. Near - 1
    BY <1>1 DEF Addresses
  <2> QED BY <1>1, <2>1 DEF ListAt, IsWheel
<1>2. CASE a[1] # -1
  <2>1. a[1] \in 0 .. 3 /\ a[2] \in 0 .. Level - 1
    BY <1>2 DEF Addresses
  <2> QED BY <1>2, <2>1 DEF ListAt, IsWheel
<1> QED BY <1>1, <1>2

\* One list of a table of lists is replaced.
LEMMA TableUpdate ==
  ASSUME NEW f \in [0 .. 3 -> [0 .. Level - 1 -> Seq(Node)]],
         NEW l \in 0 .. 3, NEW i \in 0 .. Level - 1, NEW s \in Seq(Node),
         NEW g, g = [f EXCEPT ![l][i] = s]
  PROVE  /\ g \in [0 .. 3 -> [0 .. Level - 1 -> Seq(Node)]]
         /\ \A k \in 0 .. 3, j \in 0 .. Level - 1 : g[k][j] = IF k = l /\ j = i THEN s ELSE f[k][j]
<1> DEFINE row == [f[l] EXCEPT ![i] = s]
<1>1. row \in [0 .. Level - 1 -> Seq(Node)] /\ \A j \in 0 .. Level - 1 : row[j] = IF j = i THEN s ELSE f[l][j]
  OBVIOUS
<1>2. g = [f EXCEPT ![l] = row]
  OBVIOUS
<1> HIDE DEF row
<1>3. g \in [0 .. 3 -> [0 .. Level - 1 -> Seq(Node)]] /\ \A k \in 0 .. 3 : g[k] = IF k = l THEN row ELSE f[k]
  BY <1>1, <1>2
<1>4. \A k \in 0 .. 3, j \in 0 .. Level - 1 : g[k][j] = IF k = l /\ j = i THEN s ELSE f[k][j]
  BY <1>1, <1>3
<1> QED BY <1>3, <1>4

\* add_node appends the node to the list at its address, and leaves the others alone.
LEMMA AddNodeDoes ==
  ASSUME NEW w, IsWheel(w), NEW n \in Node, NEW now
  PROVE  LET h == Home(n.expire, now) IN
         h \in Addresses =>
           /\ IsWheel(AddNode(w, n, now))
           /\ \A a \in Addresses :
                ListAt(AddNode(w, n, now), a) = IF a = h THEN Append(ListAt(w, a), n) ELSE ListAt(w, a)
<1> DEFINE h == Home(n.expire, now)
           v == AddNode(w, n, now)
<1> SUFFICES ASSUME h \in Addresses
             PROVE  /\ IsWheel(v)
                    /\ \A a \in Addresses : ListAt(v, a) = IF a = h THEN Append(ListAt(w, a), n) ELSE ListAt(w, a)
  OBVIOUS
<1>1. CASE SameAbove(n.expire, now, Near)
  <2> DEFINE i == n.expire % Near
  <2>1. h = <<-1, i>> /\ v = [w EXCEPT !.near[i] = Append(@, n)]
    BY <1>1 DEF Home, AddNode
  <2>2. i \in 0 .. Near - 1
    BY <2>1 DEF Addresses
  <2> HIDE DEF i, h, v
  <2>3. /\ v.near = [w.near EXCEPT ![i] = Append(@, n)] /\ v.level = w.level
        /\ w.near \in [0 .. Near - 1 -> Seq(Node)]
    BY <2>1, <2>2 DEF IsWheel
  <2>4. v \in [near : [0 .. Near - 1 -> Seq(Node)], level : [0 .. 3 -> [0 .. Level - 1 -> Seq(Node)]]]
    <3>1. Append(w.near[i], n) \in Seq(Node)
      <4>1. w.near[i] \in Seq(Node)
        BY <2>2, <2>3
      <4> QED BY <4>1
    <3>2. [w.near EXCEPT ![i] = Append(@, n)] \in [0 .. Near - 1 -> Seq(Node)]
      BY <2>2, <2>3, <3>1
    <3> QED BY <2>1, <3>2 DEF IsWheel
  <2>5. ASSUME NEW a \in Addresses
        PROVE  ListAt(v, a) = IF a = h THEN Append(ListAt(w, a), n) ELSE ListAt(w, a)
    <3>1. CASE a[1] = -1
      <4>1. a = <<-1, a[2]>> /\ a[2] \in 0 .. Near - 1
        BY <3>1 DEF Addresses
      <4>2. a = h <=> a[2] = i
        BY <2>1, <4>1
      <4> QED BY <2>2, <2>3, <3>1, <4>1, <4>2 DEF ListAt
    <3>2. CASE a[1] # -1
      BY <2>1, <2>3, <3>2 DEF ListAt
    <3> QED BY <3>1, <3>2
  <2> QED BY <2>4, <2>5 DEF IsWheel
<1>2. CASE ~ SameAbove(n.expire, now, Near)
  <2> DEFINE l == LevelOf(n.expire, now)
             i == Index(n.expire, l)
  <2>1. h = <<l, i>> /\ v = [w EXCEPT !.level[l][i] = Append(@, n)]
    BY <1>2 DEF Home, AddNode
  <2>2. l \in 0 .. 3 /\ i \in 0 .. Level - 1
    <3>1. l \in 0 .. 3
      BY DEF LevelOf
    <3> HIDE DEF l, i
    <3> QED BY <2>1, <3>1 DEF Addresses
  <2> HIDE DEF l, i, h, v
  <2>3. /\ v.near = w.near /\ v.level = [w.level EXCEPT ![l][i] = Append(@, n)]
        /\ w.level \in [0 .. 3 -> [0 .. Level - 1 -> Seq(Node)]]
    BY <2>1, <2>2 DEF IsWheel
  <2>6. /\ v.level \in [0 .. 3 -> [0 .. Level - 1 -> Seq(Node)]]
        /\ \A k \in 0 .. 3, j \in 0 .. Level - 1 :
             v.level[k][j] = IF k = l /\ j = i THEN Append(w.level[l][i], n) ELSE w.level[k][j]
    <3>1. Append(w.level[l][i], n) \in Seq(Node)
      <4>1. w.level[l][i] \in Seq(Node)
        BY <2>2, <2>3
      <4> QED BY <4>1
    <3> DEFINE f == w.level
               g == v.level
               s == Append(w.level[l][i], n)
    <3>2. /\ f \in [0 .. 3 -> [0 .. Level - 1 -> Seq(Node)]] /\ s \in Seq(Node)
          /\ g = [f EXCEPT ![l][i] = s]
      BY <2>3, <3>1
    <3> HIDE DEF f, g, s
    <3>3. /\ g \in [0 .. 3 -> [0 .. Level - 1 -> Seq(Node)]]
          /\ \A k \in 0 .. 3, j \in 0 .. Level - 1 : g[k][j] = IF k = l /\ j = i THEN s ELSE f[k][j]
      BY ZenonT(60), <2>2, <3>2, TableUpdate
    <3> QED BY <3>3 DEF f, g, s
  <2>4. v \in [near : [0 .. Near - 1 -> Seq(Node)], level : [0 .. 3 -> [0 .. Level - 1 -> Seq(Node)]]]
    <3>1. v.level \in [0 .. 3 -> [0 .. Level - 1 -> Seq(Node)]]
      BY <2>6
    <3> QED BY <2>1, <3>1 DEF IsWheel
  <2>5. ASSUME NEW a \in Addresses
        PROVE  ListAt(v, a) = IF a = h THEN Append(ListAt(w, a), n) ELSE ListAt(w, a)
    <3>1. CASE a[1] # -1
      <4>1. a = <<a[1], a[2]>> /\ a[1] \in 0 .. 3 /\ a[2] \in 0 .. Level - 1
        BY <3>1 DEF Addresses
      <4>2. a = h <=> a[1] = l /\ a[2] = i
        BY <2>1, <4>1
      <4> QED BY <2>6, <3>1, <4>1, <4>2 DEF ListAt
    <3>2. CASE a[1] = -1
      BY <2>1, <2>2, <2>3, <3>2 DEF ListAt
    <3> QED BY <3>1, <3>2
  <2> QED BY <2>4, <2>5 DEF IsWheel
<1> QED BY <1>1, <1>2

\* link_clear empties one list.
LEMMA ClearedDoes ==
  ASSUME NEW w, IsWheel(w), NEW l \in 0 .. 3, NEW i \in 0 .. Level - 1
  PROVE  /\ IsWheel(Cleared(w, l, i))
         /\ \A a \in Addresses : ListAt(Cleared(w, l, i), a) = IF a = <<l, i>> THEN <<>> ELSE ListAt(w, a)
<1> DEFINE v == Cleared(w, l, i)
<1>1. v = [w EXCEPT !.level[l][i] = <<>>]
  BY DEF Cleared
<1> HIDE DEF v
<1>2. /\ v.near = w.near /\ v.level = [w.level EXCEPT ![l][i] = <<>>]
      /\ w.level \in [0 .. 3 -> [0 .. Level - 1 -> Seq(Node)]]
  BY <1>1 DEF IsWheel
<1>5. /\ v.level \in [0 .. 3 -> [0 .. Level - 1 -> Seq(Node)]]
      /\ \A k \in 0 .. 3, j \in 0 .. Level - 1 :
           v.level[k][j] = IF k = l /\ j = i THEN <<>> ELSE w.level[k][j]
  <2> DEFINE f == w.level
             g == v.level
             s == <<>>
  <2>1. /\ f \in [0 .. 3 -> [0 .. Level - 1 -> Seq(Node)]] /\ s \in Seq(Node)
        /\ g = [f EXCEPT ![l][i] = s]
    BY <1>2
  <2> HIDE DEF f, g, s
  <2>2. /\ g \in [0 .. 3 -> [0 .. Level - 1 -> Seq(Node)]]
        /\ \A k \in 0 .. 3, j \in 0 .. Level - 1 : g[k][j] = IF k = l /\ j = i THEN s ELSE f[k][j]
    BY ZenonT(60), <2>1, TableUpdate
  <2> QED BY <2>2 DEF f, g, s
<1>3. v \in [near : [0 .. Near - 1 -> Seq(Node)], level : [0 .. 3 -> [0 .. Level - 1 -> Seq(Node)]]]
  <2>1. v.level \in [0 .. 3 -> [0 .. Level - 1 -> Seq(Node)]]
    BY <1>5
  <2> QED BY <1>1, <2>1 DEF IsWheel
<1>4. ASSUME NEW a \in Addresses
      PROVE  ListAt(v, a) = IF a = <<l, i>> THEN <<>> ELSE ListAt(w, a)
  <2>1. CASE a[1] # -1
    <3>1. a = <<a[1], a[2]>> /\ a[1] \in 0 .. 3 /\ a[2] \in 0 .. Level - 1
      BY <2>1 DEF Addresses
    <3>2. a = <<l, i>> <=> a[1] = l /\ a[2] = i
      BY <3>1
    <3> QED BY <1>5, <2>1, <3>1, <3>2 DEF ListAt
  <2>2. CASE a[1] = -1
    BY <1>2, <2>2 DEF ListAt
  <2> QED BY <2>1, <2>2
<1> QED BY <1>3, <1>4 DEF v, IsWheel

WellPut(w, now) == IsWheel(w) /\ Placed(w, now) /\ Apart(w)

\* The timers of one tick in a wheel.
DueWith(w, e) == {x.node.timer : x \in {y \in Held(w) : y.node.expire = e}}

Ranks(n, behind) == [node |-> n, behind |-> behind]

\* What a wheel holds are the nodes at the places of its lists.
LEMMA HeldIs ==
  ASSUME NEW w, NEW x
  PROVE  x \in Held(w) <=> \E a \in Addresses : \E j \in 1 .. Len(ListAt(w, a)) :
                             x = Ranks(ListAt(w, a)[j], Ahead(ListAt(w, a), j))
BY DEF Held, Ranked, Ranks

\* What is appended is behind what the list has of its tick.
LEMMA RankedAppend ==
  ASSUME NEW L \in Seq(Node), NEW n \in Node
  PROVE  Ranked(Append(L, n)) =
           Ranked(L) \cup {Ranks(n, {L[k].timer : k \in {i \in 1 .. Len(L) : L[i].expire = n.expire}})}
<1> DEFINE M == Append(L, n)
           N == Len(L)
<1>1. N \in Nat /\ Len(M) = N + 1 /\ M[N + 1] = n /\ \A k \in 1 .. N : M[k] = L[k]
  OBVIOUS
<1> HIDE DEF M, N
<1>2. ASSUME NEW j \in 1 .. N PROVE M[j] = L[j] /\ Ahead(M, j) = Ahead(L, j)
  <2>1. {i \in 1 .. j - 1 : M[i].expire = M[j].expire} = {i \in 1 .. j - 1 : L[i].expire = L[j].expire}
    BY <1>1
  <2>2. \A i \in 1 .. j - 1 : M[i] = L[i]
    BY <1>1
  <2> QED BY <1>1, <2>1, <2>2 DEF Ahead
<1>3. Ahead(M, N + 1) = {L[k].timer : k \in {i \in 1 .. N : L[i].expire = n.expire}}
  <2>1. (N + 1) - 1 = N
    BY <1>1
  <2>2. {i \in 1 .. (N + 1) - 1 : M[i].expire = M[N + 1].expire} = {i \in 1 .. N : L[i].expire = n.expire}
    BY <1>1, <2>1
  <2> QED BY <1>1, <2>2 DEF Ahead
<1>4. 1 .. N + 1 = (1 .. N) \cup {N + 1}
  BY <1>1
<1>5. Ranked(M) = {[node |-> M[j], behind |-> Ahead(M, j)] : j \in 1 .. N} \cup {[node |-> M[N + 1], behind |-> Ahead(M, N + 1)]}
  BY <1>1, <1>4 DEF Ranked
<1>6. {[node |-> M[j], behind |-> Ahead(M, j)] : j \in 1 .. N} = Ranked(L)
  <2>1. {[node |-> M[j], behind |-> Ahead(M, j)] : j \in 1 .. N} = {[node |-> L[j], behind |-> Ahead(L, j)] : j \in 1 .. N}
    BY <1>2
  <2> QED BY <2>1 DEF Ranked, N
<1> QED BY <1>1, <1>3, <1>5, <1>6 DEF Ranks, M, N

\* add_node adds one node, behind those of its tick, and leaves every node where it belongs.
LEMMA AddHeld ==
  ASSUME NEW w, NEW now, WellPut(w, now), NEW n \in Node, Home(n.expire, now) \in Addresses,
         \A x \in Held(w) : x.node.timer # n.timer
  PROVE  /\ WellPut(AddNode(w, n, now), now)
         /\ Held(AddNode(w, n, now)) = Held(w) \cup {Ranks(n, DueWith(w, n.expire))}
<1> DEFINE h == Home(n.expire, now)
           v == AddNode(w, n, now)
<1>1. /\ IsWheel(v)
      /\ \A a \in Addresses : ListAt(v, a) = IF a = h THEN Append(ListAt(w, a), n) ELSE ListAt(w, a)
  BY AddNodeDoes DEF WellPut
<1>2. \A a \in Addresses : ListAt(w, a) \in Seq(Node)
  BY ListsAre DEF WellPut
<1>3. \A a \in Addresses : \A j \in 1 .. Len(ListAt(w, a)) : ListAt(w, a)[j].timer # n.timer
  <2> SUFFICES ASSUME NEW a \in Addresses, NEW j \in 1 .. Len(ListAt(w, a))
               PROVE  ListAt(w, a)[j].timer # n.timer
    OBVIOUS
  <2>1. Ranks(ListAt(w, a)[j], Ahead(ListAt(w, a), j)) \in Held(w)
    BY HeldIs
  <2> QED BY <2>1 DEF Ranks
<1>4. h \in Addresses
  OBVIOUS
<1> HIDE DEF v
<1>5. ASSUME NEW a \in Addresses, NEW j \in 1 .. Len(ListAt(v, a))
      PROVE  \/ j \in 1 .. Len(ListAt(w, a)) /\ ListAt(v, a)[j] = ListAt(w, a)[j]
             \/ a = h /\ j = Len(ListAt(w, h)) + 1 /\ ListAt(v, a)[j] = n
  <2> DEFINE L == ListAt(w, a)
  <2>1. L \in Seq(Node)
    BY <1>2
  <2>2. CASE a = h
    <3>1. ListAt(v, a) = Append(L, n)
      BY <1>1, <2>2
    <3> HIDE DEF L
    <3>2. \A i \in 1 .. Len(Append(L, n)) :
            \/ i \in 1 .. Len(L) /\ Append(L, n)[i] = L[i]
            \/ i = Len(L) + 1 /\ Append(L, n)[i] = n
      BY <2>1
    <3> QED BY <2>2, <3>1, <3>2 DEF L
  <2>3. CASE a # h
    BY <1>1, <2>3
  <2> QED BY <2>2, <2>3
<1>6. Placed(v, now)
  <2> SUFFICES ASSUME NEW a \in Addresses, NEW j \in 1 .. Len(ListAt(v, a))
               PROVE  Home(ListAt(v, a)[j].expire, now) = a
    BY DEF Placed
  <2> HIDE DEF Home
  <2> QED BY <1>5 DEF WellPut, Placed
<1>7. Apart(v)
  <2> SUFFICES ASSUME NEW a \in Addresses, NEW b \in Addresses,
                      NEW j \in 1 .. Len(ListAt(v, a)), NEW k \in 1 .. Len(ListAt(v, b)),
                      ListAt(v, a)[j].timer = ListAt(v, b)[k].timer
               PROVE  a = b /\ j = k
    BY DEF Apart
  <2> HIDE DEF h
  <2>1. \/ j \in 1 .. Len(ListAt(w, a)) /\ ListAt(v, a)[j] = ListAt(w, a)[j]
        \/ a = h /\ j = Len(ListAt(w, h)) + 1 /\ ListAt(v, a)[j] = n
    BY <1>5
  <2>2. \/ k \in 1 .. Len(ListAt(w, b)) /\ ListAt(v, b)[k] = ListAt(w, b)[k]
        \/ b = h /\ k = Len(ListAt(w, h)) + 1 /\ ListAt(v, b)[k] = n
    BY <1>5
  <2> QED BY <1>3, <2>1, <2>2 DEF WellPut, Apart
<1>8. Ranked(ListAt(v, h)) = Ranked(ListAt(w, h)) \cup {Ranks(n, DueWith(w, n.expire))}
  <2> DEFINE L == ListAt(w, h)
             behind == {L[k].timer : k \in {i \in 1 .. Len(L) : L[i].expire = n.expire}}
  <2>1. Ranked(ListAt(v, h)) = Ranked(L) \cup {Ranks(n, behind)}
    <3>1. L \in Seq(Node) /\ ListAt(v, h) = Append(L, n)
      BY <1>1, <1>2
    <3> HIDE DEF h
    <3> QED BY <3>1, RankedAppend
  <2>2. ASSUME NEW t \in behind PROVE t \in DueWith(w, n.expire)
    <3>1. PICK k \in 1 .. Len(L) : L[k].expire = n.expire /\ t = L[k].timer
      OBVIOUS
    <3>2. Ranks(L[k], Ahead(L, k)) \in Held(w)
      <4> HIDE DEF h
      <4> QED BY <1>4, HeldIs
    <3> QED BY <3>1, <3>2 DEF DueWith, Ranks
  <2>3. ASSUME NEW t \in DueWith(w, n.expire) PROVE t \in behind
    <3>1. PICK x \in Held(w) : x.node.expire = n.expire /\ t = x.node.timer
      BY DEF DueWith
    <3>2. PICK a \in Addresses : \E j \in 1 .. Len(ListAt(w, a)) : x = Ranks(ListAt(w, a)[j], Ahead(ListAt(w, a), j))
      BY HeldIs
    <3>3. PICK j \in 1 .. Len(ListAt(w, a)) : x = Ranks(ListAt(w, a)[j], Ahead(ListAt(w, a), j))
      BY <3>2
    <3>4. x.node = ListAt(w, a)[j]
      BY <3>3 DEF Ranks
    <3>5. a = h
      BY <3>1, <3>4 DEF WellPut, Placed
    <3> HIDE DEF h
    <3> QED BY <3>1, <3>4, <3>5
  <2>4. behind = DueWith(w, n.expire)
    BY <2>2, <2>3
  <2> QED BY <2>1, <2>4
<1>9. Held(v) = Held(w) \cup {Ranks(n, DueWith(w, n.expire))}
  <2> HIDE DEF h
  <2> DEFINE r == Ranks(n, DueWith(w, n.expire))
  <2> HIDE DEF r
  <2>1. \A a \in Addresses : Ranked(ListAt(v, a)) = IF a = h THEN Ranked(ListAt(w, a)) \cup {r} ELSE Ranked(ListAt(w, a))
    BY <1>1, <1>8 DEF r
  <2>2. ASSUME NEW x PROVE x \in Held(v) <=> x \in Held(w) \/ x = r
    BY <1>4, <2>1 DEF Held
  <2>3. Held(v) = Held(w) \cup {r}
    BY <2>2
  <2> QED BY <2>3 DEF r
<1> QED BY <1>1, <1>6, <1>7, <1>9 DEF WellPut, v

\* The steps of move_list: f[k] is the wheel with the first k nodes of the list moved.
MovedBy(f, w, l, i, now, N) ==
  f = [k \in 0 .. N |->
         IF k = 0 THEN Cleared(w, l, i) ELSE AddNode(f[k - 1], w.level[l][i][k], now)]

\* move_list ends: the function that says what it has made after each node exists.
LEMMA MovingEnds ==
  ASSUME NEW w, NEW l, NEW i, NEW now, NEW N \in Nat
  PROVE  \E f : MovedBy(f, w, l, i, now, N)
<1> DEFINE T == {k \in 0 .. N : ~ \E f : MovedBy(f, w, l, i, now, k)}
<1>1. ASSUME T # {} PROVE FALSE
  <2>1. T \subseteq Nat
    OBVIOUS
  <2> HIDE DEF T
  <2>2. PICK k \in T : \A j \in T : k <= j
    BY <1>1, <2>1, Least
  <2>3. k \in 0 .. N /\ ~ \E f : MovedBy(f, w, l, i, now, k)
    BY <2>2 DEF T
  <2>4. k # 0
    <3> DEFINE g == [j \in 0 .. 0 |-> Cleared(w, l, i)]
    <3>1. MovedBy(g, w, l, i, now, 0)
      BY DEF MovedBy
    <3> QED BY <2>3, <3>1
  <2>5. k - 1 \in 0 .. N /\ k - 1 \notin T
    BY <2>2, <2>3, <2>4
  <2>6. PICK f : MovedBy(f, w, l, i, now, k - 1)
    BY <2>5 DEF T
  <2> DEFINE g == [j \in 0 .. k |-> IF j = k THEN AddNode(f[k - 1], w.level[l][i][k], now) ELSE f[j]]
  <2>7. \A j \in 0 .. k - 1 :
          f[j] = IF j = 0 THEN Cleared(w, l, i) ELSE AddNode(f[j - 1], w.level[l][i][j], now)
    BY <2>6 DEF MovedBy
  <2>8. ASSUME NEW j \in 0 .. k
        PROVE  g[j] = IF j = 0 THEN Cleared(w, l, i) ELSE AddNode(g[j - 1], w.level[l][i][j], now)
    <3>1. CASE j = k
      <4>1. g[k] = AddNode(f[k - 1], w.level[l][i][k], now) /\ g[k - 1] = f[k - 1]
        BY <2>3, <2>4
      <4> HIDE DEF g
      <4> QED BY <2>4, <3>1, <4>1
    <3>2. CASE j # k
      <4>1. j \in 0 .. k - 1 /\ (j # 0 => j - 1 \in 0 .. k /\ j - 1 # k)
        BY <2>3, <3>2
      <4>2. g[j] = f[j] /\ (j # 0 => g[j - 1] = f[j - 1])
        BY <3>2, <4>1
      <4> HIDE DEF g
      <4> QED BY <2>7, <4>1, <4>2
    <3> QED BY <3>1, <3>2
  <2>9. MovedBy(g, w, l, i, now, k)
    <3>1. g = [j \in 0 .. k |-> g[j]]
      OBVIOUS
    <3> HIDE DEF g
    <3> QED BY <2>8, <3>1 DEF MovedBy
  <2> QED BY <2>3, <2>9
<1> QED BY <1>1

\* move_list puts every node of its slot where it belongs now, and keeps the nodes of each
\* tick in their order.
LEMMA MoveHeld ==
  ASSUME NEW w, NEW t, NEW now, WellPut(w, t), NEW l \in 0 .. 3, NEW i \in 0 .. Level - 1,
         \A a \in Addresses \ {<<l, i>>} : \A j \in 1 .. Len(ListAt(w, a)) :
           Home(ListAt(w, a)[j].expire, now) = a,
         \A n \in Node : Home(n.expire, now) \in Addresses
  PROVE  WellPut(MoveList(w, l, i, now), now) /\ Held(MoveList(w, l, i, now)) = Held(w)
<1> DEFINE s == <<l, i>>
           src == ListAt(w, s)
           N == Len(src)
           c == Cleared(w, l, i)
           f == CHOOSE g : MovedBy(g, w, l, i, now, N)
           First(k) == {Ranks(src[j], Ahead(src, j)) : j \in 1 .. k}
           Done(k) == WellPut(f[k], now) /\ Held(f[k]) = Held(c) \cup First(k)
           T == {k \in 0 .. N : ~ Done(k)}
<1>1. s \in Addresses /\ src = w.level[l][i] /\ src \in Seq(Node)
  <2>1. s \in Addresses /\ src = w.level[l][i]
    BY DEF Addresses, ListAt
  <2>2. ListAt(w, s) \in Seq(Node)
    BY <2>1, ListsAre DEF WellPut
  <2> QED BY <2>1, <2>2
<1>2. N \in Nat
  BY <1>1
<1>3. MovedBy(f, w, l, i, now, N)
  BY <1>2, MovingEnds
<1>4. MoveList(w, l, i, now) = f[N]
  BY <1>1 DEF MoveList, MovedBy
<1>5. /\ IsWheel(c)
      /\ \A a \in Addresses : ListAt(c, a) = IF a = s THEN <<>> ELSE ListAt(w, a)
  BY ClearedDoes DEF WellPut
<1> HIDE DEF f, c, s
<1>6. \A x : x \in Held(c) <=> \E a \in Addresses \ {s} : \E j \in 1 .. Len(ListAt(w, a)) :
                                x = Ranks(ListAt(w, a)[j], Ahead(ListAt(w, a), j))
  <2>1. ASSUME NEW x PROVE x \in Held(c) <=> \E a \in Addresses : \E j \in 1 .. Len(ListAt(c, a)) :
                             x = Ranks(ListAt(c, a)[j], Ahead(ListAt(c, a), j))
    BY HeldIs
  <2>2. Len(<<>>) = 0 /\ ~ \E j \in 1 .. 0 : TRUE
    OBVIOUS
  <2> QED BY <1>5, <2>1, <2>2
<1>7. /\ f[0] = c
      /\ \A k \in 1 .. N : f[k] = AddNode(f[k - 1], src[k], now)
  <2>1. \A k \in 0 .. N : f[k] = IF k = 0 THEN Cleared(w, l, i) ELSE AddNode(f[k - 1], w.level[l][i][k], now)
    BY <1>3 DEF MovedBy
  <2>2. f[0] = c
    BY <1>2, <2>1 DEF c
  <2>3. ASSUME NEW k \in 1 .. N PROVE f[k] = AddNode(f[k - 1], src[k], now)
    <3>1. k \in 0 .. N /\ k # 0
      BY <1>2
    <3> QED BY <1>1, <2>1, <3>1
  <2> QED BY <2>2, <2>3
<1>8. Held(w) = Held(c) \cup First(N)
  <2>1. ASSUME NEW x PROVE x \in Held(w) <=> x \in Held(c) \/ x \in First(N)
    <3>1. x \in Held(w) <=> \E a \in Addresses : \E j \in 1 .. Len(ListAt(w, a)) :
                             x = Ranks(ListAt(w, a)[j], Ahead(ListAt(w, a), j))
      BY HeldIs
    <3>2. x \in First(N) <=> \E j \in 1 .. Len(src) : x = Ranks(src[j], Ahead(src, j))
      OBVIOUS
    <3> QED BY <1>1, <1>6, <3>1, <3>2
  <2> HIDE DEF First
  <2> QED BY <2>1
<1>9. Done(0)
  <2>1. Placed(c, now)
    <3> SUFFICES ASSUME NEW a \in Addresses, NEW j \in 1 .. Len(ListAt(c, a))
                 PROVE  Home(ListAt(c, a)[j].expire, now) = a
      BY DEF Placed
    <3>1. a # s /\ ListAt(c, a) = ListAt(w, a)
      <4>1. Len(<<>>) = 0
        OBVIOUS
      <4> QED BY <1>5, <4>1
    <3> QED BY <3>1 DEF s
  <2>2. Apart(c)
    <3>1. \A a \in Addresses : \A j \in 1 .. Len(ListAt(c, a)) :
            j \in 1 .. Len(ListAt(w, a)) /\ ListAt(c, a)[j] = ListAt(w, a)[j]
      <4>1. Len(<<>>) = 0
        OBVIOUS
      <4> QED BY <1>5, <4>1
    <3> QED BY <3>1 DEF WellPut, Apart
  <2>3. First(0) = {}
    OBVIOUS
  <2> HIDE DEF First
  <2> QED BY <1>5, <1>7, <2>1, <2>2, <2>3 DEF WellPut
<1>10. ASSUME NEW k \in 1 .. N, Done(k - 1) PROVE Done(k)
  <2> DEFINE n == src[k]
             v == f[k - 1]
  <2>1. n \in Node
    BY <1>1
  <2>2. Home(n.expire, t) = s
    BY <1>1 DEF WellPut, Placed
  <2>3. ASSUME NEW x \in Held(c) PROVE x.node.timer # n.timer /\ x.node.expire # n.expire
    <3>1. PICK a \in Addresses \ {s} : \E j \in 1 .. Len(ListAt(w, a)) : x = Ranks(ListAt(w, a)[j], Ahead(ListAt(w, a), j))
      BY <1>6
    <3>2. PICK j \in 1 .. Len(ListAt(w, a)) : x = Ranks(ListAt(w, a)[j], Ahead(ListAt(w, a), j))
      BY <3>1
    <3>3. x.node = ListAt(w, a)[j]
      BY <3>2 DEF Ranks
    <3>4. x.node.timer # n.timer
      BY <1>1, <3>1, <3>3 DEF WellPut, Apart
    <3>5. Home(x.node.expire, t) = a
      BY <3>3 DEF WellPut, Placed
    <3> QED BY <2>2, <3>1, <3>4, <3>5
  <2>4. ASSUME NEW j \in 1 .. k - 1 PROVE src[j].timer # n.timer
    <3>1. j \in 1 .. N /\ j # k
      BY <1>2
    <3> QED BY <1>1, <3>1 DEF WellPut, Apart
  <2>5. WellPut(v, now) /\ Held(v) = Held(c) \cup First(k - 1)
    BY <1>10, Zenon
  <2>6. \A x \in First(k - 1) : \E j \in 1 .. k - 1 : x = Ranks(src[j], Ahead(src, j)) /\ x.node = src[j]
    BY DEF Ranks
  <2>7. \A x \in Held(v) : x.node.timer # n.timer
    <3> HIDE DEF First, n, v
    <3> QED BY <2>3, <2>4, <2>5, <2>6
  <2>8. DueWith(v, n.expire) = Ahead(src, k)
    <3>1. ASSUME NEW u \in DueWith(v, n.expire) PROVE u \in Ahead(src, k)
      <4>1. PICK x \in Held(v) : x.node.expire = n.expire /\ u = x.node.timer
        BY DEF DueWith
      <4>2. x \in First(k - 1)
        <5> HIDE DEF First, n, v
        <5> QED BY <2>3, <2>5, <4>1
      <4>3. PICK j \in 1 .. k - 1 : x.node = src[j]
        BY <2>6, <4>2
      <4> QED BY <4>1, <4>3 DEF Ahead
    <3>2. ASSUME NEW u \in Ahead(src, k) PROVE u \in DueWith(v, n.expire)
      <4>1. PICK j \in 1 .. k - 1 : src[j].expire = n.expire /\ u = src[j].timer
        BY DEF Ahead
      <4>2. Ranks(src[j], Ahead(src, j)) \in First(k - 1)
        OBVIOUS
      <4>3. Ranks(src[j], Ahead(src, j)) \in Held(v)
        <5> HIDE DEF First, v
        <5> QED BY <2>5, <4>2
      <4> QED BY <4>1, <4>3 DEF DueWith, Ranks
    <3> QED BY <3>1, <3>2
  <2>9. f[k] = AddNode(v, n, now)
    BY <1>7
  <2>10. First(k) = First(k - 1) \cup {Ranks(n, Ahead(src, k))}
    <3>1. 1 .. k = (1 .. k - 1) \cup {k}
      BY <1>2
    <3> QED BY <3>1
  <2> HIDE DEF First, n, v
  <2>11. /\ WellPut(AddNode(v, n, now), now)
         /\ Held(AddNode(v, n, now)) = Held(v) \cup {Ranks(n, DueWith(v, n.expire))}
    BY <2>1, <2>5, <2>7, AddHeld
  <2> QED BY <2>5, <2>8, <2>9, <2>10, <2>11
<1> HIDE DEF Done
<1>11. ASSUME T # {} PROVE FALSE
  <2>1. T \subseteq Nat
    BY <1>2
  <2> HIDE DEF T
  <2>2. PICK k \in T : \A j \in T : k <= j
    BY <1>11, <2>1, Least
  <2>3. k \in 0 .. N /\ ~ Done(k)
    BY <2>2 DEF T
  <2>4. k # 0
    BY <1>9, <2>3
  <2>5. k - 1 \in 0 .. N /\ k - 1 \notin T /\ k \in 1 .. N
    BY <1>2, <2>2, <2>3, <2>4
  <2>6. Done(k - 1)
    BY <2>5 DEF T
  <2> QED BY <1>10, <2>3, <2>5, <2>6
<1>12. Done(N)
  BY <1>2, <1>11
<1> QED BY <1>4, <1>8, <1>12 DEF Done

\* Every node of a wheel is set for the near half of the clock.
InTime(w, t) == \A x \in Held(w) : ToGo(x.node.expire, t) \in 1 .. Clock \div 2 - 1

\* The nodes a wheel holds are those of its slots.
LEMMA HeldNodes ==
  ASSUME NEW w, IsWheel(w), NEW x \in Held(w)
  PROVE  x.node \in Node /\ x = Ranks(x.node, x.behind)
<1>1. PICK a \in Addresses : \E j \in 1 .. Len(ListAt(w, a)) : x = Ranks(ListAt(w, a)[j], Ahead(ListAt(w, a), j))
  BY HeldIs
<1>2. PICK j \in 1 .. Len(ListAt(w, a)) : x = Ranks(ListAt(w, a)[j], Ahead(ListAt(w, a), j))
  BY <1>1
<1>3. ListAt(w, a) \in Seq(Node)
  BY ListsAre
<1> DEFINE L == ListAt(w, a)
<1>4. L[j] \in Node
  <2> HIDE DEF L
  <2> QED BY <1>2, <1>3 DEF L
<1> QED BY <1>2, <1>4 DEF Ranks

\* timer_shift keeps every node, in its order, and every node is where it belongs at the
\* next tick.
LEMMA ShiftHeld ==
  ASSUME NEW w, NEW t \in 0 .. Clock - 1, NEW now \in 0 .. Clock - 1, now = (t + 1) % Clock,
         WellPut(w, t), InTime(w, t)
  PROVE  WellPut(Shift(w, now), now) /\ Held(Shift(w, now)) = Held(w)
<1>1. ASSUME NEW a \in Addresses, a # Emptied(now), NEW j \in 1 .. Len(ListAt(w, a))
      PROVE  Home(ListAt(w, a)[j].expire, now) = a
  <2> DEFINE x == Ranks(ListAt(w, a)[j], Ahead(ListAt(w, a), j))
             e == ListAt(w, a)[j].expire
  <2>1. x \in Held(w)
    BY HeldIs
  <2>2. x.node = ListAt(w, a)[j]
    BY DEF Ranks
  <2>3. x.node \in Node
    BY <2>1, HeldNodes DEF WellPut
  <2>4. e \in 0 .. Clock - 1 /\ ToGo(e, t) \in 1 .. Clock \div 2 - 1
    <3> HIDE DEF x
    <3> QED BY <2>1, <2>2, <2>3 DEF InTime, Node
  <2>5. Home(e, t) = a
    BY DEF WellPut, Placed
  <2> HIDE DEF e
  <2>6. Home(e, now) = a
    BY <1>1, <2>4, <2>5, HomeKept
  <2> QED BY <2>6 DEF e
<1>2. \A n \in Node : Home(n.expire, now) \in Addresses
  BY HomeIs DEF Node
<1>3. 0 \in 0 .. Level - 1 /\ 3 \in 0 .. 3
  BY WheelSizeAssumption
<1>7. ASSUME NEW l \in 0 .. 3, NEW i \in 0 .. Level - 1, Emptied(now) = <<l, i>>
      PROVE  WellPut(MoveList(w, l, i, now), now) /\ Held(MoveList(w, l, i, now)) = Held(w)
  <2>1. \A a \in Addresses \ {<<l, i>>} : \A j \in 1 .. Len(ListAt(w, a)) :
          Home(ListAt(w, a)[j].expire, now) = a
    BY <1>1, <1>7
  <2> QED BY <1>2, <2>1, MoveHeld
<1>4. CASE Wrapped(now)
  <2>1. Shift(w, now) = MoveList(w, 3, 0, now) /\ Emptied(now) = <<3, 0>>
    BY <1>4 DEF Shift, Emptied
  <2> QED BY <1>3, <1>7, <2>1
<1>5. CASE ~ Wrapped(now) /\ Begins(now) = {}
  <2>1. Shift(w, now) = w /\ Emptied(now) = <<-2, 0>>
    BY <1>5 DEF Shift, Emptied, Begins
  <2>2. <<-2, 0>> \notin Addresses
    BY DEF Addresses
  <2>3. Placed(w, now)
    BY <1>1, <2>1, <2>2 DEF Placed
  <2> QED BY <2>1, <2>3 DEF WellPut
<1>6. CASE ~ Wrapped(now) /\ Begins(now) # {}
  <2> DEFINE l == Lowest(now)
  <2>1. l \in Begins(now)
    <3>1. Begins(now) \subseteq Nat
      BY DEF Begins
    <3>2. \E k \in Begins(now) : \A m \in Begins(now) : k <= m
      BY <1>6, <3>1, Least
    <3> QED BY <3>2 DEF Lowest
  <2>2. l \in 0 .. 3 /\ Index(now, l) \in 0 .. Level - 1
    <3>1. l \in 0 .. 3
      BY <2>1 DEF Begins
    <3> QED BY <3>1, Rounds
  <2>3. Shift(w, now) = MoveList(w, l, Index(now, l), now) /\ Emptied(now) = <<l, Index(now, l)>>
    BY <1>6 DEF Shift, Emptied, Begins, Lowest
  <2> HIDE DEF l
  <2> QED BY <1>7, <2>2, <2>3
<1> QED BY <1>4, <1>5, <1>6

\* The near list of a time has the nodes of this time, and no other.
LEMMA NearIsDue ==
  ASSUME NEW now \in 0 .. Clock - 1, NEW e \in 0 .. Clock - 1
  PROVE  /\ <<-1, now % Near>> \in Addresses
         /\ Home(e, now) = <<-1, now % Near>> <=> e = now
<1>1. <<-1, now % Near>> \in Addresses
  BY Rounds DEF Addresses
<1>2. ASSUME Home(e, now) = <<-1, now % Near>> PROVE e = now
  <2>1. Home(e, now)[1] = -1
    BY <1>2
  <2>2. Round(e, 0) = Round(now, 0) /\ Home(e, now) = <<-1, e % Near>>
    BY <2>1, HomeIs
  <2>3. e % Near = now % Near
    BY <1>2, <2>2
  <2>4. e = Near * Round(e, 0) + (e % Near) /\ now = Near * Round(now, 0) + (now % Near)
    BY Rounds
  <2> QED BY <2>2, <2>3, <2>4
<1>3. Home(now, now) = <<-1, now % Near>>
  BY HomeIs
<1> QED BY <1>1, <1>2, <1>3

\* timer_execute takes what is due, and nothing else.
Taken(w, now) == [near |-> [w.near EXCEPT ![now % Near] = <<>>], level |-> w.level]
Due(w, now) == ListAt(w, <<-1, now % Near>>)

\* timer_execute takes the whole current slot: the wheel keeps its invariant,
\* and what was in that slot is what is taken.
LEMMA TakenDoes ==
  ASSUME NEW w, NEW now \in 0 .. Clock - 1, WellPut(w, now)
  PROVE  /\ WellPut(Taken(w, now), now)
         /\ Held(Taken(w, now)) = {x \in Held(w) : x.node.expire # now}
         /\ Due(w, now) \in Seq(Node)
         /\ \A j \in 1 .. Len(Due(w, now)) : Due(w, now)[j].expire = now
         /\ \A j, k \in 1 .. Len(Due(w, now)) : Due(w, now)[j].timer = Due(w, now)[k].timer => j = k
         /\ {x \in Held(w) : x.node.expire = now} = Ranked(Due(w, now))
<1> DEFINE h == <<-1, now % Near>>
           i == now % Near
           v == Taken(w, now)
           L == Due(w, now)
<1>1. h \in Addresses /\ i \in 0 .. Near - 1
  BY NearIsDue, Rounds
<1>2. v.near = [w.near EXCEPT ![i] = <<>>] /\ v.level = w.level
      /\ w.near \in [0 .. Near - 1 -> Seq(Node)]
      /\ w.level \in [0 .. 3 -> [0 .. Level - 1 -> Seq(Node)]]
  BY DEF Taken, WellPut, IsWheel
<1>3. IsWheel(v)
  <2>1. <<>> \in Seq(Node)
    OBVIOUS
  <2>2. [w.near EXCEPT ![i] = <<>>] \in [0 .. Near - 1 -> Seq(Node)]
    BY <1>2, <2>1
  <2> QED BY <1>2, <2>2 DEF Taken, IsWheel
<1>4. ASSUME NEW a \in Addresses PROVE ListAt(v, a) = IF a = h THEN <<>> ELSE ListAt(w, a)
  <2> HIDE DEF v
  <2>1. CASE a[1] = -1
    <3>1. a = <<-1, a[2]>> /\ a[2] \in 0 .. Near - 1
      BY <2>1 DEF Addresses
    <3>2. a = h <=> a[2] = i
      BY <3>1
    <3> HIDE DEF h, i
    <3> QED BY <1>1, <1>2, <2>1, <3>1, <3>2 DEF ListAt
  <2>2. CASE a[1] # -1
    BY <1>2, <2>2 DEF ListAt
  <2> QED BY <2>1, <2>2
<1>5. \A a \in Addresses : ListAt(w, a) \in Seq(Node)
  BY ListsAre DEF WellPut
<1>6. \A a \in Addresses : \A j \in 1 .. Len(ListAt(w, a)) :
        ListAt(w, a)[j] \in Node /\ (a = h <=> ListAt(w, a)[j].expire = now)
  <2> SUFFICES ASSUME NEW a \in Addresses, NEW j \in 1 .. Len(ListAt(w, a))
               PROVE  ListAt(w, a)[j] \in Node /\ (a = h <=> ListAt(w, a)[j].expire = now)
    OBVIOUS
  <2> DEFINE M == ListAt(w, a)
  <2>1. M[j] \in Node
    <3>1. M \in Seq(Node) /\ j \in 1 .. Len(M)
      BY <1>5
    <3> HIDE DEF M
    <3> QED BY <3>1
  <2>2. Home(M[j].expire, now) = a
    BY DEF WellPut, Placed
  <2>3. M[j].expire \in 0 .. Clock - 1
    BY <2>1 DEF Node
  <2> HIDE DEF M
  <2>4. a = h <=> M[j].expire = now
    BY <2>2, <2>3, NearIsDue
  <2> QED BY <2>1, <2>4 DEF M
<1> HIDE DEF v, h
<1>7. WellPut(v, now)
  <2>1. \A a \in Addresses : \A j \in 1 .. Len(ListAt(v, a)) :
          j \in 1 .. Len(ListAt(w, a)) /\ ListAt(v, a)[j] = ListAt(w, a)[j]
    <3>1. Len(<<>>) = 0
      OBVIOUS
    <3> QED BY <1>4, <3>1
  <2> QED BY SMTT(60), <1>3, <2>1 DEF WellPut, Placed, Apart
<1>8. Held(v) = {x \in Held(w) : x.node.expire # now}
  <2>1. ASSUME NEW x \in Held(v) PROVE x \in Held(w) /\ x.node.expire # now
    <3>1. PICK a \in Addresses : \E j \in 1 .. Len(ListAt(v, a)) : x = Ranks(ListAt(v, a)[j], Ahead(ListAt(v, a), j))
      BY HeldIs
    <3>2. PICK j \in 1 .. Len(ListAt(v, a)) : x = Ranks(ListAt(v, a)[j], Ahead(ListAt(v, a), j))
      BY <3>1
    <3>3. a # h /\ ListAt(v, a) = ListAt(w, a)
      <4>1. Len(<<>>) = 0
        OBVIOUS
      <4> QED BY <1>4, <3>2, <4>1
    <3>4. x.node.expire # now
      BY <1>6, <3>2, <3>3 DEF Ranks
    <3> QED BY <3>2, <3>3, <3>4, HeldIs
  <2>2. ASSUME NEW x \in Held(w), x.node.expire # now PROVE x \in Held(v)
    <3>1. PICK a \in Addresses : \E j \in 1 .. Len(ListAt(w, a)) : x = Ranks(ListAt(w, a)[j], Ahead(ListAt(w, a), j))
      BY HeldIs
    <3>2. PICK j \in 1 .. Len(ListAt(w, a)) : x = Ranks(ListAt(w, a)[j], Ahead(ListAt(w, a), j))
      BY <3>1
    <3>3. a # h
      BY <1>6, <2>2, <3>2 DEF Ranks
    <3> QED BY <1>4, <3>2, <3>3, HeldIs
  <2> QED BY <2>1, <2>2
<1>9. L = ListAt(w, h)
  BY DEF Due, h
<1>10. {x \in Held(w) : x.node.expire = now} = Ranked(L)
  <2>1. ASSUME NEW x \in Held(w), x.node.expire = now PROVE x \in Ranked(L)
    <3>1. PICK a \in Addresses : \E j \in 1 .. Len(ListAt(w, a)) : x = Ranks(ListAt(w, a)[j], Ahead(ListAt(w, a), j))
      BY HeldIs
    <3>2. PICK j \in 1 .. Len(ListAt(w, a)) : x = Ranks(ListAt(w, a)[j], Ahead(ListAt(w, a), j))
      BY <3>1
    <3>3. a = h
      BY <1>6, <2>1, <3>2 DEF Ranks
    <3> QED BY <1>9, <3>2, <3>3 DEF Ranked, Ranks
  <2>2. ASSUME NEW x \in Ranked(L) PROVE x \in Held(w) /\ x.node.expire = now
    <3>1. PICK j \in 1 .. Len(L) : x = Ranks(L[j], Ahead(L, j))
      BY DEF Ranked, Ranks
    <3>2. x \in Held(w)
      BY <1>1, <1>9, <3>1, HeldIs
    <3>3. x.node.expire = now
      BY <1>1, <1>6, <1>9, <3>1 DEF Ranks
    <3> QED BY <3>2, <3>3
  <2> HIDE DEF L
  <2> QED BY <2>1, <2>2
<1>11. L \in Seq(Node)
  BY <1>1, <1>5, <1>9
<1>12. \A j \in 1 .. Len(L) : L[j].expire = now
  BY <1>1, <1>6, <1>9
<1>13. \A j, k \in 1 .. Len(L) : L[j].timer = L[k].timer => j = k
  BY <1>1, <1>9 DEF WellPut, Apart
<1> QED BY <1>7, <1>8, <1>10, <1>11, <1>12, <1>13 DEF v

-----------------------------------------------------------------------------
(* The wheel implements the timer service *)

\* Different values are as many as their places.
LEMMA AsManyAs ==
  ASSUME NEW N \in Nat, NEW f, \A j, k \in 1 .. N : f[j] = f[k] => j = k
  PROVE  Cardinality({f[j] : j \in 1 .. N}) = N
<1> DEFINE T == {f[j] : j \in 1 .. N}
           g == [j \in 1 .. N |-> f[j]]
<1>1. g \in [1 .. N -> T] /\ (\A j, k \in 1 .. N : g[j] = g[k] => j = k) /\ (\A y \in T : \E j \in 1 .. N : g[j] = y)
  OBVIOUS
<1> HIDE DEF T, g
<1>2. g \in Bijection(1 .. N, T)
  BY <1>1, Fun_IsBij
<1>3. ExistsBijection(1 .. N, T)
  BY <1>2 DEF ExistsBijection
<1>4. IsFiniteSet(1 .. N) /\ Cardinality(1 .. N) = N
  BY FS_Interval
<1>5. Cardinality(T) = Cardinality(1 .. N)
  BY <1>3, <1>4, FS_Bijection
<1> QED BY <1>4, <1>5 DEF T

\* What the service sees of a node.
See(x, now) == [timer |-> x.node.timer, left |-> ToGo(x.node.expire, now), behind |-> x.behind]
Seen(w, now) == {See(x, now) : x \in Held(w)}
WaitingIsSeen == Waiting = Seen(Wheel, time)

\* What the service sees waiting are the nodes the wheel holds, each with its wait.
LEMMA WaitingIs == IsWheel(Wheel) => WaitingIsSeen
<1> SUFFICES ASSUME IsWheel(Wheel) PROVE Waiting = Seen(Wheel, time)
  BY DEF WaitingIsSeen
<1>1. Slots = {ListAt(Wheel, a) : a \in Addresses}
  <2>1. ASSUME NEW a \in Addresses PROVE ListAt(Wheel, a) \in Slots
    BY DEF Addresses, ListAt, Wheel, Slots
  <2>2. ASSUME NEW s \in Slots PROVE \E a \in Addresses : s = ListAt(Wheel, a)
    <3>1. CASE \E i \in 0 .. Near - 1 : s = near[i]
      <4>1. PICK i \in 0 .. Near - 1 : s = near[i]
        BY <3>1
      <4>2. <<-1, i>> \in Addresses /\ ListAt(Wheel, <<-1, i>>) = near[i]
        BY DEF Addresses, ListAt, Wheel
      <4> QED BY <4>1, <4>2
    <3>2. CASE \E l \in 0 .. 3, i \in 0 .. Level - 1 : s = level[l][i]
      <4>1. PICK l \in 0 .. 3, i \in 0 .. Level - 1 : s = level[l][i]
        BY <3>2
      <4>2. <<l, i>> \in Addresses /\ ListAt(Wheel, <<l, i>>) = level[l][i]
        BY DEF Addresses, ListAt, Wheel
      <4> QED BY <4>1, <4>2
    <3> QED BY <3>1, <3>2 DEF Slots
  <2> QED BY <2>1, <2>2
<1>2. ASSUME NEW L \in Seq(Node) PROVE Entries(L) = {See(x, time) : x \in Ranked(L)}
  <2>1. DOMAIN L = 1 .. Len(L)
    OBVIOUS
  <2>2. Entries(L) = {[timer |-> L[j].timer, left |-> ToGo(L[j].expire, time), behind |-> Ahead(L, j)] : j \in 1 .. Len(L)}
    BY <2>1 DEF Entries, ToGo, Ahead
  <2>3. ASSUME NEW j \in 1 .. Len(L)
        PROVE  See([node |-> L[j], behind |-> Ahead(L, j)], time)
                 = [timer |-> L[j].timer, left |-> ToGo(L[j].expire, time), behind |-> Ahead(L, j)]
    BY DEF See
  <2>4. {See(x, time) : x \in Ranked(L)} = {See([node |-> L[j], behind |-> Ahead(L, j)], time) : j \in 1 .. Len(L)}
    BY DEF Ranked
  <2> QED BY <2>2, <2>3, <2>4
<1>3. \A a \in Addresses : ListAt(Wheel, a) \in Seq(Node)
  BY ListsAre
<1>4. ASSUME NEW p PROVE p \in Waiting <=> \E a \in Addresses : p \in {See(x, time) : x \in Ranked(ListAt(Wheel, a))}
  <2>1. p \in Waiting <=> \E a \in Addresses : p \in Entries(ListAt(Wheel, a))
    BY <1>1 DEF Waiting
  <2> QED BY <1>2, <1>3, <2>1
<1>5. ASSUME NEW p PROVE p \in Waiting <=> p \in Seen(Wheel, time)
  BY <1>4 DEF Seen, Held
<1> QED BY <1>5

\* The ticks to go: what is set, what a tick takes off, and that they tell the times apart.
LEMMA ToGoOnce ==
  ASSUME NEW t \in 0 .. Clock - 1, NEW e \in 0 .. Clock - 1, NEW f \in 0 .. Clock - 1, ToGo(e, t) = ToGo(f, t)
  PROVE  e = f
<1>1. Clock \in Nat \ {0}
  BY Spans DEF Clock
<1>2. ToGo(e, t) = (IF e >= t THEN e - t ELSE e - t + Clock) /\ ToGo(f, t) = (IF f >= t THEN f - t ELSE f - t + Clock)
  BY ToGoIs
<1>3. (IF e >= t THEN e - t ELSE e - t + Clock) = (IF f >= t THEN f - t ELSE f - t + Clock)
  BY <1>2
<1> HIDE DEF Clock
<1>4. CASE e >= t
  <2>1. f >= t
    BY <1>1, <1>3, <1>4
  <2> QED BY <1>1, <1>3, <1>4, <2>1
<1>5. CASE ~ (e >= t)
  <2>1. ~ (f >= t)
    BY <1>1, <1>3, <1>5
  <2> QED BY <1>1, <1>3, <1>5, <2>1
<1> QED BY <1>4, <1>5

\* A timer that is set has its delay to wait.
LEMMA ToGoSet ==
  ASSUME NEW t \in 0 .. Clock - 1, NEW d \in 1 .. Clock \div 2 - 1
  PROVE  (t + d) % Clock \in 0 .. Clock - 1 /\ ToGo((t + d) % Clock, t) = d
<1>1. Clock \in Nat \ {0}
  BY Spans DEF Clock
<1> HIDE DEF Clock
<1> DEFINE e == (t + d) % Clock
<1>2. CASE t + d < Clock
  <2>1. e = t + d
    BY <1>1, <1>2, Small
  <2> HIDE DEF e
  <2>2. e \in 0 .. Clock - 1 /\ e >= t
    BY <1>1, <1>2, <2>1
  <2>3. ToGo(e, t) = e - t
    BY <2>2, ToGoIs
  <2> QED BY <1>1, <2>1, <2>2, <2>3 DEF e
<1>3. CASE t + d >= Clock
  <2>1. t + d = Clock * 1 + (t + d - Clock) /\ t + d - Clock \in 0 .. Clock - 1
    BY <1>1, <1>3
  <2>2. ASSUME NEW q \in Int, NEW r \in 0 .. Clock - 1, t + d = Clock * q + r PROVE (t + d) % Clock = r
    BY <1>1, <2>2, Quotient
  <2>3. e = t + d - Clock
    BY <2>1, <2>2
  <2> HIDE DEF e
  <2>4. e \in 0 .. Clock - 1 /\ ~ (e >= t)
    BY <1>1, <2>1, <2>3
  <2>5. ToGo(e, t) = e - t + Clock
    BY <2>4, ToGoIs
  <2> QED BY <1>1, <2>3, <2>4, <2>5 DEF e
<1> QED BY <1>1, <1>2, <1>3

\* A tick takes one from the wait of every node that is not due.
LEMMA ToGoNext ==
  ASSUME NEW t \in 0 .. Clock - 1, NEW now, now = (t + 1) % Clock,
         NEW e \in 0 .. Clock - 1, ToGo(e, t) \in 1 .. Clock \div 2 - 1
  PROVE  /\ now \in 0 .. Clock - 1
         /\ ToGo(e, t) = 1 <=> e = now
         /\ ToGo(e, now) = ToGo(e, t) - 1
<1>1. Clock \in Nat \ {0}
  BY Spans DEF Clock
<1>2. ToGo(e, t) = IF e >= t THEN e - t ELSE e - t + Clock
  BY ToGoIs
<1>3. now = (IF t = Clock - 1 THEN 0 ELSE t + 1)
  <2> HIDE DEF Clock
  <2>1. CASE t = Clock - 1
    BY <1>1, <2>1
  <2>2. CASE t # Clock - 1
    <3>1. t + 1 \in 0 .. Clock - 1
      BY <1>1, <2>2
    <3> QED BY <1>1, <2>2, <3>1, Small
  <2> QED BY <2>1, <2>2
<1>4. now \in 0 .. Clock - 1
  <2> HIDE DEF Clock
  <2> QED BY <1>1, <1>3
<1>5. ToGo(e, now) = IF e >= now THEN e - now ELSE e - now + Clock
  BY <1>4, ToGoIs
<1> HIDE DEF Clock
<1> QED BY <1>1, <1>2, <1>3, <1>4, <1>5

\* The wheel between two steps of its threads.
WheelInv ==
  /\ time \in 0 .. Clock - 1
  /\ WellPut(Wheel, time)
  /\ InTime(Wheel, time)
  /\ firing \in Seq(Node)
  /\ ticking \in BOOLEAN

\* The wheel of the state is its two variables.
LEMMA WheelOf ==
  ASSUME NEW w, IsWheel(w), near' = w.near, level' = w.level
  PROVE  Wheel' = w
<1>1. w = [near |-> w.near, level |-> w.level]
  BY DEF IsWheel
<1> QED BY <1>1 DEF Wheel

\* A timer that is set is behind those of its tick.
LEMMA AddIs ==
  ASSUME WheelInv, NEW n \in Timer, Add(n)
  PROVE  WheelInv' /\ Service!Add
<1>1. PICK d \in Delay :
        LET w == AddNode(Wheel, [timer |-> n, expire |-> Expire(d)], time)
        IN  near' = w.near /\ level' = w.level
  BY DEF Add
<1>2. Free(n) /\ time' = time /\ firing' = firing /\ ticking' = ticking
  BY DEF Add
<1> DEFINE e == Expire(d)
           m == [timer |-> n, expire |-> e]
           w == AddNode(Wheel, m, time)
           r == Ranks(m, DueWith(Wheel, e))
<1>3. d \in 1 .. Clock \div 2 - 1 /\ e \in 0 .. Clock - 1 /\ ToGo(e, time) = d
  <2>1. d \in 1 .. Clock \div 2 - 1 /\ time \in 0 .. Clock - 1
    BY DelayAssumption DEF WheelInv
  <2> QED BY <2>1, ToGoSet DEF Expire
<1> HIDE DEF e
<1>4. m \in Node /\ m.expire = e /\ m.timer = n
  BY <1>3 DEF Node
<1>5. \A x \in Held(Wheel) : x.node.timer # n
  <2> SUFFICES ASSUME NEW x \in Held(Wheel) PROVE x.node.timer # n
    OBVIOUS
  <2>1. PICK a \in Addresses : \E j \in 1 .. Len(ListAt(Wheel, a)) : x = Ranks(ListAt(Wheel, a)[j], Ahead(ListAt(Wheel, a), j))
    BY HeldIs
  <2>2. PICK j \in 1 .. Len(ListAt(Wheel, a)) : x = Ranks(ListAt(Wheel, a)[j], Ahead(ListAt(Wheel, a), j))
    BY <2>1
  <2>3. ListAt(Wheel, a) \in Slots /\ ListAt(Wheel, a) \in Seq(Node)
    <3>1. ListAt(Wheel, a) \in Slots
      BY DEF Addresses, ListAt, Wheel, Slots
    <3> QED BY <3>1, ListsAre DEF WheelInv, WellPut
  <2>4. ListAt(Wheel, a)[j] \in NodesOf(ListAt(Wheel, a))
    <3> DEFINE L == ListAt(Wheel, a)
    <3>1. L \in Seq(Node) /\ j \in 1 .. Len(L)
      BY <2>3
    <3> HIDE DEF L
    <3>2. L[j] \in NodesOf(L)
      BY <3>1 DEF NodesOf
    <3> QED BY <3>2 DEF L
  <2>5. ListAt(Wheel, a)[j] \in Pending
    BY <2>3, <2>4 DEF Pending
  <2> QED BY <1>2, <2>2, <2>5 DEF Free, Ranks
<1>6. time \in 0 .. Clock - 1 /\ WellPut(Wheel, time)
  BY DEF WheelInv
<1>7. Home(e, time) \in Addresses
  BY <1>3, <1>6, HomeIs
<1>8. WellPut(w, time) /\ Held(w) = Held(Wheel) \cup {r}
  <2> HIDE DEF m
  <2> QED BY <1>4, <1>5, <1>6, <1>7, AddHeld
<1>9. Wheel' = w
  <2>1. IsWheel(w) /\ near' = w.near /\ level' = w.level
    BY <1>1, <1>8 DEF WellPut, e
  <2> HIDE DEF w
  <2> QED BY <2>1, WheelOf
<1> HIDE DEF w
<1>10. r.node = m
  BY DEF Ranks
<1>11. InTime(w, time)
  <2>1. ToGo(r.node.expire, time) \in 1 .. Clock \div 2 - 1
    BY <1>3, <1>4, <1>10
  <2> HIDE DEF r
  <2> QED BY <1>8, <2>1 DEF WheelInv, InTime
<1>12. WheelInv'
  BY <1>2, <1>8, <1>9, <1>11 DEF WheelInv
<1>13. Waiting = Seen(Wheel, time) /\ Waiting' = Seen(w, time)
  <2>1. IsWheel(Wheel) /\ IsWheel(Wheel)'
    BY <1>12 DEF WheelInv, WellPut
  <2>2. WaitingIsSeen /\ WaitingIsSeen'
    BY <2>1, WaitingIs, PTL
  <2> QED BY <1>2, <1>9, <2>2 DEF WaitingIsSeen
<1> DEFINE p == See(r, time)
<1>14. Waiting' = Waiting \cup {p}
  <2> HIDE DEF r
  <2> QED BY <1>8, <1>13 DEF Seen
<1>15. p \notin Waiting /\ p.timer \in Timer /\ p.left = d
  <2>1. p.timer = n /\ p.left = d
    BY <1>3, <1>4, <1>10 DEF See
  <2>2. \A q \in Waiting : q.timer # n
    BY <1>5, <1>13 DEF Seen, See
  <2> HIDE DEF p
  <2> QED BY <2>1, <2>2
<1>16. p.behind = {q.timer : q \in {y \in Waiting : y.left = p.left}}
  <2>1. p.behind = DueWith(Wheel, e)
    BY DEF See, Ranks
  <2>2. ASSUME NEW x \in Held(Wheel)
        PROVE  See(x, time) \in Waiting /\ See(x, time).timer = x.node.timer
               /\ (See(x, time).left = p.left <=> x.node.expire = e)
    <3>1. x.node.expire \in 0 .. Clock - 1
      BY <1>6, HeldNodes DEF WellPut, Node
    <3>2. See(x, time) \in Waiting
      BY <1>13 DEF Seen
    <3>3. See(x, time).timer = x.node.timer /\ See(x, time).left = ToGo(x.node.expire, time)
      BY DEF See
    <3>4. x.node.expire = e <=> ToGo(x.node.expire, time) = ToGo(e, time)
      BY <1>3, <1>6, <3>1, ToGoOnce
    <3> HIDE DEF p
    <3> QED BY <1>3, <1>15, <3>2, <3>3, <3>4
  <2>3. \A q \in Waiting : \E x \in Held(Wheel) : q = See(x, time)
    BY <1>13 DEF Seen
  <2> HIDE DEF p
  <2>4. ASSUME NEW u PROVE u \in DueWith(Wheel, e) <=> u \in {q.timer : q \in {y \in Waiting : y.left = p.left}}
    <3>1. ASSUME u \in DueWith(Wheel, e) PROVE u \in {q.timer : q \in {y \in Waiting : y.left = p.left}}
      <4>1. PICK x \in Held(Wheel) : x.node.expire = e /\ u = x.node.timer
        BY <3>1 DEF DueWith
      <4> QED BY <2>2, <4>1
    <3>2. ASSUME u \in {q.timer : q \in {y \in Waiting : y.left = p.left}} PROVE u \in DueWith(Wheel, e)
      <4>1. PICK q \in Waiting : q.left = p.left /\ u = q.timer
        BY <3>2
      <4>2. PICK x \in Held(Wheel) : q = See(x, time)
        BY <2>3
      <4>3. x.node.expire = e /\ u = x.node.timer
        BY <2>2, <4>1, <4>2
      <4> QED BY <4>3 DEF DueWith
    <3> QED BY <3>1, <3>2
  <2> QED BY <2>1, <2>4
<1> HIDE DEF p
<1>17. Service!Add
  <2>1. p \in Waiting' \ Waiting
    BY <1>14, <1>15
  <2> QED BY <1>2, <1>14, <1>15, <1>16, <2>1 DEF Service!Add, Served
<1> QED BY <1>12, <1>17

\* A message of this tick is pushed.
LEMMA DispatchIs ==
  ASSUME WheelInv, Dispatch
  PROVE  WheelInv' /\ Service!Fire
<1>1. firing # <<>> /\ firing' = Tail(firing) /\ UNCHANGED <<time, near, level, ticking>>
  BY DEF Dispatch
<1>2. Wheel' = Wheel /\ Waiting' = Waiting
  BY <1>1 DEF Wheel, Waiting, Slots, Entries
<1>3. firing \in Seq(Node) /\ firing' \in Seq(Node)
  BY <1>1 DEF WheelInv
<1>4. WheelInv'
  BY <1>1, <1>2, <1>3 DEF WheelInv
<1>5. Served # <<>> /\ Served' = Tail(Served)
  <2>1. DOMAIN firing = 1 .. Len(firing) /\ Len(firing) \in Nat /\ Len(firing) # 0
    BY <1>1, <1>3
  <2>2. Served = [i \in 1 .. Len(firing) |-> firing[i].timer]
    BY <2>1 DEF Served
  <2>3. Served' = [i \in 1 .. Len(firing) - 1 |-> firing[i + 1].timer]
    <3>1. DOMAIN firing' = 1 .. Len(firing) - 1 /\ \A i \in 1 .. Len(firing) - 1 : firing'[i] = firing[i + 1]
      BY <1>1, <1>3, <2>1
    <3> QED BY <3>1 DEF Served
  <2>4. \A i \in 1 .. Len(firing) : firing[i].timer \in Timer
    <3>1. \A i \in 1 .. Len(firing) : firing[i] \in Node
      BY <1>3
    <3> QED BY <3>1 DEF Node
  <2>5. Served \in Seq(Timer) /\ Len(Served) = Len(firing)
    BY <2>1, <2>2, <2>4
  <2> DEFINE N == Len(firing)
  <2> HIDE DEF N
  <2>6. Tail(Served) = [i \in 1 .. N - 1 |-> Served[i + 1]]
    <3> DEFINE s == Served
    <3>1. s \in Seq(Timer) /\ Len(s) = N /\ N \in Nat /\ N # 0
      BY <2>1, <2>5 DEF N
    <3> HIDE DEF s
    <3>2. Tail(s) \in Seq(Timer) /\ Len(Tail(s)) = N - 1 /\ \A i \in 1 .. N - 1 : Tail(s)[i] = s[i + 1]
      BY <3>1
    <3>3. ASSUME NEW q \in Seq(Timer), Len(q) = N - 1 PROVE q = [i \in 1 .. N - 1 |-> q[i]]
      BY <3>3
    <3>4. Tail(s) = [i \in 1 .. N - 1 |-> Tail(s)[i]]
      BY <3>2, <3>3
    <3>5. [i \in 1 .. N - 1 |-> Tail(s)[i]] = [i \in 1 .. N - 1 |-> s[i + 1]]
      BY <3>2
    <3> QED BY <3>4, <3>5 DEF s
  <2> QED BY <2>1, <2>2, <2>3, <2>5, <2>6 DEF N
<1>6. Service!Fire
  BY <1>2, <1>5 DEF Service!Fire
<1> QED BY <1>4, <1>6

\* Nothing of the current tick is left in the wheel.
LEMMA NothingDue ==
  ASSUME WheelInv
  PROVE  near[time % Near] = <<>> /\ time % Near \in 0 .. Near - 1
<1>1. time \in 0 .. Clock - 1 /\ WellPut(Wheel, time) /\ InTime(Wheel, time)
  BY DEF WheelInv
<1> DEFINE L == Due(Wheel, time)
<1>2. /\ L \in Seq(Node) /\ Ranked(L) \subseteq Held(Wheel)
      /\ \A j \in 1 .. Len(L) : L[j].expire = time
  <2>1. /\ L \in Seq(Node)
        /\ \A j \in 1 .. Len(L) : L[j].expire = time
        /\ {x \in Held(Wheel) : x.node.expire = time} = Ranked(L)
    BY <1>1, TakenDoes
  <2> HIDE DEF L
  <2> QED BY <2>1
<1>3. L = near[time % Near]
  BY DEF Due, ListAt, Wheel
<1> HIDE DEF L
<1>4. ASSUME L # <<>> PROVE FALSE
  <2>1. 1 \in 1 .. Len(L)
    BY <1>2, <1>4
  <2> DEFINE x == [node |-> L[1], behind |-> Ahead(L, 1)]
  <2>2. x \in Held(Wheel)
    <3>1. x \in Ranked(L)
      BY <2>1 DEF Ranked
    <3> QED BY <1>2, <3>1
  <2>3. x.node.expire = time
    BY <1>2, <2>1
  <2> HIDE DEF x
  <2>4. ToGo(time, time) # 0
    BY <1>1, <2>2, <2>3 DEF InTime
  <2>5. ToGo(time, time) = time - time
    <3>1. Clock \in Nat
      BY Spans DEF Clock
    <3>2. ToGo(time, time) = IF time >= time THEN time - time ELSE time - time + Clock
      BY <1>1, ToGoIs
    <3>3. time \in Int
      <4> HIDE DEF Clock
      <4> QED BY <1>1, <3>1
    <3> QED BY <3>2, <3>3
  <2>6. time \in Int
    <3>1. Clock \in Nat
      BY Spans DEF Clock
    <3> HIDE DEF Clock
    <3> QED BY <1>1, <3>1
  <2> QED BY <2>4, <2>5, <2>6
<1>5. time % Near \in 0 .. Near - 1
  BY <1>1, Rounds
<1> QED BY <1>3, <1>4, <1>5

\* When the list has been dispatched, timer_execute finds nothing more.
LEMMA FinishIs ==
  ASSUME WheelInv, Finish
  PROVE  WheelInv' /\ UNCHANGED <<Waiting, Served>>
<1>1. near[time % Near] = <<>> /\ time % Near \in 0 .. Near - 1
  BY NothingDue
<1>2. near \in [0 .. Near - 1 -> Seq(Node)]
  BY DEF WheelInv, WellPut, IsWheel, Wheel
<1>3. firing' = firing /\ time' = time /\ level' = level /\ near' = near /\ ticking' \in BOOLEAN
  <2>1. /\ firing = <<>> /\ firing' = near[time % Near] /\ time' = time /\ level' = level
        /\ near' = [near EXCEPT ![time % Near] = <<>>] /\ ticking' = (near[time % Near] # <<>>)
    BY DEF Finish, Take, Wheel
  <2> QED BY <1>1, <1>2, <2>1
<1>4. Wheel' = Wheel /\ Waiting' = Waiting /\ Served' = Served
  BY <1>3 DEF Wheel, Waiting, Served, Slots, Entries
<1> QED BY <1>3, <1>4 DEF WheelInv

\* A tick fires what is due in the order it was set, and the rest comes one tick nearer.
LEMMA UpdateIs ==
  ASSUME WheelInv, Update
  PROVE  WheelInv' /\ Service!Tick
<1> DEFINE now == (time + 1) % Clock
           v == Shift(Wheel, now)
           L == Due(v, now)
           N == Len(L)
           w == Taken(v, now)
<1>1. time \in 0 .. Clock - 1 /\ WellPut(Wheel, time) /\ InTime(Wheel, time)
  BY DEF WheelInv
<1>2. firing = <<>> /\ ~ ticking /\ near[time % Near] = <<>>
  BY NothingDue DEF Update
<1>3. time' = now /\ Take(v, now) /\ ticking' = TRUE
  BY <1>2 DEF Update
<1>4. firing' = L /\ near' = w.near /\ level' = w.level
  BY <1>3 DEF Take, Due, ListAt, Taken
<1>5. now \in 0 .. Clock - 1
  <2>1. Clock \in Nat \ {0} /\ time + 1 \in Nat
    BY <1>1, Spans DEF Clock
  <2> HIDE DEF Clock
  <2> QED BY <2>1, Division
<1>6. WellPut(v, now) /\ Held(v) = Held(Wheel)
  BY <1>1, <1>5, ShiftHeld
<1> HIDE DEF now, v
<1>7. /\ WellPut(w, now)
      /\ Held(w) = {x \in Held(Wheel) : x.node.expire # now}
      /\ L \in Seq(Node)
      /\ \A j \in 1 .. N : L[j].expire = now
      /\ \A j, k \in 1 .. N : L[j].timer = L[k].timer => j = k
      /\ {x \in Held(Wheel) : x.node.expire = now} = Ranked(L)
  <2>1. /\ WellPut(Taken(v, now), now)
        /\ Held(Taken(v, now)) = {x \in Held(v) : x.node.expire # now}
        /\ Due(v, now) \in Seq(Node)
        /\ \A j \in 1 .. Len(Due(v, now)) : Due(v, now)[j].expire = now
        /\ \A j, k \in 1 .. Len(Due(v, now)) : Due(v, now)[j].timer = Due(v, now)[k].timer => j = k
        /\ {x \in Held(v) : x.node.expire = now} = Ranked(Due(v, now))
    BY <1>5, <1>6, TakenDoes
  <2> QED BY <1>6, <2>1
<1>8. Wheel' = w
  <2>1. IsWheel(w)
    BY <1>7 DEF WellPut
  <2> HIDE DEF w
  <2> QED BY <1>4, <2>1, WheelOf
<1> HIDE DEF w, L
<1>9. ASSUME NEW x \in Held(Wheel)
      PROVE  /\ x.node.expire \in 0 .. Clock - 1
             /\ ToGo(x.node.expire, time) \in 1 .. Clock \div 2 - 1
             /\ ToGo(x.node.expire, time) = 1 <=> x.node.expire = now
             /\ ToGo(x.node.expire, now) = ToGo(x.node.expire, time) - 1
  <2>1. x.node.expire \in 0 .. Clock - 1
    BY <1>1, HeldNodes DEF WellPut, Node
  <2>2. ToGo(x.node.expire, time) \in 1 .. Clock \div 2 - 1
    BY <1>1 DEF InTime
  <2>3. now = (time + 1) % Clock
    BY DEF now
  <2> QED BY <1>1, <2>1, <2>2, <2>3, ToGoNext
<1>10. InTime(w, now)
  <2> SUFFICES ASSUME NEW x \in Held(w) PROVE ToGo(x.node.expire, now) \in 1 .. Clock \div 2 - 1
    BY DEF InTime
  <2>1. x \in Held(Wheel) /\ x.node.expire # now
    BY <1>7
  <2> DEFINE g == ToGo(x.node.expire, time)
             h == ToGo(x.node.expire, now)
             half == Clock \div 2
  <2>2. g \in 1 .. half - 1 /\ g # 1 /\ h = g - 1
    BY <1>9, <2>1
  <2>3. half \in Int
    BY Spans DEF Clock
  <2> HIDE DEF g, h, half
  <2>4. h \in 1 .. half - 1
    BY <2>2, <2>3
  <2> QED BY <2>4 DEF h, half
<1>11. WheelInv'
  BY <1>3, <1>4, <1>5, <1>7, <1>8, <1>10 DEF WheelInv
<1>12. Waiting = Seen(Wheel, time) /\ Waiting' = Seen(w, now)
  <2>1. IsWheel(Wheel) /\ IsWheel(Wheel)'
    BY <1>11 DEF WheelInv, WellPut
  <2>2. WaitingIsSeen /\ WaitingIsSeen'
    BY <2>1, WaitingIs, PTL
  <2> QED BY <1>3, <1>8, <2>2 DEF WaitingIsSeen
<1> DEFINE due == {p \in Waiting : p.left = 1}
<1>13. due = {See(x, time) : x \in Ranked(L)}
  <2>1. \A x \in Held(Wheel) : See(x, time).left = 1 <=> x.node.expire = now
    BY <1>9 DEF See
  <2>2. due = {See(x, time) : x \in {y \in Held(Wheel) : y.node.expire = now}}
    BY <1>12, <2>1 DEF Seen
  <2> QED BY <1>7, <2>2
<1>14. \A j \in 1 .. N : Ahead(L, j) = {L[k].timer : k \in 1 .. j - 1}
  <2> SUFFICES ASSUME NEW j \in 1 .. N PROVE Ahead(L, j) = {L[k].timer : k \in 1 .. j - 1}
    OBVIOUS
  <2>1. N \in Nat
    BY <1>7
  <2>2. \A k \in 1 .. j - 1 : L[k].expire = L[j].expire
    <3>1. \A k \in 1 .. j - 1 : k \in 1 .. N
      BY <2>1
    <3> QED BY <1>7, <3>1
  <2>3. {i \in 1 .. j - 1 : L[i].expire = L[j].expire} = 1 .. j - 1
    BY <2>2
  <2> QED BY <2>3 DEF Ahead
<1> DEFINE f == [j \in 1 .. N |-> See([node |-> L[j], behind |-> Ahead(L, j)], time)]
<1>15. N \in Nat /\ due = {f[j] : j \in 1 .. N} /\ \A j \in 1 .. N : f[j].timer = L[j].timer /\ f[j].behind = Ahead(L, j)
  <2>1. N \in Nat
    BY <1>7
  <2>2. due = {See([node |-> L[j], behind |-> Ahead(L, j)], time) : j \in 1 .. N}
    BY <1>13 DEF Ranked
  <2>3. \A j \in 1 .. N : f[j].timer = L[j].timer /\ f[j].behind = Ahead(L, j)
    BY DEF See
  <2> HIDE DEF due
  <2> QED BY <2>1, <2>2, <2>3
<1> HIDE DEF f, due
<1>16. Cardinality(due) = N
  <2>1. \A j, k \in 1 .. N : f[j] = f[k] => j = k
    BY <1>7, <1>15
  <2> HIDE DEF N
  <2> QED BY <1>15, <2>1, AsManyAs
<1>17. \A j \in 1 .. N : Cardinality(f[j].behind) = j - 1
  <2> SUFFICES ASSUME NEW j \in 1 .. N PROVE Cardinality(f[j].behind) = j - 1
    OBVIOUS
  <2> DEFINE g == [k \in 1 .. j - 1 |-> L[k].timer]
             M == j - 1
  <2>1. f[j].behind = {g[k] : k \in 1 .. M}
    BY <1>14, <1>15
  <2>2. M \in Nat /\ \A k \in 1 .. M : k \in 1 .. N
    BY <1>15
  <2>3. \A i, k \in 1 .. M : g[i] = g[k] => i = k
    BY <1>7, <2>2
  <2> HIDE DEF g, M
  <2>4. Cardinality({g[k] : k \in 1 .. M}) = M
    BY <2>2, <2>3, AsManyAs
  <2> QED BY <2>1, <2>4 DEF M
<1>18. Served = <<>> /\ Len(Served') = N /\ \A j \in 1 .. N : Served'[j] = L[j].timer
  <2>1. Served = <<>>
    BY <1>2 DEF Served
  <2>2. Served' = [j \in 1 .. N |-> L[j].timer]
    <3>1. DOMAIN L = 1 .. N
      BY <1>7
    <3> QED BY <1>4, <3>1 DEF Served
  <2> QED BY <1>15, <2>1, <2>2
<1>19. \A p \in due : Served'[Cardinality(p.behind) + 1] = p.timer
  <2> SUFFICES ASSUME NEW p \in due PROVE Served'[Cardinality(p.behind) + 1] = p.timer
    OBVIOUS
  <2>1. PICK j \in 1 .. N : p = f[j]
    BY <1>15
  <2>2. Cardinality(p.behind) = j - 1 /\ p.timer = L[j].timer
    BY <1>15, <1>17, <2>1
  <2>3. (j - 1) + 1 = j
    BY <1>15
  <2> QED BY <1>18, <2>2, <2>3
<1>20. Waiting' = {[p EXCEPT !.left = @ - 1] : p \in Waiting \ due}
  <2>1. ASSUME NEW x \in Held(Wheel)
        PROVE  See(x, now) = [See(x, time) EXCEPT !.left = @ - 1]
    BY <1>9 DEF See
  <2>2. \A x \in Held(Wheel) : See(x, time) \in due <=> x.node.expire = now
    BY <1>9, <1>12 DEF due, Seen, See
  <2>3. ASSUME NEW p \in Waiting' PROVE p \in {[q EXCEPT !.left = @ - 1] : q \in Waiting \ due}
    <3>1. PICK x \in Held(w) : p = See(x, now)
      BY <1>12 DEF Seen
    <3>2. x \in Held(Wheel) /\ x.node.expire # now
      BY <1>7
    <3>3. See(x, time) \in Waiting \ due
      BY <1>12, <2>2, <3>2 DEF Seen
    <3> QED BY <2>1, <3>1, <3>2, <3>3
  <2>4. ASSUME NEW q \in Waiting \ due PROVE [q EXCEPT !.left = @ - 1] \in Waiting'
    <3>1. PICK x \in Held(Wheel) : q = See(x, time)
      BY <1>12 DEF Seen
    <3>2. x \in Held(w)
      BY <1>7, <2>2, <3>1
    <3> QED BY <1>12, <2>1, <3>1, <3>2 DEF Seen
  <2> QED BY <2>3, <2>4
<1>21. Service!Tick
  <2>1. \A S : Service!Cardinality(S) = Cardinality(S)
    BY DEF Service!Cardinality, Cardinality
  <2>2. Served = <<>> /\ Len(Served') = Service!Cardinality(due)
        /\ \A p \in due : Served'[Service!Cardinality(p.behind) + 1] = p.timer
    BY <1>16, <1>18, <1>19, <2>1
  <2> QED BY <1>20, <2>2 DEF Service!Tick, due
<1> QED BY <1>11, <1>21

\* An empty wheel keeps the invariant and is a service nothing was asked of.
LEMMA InitIs == WheelInit => WheelInv /\ Service!Init
<1> SUFFICES ASSUME WheelInit PROVE WheelInv /\ Service!Init
  OBVIOUS
<1>1. \A a \in Addresses : ListAt(Wheel, a) = <<>>
  BY DEF WheelInit, Addresses, ListAt, Wheel
<1>2. IsWheel(Wheel)
  <2>1. <<>> \in Seq(Node)
    OBVIOUS
  <2>2. [i \in 0 .. Level - 1 |-> <<>>] \in [0 .. Level - 1 -> Seq(Node)]
    BY <2>1
  <2>3. [l \in 0 .. 3 |-> [i \in 0 .. Level - 1 |-> <<>>]] \in [0 .. 3 -> [0 .. Level - 1 -> Seq(Node)]]
    BY <2>2
  <2>4. [i \in 0 .. Near - 1 |-> <<>>] \in [0 .. Near - 1 -> Seq(Node)]
    BY <2>1
  <2> QED BY <2>3, <2>4 DEF WheelInit, IsWheel, Wheel
<1>3. WellPut(Wheel, time)
  <2>1. Len(<<>>) = 0
    OBVIOUS
  <2> QED BY <1>1, <1>2, <2>1 DEF WellPut, Placed, Apart
<1>4. Held(Wheel) = {}
  <2>1. Ranked(<<>>) = {}
    BY DEF Ranked
  <2> QED BY <1>1, <2>1 DEF Held
<1>5. Waiting = {}
  <2>1. WaitingIsSeen
    BY <1>2, WaitingIs
  <2> QED BY <1>4, <2>1 DEF WaitingIsSeen, Seen
<1>6. Served = <<>>
  BY DEF WheelInit, Served
<1>7. WheelInv
  <2>1. firing = <<>> /\ <<>> \in Seq(Node) /\ ticking = FALSE /\ time \in 0 .. Clock - 1
    BY StartAssumption DEF WheelInit
  <2>2. InTime(Wheel, time)
    BY <1>4 DEF InTime
  <2> QED BY <1>3, <2>1, <2>2 DEF WheelInv
<1> QED BY <1>5, <1>6, <1>7 DEF Service!Init

\* Every step of the wheel keeps the invariant, and is a step of the service or none.
LEMMA StepIs == WheelInv /\ [WheelNext]_wheelVars => WheelInv' /\ [Service!Next]_<<Waiting, Served>>
<1> SUFFICES ASSUME WheelInv, [WheelNext]_wheelVars
             PROVE  WheelInv' /\ [Service!Next]_<<Waiting, Served>>
  OBVIOUS
<1>1. ASSUME NEW n \in Timer, Add(n) PROVE WheelInv' /\ Service!Next
  BY <1>1, AddIs DEF Service!Next
<1>2. ASSUME Update PROVE WheelInv' /\ Service!Next
  BY <1>2, UpdateIs DEF Service!Next
<1>3. ASSUME Dispatch PROVE WheelInv' /\ Service!Next
  BY <1>3, DispatchIs DEF Service!Next
<1>4. ASSUME Finish PROVE WheelInv' /\ UNCHANGED <<Waiting, Served>>
  BY <1>4, FinishIs
<1>5. ASSUME UNCHANGED wheelVars PROVE WheelInv' /\ UNCHANGED <<Waiting, Served>>
  <2>1. time' = time /\ near' = near /\ level' = level /\ firing' = firing /\ ticking' = ticking
    BY <1>5 DEF wheelVars
  <2>2. Wheel' = Wheel /\ Waiting' = Waiting /\ Served' = Served
    BY <2>1 DEF Wheel, Waiting, Served, Slots, Entries
  <2> QED BY <2>1, <2>2 DEF WheelInv
<1> QED BY <1>1, <1>2, <1>3, <1>4, <1>5 DEF WheelNext

\* The wheel implements the timer service: a timer fires at its very tick, and timers of one
\* tick in the order they were set, through every cascade and the wrap of the clock
\* (add_node, timer_shift, timer_execute).
THEOREM WheelIsService == WheelSpec => FiresOnTime
BY InitIs, StepIs, PTL DEF WheelSpec, FiresOnTime, Service!Spec

\* Nodes of one tick are in one slot, and the slot of the current tick is empty whenever
\* timers are set (add_node, timer_execute).
THEOREM WheelSlots == WheelSpec => [](WheelTypeOK /\ OneSlotPerTick /\ CurrentSlotEmpty)
<1>1. WheelInv => WheelTypeOK
  BY DEF WheelInv, WellPut, IsWheel, Wheel, WheelTypeOK
<1>2. WheelInv => CurrentSlotEmpty
  BY NothingDue DEF CurrentSlotEmpty
<1>3. WheelInv => OneSlotPerTick
  <2> SUFFICES ASSUME WheelInv, NEW s \in Slots \ {<<>>}, NEW r \in Slots \ {<<>>},
                      NEW n \in NodesOf(s), NEW m \in NodesOf(r), n.expire = m.expire
               PROVE  s = r
    BY DEF OneSlotPerTick
  <2>1. \A q \in Slots : \E a \in Addresses : q = ListAt(Wheel, a)
    <3> SUFFICES ASSUME NEW q \in Slots PROVE \E a \in Addresses : q = ListAt(Wheel, a)
      OBVIOUS
    <3>1. CASE \E i \in 0 .. Near - 1 : q = near[i]
      <4>1. PICK i \in 0 .. Near - 1 : q = near[i]
        BY <3>1
      <4>2. <<-1, i>> \in Addresses /\ ListAt(Wheel, <<-1, i>>) = near[i]
        BY DEF Addresses, ListAt, Wheel
      <4> QED BY <4>1, <4>2
    <3>2. CASE \E l \in 0 .. 3, i \in 0 .. Level - 1 : q = level[l][i]
      <4>1. PICK l \in 0 .. 3, i \in 0 .. Level - 1 : q = level[l][i]
        BY <3>2
      <4>2. <<l, i>> \in Addresses /\ ListAt(Wheel, <<l, i>>) = level[l][i]
        BY DEF Addresses, ListAt, Wheel
      <4> QED BY <4>1, <4>2
    <3> QED BY <3>1, <3>2 DEF Slots
  <2>2. PICK a \in Addresses : s = ListAt(Wheel, a)
    BY <2>1
  <2>3. PICK b \in Addresses : r = ListAt(Wheel, b)
    BY <2>1
  <2>4. s \in Seq(Node) /\ r \in Seq(Node)
    BY <2>2, <2>3, ListsAre DEF WheelInv, WellPut
  <2>5. PICK j \in 1 .. Len(s) : n = s[j]
    BY <2>4 DEF NodesOf
  <2>6. PICK k \in 1 .. Len(r) : m = r[k]
    BY <2>4 DEF NodesOf
  <2>7. Home(n.expire, time) = a /\ Home(m.expire, time) = b
    BY <2>2, <2>3, <2>5, <2>6 DEF WheelInv, WellPut, Placed
  <2> QED BY <2>2, <2>3, <2>7
<1> QED BY <1>1, <1>2, <1>3, InitIs, StepIs, PTL DEF WheelSpec

=============================================================================
