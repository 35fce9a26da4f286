----------------------------- MODULE TimerWheel -----------------------------
(***************************************************************************)
(* The hierarchical timer wheel of skynet_timer.c: one array of lists for  *)
(* the near ticks, four levels of coarser lists, a clock of fixed width    *)
(* that wraps.  Sizes are parameters: 2^8 and 2^6 in the code, whose masks *)
(* and shifts are remainders and divisions of any size.                    *)
(*                                                                         *)
(* The lock of the timer is released while a list is dispatched, so timers *)
(* are added between the steps of a tick, by any thread.                   *)
(*                                                                         *)
(* A Mut... operator is a faulty variant of the definition after it, used  *)
(* only to show that the properties can fail.                              *)
(***************************************************************************)
EXTENDS Integers, Sequences

CONSTANTS
  Timer,      \* the timers that can be pending at the same time
  Near,       \* TIME_NEAR
  Level,      \* TIME_LEVEL
  Delay,      \* the delays given to skynet_timeout
  Start       \* the clock when the wheel is first watched

ASSUME WheelSizeAssumption == Near \in Nat \ {0} /\ Level \in Nat /\ Level > 1

\* the ticks a slot of a level covers
Span[l \in 0 .. 4] == IF l = 0 THEN Near ELSE Level * Span[l - 1]

Clock == Span[4]  \* 2^32: T->time is a uint32_t

\* a positive int: less than half the clock's range
ASSUME DelayAssumption == Delay \subseteq 1 .. Clock \div 2 - 1
ASSUME StartAssumption == Start \in 0 .. Clock - 1

VARIABLES
  time,    \* T->time
  near,    \* T->near
  level,   \* T->t
  firing,  \* the list dispatch_list walks
  ticking  \* the thread is in timer_update, after timer_shift

wheelVars == <<time, near, level, firing, ticking>>

WheelInit ==
  /\ time = Start
  /\ near = [i \in 0 .. Near - 1 |-> <<>>]
  /\ level = [l \in 0 .. 3 |-> [i \in 0 .. Level - 1 |-> <<>>]]
  /\ firing = <<>>
  /\ ticking = FALSE

\* the times agree but for what is below a span
SameAbove(a, b, span) == a \div span = b \div span

\* the level add_node puts a node on: the first whose upper bits agree
MutLevelOf(t, now) ==
  IF SameAbove(t, now, Span[1]) THEN 0 ELSE IF SameAbove(t, now, Span[3]) THEN 2 ELSE 3
LevelOf(t, now) ==
  IF SameAbove(t, now, Span[1]) THEN 0
  ELSE IF SameAbove(t, now, Span[2]) THEN 1
  ELSE IF SameAbove(t, now, Span[3]) THEN 2 ELSE 3

Index(t, l) == (t \div Span[l]) % Level

\* add_node: the wheel w with node n in it, at time now
AddNode(w, n, now) ==
  LET l == LevelOf(n.expire, now)
  IN  IF SameAbove(n.expire, now, Near)
        THEN [w EXCEPT !.near[n.expire % Near] = Append(@, n)]
        ELSE [w EXCEPT !.level[l][Index(n.expire, l)] = Append(@, n)]

\* link_clear, and move_list: the nodes of one slot are added again, in their order
Cleared(w, l, i) == [w EXCEPT !.level[l][i] = <<>>]
MoveList(w, l, i, now) ==
  LET list == w.level[l][i]
      moved[k \in 0 .. Len(list)] ==
        IF k = 0 THEN Cleared(w, l, i) ELSE AddNode(moved[k - 1], list[k], now)
  IN  moved[Len(list)]

\* timer_shift: the slot that begins at time now, of the lowest level whose
\* index is not zero there; level 3 when the clock wraps
MutWrapped(now) == FALSE
Wrapped(now) == now = 0

Shift(w, now) ==
  IF Wrapped(now) THEN MoveList(w, 3, 0, now)
  ELSE LET begins == {l \in 0 .. 3 : now % Span[l] = 0 /\ Index(now, l) # 0}
       IN  IF begins = {} THEN w
           ELSE LET l == CHOOSE l \in begins : \A k \in begins : l <= k
                IN  MoveList(w, l, Index(now, l), now)

Wheel == [near |-> near, level |-> level]

Slots == {near[i] : i \in 0 .. Near - 1}
           \cup {level[l][i] : l \in 0 .. 3, i \in 0 .. Level - 1}
NodesOf(list) == {list[i] : i \in DOMAIN list}
Pending == UNION {NodesOf(list) : list \in Slots}

Free(n) == \A p \in Pending \cup NodesOf(firing) : p.timer # n

\* skynet_timeout with time > 0: timer_add, in any thread
MutExpireEarly(d) == (time + d - 1) % Clock
MutExpireWide(d) == time + d
Expire(d) == (time + d) % Clock

Add(n) ==
  /\ Free(n)
  /\ \E d \in Delay :
       LET w == AddNode(Wheel, [timer |-> n, expire |-> Expire(d)], time)
       IN  near' = w.near /\ level' = w.level
  /\ UNCHANGED <<time, firing, ticking>>

\* timer_execute takes the whole list of the current slot; FALSE if empty
Take(w, now) ==
  /\ firing' = w.near[now % Near]
  /\ near' = [w.near EXCEPT ![now % Near] = <<>>]
  /\ level' = w.level

\* timer_update: the first timer_execute, then timer_shift and the second one
Update ==
  /\ ~ ticking
  /\ firing = <<>>
  /\ IF near[time % Near] # <<>>
       THEN Take(Wheel, time) /\ UNCHANGED <<time, ticking>>
       ELSE LET now == (time + 1) % Clock
            IN  /\ time' = now
                /\ Take(Shift(Wheel, now), now)
                /\ ticking' = TRUE

\* dispatch_list pushes one message
Dispatch ==
  /\ firing # <<>>
  /\ firing' = Tail(firing)
  /\ UNCHANGED <<time, near, level, ticking>>

\* timer_execute looks again at the slot before timer_update returns
Finish ==
  /\ ticking
  /\ firing = <<>>
  /\ Take(Wheel, time)
  /\ ticking' = (near[time % Near] # <<>>)
  /\ UNCHANGED time

WheelNext == (\E n \in Timer : Add(n)) \/ Update \/ Dispatch \/ Finish

WheelSpec == WheelInit /\ [][WheelNext]_wheelVars

\* The timer thread runs for ever; nobody has to set timers.
FairWheelSpec == WheelSpec /\ WF_wheelVars(Update \/ Dispatch \/ Finish)

(***************************************************************************)
(* Properties                                                              *)
(***************************************************************************)
Node == [timer : Timer, expire : 0 .. Clock - 1]

\* Every list holds nodes, and the clock stays a word of its width.
WheelTypeOK ==
  /\ time \in 0 .. Clock - 1
  /\ near \in [0 .. Near - 1 -> Seq(Node)]
  /\ level \in [0 .. 3 -> [0 .. Level - 1 -> Seq(Node)]]
  /\ firing \in Seq(Node)
  /\ ticking \in BOOLEAN

\* What the service sees of the list in one slot.
Entries(list) ==
  {[timer  |-> list[i].timer,
    left   |-> (list[i].expire - time) % Clock,
    behind |-> {list[j].timer : j \in {k \in 1 .. i - 1 : list[k].expire = list[i].expire}}]
     : i \in DOMAIN list}

\* the timers that are set, and those of this tick whose messages are not pushed
Waiting == UNION {Entries(list) : list \in Slots}
Served == [i \in DOMAIN firing |-> firing[i].timer]

\* The wheel implements the service it stands for: a timer fires at its very
\* tick, also across cascades of every level and the wrap of the clock, and
\* timers of the same tick fire in the order they were set (move_list and
\* link keep it, whatever levels the nodes have come through).
Service == INSTANCE TimerService WITH pending <- Waiting, firing <- Served

FiresOnTime == Service!Spec

\* Timers that fire together wait in one slot: the order of their insertion
\* cannot be lost when one of them is cascaded and another set directly.
OneSlotPerTick ==
  \A s, r \in Slots \ {<<>>} : \A n \in NodesOf(s), m \in NodesOf(r) :
    n.expire = m.expire => s = r

\* The timer_execute before the shift finds nothing and the one after it one
\* list: a timer set while messages are pushed never joins the current slot.
CurrentSlotEmpty == near[time % Near] = <<>>

\* Every timer that was set fires.
EveryTimerFires == \A n \in Timer : ~ Free(n) ~> Free(n)

=============================================================================
