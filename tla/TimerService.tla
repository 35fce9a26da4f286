---------------------------- MODULE TimerService ----------------------------
(***************************************************************************)
(* What skynet_timeout promises: a timer set for d ticks fires at the d-th *)
(* tick after it was set, and timers due at the same tick fire in the      *)
(* order they were set.                                                    *)
(***************************************************************************)
EXTENDS Integers, Sequences, FiniteSets

CONSTANTS Timer, Delay

VARIABLES
  pending,  \* [timer, left, behind]: ticks to go, and the timers due at the
            \* same tick that fire before it
  firing    \* the timers of this tick whose messages are not pushed yet

Init == pending = {} /\ firing = <<>>

\* One timer is set, behind those already due at its tick.
Add ==
  /\ \E e \in pending' \ pending :
       /\ pending' = pending \cup {e}
       /\ e.timer \in Timer
       /\ e.left \in Delay
       /\ e.behind = {p.timer : p \in {q \in pending : q.left = e.left}}
  /\ UNCHANGED firing

\* The clock advances: what is due fires, the rest comes one tick nearer.
Tick ==
  /\ firing = <<>>
  /\ LET due == {p \in pending : p.left = 1}
     IN  /\ Len(firing') = Cardinality(due)
         /\ \A p \in due : firing'[Cardinality(p.behind) + 1] = p.timer
         /\ pending' = {[p EXCEPT !.left = @ - 1] : p \in pending \ due}

Fire ==
  /\ firing # <<>>
  /\ firing' = Tail(firing)
  /\ UNCHANGED pending

Next == Tick \/ Fire \/ Add

Spec == Init /\ [][Next]_<<pending, firing>>

=============================================================================
