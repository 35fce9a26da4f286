------------------------------ MODULE FifoQueue ------------------------------
(***************************************************************************)
(* What a message queue promises: messages come out once each, in the      *)
(* order they were pushed, and its length is the number still inside.      *)
(***************************************************************************)
EXTENDS Integers, Sequences

CONSTANTS Message, None

VARIABLES contents, popped, length

Init == contents = <<>> /\ popped = None /\ length = 0

Push(m) ==
  /\ contents' = Append(contents, m)
  /\ UNCHANGED <<popped, length>>

Pop ==
  /\ contents # <<>>
  /\ popped' = Head(contents)
  /\ contents' = Tail(contents)
  /\ UNCHANGED length

PopNothing ==
  /\ contents = <<>>
  /\ popped' = None
  /\ UNCHANGED <<contents, length>>

ReadLength ==
  /\ length' = Len(contents)
  /\ UNCHANGED <<contents, popped>>

Next == (\E m \in Message : Push(m)) \/ Pop \/ PopNothing \/ ReadLength

Spec == Init /\ [][Next]_<<contents, popped, length>>

=============================================================================
