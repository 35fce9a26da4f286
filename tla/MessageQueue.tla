---------------------------- MODULE MessageQueue ----------------------------
(***************************************************************************)
(* The ring buffer of struct message_queue (skynet_mq.c): push with its    *)
(* expansion, pop with its overload threshold, length.  Each operation     *)
(* holds the queue's spin lock from end to end, so it is one action;       *)
(* skynet_mq_overload takes no lock but runs in the thread that pops.      *)
(*                                                                         *)
(* A Mut... operator is a faulty variant of the definition after it, used  *)
(* only to show that the properties can fail.                              *)
(***************************************************************************)
EXTENDS Integers, Sequences

CONSTANTS
  Message,
  None,        \* "no message": what a pop of an empty queue yields
  DefaultSize, \* DEFAULT_QUEUE_SIZE
  Overload,    \* MQ_OVERLOAD
  MaxCap       \* bound: no push that would make cap larger

ASSUME MessageAssumption == None \notin Message
ASSUME SizeAssumption == DefaultSize \in Nat /\ DefaultSize > 1
ASSUME OverloadAssumption == Overload \in Nat /\ Overload > 0
ASSUME CapAssumption == MaxCap \in Nat

VARIABLES
  cap, head, tail,
  buffer,     \* q->queue; None where nothing was written since malloc
  overload,
  threshold,  \* overload_threshold
  popped,     \* what the last skynet_mq_pop yielded
  length,     \* what the last skynet_mq_length returned
  reading     \* a message was popped: skynet_mq_overload comes next

ring  == <<cap, head, tail, buffer>>
alarm == <<overload, threshold>>
vars  == <<ring, alarm, popped, length, reading>>

Init ==
  /\ cap = DefaultSize
  /\ head = 0
  /\ tail = 0
  /\ buffer = [i \in 0 .. DefaultSize - 1 |-> None]
  /\ overload = 0
  /\ threshold = Overload
  /\ popped = None
  /\ length = 0
  /\ reading = FALSE

\* skynet_mq_length
Length(h, t, c) == IF h <= t THEN t - h ELSE t + c - h

\* one place further in the ring
MutAfter(i) == IF i + 1 > cap THEN 0 ELSE i + 1
After(i) == IF i + 1 >= cap THEN 0 ELSE i + 1

\* expand_queue copies slot by slot from the head on
MutUnrolled(b) == [i \in 0 .. 2 * cap - 1 |-> IF i < cap THEN b[i] ELSE None]
Unrolled(b) ==
  [i \in 0 .. 2 * cap - 1 |-> IF i < cap THEN b[(head + i) % cap] ELSE None]

Push(m) ==
  LET written == [buffer EXCEPT ![tail] = m]
  IN  /\ IF After(tail) = head
           THEN /\ 2 * cap <= MaxCap
                /\ buffer' = Unrolled(written)
                /\ head' = 0
                /\ tail' = cap
                /\ cap' = 2 * cap
           ELSE /\ buffer' = written
                /\ tail' = After(tail)
                /\ UNCHANGED <<cap, head>>
      /\ UNCHANGED <<alarm, popped, length, reading>>

\* the threshold is doubled until the length does not exceed it
MutRaised(n, limit) == IF n > limit THEN 2 * limit ELSE limit
Raised(n, limit) ==
  LET doubled[d \in 1 .. 2 * n] == IF n <= d THEN d ELSE doubled[2 * d]
  IN  IF n <= limit THEN limit ELSE doubled[limit]

Pop ==
  /\ ~ reading
  /\ head # tail
  /\ popped' = buffer[head]
  /\ head' = After(head)
  /\ LET n == Length(After(head), tail, cap)
     IN  /\ overload' = IF n > threshold THEN n ELSE overload
         /\ threshold' = Raised(n, threshold)
  /\ reading' = TRUE
  /\ UNCHANGED <<cap, tail, buffer, length>>

PopNothing ==
  /\ ~ reading
  /\ head = tail
  /\ popped' = None
  /\ threshold' = Overload
  /\ UNCHANGED <<ring, overload, length, reading>>

\* skynet_mq_length
ReadLength ==
  /\ length' = Length(head, tail, cap)
  /\ UNCHANGED <<ring, alarm, popped, reading>>

\* skynet_mq_overload
ReadOverload ==
  /\ reading
  /\ overload' = 0
  /\ reading' = FALSE
  /\ UNCHANGED <<ring, threshold, popped, length>>

Next ==
  \/ \E m \in Message : Push(m)
  \/ Pop \/ PopNothing \/ ReadLength \/ ReadOverload

Spec == Init /\ [][Next]_vars

(***************************************************************************)
(* Properties                                                              *)
(***************************************************************************)
\* The messages in the ring, oldest first.
Contents ==
  [i \in 1 .. Length(head, tail, cap) |->
     buffer[IF head + i - 1 < cap THEN head + i - 1 ELSE head + i - 1 - cap]]

\* The indices stay inside the buffer, and only messages are in the window
\* between head and tail: nothing uninitialised is ever popped.
TypeOK ==
  /\ cap \in Nat /\ cap > 1
  /\ head \in 0 .. cap - 1
  /\ tail \in 0 .. cap - 1
  /\ buffer \in [0 .. cap - 1 -> Message \cup {None}]
  /\ overload \in Nat
  /\ threshold \in Nat /\ threshold > 0
  /\ popped \in Message \cup {None}
  /\ length \in Nat
  /\ reading \in BOOLEAN
  /\ Contents \in Seq(Message)

\* The ring implements the queue it stands for: push and pop across the wrap
\* and across an expansion neither lose, duplicate nor reorder a message.
Fifo == INSTANCE FifoQueue WITH contents <- Contents
IsFifo == Fifo!Spec

\* A warning is raised once for each doubling of the backlog: the length kept
\* for it is within a factor two of the threshold the next one must exceed,
\* however many messages were pushed since the last pop (skynet_mq_pop).
WarnsOncePerDoubling ==
  overload # 0 => overload <= threshold /\ threshold < 2 * overload

=============================================================================
