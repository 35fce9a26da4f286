------------------------------- MODULE RWLock -------------------------------
(***************************************************************************)
(* The spinning readers-writer lock of rwlock.h, which guards the handle   *)
(* table: one step per read or atomic operation of its two words.          *)
(***************************************************************************)
EXTENDS Integers, FiniteSets

CONSTANT Thread

ASSUME ThreadAssumption == IsFiniteSet(Thread)

VARIABLES
  write, read,  \* the words of struct rwlock
  pc            \* where a thread is; "idle" outside of the lock

lockVars == <<write, read, pc>>

LockInit ==
  /\ write = 0
  /\ read = 0
  /\ pc = [t \in Thread |-> "idle"]

Go(t, from, to) == pc[t] = from /\ pc' = [pc EXCEPT ![t] = to]

(* rwlock_rlock, rwlock_runlock; a Mut... operator is a faulty variant of the
   definition after it, there to show that the properties can fail. *)
StartRead(t) == Go(t, "idle", "rspin") /\ UNCHANGED <<write, read>>

SpinRead(t) == write = 0 /\ Go(t, "rspin", "enter") /\ UNCHANGED <<write, read>>

Enter(t) == Go(t, "enter", "check") /\ read' = read + 1 /\ UNCHANGED write

\* the writer may have come between the test and the increment
MutSeen(t) == Go(t, "check", "reading")
Seen(t) == Go(t, "check", IF write # 0 THEN "back" ELSE "reading")

Check(t) == Seen(t) /\ UNCHANGED <<write, read>>

MutBackTo(t) == Go(t, "back", "check")
BackTo(t) == Go(t, "back", "rspin")

\* __sync_sub_and_fetch(&lock->read, 1)
MutLeft == read
Left == read - 1

Back(t) == BackTo(t) /\ read' = Left /\ UNCHANGED write

ReadUnlock(t) == Go(t, "reading", "idle") /\ read' = Left /\ UNCHANGED write

(* rwlock_wlock, rwlock_wunlock *)
StartWrite(t) == Go(t, "idle", "wspin") /\ UNCHANGED <<write, read>>

\* __sync_lock_test_and_set
TestAndSet(t) == write = 0 /\ Go(t, "wspin", "drain") /\ write' = 1 /\ UNCHANGED read

Drain(t) == read = 0 /\ Go(t, "drain", "writing") /\ UNCHANGED <<write, read>>

MutReleased == 1
Released == 0
WriteUnlock(t) == Go(t, "writing", "idle") /\ write' = Released /\ UNCHANGED read

ReadStep(t) ==
  SpinRead(t) \/ Enter(t) \/ Check(t) \/ Back(t) \/ ReadUnlock(t)
WriteStep(t) == TestAndSet(t) \/ Drain(t) \/ WriteUnlock(t)

LockNext == \E t \in Thread :
  StartRead(t) \/ StartWrite(t) \/ ReadStep(t) \/ WriteStep(t)

LockSpec == LockInit /\ [][LockNext]_lockVars

\* Threads keep running, and leave their critical sections; whether one ever
\* takes the lock again is its own affair.
LockFairSpec == LockSpec /\ \A t \in Thread : WF_lockVars(ReadStep(t)) /\ WF_lockVars(WriteStep(t))

(***************************************************************************)
(* Properties                                                              *)
(***************************************************************************)
Point == {"idle", "rspin", "enter", "check", "back", "reading",
          "wspin", "drain", "writing"}

Readers == {t \in Thread : pc[t] \in {"check", "back", "reading"}}
Writers == {t \in Thread : pc[t] \in {"drain", "writing"}}

\* The words of the lock; read counts the threads between increment and
\* decrement, so it cannot go below zero.
LockTypeOK ==
  /\ write \in {0, 1}
  /\ read \in Nat
  /\ pc \in [Thread -> Point]

\* A writer is alone: no reader that saw write = 0 before it is still inside,
\* and no other writer (rwlock_rlock checks again after its increment).
Exclusive ==
  \A t, u \in Thread :
    pc[t] = "writing" /\ pc[u] \in {"reading", "writing"} => t = u

\* A thread that holds the write word gets the lock, however many readers
\* come and go while it waits for them to drain.
WriterGetsIn == \A t \in Thread : pc[t] = "drain" ~> pc[t] = "writing"

\* Threads that want the lock do not keep one another out for ever: the
\* reader that steps back and the writer that drains never deadlock.
SomebodyGetsIn ==
  (\E t \in Thread : pc[t] \in {"rspin", "wspin"})
    ~> (\E t \in Thread : pc[t] \in {"reading", "writing"})

=============================================================================
