--------------------------- MODULE LuaServiceProofs ---------------------------
(***************************************************************************)
(* One coroutine of a service is in the critical section of                *)
(* skynet/queue.lua, every session is used by the one coroutine that waits  *)
(* for it, and the section is handed to a coroutine that was woken for it:  *)
(* for any services, coroutines, programs and messages, whatever answers or *)
(* fails them.  watching_service, with the forks that began with the        *)
(* address of an old request, counts the requests that are being answered.  *)
(* All but the first hold as long as no service goes on after its exit.     *)
(***************************************************************************)
EXTENDS LuaService, FiniteSetTheorems, TLAPS

\* The coroutine that has the section is the only one in it, as deep as the section
\* counts; without one the section counts nothing.
InSection(x) ==
  /\ x.ref \in Nat
  /\ x.depth \in [Cos -> Nat]
  /\ x.current \notin Cos => x.ref = 0
  /\ \A c \in Cos : x.depth[c] = IF c = x.current THEN x.ref ELSE 0

Fields ==
  {"run", "pc", "pool", "id", "address", "waits", "watchSession", "watchService", "dead", "sleeps",
   "wakeups", "errors", "forks", "frames", "rest", "unresponse", "session", "ops", "calls",
   "current", "ref", "threads", "depth", "unknown", "stale", "disturbed"}

\* b: it was disturbed before.
Fine(x, b) == DOMAIN x = Fields /\ InSection(x) /\ (b => x.disturbed)

SectionInv == DOMAIN sv = Services /\ \A s \in Services : Fine(sv[s], FALSE)

\* After a step; a service that was disturbed is.
SectionStays == SectionInv' /\ \A s \in Services : sv[s].disturbed => sv'[s].disturbed

\* y has the section of x.
Same(x, y) ==
  /\ DOMAIN y = DOMAIN x /\ y.ref = x.ref /\ y.depth = x.depth /\ y.current = x.current
  /\ y.disturbed = x.disturbed

LEMMA SameIsFine == ASSUME NEW b, NEW x, NEW y, Fine(x, b), Same(x, y) PROVE Fine(y, b)
BY DEF Fine, Same, InSection

LEMMA SameTwice == ASSUME NEW x, NEW y, NEW z, Same(x, y), Same(y, z) PROVE Same(x, z)
BY DEF Same

-----------------------------------------------------------------------------
\* What goes on after a coroutine has yielded or ended leaves the section alone.
LEMMA ResumeSame == ASSUME NEW x, DOMAIN x = Fields, NEW c PROVE Same(x, Resume(x, c))
BY DEF Same, Resume, Fields

LEMMA ForksSame == ASSUME NEW x, DOMAIN x = Fields PROVE Same(x, Forks(x))
<1> DEFINE y == [x EXCEPT !.forks = Tail(@), !.frames = 0]
<1>1. Same(x, y) /\ DOMAIN y = Fields
  BY DEF Same, Fields
<1>2. Same(x, [x EXCEPT !.run = None, !.frames = 0])
  BY DEF Same, Fields
<1>3. Same(y, Resume(y, Head(x.forks)))
  BY <1>1, ResumeSame
<1> HIDE DEF y
<1>4. Same(x, Resume(y, Head(x.forks)))
  BY <1>1, <1>3, SameTwice
<1> QED BY <1>2, <1>4 DEF Forks, y

LEMMA ErrorsSame == ASSUME NEW x, DOMAIN x = Fields PROVE Same(x, Errors(x))
<1> DEFINE n == Head(x.errors)
           y == [x EXCEPT !.errors = Tail(@), !.waits[n] = None, !.watchSession[n] = None]
           z == [y EXCEPT !.unknown = TRUE]
<1>1. Same(x, y) /\ DOMAIN y = Fields
  BY DEF Same, Fields
<1>2. Same(x, z) /\ DOMAIN z = Fields
  BY <1>1 DEF Same, Fields
<1> HIDE DEF y, z
<1>3. Same(x, Resume(y, x.waits[n])) /\ Same(x, Forks(z)) /\ Same(x, Forks(x))
  BY <1>1, <1>2, ResumeSame, ForksSame, SameTwice
<1> QED BY <1>3 DEF Errors, y, z

LEMMA SuspendSame == ASSUME NEW x, DOMAIN x = Fields PROVE Same(x, Suspend(x))
<1> DEFINE c == Head(x.wakeups)
           y == [x EXCEPT !.wakeups = Tail(@)]
           z == [y EXCEPT !.waits[x.sleeps[c]] = Woken(x, c), !.frames = @ + 1]
<1>1. Same(x, y) /\ DOMAIN y = Fields
  BY DEF Same, Fields
<1>2. Same(x, z) /\ DOMAIN z = Fields
  BY <1>1 DEF Same, Fields
<1> HIDE DEF y, z
<1>3. Same(x, Resume(z, c)) /\ Same(x, Errors(y)) /\ Same(x, Errors(x))
  BY <1>1, <1>2, ResumeSame, ErrorsSame, SameTwice
<1> QED BY <1>3 DEF Suspend, y, z

LEMMA CreatedSame == ASSUME NEW x, DOMAIN x = Fields, NEW pc PROVE Same(x, Created(x, pc))
BY DEF Same, Created, Fields

LEMMA ReleaseSame ==
  ASSUME NEW x, DOMAIN x = Fields, NEW t
  PROVE  Same(x, Release(x, t)) /\ Same(x, Watched(x, t))
BY DEF Same, Release, Watched, Fields

LEMMA RecycledSame == ASSUME NEW x, DOMAIN x = Fields, NEW c PROVE Same(x, Recycled(x, c))
<1> DEFINE y == [x EXCEPT !.pool = Append(@, c), !.pc[c] = "free", !.id[c] = None]
<1>1. Same(x, y) /\ DOMAIN y = Fields
  BY DEF Same, Fields
<1> HIDE DEF y
<1>2. Same(x, Release(y, x.address[c]))
  BY <1>1, ReleaseSame, SameTwice
<1> QED BY <1>1, <1>2 DEF Recycled, y

LEMMA BlamedSame == ASSUME NEW x, DOMAIN x = Fields, NEW m PROVE Same(x, Blamed(x, m))
BY DEF Same, Blamed, Fields

LEMMA ForkingSame == ASSUME NEW x, DOMAIN x = Fields, NEW pc PROVE Same(x, Forking(x, pc))
<1> DEFINE c == Last(x.pool)
           y == Created(x, pc)
           z == [y EXCEPT !.forks = Append(@, c)]
           w == [z EXCEPT !.stale[x.address[c]] = @ + 1]
<1>1. Same(x, y) /\ DOMAIN y = Fields
  BY CreatedSame DEF Same
<1> HIDE DEF y
<1>2. Same(y, z) /\ DOMAIN z = Fields
  BY <1>1 DEF Same, Fields
<1> HIDE DEF z
<1>3. Same(z, w)
  BY <1>2 DEF Same, Fields
<1> HIDE DEF w
<1>4. Same(x, z) /\ Same(x, w)
  BY <1>1, <1>2, <1>3, SameTwice
<1> QED BY <1>4 DEF Forking, y, z, w

-----------------------------------------------------------------------------
\* A coroutine in the section has it, and hands it on when it is out.
LEMMA LeftIsFine ==
  ASSUME NEW b, NEW x, Fine(x, b), NEW c \in Cos, x.depth[c] > 0
  PROVE  Fine(Left(x, c), b)
<1>1. x.current = c /\ x.depth[c] = x.ref /\ x.ref \in Nat /\ x.ref > 0
      /\ \A d \in Cos : d # c => x.depth[d] = 0
  BY DEF Fine, InSection
<1> DEFINE next == IF x.threads = <<>> THEN None ELSE Head(x.threads)
           y == [x EXCEPT !.ref = @ - 1, !.depth[c] = @ - 1]
           z == [y EXCEPT !.current = next,
                          !.threads = IF @ = <<>> THEN @ ELSE Tail(@),
                          !.wakeups = IF Asleep(x, next) THEN Append(@, next) ELSE @]
<1>2. DOMAIN y = Fields /\ y.ref = x.ref - 1 /\ y.current = c
      /\ y.depth = [x.depth EXCEPT ![c] = @ - 1] /\ y.disturbed = x.disturbed
  BY <1>1 DEF Fine, Fields
<1>3. y.depth \in [Cos -> Nat] /\ \A d \in Cos : y.depth[d] = IF d = c THEN x.ref - 1 ELSE 0
  BY <1>1, <1>2 DEF Fine, InSection
<1>4. CASE x.ref > 1
  <2>1. Fine(y, b)
    <3> HIDE DEF y
    <3> QED BY <1>1, <1>2, <1>3 DEF Fine, InSection
  <2> QED BY <1>4, <2>1 DEF Left
<1>5. CASE ~ (x.ref > 1)
  <2> HIDE DEF y, next
  <2>1. DOMAIN z = Fields /\ z.ref = y.ref /\ z.depth = y.depth /\ z.disturbed = y.disturbed
    BY <1>2 DEF Fields
  <2> HIDE DEF z
  <2>2. Fine(z, b)
    BY <1>1, <1>2, <1>3, <1>5, <2>1 DEF Fine, InSection
  <2> QED BY <1>5, <2>2 DEF Left, z, y, next
<1> QED BY <1>4, <1>5

\* An error leaves the section on its way.
LEMMA RaisedIsFine ==
  ASSUME NEW b, NEW x, Fine(x, b), NEW c \in Cos
  PROVE  Fine(Raised(x, c), b)
<1> DEFINE u == Unwound(x, c)
           v == Dead(u, c)
<1>1. Fine(u, b) /\ u.depth[c] = 0
  <2> DEFINE w == [x EXCEPT !.ref = 1, !.depth[c] = 1]
  <2>1. CASE x.depth[c] = 0
    BY <2>1 DEF Unwound
  <2>2. CASE x.depth[c] # 0
    <3>0. c = x.current
      BY <2>2 DEF Fine, InSection
    <3>1. x.current = c /\ x.depth \in [Cos -> Nat] /\ \A d \in Cos : d # c => x.depth[d] = 0
      BY <2>2 DEF Fine, InSection
    <3>2. DOMAIN w = Fields /\ w.ref = 1 /\ w.current = c /\ w.depth = [x.depth EXCEPT ![c] = 1]
          /\ w.disturbed = x.disturbed
      BY <3>1 DEF Fine, Fields
    <3> HIDE DEF w
    <3>3. Fine(w, b) /\ w.depth[c] > 0
      BY <3>1, <3>2, NamesAssumption DEF Fine, InSection
    <3>4. Fine(Left(w, c), b)
      BY <3>3, LeftIsFine
    <3>5. Left(w, c).depth = [w.depth EXCEPT ![c] = @ - 1]
      BY <3>2 DEF Left, Fields
    <3>6. Left(w, c).depth[c] = 0
      BY <3>1, <3>2, <3>5
    <3> QED BY <2>2, <3>4, <3>6 DEF Unwound, w
  <2> QED BY <2>1, <2>2
<1> HIDE DEF u
<1>2. DOMAIN v = Fields /\ v.ref = u.ref /\ v.depth = u.depth
      /\ v.current = (IF u.current = c THEN Gone ELSE u.current) /\ v.disturbed = u.disturbed
  BY <1>1 DEF Dead, Fine, Fields
<1> HIDE DEF v
<1>3. Fine(v, b)
  <2>1. Gone \notin Cos
    BY NamesAssumption
  <2> QED BY <1>1, <1>2, <2>1 DEF Fine, InSection
<1>4. Fine(Forking(v, "noop"), b)
  BY <1>3, ForkingSame, SameIsFine DEF Fine
<1>5. Fine(Forks(Forking(v, "noop")), b)
  BY <1>4, ForksSame, SameIsFine DEF Fine
<1> QED BY <1>5 DEF Raised, u, v

LEMMA ExitedIsFine ==
  ASSUME NEW b, NEW x, Fine(x, b), NEW c
  PROVE  Fine(Exited(x, c), b)
<1> DEFINE f == [t \in Services |->
                   LET left == x.watchService[t] - Cardinality({r \in x.unresponse : r.address = t})
                   IN IF left > 0 THEN left ELSE 0]
           y == [x EXCEPT !.forks = <<>>, !.unresponse = {}, !.pc[c] = "exited", !.watchService = f]
           z == [y EXCEPT !.frames = @ - 1]
<1>1. Exited(x, c) = IF x.frames > 0 THEN Errors(z) ELSE Forks(y)
  BY DEF Exited
<1> HIDE DEF f
<1>2. Same(x, y) /\ DOMAIN y = Fields
  BY DEF Same, Fine, Fields
<1> HIDE DEF y
<1>3. Same(y, z) /\ DOMAIN z = Fields
  BY <1>2 DEF Same, Fields
<1> HIDE DEF z
<1>4. Fine(z, b) /\ Fine(y, b)
  BY <1>2, <1>3, SameIsFine
<1>5. Fine(Errors(z), b) /\ Fine(Forks(y), b)
  BY <1>2, <1>3, <1>4, ErrorsSame, ForksSame, SameIsFine
<1> QED BY <1>1, <1>5

LEMMA TakenSame == ASSUME NEW x, DOMAIN x = Fields PROVE Same(x, Taken(x))
BY DEF Same, Taken, Fields

LEMMA SuspendIsFine == ASSUME NEW b, NEW x, NEW y, Fine(x, b), Same(x, y) PROVE Fine(Suspend(y), b)
BY SameIsFine, SuspendSame DEF Fine

-----------------------------------------------------------------------------
\* The service of a step, in its new state.
LEMMA OneMoves ==
  ASSUME SectionInv, NEW s \in Services, NEW y, Fine(y, sv[s].disturbed), sv' = [sv EXCEPT ![s] = y]
  PROVE  SectionStays
BY DEF SectionStays, SectionInv, Fine, InSection

LEMMA RunningKeeps ==
  ASSUME SectionInv, NEW s \in Services, NEW c \in Cos, Running(s, c)
  PROVE  SectionStays
<1> DEFINE x == sv[s]
           b == sv[s].disturbed
           k == Counted(s)
           n == sv[s].session + 1
<1>1. Fine(x, b) /\ DOMAIN x = Fields
  BY DEF SectionInv, Fine
<1>2. Same(x, k) /\ Fine(k, b) /\ DOMAIN k = Fields
  <2>1. Same(x, k)
    BY <1>1 DEF Same, Counted, Fields
  <2> QED BY <1>1, <2>1, SameIsFine DEF Fine
<1>0. ASSUME UNCHANGED sv PROVE SectionStays
  BY <1>0 DEF SectionStays, SectionInv, Fine, InSection
<1> HIDE DEF k, n
<1>3. ASSUME NEW y, Fine(y, b), Raise(s, c, y) PROVE SectionStays
  <2>1. Fine(Raised(y, c), b)
    BY <1>3, RaisedIsFine
  <2> QED BY <1>3, <2>1, OneMoves DEF Raise
<1>4. ASSUME NEW t \in Services, Call(s, c, t) PROVE SectionStays
  <2> DEFINE w == [k EXCEPT !.calls = @ + 1]
             y == [w EXCEPT !.session = n, !.waits[n] = c, !.watchSession[n] = t, !.pc[c] = "call"]
  <2>0. Same(k, w) /\ Fine(w, b)
    <3>1. Same(k, w)
      BY <1>2 DEF Same, Fields
    <3> QED BY <1>2, <3>1, SameIsFine
  <2>3. Raise(s, c, w) \/ sv' = [sv EXCEPT ![s] = Suspend(y)]
    BY <1>4 DEF Call, k, n
  <2> HIDE DEF w
  <2>1. Same(w, y)
    BY <2>0 DEF Same, Fine, Fields
  <2> HIDE DEF y
  <2>2. Fine(Suspend(y), b)
    BY <2>0, <2>1, SuspendIsFine
  <2> QED BY <2>0, <1>3, <2>2, <2>3, OneMoves
<1>5. CASE Sleep(s, c)
  <2> DEFINE y == [k EXCEPT !.session = n, !.waits[n] = c, !.sleeps[c] = n, !.pc[c] = "sleep"]
  <2>1. Same(k, y)
    BY <1>2 DEF Same, Fields
  <2> HIDE DEF y
  <2>2. Fine(Suspend(y), b)
    BY <1>2, <2>1, SuspendIsFine
  <2>3. sv' = [sv EXCEPT ![s] = Suspend(y)]
    BY <1>5 DEF Sleep, k, n, y
  <2> QED BY <2>2, <2>3, OneMoves
<1>6. ASSUME NEW d \in Cos, Wakeup(s, c, d) PROVE SectionStays
  <2> DEFINE y == [k EXCEPT !.wakeups = Append(@, d),
                            !.disturbed = @ \/ sv[s].pc[d] = "queue" \/ Contains(sv[s].wakeups, d)]
  <2>1. /\ DOMAIN y = DOMAIN k /\ y.ref = k.ref /\ y.depth = k.depth /\ y.current = k.current
        /\ k.disturbed => y.disturbed
    BY <1>2 DEF Fields
  <2>2. sv' = [sv EXCEPT ![s] = y]
    BY <1>6 DEF Wakeup, k, y
  <2> HIDE DEF y
  <2>3. Fine(y, b)
    BY <1>2, <2>1 DEF Fine, InSection
  <2> QED BY <2>2, <2>3, OneMoves
<1>7. CASE Fork(s, c)
  <2>1. Same(k, Forking(k, "new"))
    BY <1>2, ForkingSame
  <2>2. sv' = [sv EXCEPT ![s] = Forking(k, "new")]
    BY <1>7 DEF Fork, k
  <2> QED BY <1>2, <2>1, <2>2, SameIsFine, OneMoves
<1>8. ASSUME NEW type, Ret(s, c, type) PROVE SectionStays
  <2> DEFINE y == [x EXCEPT !.id[c] = None]
  <2>1. Same(x, y)
    BY <1>1 DEF Same, Fields
  <2>2. sv' = [sv EXCEPT ![s] = y]
    BY <1>8 DEF Ret
  <2> HIDE DEF y
  <2> QED BY <1>1, <2>1, <2>2, SameIsFine, OneMoves
<1>9. CASE Response(s, c)
  <2> DEFINE w == [x EXCEPT !.id[c] = None]
             t == w.address[c]
             y == [w EXCEPT !.watchService[t] = @ + 1,
                            !.unresponse = @ \cup {[session |-> sv[s].id[c], address |-> t]}]
  <2>1. Same(x, w) /\ DOMAIN w = Fields
    BY <1>1 DEF Same, Fields
  <2>2. Raise(s, c, w) \/ sv' = [sv EXCEPT ![s] = y]
    BY <1>9 DEF Response
  <2> HIDE DEF w, t
  <2>3. Same(w, y)
    BY <2>1 DEF Same, Fields
  <2> HIDE DEF y
  <2>4. Fine(w, b) /\ Fine(y, b)
    BY <1>1, <2>1, <2>3, SameIsFine
  <2> QED BY <1>3, <2>2, <2>4, OneMoves
<1>10. ASSUME NEW r, NEW type, Respond(s, c, r, type) PROVE SectionStays
  <2> DEFINE w == [x EXCEPT !.unresponse = @ \ {r}]
             y == Release(w, r.address)
  <2>1. Same(x, w) /\ DOMAIN w = Fields
    BY <1>1 DEF Same, Fields
  <2>2. sv' = [sv EXCEPT ![s] = y]
    BY <1>10 DEF Respond
  <2> HIDE DEF w
  <2>3. Same(w, y)
    BY <2>1, ReleaseSame
  <2> HIDE DEF y
  <2> QED BY <1>1, <2>1, <2>2, <2>3, SameIsFine, OneMoves
<1>11. CASE Fail(s, c)
  BY <1>1, <1>3, <1>11 DEF Fail
<1>12. CASE End(s, c)
  <2>1. Same(x, Recycled(x, c))
    BY <1>1, RecycledSame
  <2>2. Fine(Suspend(Recycled(x, c)), b)
    BY <1>1, <2>1, SuspendIsFine
  <2>3. sv' = [sv EXCEPT ![s] = Suspend(Recycled(x, c))]
    BY <1>12 DEF End
  <2> QED BY <2>2, <2>3, OneMoves
<1>13. CASE Enter(s, c)
  <2>1. CASE k.current \notin {None, c}
    <3> DEFINE m == k.session + 1
               y == [k EXCEPT !.threads = Append(@, c), !.session = m, !.waits[m] = c,
                              !.sleeps[c] = m, !.pc[c] = "queue"]
    <3>1. Same(k, y)
      BY <1>2 DEF Same, Fields
    <3> HIDE DEF y
    <3>2. Fine(Suspend(y), b)
      BY <1>2, <3>1, SuspendIsFine
    <3>3. sv' = [sv EXCEPT ![s] = Suspend(y)]
      BY <1>13, <2>1 DEF Enter, k, y
    <3> QED BY <3>2, <3>3, OneMoves
  <2>2. CASE k.current \in {None, c}
    <3> DEFINE y == [k EXCEPT !.current = c, !.ref = @ + 1, !.depth[c] = @ + 1]
    <3>1. DOMAIN y = Fields /\ y.current = c /\ y.ref = k.ref + 1 /\ y.depth = [k.depth EXCEPT ![c] = @ + 1]
          /\ y.disturbed = k.disturbed
      BY <1>2 DEF Fields
    <3>2. sv' = [sv EXCEPT ![s] = y]
      BY <1>13, <2>2 DEF Enter, k
    <3> HIDE DEF y
    <3>3. k.ref \in Nat /\ k.depth \in [Cos -> Nat] /\ k.depth[c] = k.ref
          /\ \A d \in Cos : d # c => k.depth[d] = 0
      BY <1>2, <2>2, NamesAssumption DEF Fine, InSection
    <3>4. b => y.disturbed
      BY <1>2, <3>1 DEF Fine
    <3>5. InSection(y)
      BY <3>1, <3>3, NamesAssumption DEF InSection
    <3>6. Fine(y, b)
      BY <3>1, <3>4, <3>5 DEF Fine
    <3> QED BY <3>2, <3>6, OneMoves
  <2> QED BY <2>1, <2>2
<1>14. CASE Entered(s, c)
  <2> DEFINE w == [x EXCEPT !.pc[c] = "run"]
             y == [w EXCEPT !.current = c, !.ref = 1, !.depth[c] = 1]
  <2>1. Same(x, w)
    BY <1>1 DEF Same, Fields
  <2>2. Raise(s, c, w) \/ (w.ref = 0 /\ sv' = [sv EXCEPT ![s] = y])
    BY <1>14 DEF Entered
  <2> HIDE DEF w
  <2>3. Fine(w, b)
    BY <1>1, <2>1, SameIsFine
  <2>4. DOMAIN y = Fields /\ y.current = c /\ y.ref = 1 /\ y.depth = [w.depth EXCEPT ![c] = 1]
        /\ y.disturbed = w.disturbed
    BY <2>3 DEF Fine, Fields
  <2> HIDE DEF y
  <2>5. ASSUME w.ref = 0 PROVE Fine(y, b)
    <3>1. w.depth \in [Cos -> Nat] /\ \A d \in Cos : w.depth[d] = 0
      BY <2>3, <2>5 DEF Fine, InSection
    <3>2. b => y.disturbed
      BY <2>3, <2>4 DEF Fine
    <3>3. InSection(y)
      BY <2>4, <3>1, NamesAssumption DEF InSection
    <3> QED BY <2>4, <3>2, <3>3 DEF Fine
  <2> QED BY <1>3, <2>2, <2>3, <2>5, OneMoves
<1>15. CASE Leave(s, c)
  <2>1. x.depth[c] > 0 /\ sv' = [sv EXCEPT ![s] = Left(x, c)]
    BY <1>15 DEF Leave
  <2>2. Fine(Left(x, c), b)
    BY <1>1, <2>1, LeftIsFine
  <2> QED BY <2>1, <2>2, OneMoves
<1>16. CASE Exit(s, c)
  <2> DEFINE w == IF s \in alive /\ box[s] # <<>> THEN [x EXCEPT !.rest = Len(box[s]) - 1] ELSE x
  <2>1. Same(x, w)
    BY <1>1 DEF Same, Fields
  <2>2. sv' = [sv EXCEPT ![s] = Exited(w, c)]
    BY <1>16 DEF Exit
  <2> HIDE DEF w
  <2>3. Fine(Exited(w, c), b)
    BY <1>1, <2>1, SameIsFine, ExitedIsFine
  <2> QED BY <2>2, <2>3, OneMoves
<1> QED
  BY <1>4, <1>5, <1>6, <1>7, <1>8, <1>9, <1>10, <1>11, <1>12, <1>13, <1>14, <1>15, <1>16 DEF Running

LEMMA StepKeeps == SectionInv /\ [Next]_vars => SectionStays
<1> SUFFICES ASSUME SectionInv, [Next]_vars PROVE SectionStays
  OBVIOUS
<1>0. ASSUME UNCHANGED sv PROVE SectionStays
  BY <1>0 DEF SectionStays, SectionInv, Fine, InSection
<1>1. ASSUME NEW s \in Services, TakeResponse(s) PROVE SectionStays
  <2> DEFINE x == Taken(sv[s])
             b == sv[s].disturbed
             n == Head(box[s]).session
             y == [x EXCEPT !.waits[n] = None, !.watchSession[n] = None]
             z == [y EXCEPT !.unknown = @ \/ x.waits[n] = None]
  <2>1. Fine(x, b) /\ DOMAIN x = Fields
    BY TakenSame, SameIsFine DEF SectionInv, Fine
  <2>2. Same(x, y) /\ DOMAIN y = Fields
    BY <2>1 DEF Same, Fields
  <2>3. sv' = [sv EXCEPT ![s] = Resume(y, x.waits[n])] \/ sv' = [sv EXCEPT ![s] = Forks(z)]
    BY <1>1 DEF TakeResponse
  <2> HIDE DEF y
  <2>4. Same(y, z) /\ DOMAIN z = Fields
    BY <2>2 DEF Same, Fields
  <2> HIDE DEF z, x, n
  <2>5. Fine(y, b) /\ Fine(z, b)
    BY <2>1, <2>2, <2>4, SameIsFine
  <2>6. Fine(Resume(y, x.waits[n]), b) /\ Fine(Forks(z), b)
    BY <2>2, <2>4, <2>5, ResumeSame, ForksSame, SameIsFine
  <2> QED BY <2>3, <2>6, OneMoves
<1>2. ASSUME NEW s \in Services, TakeRequest(s) PROVE SectionStays
  <2> DEFINE x == Taken(sv[s])
             b == sv[s].disturbed
             m == Head(box[s])
             c == Last(x.pool)
             v == Created(x, "new")
             w == Watched(v, m.source)
             y == [w EXCEPT !.id[c] = m.session, !.address[c] = m.source]
  <2>1. Fine(x, b) /\ DOMAIN x = Fields
    BY TakenSame, SameIsFine DEF SectionInv, Fine
  <2>2. Same(x, v) /\ DOMAIN v = Fields
    BY <2>1, CreatedSame DEF Same
  <2>3. sv' = [sv EXCEPT ![s] = Resume(y, c)]
    BY <1>2 DEF TakeRequest
  <2> HIDE DEF v
  <2>4. Same(v, w) /\ DOMAIN w = Fields
    BY <2>2, ReleaseSame DEF Same
  <2> HIDE DEF w, x, c, m
  <2>5. Same(w, y) /\ DOMAIN y = Fields
    BY <2>4 DEF Same, Fields
  <2> HIDE DEF y
  <2>6. Fine(y, b)
    BY <2>1, <2>2, <2>4, <2>5, SameIsFine
  <2>7. Fine(Resume(y, c), b)
    BY <2>5, <2>6, ResumeSame, SameIsFine
  <2> QED BY <2>3, <2>7, OneMoves
<1>3. ASSUME NEW s \in Services, TakeError(s) PROVE SectionStays
  <2> DEFINE x == Taken(sv[s])
             b == sv[s].disturbed
             m == Head(box[s])
             c == Last(x.pool)
             v == Created(x, "run")
             w == Watched(v, m.source)
             y == [w EXCEPT !.address[c] = m.source]
             z == Blamed(y, m)
  <2>1. Fine(x, b) /\ DOMAIN x = Fields
    BY TakenSame, SameIsFine DEF SectionInv, Fine
  <2>2. Same(x, v) /\ DOMAIN v = Fields
    BY <2>1, CreatedSame DEF Same
  <2>3. sv' = [sv EXCEPT ![s] = Suspend(Recycled(z, c))]
    BY <1>3 DEF TakeError
  <2> HIDE DEF v
  <2>4. Same(v, w) /\ DOMAIN w = Fields
    BY <2>2, ReleaseSame DEF Same
  <2> HIDE DEF w, x, c, m
  <2>5. Same(w, y) /\ DOMAIN y = Fields
    BY <2>4 DEF Same, Fields
  <2> HIDE DEF y
  <2>6. Same(y, z) /\ DOMAIN z = Fields
    BY <2>5, BlamedSame DEF Same
  <2> HIDE DEF z
  <2>7. Fine(z, b) /\ Same(z, Recycled(z, c))
    BY <2>1, <2>2, <2>4, <2>5, <2>6, SameIsFine, RecycledSame
  <2>8. Fine(Suspend(Recycled(z, c)), b)
    BY <2>7, SuspendIsFine
  <2> QED BY <2>3, <2>8, OneMoves
<1>4. ASSUME NEW s \in Services, Drop(s) PROVE SectionStays
  <2> DEFINE x == sv[s]
             b == sv[s].disturbed
             y == [x EXCEPT !.rest = 0]
  <2>1. Fine(x, b) /\ DOMAIN x = Fields
    BY DEF SectionInv, Fine
  <2>2. Same(x, y)
    BY <2>1 DEF Same, Fields
  <2>3. sv' = [sv EXCEPT ![s] = y]
    BY <1>4 DEF Drop
  <2> HIDE DEF y
  <2> QED BY <2>1, <2>2, <2>3, SameIsFine, OneMoves
<1>5. ASSUME NEW t, TimeOut(t) PROVE SectionStays
  BY <1>0, <1>5 DEF TimeOut
<1>6. CASE UNCHANGED vars
  BY <1>0, <1>6 DEF vars
<1> QED
  BY <1>1, <1>2, <1>3, <1>4, <1>5, <1>6, RunningKeeps DEF Next, Service

\* The section counts right, whatever the coroutines of the service do.
THEOREM SectionCounts == Spec => []SectionInv
<1>1. Init => SectionInv
  <2> SUFFICES ASSUME Init PROVE SectionInv
    OBVIOUS
  <2>1. DOMAIN sv = Services
    BY DEF Init
  <2>2. ASSUME NEW s \in Services PROVE Fine(sv[s], FALSE)
    <3>1. DOMAIN sv[s] = Fields /\ sv[s].ref = 0 /\ sv[s].current = None /\ sv[s].depth = [c \in Cos |-> 0]
      BY DEF Init, Fields
    <3> QED BY <3>1 DEF Fine, InSection
  <2> QED BY <2>1, <2>2 DEF SectionInv
<1> QED BY <1>1, StepKeeps, PTL DEF Spec, SectionStays

\* At most one coroutine of a service is in the critical section (queue.lua), however
\* coroutines wait for it, enter it again, are woken, fail in it and hand it on.
THEOREM SectionHasOne == Spec => []SectionIsExclusive
<1>1. SectionInv => SectionIsExclusive
  <2> SUFFICES ASSUME SectionInv, NEW s \in Services
               PROVE  Cardinality({c \in Cos : sv[s].depth[c] > 0}) <= 1
    BY DEF SectionIsExclusive
  <2> DEFINE D == {c \in Cos : sv[s].depth[c] > 0}
  <2>1. D \subseteq {sv[s].current}
    BY DEF SectionInv, Fine, InSection
  <2> HIDE DEF D
  <2>2. IsFiniteSet({sv[s].current}) /\ Cardinality({sv[s].current}) = 1
    BY FS_Singleton
  <2>3. Cardinality(D) <= 1
    BY <2>1, <2>2, FS_Subset
  <2> QED BY <2>3 DEF D
<1> QED BY <1>1, SectionCounts, PTL

-----------------------------------------------------------------------------
(* Sessions                                                                    *)

States == {"free", "new", "noop", "run", "entering", "call", "sleep", "queue", "exited"}

\* What may be in wakeup_queue and in the queue of the section
Tokens == Cos \cup {Gone}

\* The messages a service sends
Req(n, s) == Message("request", n, s)
Resp(n, t) == Message("response", n, t)
Err(n, t) == Message("error", n, t)

Has(q, m) == \E i \in 1 .. Len(q) : q[i] = m
Once(q, m) == \A i, j \in 1 .. Len(q) : q[i] = m /\ q[j] = m => i = j

\* The coroutine c of t is to answer the session n of s.
Answers(x, c, n, s) == x.id[c] = n /\ x.address[c] = s

\* Where the session n of a service s may be: with its timeout, in a request that t has
\* not taken, with a coroutine or a closure of t, or in the answer of t.
Kinds == {"timer", "asked", "taken", "closure", "answer"}
Place(k, t, s, n) ==
  \/ k = "timer" /\ t = s /\ <<s, n>> \in timers
  \/ k = "asked" /\ t \in alive /\ Has(box[t], Req(n, s))
  \/ k = "taken" /\ t \in alive /\ \E c \in Cos : Answers(sv[t], c, n, s)
  \/ k = "closure" /\ t \in alive /\ [session |-> n, address |-> s] \in sv[t].unresponse
  \/ k = "answer" /\ Has(box[s], Resp(n, t))
Places ==
  {p \in Kinds \X Services \X Services \X Nat : p[3] \in alive /\ Place(p[1], p[2], p[3], p[4])}

\* The sessions of s that may still be answered.
Live(s) == {n \in Nat : \E k \in Kinds, t \in Services : <<k, t, s, n>> \in Places}

(* The state x of a service s, with the sessions L that may still be answered. *)
Typed(x, s) ==
  /\ DOMAIN x = Fields
  /\ x.pc \in [Cos -> States]
  /\ x.pool \in Seq(Cos)
  /\ x.id \in [Cos -> Nat \cup {None}]
  /\ x.address \in [Cos -> Services \cup {None}]
  /\ \A c \in Cos : x.id[c] # None => x.address[c] # None
  /\ x.waits \in [Sessions(s) -> Cos \cup {None, Break}]
  /\ x.watchSession \in [Sessions(s) -> (Services \ {s}) \cup {None}]
  /\ x.sleeps \in [Cos -> Sessions(s) \cup {None}]
  /\ x.wakeups \in Seq(Tokens) /\ x.forks \in Seq(Cos) /\ x.threads \in Seq(Tokens)
  /\ x.errors \in Seq(Sessions(s))
  /\ x.unresponse \subseteq [session : Nat, address : Services]
  /\ x.session \in Nat /\ x.ops \in Nat /\ x.ops <= MaxOps[s]
  /\ 1 <= x.session /\ x.session <= x.ops + 1

\* A coroutine is in the pool, forked or waits for a session, and there once.
Pooled(x) ==
  /\ \A i \in 1 .. Len(x.pool) : x.pc[x.pool[i]] = "free"
  /\ \A i, j \in 1 .. Len(x.pool) : x.pool[i] = x.pool[j] => i = j
  /\ \A i \in 1 .. Len(x.forks) : x.pc[x.forks[i]] \in {"new", "noop"}
  /\ \A i, j \in 1 .. Len(x.forks) : x.forks[i] = x.forks[j] => i = j

Waiting(x, s) ==
  /\ \A n \in Sessions(s) : x.waits[n] \in Cos =>
       /\ x.pc[x.waits[n]] \in {"new", "call", "sleep", "queue"}
       /\ \A i \in 1 .. Len(x.forks) : x.forks[i] # x.waits[n]
       /\ \A m \in Sessions(s) : x.waits[m] = x.waits[n] => m = n
  /\ \A n \in Sessions(s) : x.watchSession[n] # None => x.waits[n] \in Cos
  /\ \A n \in Sessions(s) : n > x.session => x.waits[n] = None

\* One that sleeps waits for a session nobody answers but its timeout; one in the queue
\* of the section for a session nobody answers.
Sleeping(x, s, L) ==
  \A c \in Cos : x.sleeps[c] # None =>
    /\ x.waits[x.sleeps[c]] = c
    /\ x.watchSession[x.sleeps[c]] = None
    /\ x.pc[c] \in {"sleep", "queue"}
    /\ x.pc[c] = "queue" => x.sleeps[c] \notin L

\* The errors to be told are of calls that nobody answers any more.
Failing(x, L) ==
  /\ \A i \in 1 .. Len(x.errors) : x.watchSession[x.errors[i]] # None /\ x.errors[i] \notin L
  /\ \A i, j \in 1 .. Len(x.errors) : x.errors[i] = x.errors[j] => i = j

\* What may be answered is waited for, or was.
Expected(x, L) ==
  /\ \A n \in L : n \in 1 .. x.session /\ x.waits[n] # None
  /\ ~ x.unknown

Tidy(x, s, L) ==
  Typed(x, s) /\ Pooled(x) /\ Waiting(x, s) /\ Sleeping(x, s, L) /\ Failing(x, L) /\ Expected(x, L)

\* The running coroutine is in none of these places; the errors are told before the next
\* message is taken.
Alone(x, c, s) ==
  /\ c \in Cos
  /\ x.pc[c] # "free"
  /\ x.sleeps[c] = None
  /\ \A n \in Sessions(s) : x.waits[n] # c
  /\ \A i \in 1 .. Len(x.forks) : x.forks[i] # c
Busy(x, s) ==
  /\ x.run # None => Alone(x, x.run, s)
  /\ x.run = None => x.errors = <<>>

(* All services. *)
Messages == [type : {"request", "response", "error"}, session : Nat, source : Services]

Shaped ==
  /\ DOMAIN sv = Services
  /\ box \in [Services -> Seq(Messages)]
  /\ alive \subseteq Services
  /\ timers \subseteq Services \X Nat

\* A session is in one place, and there once; a service waits for who is to answer it.
OnePlace == \A p, q \in Places : p[3] = q[3] /\ p[4] = q[4] => p = q
InPlaceOnce ==
  \A s \in alive, t \in Services, n \in Nat :
    /\ Once(box[s], Resp(n, t))
    /\ t \in alive =>
         /\ Once(box[t], Req(n, s))
         /\ \A c, d \in Cos : Answers(sv[t], c, n, s) /\ Answers(sv[t], d, n, s) => c = d
Watches == \A p \in Places : sv[p[3]].watchSession[p[4]] = IF p[2] = p[3] THEN None ELSE p[2]

\* An error is of a session that is not answered any more, or comes after all answers
\* of a service that has exited.
ErrorsAreLast ==
  \A s \in alive : \A i \in 1 .. Len(box[s]) : box[s][i].type = "error" =>
    IF box[s][i].session = 0
    THEN /\ box[s][i].source \notin alive
         /\ \A j \in i .. Len(box[s]) : box[s][j].type = "response" => box[s][j].source # box[s][i].source
    ELSE box[s][i].session \in (1 .. sv[s].session) \ Live(s)

SessionInv ==
  /\ Shaped
  /\ \A s \in Services : ~ sv[s].unknown
  /\ \A s \in alive : Tidy(sv[s], s, Live(s)) /\ Busy(sv[s], s) /\ sv[s].pool # <<>>
  /\ OnePlace /\ InPlaceOnce /\ Watches /\ ErrorsAreLast

-----------------------------------------------------------------------------
\* The sessions of a service are numbers from 1, and there is one for each operation
\* the bounds count.
LEMMA SessionNumbers ==
  ASSUME NEW s \in Services
  PROVE  /\ Sessions(s) \subseteq Nat \ {0}
         /\ \A n \in Nat : n \in 1 .. MaxOps[s] + 1 => n \in Sessions(s)
         /\ None \notin Sessions(s)
BY MaxOpsAssumption, NamesAssumption DEF Sessions

\* Fewer sessions that may be answered ask for less.
LEMMA TidyLess ==
  ASSUME NEW x, NEW s, NEW L, Tidy(x, s, L), NEW M, M \subseteq L
  PROVE  Tidy(x, s, M)
BY DEF Tidy, Sleeping, Failing, Expected

\* y answers what x answers, and waits for the sessions in L as x does.
Keeping(x, y, L) ==
  /\ y.id = x.id /\ y.address = x.address /\ y.unresponse = x.unresponse
  /\ y.session = x.session /\ y.pool = x.pool
  /\ \A n \in L : y.watchSession[n] = x.watchSession[n]

\* What is kept twice is kept.
LEMMA KeepingTwice ==
  ASSUME NEW x, NEW y, NEW z, NEW L, Keeping(x, y, L), Keeping(y, z, L)
  PROVE  Keeping(x, z, L)
BY DEF Keeping

\* What Tidy looks at, apart from the types.
Core(x) ==
  <<x.pc, x.pool, x.waits, x.watchSession, x.sleeps, x.errors, x.forks, x.session, x.unknown>>

\* Tidy looks at the types and at the core.
LEMMA CoreTidy ==
  ASSUME NEW x, NEW y, NEW s, NEW L, Tidy(x, s, L), Typed(y, s), Core(y) = Core(x)
  PROVE  Tidy(y, s, L)
<1>1. /\ y.pc = x.pc /\ y.pool = x.pool /\ y.waits = x.waits /\ y.watchSession = x.watchSession
      /\ y.sleeps = x.sleeps /\ y.errors = x.errors /\ y.forks = x.forks /\ y.session = x.session
      /\ y.unknown = x.unknown
  BY DEF Core
<1>2. Pooled(y)
  BY <1>1 DEF Tidy, Pooled
<1>3. Waiting(y, s)
  BY <1>1 DEF Tidy, Waiting
<1>4. Sleeping(y, s, L)
  BY <1>1 DEF Tidy, Sleeping
<1>5. Failing(y, L) /\ Expected(y, L)
  BY <1>1 DEF Tidy, Failing, Expected
<1> QED BY <1>2, <1>3, <1>4, <1>5 DEF Tidy

\* Alone looks at the core only.
LEMMA CoreAlone ==
  ASSUME NEW x, NEW y, NEW s, NEW c, Alone(x, c, s), Core(y) = Core(x)
  PROVE  Alone(y, c, s)
<1>1. y.pc = x.pc /\ y.waits = x.waits /\ y.sleeps = x.sleeps /\ y.forks = x.forks
  BY DEF Core
<1> QED BY <1>1 DEF Alone

-----------------------------------------------------------------------------
(* The coroutine that goes on *)

\* r is x when the coroutine c goes on.
Resumed(x, c, r) ==
  /\ DOMAIN r = Fields
  /\ r.run = c
  /\ r.sleeps = [x.sleeps EXCEPT ![c] = None]
  /\ \E p \in {"run", "entering", "noop"} : r.pc = [x.pc EXCEPT ![c] = p]
  /\ r.pool = x.pool /\ r.id = x.id /\ r.address = x.address /\ r.waits = x.waits
  /\ r.watchSession = x.watchSession /\ r.wakeups = x.wakeups /\ r.errors = x.errors
  /\ r.forks = x.forks /\ r.unresponse = x.unresponse /\ r.session = x.session
  /\ r.ops = x.ops /\ r.threads = x.threads /\ r.unknown = x.unknown

\* Resume wakes c and changes nothing else.
LEMMA ResumeIs ==
  ASSUME NEW x, DOMAIN x = Fields, NEW c \in Cos
  PROVE  Resumed(x, c, Resume(x, c))
<1> SUFFICES ASSUME NEW r, r = Resume(x, c) PROVE Resumed(x, c, r)
  OBVIOUS
<1>2. r.pc = [x.pc EXCEPT ![c] = CASE @ = "queue" -> "entering" [] @ = "noop" -> "noop" [] OTHER -> "run"]
  BY DEF Resume, Fields
<1>3. \E p \in {"run", "entering", "noop"} :
        p = CASE x.pc[c] = "queue" -> "entering" [] x.pc[c] = "noop" -> "noop" [] OTHER -> "run"
  OBVIOUS
<1>4. \E p \in {"run", "entering", "noop"} : r.pc = [x.pc EXCEPT ![c] = p]
  BY <1>2, <1>3
<1>5. /\ DOMAIN r = Fields
      /\ r.run = c
      /\ r.sleeps = [x.sleeps EXCEPT ![c] = None]
      /\ r.pool = x.pool /\ r.id = x.id /\ r.address = x.address /\ r.waits = x.waits
      /\ r.watchSession = x.watchSession /\ r.wakeups = x.wakeups /\ r.errors = x.errors
      /\ r.forks = x.forks /\ r.unresponse = x.unresponse /\ r.session = x.session
      /\ r.ops = x.ops /\ r.threads = x.threads /\ r.unknown = x.unknown
  BY DEF Resume, Fields
<1> QED BY <1>4, <1>5 DEF Resumed

\* A coroutine that waits for nothing goes on.
LEMMA ResumeTidy ==
  ASSUME NEW s \in Services, NEW x, NEW L, Tidy(x, s, L), NEW c, Alone(x, c, s)
  PROVE  Tidy(Resume(x, c), s, L) /\ Busy(Resume(x, c), s) /\ Keeping(x, Resume(x, c), L)
<1> SUFFICES ASSUME NEW r, r = Resume(x, c)
             PROVE  Tidy(r, s, L) /\ Busy(r, s) /\ Keeping(x, r, L)
  OBVIOUS
<1>0. c \in Cos /\ None \notin Cos /\ DOMAIN x = Fields
  BY NamesAssumption DEF Alone, Tidy, Typed
<1>00. Resumed(x, c, r)
  BY <1>0, ResumeIs
<1>1. PICK p \in {"run", "entering", "noop"} : r.pc = [x.pc EXCEPT ![c] = p]
  BY <1>00 DEF Resumed
<1>2. /\ DOMAIN r = Fields
      /\ r.run = c
      /\ r.sleeps = [x.sleeps EXCEPT ![c] = None]
      /\ r.pool = x.pool /\ r.id = x.id /\ r.address = x.address /\ r.waits = x.waits
      /\ r.watchSession = x.watchSession /\ r.wakeups = x.wakeups /\ r.errors = x.errors
      /\ r.forks = x.forks /\ r.unresponse = x.unresponse /\ r.session = x.session
      /\ r.ops = x.ops /\ r.threads = x.threads /\ r.unknown = x.unknown
  BY <1>00 DEF Resumed
<1>3. Typed(r, s)
  BY <1>0, <1>1, <1>2 DEF Tidy, Typed, States
<1>4. \A d \in Cos : r.pc[d] = IF d = c THEN p ELSE x.pc[d]
  BY <1>0, <1>1 DEF Tidy, Typed
<1>5. \A d \in Cos : r.sleeps[d] = x.sleeps[d]
  BY <1>0, <1>2 DEF Tidy, Typed, Alone
<1>6. Pooled(r)
  <2>1. \A i \in 1 .. Len(x.pool) : x.pool[i] \in Cos /\ x.pool[i] # c
    BY DEF Tidy, Typed, Pooled, Alone
  <2>2. \A i \in 1 .. Len(x.forks) : x.forks[i] \in Cos /\ x.forks[i] # c
    BY DEF Tidy, Typed, Alone
  <2> QED BY <1>2, <1>4, <2>1, <2>2 DEF Tidy, Pooled
<1>7. Waiting(r, s)
  BY <1>2, <1>4 DEF Tidy, Waiting, Alone
<1>8. Sleeping(r, s, L)
  BY <1>0, <1>2, <1>4, <1>5 DEF Tidy, Sleeping, Alone
<1>9. Failing(r, L) /\ Expected(r, L)
  BY <1>2 DEF Tidy, Failing, Expected
<1>10. Busy(r, s)
  BY <1>0, <1>1, <1>2, <1>4, <1>5 DEF Busy, Alone
<1> QED BY <1>2, <1>3, <1>6, <1>7, <1>8, <1>9, <1>10 DEF Tidy, Keeping

\* y is x when the session n is forgotten or marked.
Parted(x, y, s, n, v) ==
  /\ DOMAIN y = Fields
  /\ y.waits = [x.waits EXCEPT ![n] = v]
  /\ y.watchSession = [x.watchSession EXCEPT ![n] = None]
  /\ y.wakeups \in Seq(Tokens)
  /\ y.errors \in Seq(Sessions(s))
  /\ y.pc = x.pc /\ y.pool = x.pool /\ y.id = x.id /\ y.address = x.address
  /\ y.sleeps = x.sleeps /\ y.forks = x.forks /\ y.unresponse = x.unresponse
  /\ y.session = x.session /\ y.ops = x.ops /\ y.threads = x.threads /\ y.unknown = x.unknown

\* The coroutine that waits for the session n goes on, and n is forgotten or, when its
\* timeout is still to come, marked.
LEMMA WakeTidy ==
  ASSUME NEW s \in Services, NEW x, NEW L, Tidy(x, s, L),
         NEW n \in Sessions(s), NEW c \in Cos, x.waits[n] = c,
         NEW v \in {None, Break}, NEW M, M \subseteq L,
         n \in M => v = Break /\ x.watchSession[n] = None,
         NEW y, Parted(x, y, s, n, v), Failing(y, M)
  PROVE  Tidy(Resume(y, c), s, M) /\ Busy(Resume(y, c), s) /\ Keeping(x, Resume(y, c), M)
<1> SUFFICES ASSUME NEW r, r = Resume(y, c)
             PROVE  Tidy(r, s, M) /\ Busy(r, s) /\ Keeping(x, r, M)
  OBVIOUS
<1>0. v \notin Cos /\ None \notin Cos /\ None # Break /\ DOMAIN y = Fields
  BY NamesAssumption DEF Parted
<1>00. Resumed(y, c, r)
  BY <1>0, ResumeIs
<1>1. PICK p \in {"run", "entering", "noop"} : r.pc = [y.pc EXCEPT ![c] = p]
  BY <1>00 DEF Resumed
<1>2. /\ DOMAIN r = Fields
      /\ r.run = c
      /\ r.sleeps = [y.sleeps EXCEPT ![c] = None]
      /\ r.pool = y.pool /\ r.id = y.id /\ r.address = y.address /\ r.waits = y.waits
      /\ r.watchSession = y.watchSession /\ r.wakeups = y.wakeups /\ r.errors = y.errors
      /\ r.forks = y.forks /\ r.unresponse = y.unresponse /\ r.session = y.session
      /\ r.ops = y.ops /\ r.threads = y.threads /\ r.unknown = y.unknown
  BY <1>00 DEF Resumed
<1>3. /\ r.pool = x.pool /\ r.id = x.id /\ r.address = x.address
      /\ r.forks = x.forks /\ r.unresponse = x.unresponse /\ r.session = x.session
      /\ r.ops = x.ops /\ r.threads = x.threads /\ r.unknown = x.unknown
      /\ r.sleeps = [x.sleeps EXCEPT ![c] = None] /\ r.pc = [x.pc EXCEPT ![c] = p]
      /\ r.waits = [x.waits EXCEPT ![n] = v]
      /\ r.watchSession = [x.watchSession EXCEPT ![n] = None]
      /\ r.wakeups \in Seq(Tokens) /\ r.errors \in Seq(Sessions(s)) /\ r.errors = y.errors
      /\ r.watchSession = y.watchSession
  BY <1>1, <1>2 DEF Parted
<1>4. Typed(r, s)
  <2>1. /\ r.pc \in [Cos -> States] /\ r.sleeps \in [Cos -> Sessions(s) \cup {None}]
    BY <1>3 DEF Tidy, Typed, States
  <2>2. r.waits \in [Sessions(s) -> Cos \cup {None, Break}]
    BY <1>3 DEF Tidy, Typed
  <2>3. r.watchSession \in [Sessions(s) -> (Services \ {s}) \cup {None}]
    BY <1>3 DEF Tidy, Typed
  <2>4. /\ r.pool \in Seq(Cos) /\ r.forks \in Seq(Cos) /\ r.threads \in Seq(Tokens)
        /\ r.id \in [Cos -> Nat \cup {None}] /\ r.address \in [Cos -> Services \cup {None}]
        /\ r.unresponse \subseteq [session : Nat, address : Services]
        /\ r.session \in Nat /\ r.ops \in Nat /\ r.ops <= MaxOps[s]
        /\ 1 <= r.session /\ r.session <= r.ops + 1
    BY <1>3 DEF Tidy, Typed
  <2>5. \A d \in Cos : r.id[d] # None => r.address[d] # None
    BY <1>3 DEF Tidy, Typed
  <2> QED BY <1>2, <1>3, <2>1, <2>2, <2>3, <2>4, <2>5 DEF Typed
<1>5. \A d \in Cos : r.pc[d] = IF d = c THEN p ELSE x.pc[d]
  BY <1>3 DEF Tidy, Typed
<1>6. \A d \in Cos : r.sleeps[d] = IF d = c THEN None ELSE x.sleeps[d]
  BY <1>3 DEF Tidy, Typed
<1>7. \A m \in Sessions(s) : r.waits[m] = IF m = n THEN v ELSE x.waits[m]
  BY <1>3 DEF Tidy, Typed
<1>8. \A m \in Sessions(s) : r.watchSession[m] = IF m = n THEN None ELSE x.watchSession[m]
  BY <1>3 DEF Tidy, Typed
<1>9. x.pc[c] # "free" /\ (\A i \in 1 .. Len(x.forks) : x.forks[i] # c)
      /\ \A m \in Sessions(s) : x.waits[m] = c => m = n
  BY DEF Tidy, Waiting
<1>10. Pooled(r)
  <2>1. \A i \in 1 .. Len(x.pool) : x.pool[i] \in Cos /\ x.pool[i] # c
    BY <1>9 DEF Tidy, Typed, Pooled
  <2>2. \A i \in 1 .. Len(x.forks) : x.forks[i] \in Cos /\ x.forks[i] # c
    BY <1>9 DEF Tidy, Typed
  <2> QED BY <1>3, <1>5, <2>1, <2>2 DEF Tidy, Pooled
<1>11. Waiting(r, s)
  <2>1. \A m \in Sessions(s) : r.waits[m] \in Cos => m # n /\ r.waits[m] = x.waits[m] /\ x.waits[m] # c
    BY <1>0, <1>7, <1>9
  <2>2. \A m \in Sessions(s) : r.waits[m] \in Cos =>
          /\ r.pc[r.waits[m]] \in {"new", "call", "sleep", "queue"}
          /\ \A i \in 1 .. Len(r.forks) : r.forks[i] # r.waits[m]
          /\ \A k \in Sessions(s) : r.waits[k] = r.waits[m] => k = m
    BY <1>3, <1>5, <2>1 DEF Tidy, Waiting
  <2>3. \A m \in Sessions(s) : r.watchSession[m] # None => r.waits[m] \in Cos
    BY <1>7, <1>8 DEF Tidy, Waiting
  <2>4. ~ (n > x.session)
    BY <1>0 DEF Tidy, Waiting
  <2>5. \A m \in Sessions(s) : m > r.session => r.waits[m] = None
    BY <1>3, <1>7, <2>4 DEF Tidy, Waiting
  <2> QED BY <2>2, <2>3, <2>5 DEF Waiting
<1>12. Sleeping(r, s, M)
  <2> SUFFICES ASSUME NEW d \in Cos, r.sleeps[d] # None
               PROVE  /\ r.waits[r.sleeps[d]] = d
                      /\ r.watchSession[r.sleeps[d]] = None
                      /\ r.pc[d] \in {"sleep", "queue"}
                      /\ r.pc[d] = "queue" => r.sleeps[d] \notin M
    BY DEF Sleeping
  <2>1. d # c /\ r.sleeps[d] = x.sleeps[d] /\ x.sleeps[d] \in Sessions(s) /\ x.waits[x.sleeps[d]] = d
        /\ x.watchSession[x.sleeps[d]] = None /\ x.pc[d] \in {"sleep", "queue"}
        /\ (x.pc[d] = "queue" => x.sleeps[d] \notin L)
    BY <1>6 DEF Tidy, Typed, Sleeping
  <2>2. x.sleeps[d] # n
    BY <2>1
  <2> QED BY <1>5, <1>7, <1>8, <2>1, <2>2
<1>13. Failing(r, M)
  <2>1. r.errors = y.errors /\ r.watchSession = y.watchSession
    BY <1>3
  <2> QED BY <2>1 DEF Failing
<1>14. Expected(r, M)
  BY <1>0, <1>3, <1>7 DEF Tidy, Typed, Expected
<1>15. Busy(r, s)
  BY <1>0, <1>2, <1>3, <1>5, <1>6, <1>7, <1>9 DEF Busy, Alone
<1>16. Keeping(x, r, M)
  <2>1. \A m \in M : r.watchSession[m] = x.watchSession[m]
    <3> SUFFICES ASSUME NEW m \in M PROVE r.watchSession[m] = x.watchSession[m]
      OBVIOUS
    <3>1. m \in Nat /\ m \in 1 .. MaxOps[s] + 1
      BY MaxOpsAssumption DEF Tidy, Typed, Expected
    <3>2. m \in Sessions(s)
      BY <3>1, SessionNumbers
    <3> QED BY <1>8, <3>2
  <2> QED BY <1>3, <2>1 DEF Keeping
<1> QED BY <1>4, <1>10, <1>11, <1>12, <1>13, <1>14, <1>15, <1>16 DEF Tidy

-----------------------------------------------------------------------------
(* What goes on when a coroutine yields or ends                                *)

\* The first of a sequence and the rest of it.
Rest(S, q) ==
  /\ 1 \in 1 .. Len(q) /\ Head(q) = q[1] /\ Head(q) \in S
  /\ Tail(q) \in Seq(S)
  /\ \A i \in 1 .. Len(Tail(q)) : i + 1 \in 1 .. Len(q) /\ i + 1 # 1 /\ Tail(q)[i] = q[i + 1]

\* The head and the tail of a sequence that is not empty.
LEMMA RestIs ==
  ASSUME NEW S, NEW q \in Seq(S), q # <<>>
  PROVE  Rest(S, q)
<1>1. 1 \in 1 .. Len(q) /\ Head(q) = q[1] /\ Head(q) \in S /\ Tail(q) \in Seq(S) /\ Len(Tail(q)) = Len(q) - 1
  OBVIOUS
<1>2. \A i \in 1 .. Len(Tail(q)) : i + 1 \in 1 .. Len(q) /\ i + 1 # 1 /\ Tail(q)[i] = q[i + 1]
  OBVIOUS
<1> QED BY <1>1, <1>2 DEF Rest

\* r is a state that the service s may go on with after x.
Follows(x, r, s, L) == Tidy(r, s, L) /\ Busy(r, s) /\ Keeping(x, r, L)

\* What follows a state that keeps x follows x.
LEMMA FollowsTwice ==
  ASSUME NEW x, NEW y, NEW r, NEW s, NEW L, Keeping(x, y, L), Follows(y, r, s, L)
  PROVE  Follows(x, r, s, L)
BY KeepingTwice DEF Follows

\* The loop over fork_queue goes on with a forked coroutine or makes the service idle.
LEMMA ForksTidy ==
  ASSUME NEW s \in Services, NEW x, NEW L, Tidy(x, s, L), x.forks = <<>> => x.errors = <<>>
  PROVE  Follows(x, Forks(x), s, L)
<1>0. DOMAIN x = Fields /\ None \notin Cos
  BY NamesAssumption DEF Tidy, Typed
<1>1. CASE x.forks = <<>>
  <2> SUFFICES ASSUME NEW r, r = Forks(x) PROVE Follows(x, r, s, L)
    OBVIOUS
  <2>1. /\ DOMAIN r = Fields /\ r.run = None
        /\ r.pc = x.pc /\ r.pool = x.pool /\ r.id = x.id /\ r.address = x.address /\ r.waits = x.waits
        /\ r.watchSession = x.watchSession /\ r.sleeps = x.sleeps /\ r.wakeups = x.wakeups
        /\ r.errors = x.errors /\ r.forks = x.forks /\ r.unresponse = x.unresponse
        /\ r.session = x.session /\ r.ops = x.ops /\ r.threads = x.threads /\ r.unknown = x.unknown
    BY <1>0, <1>1 DEF Forks, Fields
  <2>2. Typed(r, s)
    BY <2>1 DEF Tidy, Typed
  <2>3. Core(r) = Core(x)
    BY <2>1 DEF Core
  <2>4. Tidy(r, s, L)
    BY <2>2, <2>3, CoreTidy
  <2>5. Busy(r, s)
    BY <1>1, <2>1 DEF Busy
  <2> QED BY <2>1, <2>4, <2>5 DEF Follows, Keeping
<1>2. CASE x.forks # <<>>
  <2> DEFINE c == Head(x.forks)
  <2> SUFFICES ASSUME NEW y, y = [x EXCEPT !.forks = Tail(@), !.frames = 0]
               PROVE  Follows(x, Resume(y, c), s, L)
    BY <1>2 DEF Forks
  <2>1. /\ DOMAIN y = Fields /\ y.forks = Tail(x.forks)
        /\ y.pc = x.pc /\ y.pool = x.pool /\ y.id = x.id /\ y.address = x.address /\ y.waits = x.waits
        /\ y.watchSession = x.watchSession /\ y.sleeps = x.sleeps /\ y.wakeups = x.wakeups
        /\ y.errors = x.errors /\ y.unresponse = x.unresponse
        /\ y.session = x.session /\ y.ops = x.ops /\ y.threads = x.threads /\ y.unknown = x.unknown
    BY <1>0 DEF Fields
  <2>2. Rest(Cos, x.forks)
    BY <1>2, RestIs DEF Tidy, Typed
  <2>3. Typed(y, s)
    BY <2>1, <2>2 DEF Tidy, Typed, Rest
  <2>4. Pooled(y)
    BY <2>1, <2>2 DEF Tidy, Pooled, Rest
  <2>5. Waiting(y, s)
    BY <2>1, <2>2 DEF Tidy, Waiting, Rest
  <2>6. Sleeping(y, s, L) /\ Failing(y, L) /\ Expected(y, L)
    BY <2>1 DEF Tidy, Sleeping, Failing, Expected
  <2>7. Tidy(y, s, L)
    BY <2>3, <2>4, <2>5, <2>6 DEF Tidy
  <2>8. Alone(y, c, s)
    <3>1. c \in Cos /\ c = x.forks[1] /\ 1 \in 1 .. Len(x.forks)
      BY <2>2 DEF Rest
    <3>2. x.pc[c] # "free"
      BY <3>1 DEF Tidy, Pooled
    <3>3. \A n \in Sessions(s) : x.waits[n] # c
      BY <3>1 DEF Tidy, Waiting
    <3>4. x.sleeps[c] = None
      BY <3>1, <3>3 DEF Tidy, Typed, Sleeping
    <3>5. \A i \in 1 .. Len(y.forks) : y.forks[i] # c
      BY <2>1, <2>2, <3>1 DEF Tidy, Pooled, Rest
    <3> HIDE DEF c
    <3> QED BY <2>1, <3>1, <3>2, <3>3, <3>4, <3>5 DEF Alone
  <2>9. Follows(y, Resume(y, c), s, L)
    BY <2>7, <2>8, ResumeTidy DEF Follows
  <2>10. Keeping(x, y, L)
    BY <2>1 DEF Keeping
  <2> QED BY <2>9, <2>10, FollowsTwice
<1> QED BY <1>1, <1>2

\* dispatch_error_queue resumes the coroutine whose call is told to have failed.
LEMMA ErrorsTidy ==
  ASSUME NEW s \in Services, NEW x, NEW L, Tidy(x, s, L)
  PROVE  Follows(x, Errors(x), s, L)
<1>0. DOMAIN x = Fields
  BY DEF Tidy, Typed
<1>1. CASE x.errors = <<>>
  BY <1>1, ForksTidy DEF Errors
<1>2. CASE x.errors # <<>>
  <2> DEFINE n == Head(x.errors)
  <2>1. Rest(Sessions(s), x.errors)
    BY <1>2, RestIs DEF Tidy, Typed
  <2>2. n \in Sessions(s) /\ n = x.errors[1] /\ 1 \in 1 .. Len(x.errors)
    BY <2>1 DEF Rest
  <2>3. x.watchSession[n] # None /\ n \notin L
    BY <2>2 DEF Tidy, Failing
  <2>4. x.waits[n] \in Cos
    BY <2>2, <2>3 DEF Tidy, Waiting
  <2> SUFFICES ASSUME NEW y, y = [x EXCEPT !.errors = Tail(@), !.waits[n] = None, !.watchSession[n] = None]
               PROVE  Follows(x, Resume(y, x.waits[n]), s, L)
    BY <1>2, <2>4 DEF Errors
  <2> HIDE DEF n
  <2>5. /\ DOMAIN y = Fields
        /\ y.errors = Tail(x.errors)
        /\ y.waits = [x.waits EXCEPT ![n] = None]
        /\ y.watchSession = [x.watchSession EXCEPT ![n] = None]
        /\ y.pc = x.pc /\ y.pool = x.pool /\ y.id = x.id /\ y.address = x.address
        /\ y.sleeps = x.sleeps /\ y.wakeups = x.wakeups /\ y.forks = x.forks
        /\ y.unresponse = x.unresponse /\ y.session = x.session /\ y.ops = x.ops
        /\ y.threads = x.threads /\ y.unknown = x.unknown
    BY <1>0 DEF Fields
  <2>6. x.wakeups \in Seq(Tokens) /\ y.errors \in Seq(Sessions(s))
    BY <2>1, <2>5 DEF Tidy, Typed, Rest
  <2>7. Parted(x, y, s, n, None)
    BY <2>5, <2>6 DEF Parted
  <2>8. Failing(y, L)
    <3>1. \A i \in 1 .. Len(y.errors) : i + 1 \in 1 .. Len(x.errors) /\ i + 1 # 1 /\ y.errors[i] = x.errors[i + 1]
                                        /\ y.errors[i] \in Sessions(s)
      BY <2>1, <2>5, <2>6 DEF Rest
    <3>2. \A i \in 1 .. Len(y.errors) : y.errors[i] # n
      BY <2>2, <3>1 DEF Tidy, Failing
    <3>3. \A i \in 1 .. Len(y.errors) : y.watchSession[y.errors[i]] = x.watchSession[y.errors[i]]
      BY <2>5, <3>1, <3>2 DEF Tidy, Typed
    <3>4. \A i \in 1 .. Len(y.errors) : x.watchSession[y.errors[i]] # None /\ y.errors[i] \notin L
      BY <3>1 DEF Tidy, Failing
    <3>5. \A i, j \in 1 .. Len(y.errors) : y.errors[i] = y.errors[j] => i + 1 = j + 1
      BY <3>1 DEF Tidy, Failing
    <3>6. \A i, j \in 1 .. Len(y.errors) : y.errors[i] = y.errors[j] => i = j
      BY <3>5
    <3> QED BY <3>3, <3>4, <3>6 DEF Failing
  <2>9. PICK c \in Cos : x.waits[n] = c
    BY <2>4
  <2>10. Follows(x, Resume(y, c), s, L)
    BY <2>2, <2>3, <2>7, <2>8, <2>9, WakeTidy DEF Follows
  <2> QED BY <2>9, <2>10
<1> QED BY <1>1, <1>2

\* suspend goes on with a coroutine that was woken, whose call failed, or that was
\* forked.
LEMMA SuspendTidy ==
  ASSUME NEW s \in Services, NEW x, NEW L, Tidy(x, s, L)
  PROVE  Follows(x, Suspend(x), s, L)
<1>0. DOMAIN x = Fields
  BY DEF Tidy, Typed
<1>1. CASE x.wakeups = <<>>
  BY <1>1, ErrorsTidy DEF Suspend
<1>2. CASE x.wakeups # <<>>
  <2>1. Rest(Tokens, x.wakeups)
    BY <1>2, RestIs DEF Tidy, Typed
  <2>2. PICK c \in Tokens : c = Head(x.wakeups)
    BY <2>1 DEF Rest
  <2>3. PICK y : y = [x EXCEPT !.wakeups = Tail(@)]
    OBVIOUS
  <2>4. /\ DOMAIN y = Fields /\ y.wakeups = Tail(x.wakeups)
        /\ y.pc = x.pc /\ y.pool = x.pool /\ y.id = x.id /\ y.address = x.address /\ y.waits = x.waits
        /\ y.watchSession = x.watchSession /\ y.sleeps = x.sleeps /\ y.forks = x.forks
        /\ y.errors = x.errors /\ y.unresponse = x.unresponse
        /\ y.session = x.session /\ y.ops = x.ops /\ y.threads = x.threads /\ y.unknown = x.unknown
    BY <1>0, <2>3 DEF Fields
  <2>5. y.wakeups \in Seq(Tokens)
    BY <2>1, <2>4 DEF Rest
  <2>6. Typed(y, s)
    BY <2>4, <2>5 DEF Tidy, Typed
  <2>7. Core(y) = Core(x)
    BY <2>4 DEF Core
  <2>8. Tidy(y, s, L) /\ Keeping(x, y, L)
    BY <2>4, <2>6, <2>7, CoreTidy DEF Keeping
  <2>9. CASE ~ Asleep(x, c)
    <3>1. Suspend(x) = Errors(y)
      BY <1>2, <2>2, <2>3, <2>9 DEF Suspend
    <3> QED BY <2>8, <3>1, ErrorsTidy, FollowsTwice
  <2>10. CASE Asleep(x, c)
    <3>0. c \in Cos /\ x.sleeps[c] # None
      BY <2>10 DEF Asleep
    <3>1. PICK n \in Sessions(s) : n = x.sleeps[c]
      BY <3>0 DEF Tidy, Typed
    <3>2. x.waits[n] = c /\ x.watchSession[n] = None /\ (x.pc[c] = "queue" => n \notin L)
      BY <3>0, <3>1 DEF Tidy, Sleeping
    <3>3. PICK v \in {None, Break} : v = Woken(x, c)
      BY DEF Woken
    <3>4. n \in L => v = Break /\ x.watchSession[n] = None
      BY <3>2, <3>3 DEF Woken
    <3>5. PICK z : z = [y EXCEPT !.waits[n] = v, !.frames = @ + 1]
      OBVIOUS
    <3>6. Suspend(x) = Resume(z, c)
      BY <1>2, <2>2, <2>3, <2>10, <3>1, <3>3, <3>5 DEF Suspend
    <3>7. /\ DOMAIN z = Fields /\ z.wakeups = Tail(x.wakeups)
          /\ z.waits = [x.waits EXCEPT ![n] = v]
          /\ z.watchSession = x.watchSession
          /\ z.pc = x.pc /\ z.pool = x.pool /\ z.id = x.id /\ z.address = x.address
          /\ z.sleeps = x.sleeps /\ z.forks = x.forks /\ z.errors = x.errors
          /\ z.unresponse = x.unresponse /\ z.session = x.session /\ z.ops = x.ops
          /\ z.threads = x.threads /\ z.unknown = x.unknown
      BY <2>4, <3>5 DEF Fields
    <3>8. x.watchSession = [x.watchSession EXCEPT ![n] = None]
      BY <3>1, <3>2 DEF Tidy, Typed
    <3>9. z.wakeups \in Seq(Tokens) /\ z.errors \in Seq(Sessions(s))
      BY <2>4, <2>5, <3>7 DEF Tidy, Typed
    <3>10. Parted(x, z, s, n, v)
      BY <3>7, <3>8, <3>9 DEF Parted
    <3>11. Failing(z, L)
      BY <3>7 DEF Tidy, Failing
    <3> QED BY <3>0, <3>2, <3>4, <3>6, <3>10, <3>11, WakeTidy DEF Follows
  <2> QED BY <2>9, <2>10
<1> QED BY <1>1, <1>2

-----------------------------------------------------------------------------
(* A coroutine that is taken from the pool, forked, or returns to it            *)

\* The last of a sequence and what is before it.
Before(S, q) ==
  /\ Len(q) \in 1 .. Len(q) /\ Last(q) = q[Len(q)] /\ Last(q) \in S
  /\ Front(q) \in Seq(S)
  /\ \A i \in 1 .. Len(Front(q)) : i \in 1 .. Len(q) /\ i # Len(q) /\ Front(q)[i] = q[i]

\* The last element and the front of a sequence that is not empty.
LEMMA BeforeIs ==
  ASSUME NEW S, NEW q \in Seq(S), q # <<>>
  PROVE  Before(S, q)
<1>1. Len(q) \in 1 .. Len(q) /\ Last(q) = q[Len(q)] /\ Last(q) \in S
  BY DEF Last
<1>2. Front(q) \in Seq(S) /\ Len(Front(q)) = Len(q) - 1
  BY DEF Front
<1>3. \A i \in 1 .. Len(Front(q)) : i \in 1 .. Len(q) /\ i # Len(q) /\ Front(q)[i] = q[i]
  BY <1>2 DEF Front
<1> QED BY <1>1, <1>2, <1>3 DEF Before

\* The last coroutine of the pool is not used.
LEMMA LastIsFree ==
  ASSUME NEW s, NEW x, NEW L, Tidy(x, s, L), x.pool # <<>>
  PROVE  Last(x.pool) \in Cos /\ x.pc[Last(x.pool)] = "free"
<1>1. Before(Cos, x.pool)
  BY BeforeIs DEF Tidy, Typed
<1>2. Len(x.pool) \in 1 .. Len(x.pool) /\ Last(x.pool) = x.pool[Len(x.pool)] /\ Last(x.pool) \in Cos
  BY <1>1 DEF Before
<1> QED BY <1>2 DEF Tidy, Pooled

\* y is x with the last coroutine of the pool at p.
Drawn(x, y, d, p) ==
  /\ x.pool # <<>> /\ d = Last(x.pool)
  /\ y.pool = Front(x.pool) /\ y.pc = [x.pc EXCEPT ![d] = p]
  /\ y.waits = x.waits /\ y.watchSession = x.watchSession /\ y.sleeps = x.sleeps
  /\ y.errors = x.errors /\ y.forks = x.forks /\ y.session = x.session /\ y.unknown = x.unknown

\* co_create takes a coroutine of the pool that is nowhere else.
LEMMA DrawnTidy ==
  ASSUME NEW s \in Services, NEW x, NEW L, Tidy(x, s, L),
         NEW y, NEW d, NEW p, p # "free", Drawn(x, y, d, p), Typed(y, s)
  PROVE  /\ Tidy(y, s, L) /\ Alone(y, d, s) /\ y.pc[d] = p
         /\ \A c : Alone(x, c, s) => Alone(y, c, s) /\ c # d
<1>0. None \notin Cos
  BY NamesAssumption
<1>1. Before(Cos, x.pool)
  BY BeforeIs DEF Tidy, Typed, Drawn
<1>2. d \in Cos /\ d = x.pool[Len(x.pool)] /\ Len(x.pool) \in 1 .. Len(x.pool)
  BY <1>1 DEF Before, Drawn
<1>3. x.pc[d] = "free"
  BY <1>2 DEF Tidy, Pooled
<1>4. \A i \in 1 .. Len(x.forks) : x.forks[i] # d
  BY <1>3 DEF Tidy, Pooled
<1>5. \A n \in Sessions(s) : x.waits[n] # d
  BY <1>2, <1>3 DEF Tidy, Waiting
<1>6. x.sleeps[d] = None
  BY <1>2, <1>3 DEF Tidy, Sleeping
<1>7. \A c \in Cos : y.pc[c] = IF c = d THEN p ELSE x.pc[c]
  BY <1>2 DEF Tidy, Typed, Drawn
<1>8. Pooled(y)
  <2>1. \A i \in 1 .. Len(y.pool) : i \in 1 .. Len(x.pool) /\ y.pool[i] = x.pool[i] /\ y.pool[i] # d
    <3>1. Len(x.pool) \in 1 .. Len(x.pool) /\ d = x.pool[Len(x.pool)] /\ y.pool = Front(x.pool)
      BY <1>1 DEF Before, Drawn
    <3>2. \A i \in 1 .. Len(y.pool) : i \in 1 .. Len(x.pool) /\ i # Len(x.pool) /\ y.pool[i] = x.pool[i]
      BY <1>1, <3>1 DEF Before
    <3>3. \A i, j \in 1 .. Len(x.pool) : x.pool[i] = x.pool[j] => i = j
      BY DEF Tidy, Pooled
    <3> QED BY <3>1, <3>2, <3>3
  <2>0. \A i \in 1 .. Len(x.pool) : x.pool[i] \in Cos /\ x.pc[x.pool[i]] = "free"
    BY DEF Tidy, Typed, Pooled
  <2>2. \A i \in 1 .. Len(y.pool) : y.pc[y.pool[i]] = "free"
    BY <1>7, <2>0, <2>1
  <2>3. \A i, j \in 1 .. Len(y.pool) : y.pool[i] = y.pool[j] => i = j
    BY <2>1 DEF Tidy, Pooled
  <2>4. \A i \in 1 .. Len(x.forks) : x.forks[i] \in Cos
    BY DEF Tidy, Typed
  <2>5. y.forks = x.forks
    BY DEF Drawn
  <2>6. \A i \in 1 .. Len(y.forks) : y.pc[y.forks[i]] \in {"new", "noop"}
    BY <1>4, <1>7, <2>4, <2>5 DEF Tidy, Pooled
  <2>7. \A i, j \in 1 .. Len(y.forks) : y.forks[i] = y.forks[j] => i = j
    BY <2>5 DEF Tidy, Pooled
  <2> QED BY <2>2, <2>3, <2>6, <2>7 DEF Pooled
<1>9. Waiting(y, s)
  <2>1. y.waits = x.waits /\ y.watchSession = x.watchSession /\ y.session = x.session /\ y.forks = x.forks
    BY DEF Drawn
  <2> QED BY <1>5, <1>7, <2>1 DEF Tidy, Waiting
<1>10. Sleeping(y, s, L) /\ Failing(y, L) /\ Expected(y, L)
  <2>1. y.waits = x.waits /\ y.watchSession = x.watchSession /\ y.session = x.session
        /\ y.sleeps = x.sleeps /\ y.errors = x.errors /\ y.unknown = x.unknown
    BY DEF Drawn
  <2> QED BY <1>6, <1>7, <2>1 DEF Tidy, Sleeping, Failing, Expected
<1>11. \A c : Alone(x, c, s) => Alone(y, c, s) /\ c # d
  BY <1>3, <1>7 DEF Alone, Drawn
<1>12. Alone(y, d, s) /\ y.pc[d] = p
  BY <1>2, <1>4, <1>5, <1>6, <1>7 DEF Alone, Drawn
<1> QED BY <1>8, <1>9, <1>10, <1>11, <1>12 DEF Tidy

\* y is x with the coroutine d at the end of fork_queue.
Forked(x, y, d) ==
  /\ y.forks = Append(x.forks, d)
  /\ y.pool = x.pool /\ y.pc = x.pc
  /\ y.waits = x.waits /\ y.watchSession = x.watchSession /\ y.sleeps = x.sleeps
  /\ y.errors = x.errors /\ y.session = x.session /\ y.unknown = x.unknown

\* A coroutine of its own may be put into fork_queue.
LEMMA ForkedTidy ==
  ASSUME NEW s \in Services, NEW x, NEW L, Tidy(x, s, L), NEW d, Alone(x, d, s), x.pc[d] \in {"new", "noop"},
         NEW y, Forked(x, y, d), Typed(y, s)
  PROVE  Tidy(y, s, L) /\ \A c : Alone(x, c, s) /\ c # d => Alone(y, c, s)
<1>1. d \in Cos /\ x.forks \in Seq(Cos)
  BY DEF Alone, Tidy, Typed
<1>2. \A i \in 1 .. Len(y.forks) : \/ i \in 1 .. Len(x.forks) /\ y.forks[i] = x.forks[i] /\ y.forks[i] # d
                                   \/ i = Len(x.forks) + 1 /\ y.forks[i] = d
  BY <1>1 DEF Forked, Alone
<1>3. Pooled(y)
  <2>1. y.pool = x.pool /\ y.pc = x.pc
    BY DEF Forked
  <2>2. \A i \in 1 .. Len(y.forks) : y.pc[y.forks[i]] \in {"new", "noop"}
    BY <1>2, <2>1 DEF Tidy, Pooled
  <2>3. \A i, j \in 1 .. Len(y.forks) : y.forks[i] = y.forks[j] => i = j
    BY <1>2 DEF Tidy, Pooled
  <2> QED BY <2>1, <2>2, <2>3 DEF Tidy, Pooled
<1>4. Waiting(y, s)
  <2>1. y.waits = x.waits /\ y.watchSession = x.watchSession /\ y.session = x.session /\ y.pc = x.pc
    BY DEF Forked
  <2>2. \A n \in Sessions(s) : x.waits[n] # d
    BY DEF Alone
  <2>3. \A n \in Sessions(s) : y.waits[n] \in Cos => \A i \in 1 .. Len(y.forks) : y.forks[i] # y.waits[n]
    BY <1>2, <2>1, <2>2 DEF Tidy, Waiting
  <2> QED BY <2>1, <2>3 DEF Tidy, Waiting
<1>5. Sleeping(y, s, L) /\ Failing(y, L) /\ Expected(y, L)
  BY DEF Tidy, Forked, Sleeping, Failing, Expected
<1>6. \A c : Alone(x, c, s) /\ c # d => Alone(y, c, s)
  BY <1>2 DEF Alone, Forked
<1> QED BY <1>3, <1>4, <1>5, <1>6 DEF Tidy

\* y is x with the coroutine c back in the pool.
Freed(x, y, c) ==
  /\ y.pc = [x.pc EXCEPT ![c] = "free"]
  /\ \A i \in 1 .. Len(y.pool) : y.pool[i] = c \/ \E j \in 1 .. Len(x.pool) : y.pool[i] = x.pool[j]
  /\ \A i, j \in 1 .. Len(y.pool) : y.pool[i] = y.pool[j] => i = j
  /\ y.forks = x.forks
  /\ y.waits = x.waits /\ y.watchSession = x.watchSession /\ y.sleeps = x.sleeps
  /\ y.errors = x.errors /\ y.session = x.session /\ y.unknown = x.unknown

\* A coroutine that ends may be put back into the pool.
LEMMA FreedTidy ==
  ASSUME NEW s \in Services, NEW x, NEW L, Tidy(x, s, L), NEW c, Alone(x, c, s),
         NEW y, Freed(x, y, c), Typed(y, s)
  PROVE  Tidy(y, s, L)
<1>1. \A d \in Cos : y.pc[d] = IF d = c THEN "free" ELSE x.pc[d]
  BY DEF Freed, Alone, Tidy, Typed
<1>2. c \in Cos /\ x.sleeps[c] = None /\ (\A n \in Sessions(s) : x.waits[n] # c)
      /\ \A i \in 1 .. Len(x.forks) : x.forks[i] # c
  BY DEF Alone
<1>3. Pooled(y)
  <2>1. \A i \in 1 .. Len(y.pool) : y.pool[i] = c \/ \E j \in 1 .. Len(x.pool) : y.pool[i] = x.pool[j]
    BY DEF Freed
  <2>2. \A i, j \in 1 .. Len(y.pool) : y.pool[i] = y.pool[j] => i = j
    BY DEF Freed
  <2>3. \A j \in 1 .. Len(x.pool) : x.pool[j] \in Cos /\ x.pc[x.pool[j]] = "free"
    BY DEF Tidy, Typed, Pooled
  <2>4. \A i \in 1 .. Len(y.pool) : y.pc[y.pool[i]] = "free"
    BY <1>1, <1>2, <2>1, <2>3
  <2>5. y.forks = x.forks /\ \A i \in 1 .. Len(x.forks) : x.forks[i] \in Cos
    BY DEF Freed, Tidy, Typed
  <2>6. \A i \in 1 .. Len(y.forks) : y.pc[y.forks[i]] \in {"new", "noop"}
    BY <1>1, <1>2, <2>5 DEF Tidy, Pooled
  <2> QED BY <2>2, <2>4, <2>5, <2>6 DEF Tidy, Pooled
<1>4. Waiting(y, s)
  <2>1. y.waits = x.waits /\ y.watchSession = x.watchSession /\ y.session = x.session /\ y.forks = x.forks
    BY DEF Freed
  <2> QED BY <1>1, <1>2, <2>1 DEF Tidy, Waiting
<1>5. Sleeping(y, s, L) /\ Failing(y, L) /\ Expected(y, L)
  <2>1. y.waits = x.waits /\ y.watchSession = x.watchSession /\ y.session = x.session
        /\ y.sleeps = x.sleeps /\ y.errors = x.errors /\ y.unknown = x.unknown
    BY DEF Freed
  <2> QED BY <1>1, <1>2, <2>1 DEF Tidy, Sleeping, Failing, Expected
<1> QED BY <1>3, <1>4, <1>5 DEF Tidy

-----------------------------------------------------------------------------
(* What an operation makes of the state of a service                           *)

\* What a service is to answer and how far its sessions go.
Serving(x, y) == y.id = x.id /\ y.address = x.address /\ y.unresponse = x.unresponse /\ y.session = x.session

\* How the coroutines take turns, apart from where they are.
Turns(x) == <<x.sleeps, x.wakeups, x.threads, x.current, x.ref>>

\* A sequence with an element at its end.
LEMMA AppendIs ==
  ASSUME NEW S, NEW q \in Seq(S), NEW e \in S
  PROVE  Append(q, e) \in Seq(S) /\ Append(q, e) # <<>>
<1>1. Append(q, e) \in Seq(S) /\ Len(Append(q, e)) = Len(q) + 1
  OBVIOUS
<1>2. Len(q) \in Nat /\ Len(<<>>) = 0
  OBVIOUS
<1>3. Len(Append(q, e)) # Len(<<>>)
  BY <1>1, <1>2
<1> QED BY <1>1, <1>3

\* skynet.fork leaves the running coroutine where it is.
LEMMA ForkTidy ==
  ASSUME NEW s \in Services, NEW x, NEW L, Tidy(x, s, L), x.pool # <<>>, NEW p \in {"new", "noop"},
         NEW z, z = Forking(x, p)
  PROVE  /\ Tidy(z, s, L) /\ Serving(x, z) /\ z.watchSession = x.watchSession
         /\ z.pool = Front(x.pool) /\ z.run = x.run /\ z.forks # <<>> /\ z.errors = x.errors
         /\ \A c : Alone(x, c, s) => Alone(z, c, s)
         /\ Turns(z) = Turns(x) /\ z.watchService = x.watchService
         /\ \A c \in Cos : z.pc[c] = x.pc[c] \/ (z.pc[c] = p /\ x.pc[c] = "free")
<1>0. DOMAIN x = Fields
  BY DEF Tidy, Typed
<1>1. PICK y : y = Created(x, p)
  OBVIOUS
<1>2. PICK d \in Cos : d = Last(x.pool)
  BY BeforeIs DEF Tidy, Typed, Before
<1>3. /\ DOMAIN y = Fields /\ y.pool = Front(x.pool) /\ y.pc = [x.pc EXCEPT ![d] = p]
      /\ y.waits = x.waits /\ y.watchSession = x.watchSession /\ y.sleeps = x.sleeps
      /\ y.errors = x.errors /\ y.forks = x.forks /\ y.session = x.session /\ y.unknown = x.unknown
      /\ y.id = x.id /\ y.address = x.address /\ y.wakeups = x.wakeups /\ y.threads = x.threads
      /\ y.unresponse = x.unresponse /\ y.ops = x.ops /\ y.run = x.run
      /\ y.current = x.current /\ y.ref = x.ref /\ y.watchService = x.watchService
  BY <1>0, <1>1, <1>2 DEF Created, Fields
<1>4. Typed(y, s)
  <2>1. Front(x.pool) \in Seq(Cos)
    BY BeforeIs DEF Tidy, Typed, Before
  <2>2. y.pc \in [Cos -> States]
    BY <1>3 DEF Tidy, Typed, States
  <2> QED BY <1>3, <2>1, <2>2 DEF Tidy, Typed
<1>5. Drawn(x, y, d, p)
  BY <1>2, <1>3 DEF Drawn
<1>6. /\ Tidy(y, s, L) /\ Alone(y, d, s) /\ y.pc[d] = p
      /\ \A c : Alone(x, c, s) => Alone(y, c, s) /\ c # d
  BY <1>4, <1>5, DrawnTidy
<1>7. PICK w : w = [y EXCEPT !.forks = Append(@, d)]
  OBVIOUS
<1>70. z = w \/ z = [w EXCEPT !.stale[x.address[d]] = @ + 1]
  BY <1>1, <1>2, <1>7 DEF Forking
<1>71. /\ DOMAIN w = Fields /\ w.forks = Append(y.forks, d)
      /\ w.pool = y.pool /\ w.pc = y.pc
      /\ w.waits = y.waits /\ w.watchSession = y.watchSession /\ w.sleeps = y.sleeps
      /\ w.errors = y.errors /\ w.session = y.session /\ w.unknown = y.unknown
      /\ w.id = y.id /\ w.address = y.address /\ w.wakeups = y.wakeups /\ w.threads = y.threads
      /\ w.unresponse = y.unresponse /\ w.ops = y.ops /\ w.run = y.run
      /\ w.current = y.current /\ w.ref = y.ref /\ w.watchService = y.watchService
  BY <1>3, <1>7 DEF Fields
<1>8. /\ DOMAIN z = Fields /\ z.forks = Append(y.forks, d)
      /\ z.pool = y.pool /\ z.pc = y.pc
      /\ z.waits = y.waits /\ z.watchSession = y.watchSession /\ z.sleeps = y.sleeps
      /\ z.errors = y.errors /\ z.session = y.session /\ z.unknown = y.unknown
      /\ z.id = y.id /\ z.address = y.address /\ z.wakeups = y.wakeups /\ z.threads = y.threads
      /\ z.unresponse = y.unresponse /\ z.ops = y.ops /\ z.run = y.run
      /\ z.current = y.current /\ z.ref = y.ref /\ z.watchService = y.watchService
  BY <1>70, <1>71 DEF Fields
<1>9. y.forks \in Seq(Cos)
  BY <1>6 DEF Tidy, Typed
<1>10. z.forks \in Seq(Cos) /\ z.forks # <<>>
  BY <1>8, <1>9, AppendIs
<1>11. Typed(z, s)
  BY <1>4, <1>8, <1>10 DEF Typed
<1>12. Forked(y, z, d)
  BY <1>8 DEF Forked
<1>13. Tidy(z, s, L) /\ \A c : Alone(y, c, s) /\ c # d => Alone(z, c, s)
  BY <1>6, <1>11, <1>12, ForkedTidy
<1>14. Serving(x, z) /\ z.watchSession = x.watchSession
         /\ z.pool = Front(x.pool) /\ z.run = x.run /\ z.errors = x.errors
  BY <1>3, <1>8 DEF Serving
<1>15. Turns(z) = Turns(x) /\ z.watchService = x.watchService
  BY <1>3, <1>8 DEF Turns
<1>16. \A c \in Cos : z.pc[c] = x.pc[c] \/ (z.pc[c] = p /\ x.pc[c] = "free")
  <2>1. x.pc[d] = "free"
    BY SMTT(60), <1>2, BeforeIs DEF Tidy, Typed, Pooled, Before
  <2>2. z.pc = [x.pc EXCEPT ![d] = p] /\ x.pc \in [Cos -> States]
    BY <1>3, <1>8 DEF Tidy, Typed
  <2> QED BY <2>1, <2>2
<1> QED BY <1>6, <1>10, <1>13, <1>14, <1>15, <1>16

\* r is x when the coroutine c is back in the pool.
Ended(x, r, c) ==
  /\ r.id = [x.id EXCEPT ![c] = None] /\ r.address = x.address /\ r.unresponse = x.unresponse
  /\ r.session = x.session /\ r.watchSession = x.watchSession /\ r.pool = Append(x.pool, c)

\* The end of a coroutine puts it into the pool and forgets its session.
LEMMA RecycledTidy ==
  ASSUME NEW s \in Services, NEW x, NEW L, Tidy(x, s, L), NEW c, Alone(x, c, s)
  PROVE  /\ Tidy(Recycled(x, c), s, L) /\ Ended(x, Recycled(x, c), c)
         /\ Turns(Recycled(x, c)) = Turns(x) /\ Recycled(x, c).pc = [x.pc EXCEPT ![c] = "free"]
<1> SUFFICES ASSUME NEW r, r = Recycled(x, c)
             PROVE  Tidy(r, s, L) /\ Ended(x, r, c) /\ Turns(r) = Turns(x) /\ r.pc = [x.pc EXCEPT ![c] = "free"]
  OBVIOUS
<1>0. DOMAIN x = Fields /\ c \in Cos /\ x.pc[c] # "free"
  BY DEF Tidy, Typed, Alone
<1>1. PICK y : y = [x EXCEPT !.pool = Append(@, c), !.pc[c] = "free", !.id[c] = None]
  OBVIOUS
<1>2. /\ DOMAIN y = Fields /\ y.pool = Append(x.pool, c) /\ y.pc = [x.pc EXCEPT ![c] = "free"]
      /\ y.id = [x.id EXCEPT ![c] = None]
      /\ y.waits = x.waits /\ y.watchSession = x.watchSession /\ y.sleeps = x.sleeps
      /\ y.errors = x.errors /\ y.forks = x.forks /\ y.session = x.session /\ y.unknown = x.unknown
      /\ y.address = x.address /\ y.wakeups = x.wakeups /\ y.threads = x.threads
      /\ y.unresponse = x.unresponse /\ y.ops = x.ops /\ y.current = x.current /\ y.ref = x.ref
  BY <1>0, <1>1 DEF Fields
<1>3. r = y \/ r = Release(y, x.address[c])
  BY <1>1 DEF Recycled
<1>4. /\ DOMAIN r = Fields /\ r.pool = y.pool /\ r.pc = y.pc /\ r.id = y.id
      /\ r.waits = y.waits /\ r.watchSession = y.watchSession /\ r.sleeps = y.sleeps
      /\ r.errors = y.errors /\ r.forks = y.forks /\ r.session = y.session /\ r.unknown = y.unknown
      /\ r.address = y.address /\ r.wakeups = y.wakeups /\ r.threads = y.threads
      /\ r.unresponse = y.unresponse /\ r.ops = y.ops /\ r.current = y.current /\ r.ref = y.ref
  BY <1>2, <1>3 DEF Release, Fields
<1>5. Ended(x, r, c)
  BY <1>2, <1>4 DEF Ended
<1>6. x.pool \in Seq(Cos)
  BY DEF Tidy, Typed
<1>7. r.pool = Append(x.pool, c) /\ r.pool \in Seq(Cos)
  BY <1>0, <1>2, <1>4, <1>6
<1>8. r.pc \in [Cos -> States] /\ r.id \in [Cos -> Nat \cup {None}]
  <2>1. r.pc = [x.pc EXCEPT ![c] = "free"] /\ r.id = [x.id EXCEPT ![c] = None]
    BY <1>2, <1>4
  <2>2. x.pc \in [Cos -> States] /\ x.id \in [Cos -> Nat \cup {None}]
    BY DEF Tidy, Typed
  <2>3. r.pc \in [Cos -> States]
    BY <2>1, <2>2 DEF States
  <2>4. r.id \in [Cos -> Nat \cup {None}]
    BY <2>1, <2>2
  <2> QED BY <2>3, <2>4
<1>9. Typed(r, s)
  BY <1>2, <1>4, <1>7, <1>8 DEF Tidy, Typed
<1>10. \A i \in 1 .. Len(r.pool) : \/ i \in 1 .. Len(x.pool) /\ r.pool[i] = x.pool[i] /\ r.pool[i] # c
                                   \/ i = Len(x.pool) + 1 /\ r.pool[i] = c
  <2>1. \A i \in 1 .. Len(r.pool) : \/ i \in 1 .. Len(x.pool) /\ r.pool[i] = x.pool[i]
                                    \/ i = Len(x.pool) + 1 /\ r.pool[i] = c
    BY <1>6, <1>7
  <2>2. \A i \in 1 .. Len(x.pool) : x.pool[i] # c
    BY <1>0 DEF Tidy, Pooled
  <2> QED BY <2>1, <2>2
<1>11. \A i, j \in 1 .. Len(r.pool) : r.pool[i] = r.pool[j] => i = j
  BY <1>10 DEF Tidy, Pooled
<1>12. Freed(x, r, c)
  BY <1>2, <1>4, <1>10, <1>11 DEF Freed
<1>13. Turns(r) = Turns(x) /\ r.pc = [x.pc EXCEPT ![c] = "free"]
  BY <1>2, <1>4 DEF Turns
<1> QED BY <1>5, <1>9, <1>12, <1>13, FreedTidy

\* The critical section keeps what is answered and waited for.
LEMMA LeftTidy ==
  ASSUME NEW s \in Services, NEW x, NEW L, Tidy(x, s, L), NEW c, NEW r, r = Left(x, c)
  PROVE  /\ Tidy(r, s, L) /\ Serving(x, r) /\ Core(r) = Core(x) /\ r.run = x.run
<1>0. DOMAIN x = Fields
  BY DEF Tidy, Typed
<1>1. PICK next : next = IF x.threads = <<>> THEN None ELSE Head(x.threads)
  OBVIOUS
<1>2. PICK y : y = [x EXCEPT !.ref = @ - 1, !.depth[c] = @ - 1]
  OBVIOUS
<1>3. \/ r = y
      \/ r = [y EXCEPT !.current = next, !.threads = IF @ = <<>> THEN @ ELSE Tail(@),
                      !.wakeups = IF Asleep(x, next) THEN Append(@, next) ELSE @]
  BY <1>1, <1>2 DEF Left
<1>4. /\ DOMAIN y = Fields /\ y.run = x.run /\ y.pool = x.pool /\ y.pc = x.pc /\ y.id = x.id
      /\ y.waits = x.waits /\ y.watchSession = x.watchSession /\ y.sleeps = x.sleeps
      /\ y.errors = x.errors /\ y.forks = x.forks /\ y.session = x.session /\ y.unknown = x.unknown
      /\ y.address = x.address /\ y.wakeups = x.wakeups /\ y.threads = x.threads
      /\ y.unresponse = x.unresponse /\ y.ops = x.ops
  BY <1>0, <1>2 DEF Fields
<1>5. /\ DOMAIN r = Fields /\ r.run = y.run /\ r.pool = y.pool /\ r.pc = y.pc /\ r.id = y.id
      /\ r.waits = y.waits /\ r.watchSession = y.watchSession /\ r.sleeps = y.sleeps
      /\ r.errors = y.errors /\ r.forks = y.forks /\ r.session = y.session /\ r.unknown = y.unknown
      /\ r.address = y.address /\ r.unresponse = y.unresponse /\ r.ops = y.ops
      /\ (r.threads = y.threads \/ (y.threads # <<>> /\ r.threads = Tail(y.threads)))
      /\ (r.wakeups = y.wakeups \/ (next \in Tokens /\ r.wakeups = Append(y.wakeups, next)))
  BY ZenonT(60), <1>3, <1>4 DEF Fields, Asleep, Tokens
<1>6. x.threads \in Seq(Tokens) /\ x.wakeups \in Seq(Tokens)
  BY DEF Tidy, Typed
<1>7. next # None => next \in Tokens
  BY <1>1, <1>6, RestIs DEF Rest
<1>8. r.threads \in Seq(Tokens)
  BY <1>4, <1>5, <1>6, RestIs DEF Rest
<1>9. r.wakeups \in Seq(Tokens)
  <2>1. y.wakeups \in Seq(Tokens)
    BY <1>4, <1>6
  <2>2. next \in Tokens => Append(y.wakeups, next) \in Seq(Tokens)
    BY <2>1, AppendIs
  <2> QED BY <1>5, <2>1, <2>2
<1>10. Typed(r, s)
  BY <1>4, <1>5, <1>8, <1>9 DEF Tidy, Typed
<1>11. Core(r) = Core(x)
  BY <1>4, <1>5 DEF Core
<1> QED BY <1>4, <1>5, <1>10, <1>11, CoreTidy DEF Serving

\* An error ends the coroutine.
Failed(x, r, c) ==
  /\ r.id = [x.id EXCEPT ![c] = None] /\ r.address = [x.address EXCEPT ![c] = None]
  /\ r.unresponse = x.unresponse /\ r.session = x.session /\ r.pool = Front(<<c>> \o x.pool)

\* What an error makes of x, before the forks go on.
Fallen(x, c) ==
  Forking(Dead(Unwound(x, c), c), "noop")

\* q, when c has ended
Marked(q, c) == [i \in DOMAIN q |-> IF q[i] = c THEN Gone ELSE q[i]]

\* What is marked is a sequence of tokens; what c is not in stays.
LEMMA MarkedIs ==
  ASSUME NEW q \in Seq(Tokens), NEW c
  PROVE  /\ Marked(q, c) \in Seq(Tokens)
         /\ (\A i \in 1 .. Len(q) : q[i] # c) => Marked(q, c) = q
<1>1. DOMAIN q = 1 .. Len(q) /\ Len(q) \in Nat /\ \A i \in 1 .. Len(q) : q[i] \in Tokens
  OBVIOUS
<1>2. Marked(q, c) \in [1 .. Len(q) -> Tokens]
  BY <1>1 DEF Marked, Tokens
<1>3. Marked(q, c) \in Seq(Tokens)
  BY <1>1, <1>2
<1>4. (\A i \in 1 .. Len(q) : q[i] # c) => Marked(q, c) = q
  BY <1>1 DEF Marked
<1> QED BY <1>3, <1>4

\* z is u when its coroutine c has ended and another one is forked.
Fell(u, z, c) ==
  /\ z.sleeps = u.sleeps /\ z.ref = u.ref /\ z.watchService = u.watchService
  /\ z.wakeups = Marked(u.wakeups, c) /\ z.threads = Marked(u.threads, c)
  /\ z.current = IF u.current = c THEN Gone ELSE u.current
  /\ \A d \in Cos : z.pc[d] = u.pc[d] \/ (z.pc[d] \in {"free", "noop"} /\ (d = c \/ u.pc[d] = "free"))

\* An error that nobody catches ends the coroutine and forks another one.
LEMMA FallenTidy ==
  ASSUME NEW s \in Services, NEW x, NEW L, Tidy(x, s, L), NEW c, Alone(x, c, s), NEW z, z = Fallen(x, c)
  PROVE  /\ Tidy(z, s, L) /\ Failed(x, z, c) /\ z.forks # <<>> /\ z.watchSession = x.watchSession
         /\ Fell(Unwound(x, c), z, c)
         /\ Tidy(Dead(Unwound(x, c), c), s, L) /\ Dead(Unwound(x, c), c).pool # <<>>
<1>0. DOMAIN x = Fields
  BY DEF Tidy, Typed
<1>1. PICK u : u = Unwound(x, c)
  OBVIOUS
<1>2. Tidy(u, s, L) /\ Serving(x, u) /\ Core(u) = Core(x)
  <2>1. CASE x.depth[c] = 0
    BY <1>1, <2>1 DEF Unwound, Serving
  <2>2. CASE x.depth[c] # 0
    <3>1. PICK v : v = [x EXCEPT !.ref = 1, !.depth[c] = 1]
      OBVIOUS
    <3>2. /\ DOMAIN v = Fields /\ v.run = x.run /\ v.pool = x.pool /\ v.pc = x.pc /\ v.id = x.id
          /\ v.waits = x.waits /\ v.watchSession = x.watchSession /\ v.sleeps = x.sleeps
          /\ v.errors = x.errors /\ v.forks = x.forks /\ v.session = x.session /\ v.unknown = x.unknown
          /\ v.address = x.address /\ v.wakeups = x.wakeups /\ v.threads = x.threads
          /\ v.unresponse = x.unresponse /\ v.ops = x.ops
      BY <1>0, <3>1 DEF Fields
    <3>3. Typed(v, s)
      BY <3>2 DEF Tidy, Typed
    <3>4. Core(v) = Core(x)
      BY <3>2 DEF Core
    <3>5. Tidy(v, s, L)
      BY <3>3, <3>4, CoreTidy
    <3>6. u = Left(v, c)
      BY <1>1, <2>2, <3>1 DEF Unwound
    <3>7. Tidy(u, s, L) /\ Serving(v, u) /\ Core(u) = Core(v)
      BY <3>5, <3>6, LeftTidy
    <3> QED BY <3>2, <3>4, <3>7 DEF Serving
  <2> QED BY <2>1, <2>2
<1>3. Alone(u, c, s)
  BY <1>2, CoreAlone
<1>4. PICK y : y = Dead(u, c)
  OBVIOUS
<1>5. DOMAIN u = Fields /\ c \in Cos /\ u.pc[c] # "free" /\ u.pool \in Seq(Cos)
  BY <1>2, <1>3 DEF Tidy, Typed, Alone
<1>6. /\ DOMAIN y = Fields /\ y.pool = <<c>> \o u.pool /\ y.pc = [u.pc EXCEPT ![c] = "free"]
      /\ y.id = [u.id EXCEPT ![c] = None] /\ y.address = [u.address EXCEPT ![c] = None]
      /\ y.waits = u.waits /\ y.watchSession = u.watchSession /\ y.sleeps = u.sleeps
      /\ y.errors = u.errors /\ y.forks = u.forks /\ y.session = u.session /\ y.unknown = u.unknown
      /\ y.wakeups = Marked(u.wakeups, c) /\ y.threads = Marked(u.threads, c) /\ y.ref = u.ref
      /\ y.current = IF u.current = c THEN Gone ELSE u.current
      /\ y.unresponse = u.unresponse /\ y.ops = u.ops /\ y.watchService = u.watchService
  BY <1>4, <1>5 DEF Fields, Dead, Marked
<1>7. y.pool \in Seq(Cos) /\ y.pool # <<>>
  <2>1. <<c>> \in Seq(Cos)
    BY <1>5
  <2> QED BY <1>5, <1>6, <2>1
<1>8. Typed(y, s)
  <2>1. /\ y.pc \in [Cos -> States] /\ y.id \in [Cos -> Nat \cup {None}]
        /\ y.address \in [Cos -> Services \cup {None}]
    <3>1. /\ u.pc \in [Cos -> States] /\ u.id \in [Cos -> Nat \cup {None}]
          /\ u.address \in [Cos -> Services \cup {None}]
      BY <1>2 DEF Tidy, Typed
    <3>2. y.pc \in [Cos -> States]
      <4>1. y.pc = [u.pc EXCEPT ![c] = "free"] /\ "free" \in States
        BY <1>6 DEF States
      <4> QED BY <3>1, <4>1
    <3>3. y.id \in [Cos -> Nat \cup {None}] /\ y.address \in [Cos -> Services \cup {None}]
      BY ZenonT(60), <1>6, <3>1
    <3> QED BY <3>2, <3>3
  <2>2. y.wakeups \in Seq(Tokens) /\ y.threads \in Seq(Tokens)
    BY SMTT(60), <1>2, <1>6, MarkedIs DEF Tidy, Typed
  <2> QED BY ZenonT(60), <1>2, <1>6, <1>7, <2>1, <2>2 DEF Tidy, Typed
<1>9. Freed(u, y, c)
  <2>1. \A i \in 1 .. Len(y.pool) : \/ i = 1 /\ y.pool[i] = c
                                    \/ i - 1 \in 1 .. Len(u.pool) /\ y.pool[i] = u.pool[i - 1]
    BY <1>5, <1>6
  <2>2. \A i \in 1 .. Len(u.pool) : u.pool[i] # c
    BY <1>2, <1>5 DEF Tidy, Pooled
  <2>3. \A i, j \in 1 .. Len(y.pool) : y.pool[i] = y.pool[j] => i = j \/ i - 1 = j - 1
    BY SMTT(60), <1>2, <2>1, <2>2 DEF Tidy, Pooled
  <2>4. \A i, j \in 1 .. Len(y.pool) : y.pool[i] = y.pool[j] => i = j
    BY <2>3
  <2> QED BY <1>6, <2>1, <2>4 DEF Freed
<1>10. Tidy(y, s, L)
  BY <1>2, <1>3, <1>8, <1>9, FreedTidy
<1>11. z = Forking(y, "noop")
  BY <1>1, <1>4 DEF Fallen
<1>12. /\ Tidy(z, s, L) /\ Serving(y, z) /\ z.watchSession = y.watchSession
       /\ z.pool = Front(y.pool) /\ z.forks # <<>> /\ Turns(z) = Turns(y) /\ z.watchService = y.watchService
       /\ \A d \in Cos : z.pc[d] = y.pc[d] \/ (z.pc[d] = "noop" /\ y.pc[d] = "free")
  <2>1. "noop" \in {"new", "noop"}
    OBVIOUS
  <2>2. y.pool # <<>>
    BY <1>7
  <2> QED BY SMTT(60), <1>10, <1>11, <2>1, <2>2, ForkTidy
<1>13. u.id = x.id /\ u.address = x.address /\ u.unresponse = x.unresponse /\ u.session = x.session
       /\ u.pool = x.pool /\ u.watchSession = x.watchSession
  BY <1>2 DEF Serving, Core
<1>14. Failed(x, z, c)
  BY <1>6, <1>12, <1>13 DEF Failed, Serving
<1>15. z.watchSession = x.watchSession
  BY <1>6, <1>12, <1>13
<1>16. Fell(u, z, c)
  <2>1. /\ z.sleeps = y.sleeps /\ z.ref = y.ref /\ z.watchService = y.watchService
        /\ z.wakeups = y.wakeups /\ z.threads = y.threads /\ z.current = y.current
    BY <1>12 DEF Turns
  <2>2. \A d \in Cos : y.pc[d] = IF d = c THEN "free" ELSE u.pc[d]
    BY <1>2, <1>6 DEF Tidy, Typed
  <2> QED BY <1>6, <1>12, <2>1, <2>2 DEF Fell
<1> QED BY <1>1, <1>4, <1>7, <1>10, <1>12, <1>14, <1>15, <1>16

\* An error that nobody catches goes on with the forks.
LEMMA RaisedTidy ==
  ASSUME NEW s \in Services, NEW x, NEW L, Tidy(x, s, L), NEW c, Alone(x, c, s)
  PROVE  /\ Tidy(Raised(x, c), s, L) /\ Busy(Raised(x, c), s) /\ Failed(x, Raised(x, c), c)
         /\ \A n \in L : Raised(x, c).watchSession[n] = x.watchSession[n]
<1>1. PICK z : z = Fallen(x, c)
  OBVIOUS
<1>2. Tidy(z, s, L) /\ Failed(x, z, c) /\ z.forks # <<>> /\ z.watchSession = x.watchSession
  BY <1>1, FallenTidy
<1>3. PICK r : r = Forks(z)
  OBVIOUS
<1>4. Tidy(r, s, L) /\ Busy(r, s) /\ Keeping(z, r, L)
  BY <1>2, <1>3, ForksTidy DEF Follows
<1>5. Raised(x, c) = r
  BY <1>1, <1>3 DEF Raised, Fallen
<1>6. Failed(x, r, c) /\ \A n \in L : r.watchSession[n] = x.watchSession[n]
  BY <1>2, <1>4 DEF Failed, Keeping
<1> QED BY <1>4, <1>5, <1>6

-----------------------------------------------------------------------------
(* A coroutine waits, and its session is forgotten                             *)

\* y is x when the coroutine c waits at p for the session n, from the service w if there
\* is one; v is its sleep_session.
Waits(x, y, c, p, n, w, v) ==
  /\ n = x.session + 1
  /\ p \in {"call", "sleep", "queue"} /\ (v # None => v = n /\ w = None)
  /\ y.pc = [x.pc EXCEPT ![c] = p] /\ y.waits = [x.waits EXCEPT ![n] = c]
  /\ y.watchSession = [x.watchSession EXCEPT ![n] = w] /\ y.sleeps = [x.sleeps EXCEPT ![c] = v]
  /\ y.session = n /\ y.pool = x.pool /\ y.forks = x.forks /\ y.errors = x.errors /\ y.unknown = x.unknown

\* A coroutine that yields waits for a session that is new.
LEMMA WaitTidy ==
  ASSUME NEW s \in Services, NEW x, NEW L, Tidy(x, s, L), NEW c, Alone(x, c, s),
         NEW n \in Sessions(s), NEW w, NEW v, NEW p,
         NEW y, Waits(x, y, c, p, n, w, v), Typed(y, s),
         NEW M, M \subseteq L \cup {n}, v # None => p # "call", p = "queue" => n \notin M
  PROVE  Tidy(y, s, M) /\ \A m \in L : y.watchSession[m] = x.watchSession[m] /\ m # n
<1>0. None \notin Cos /\ None \notin Sessions(s) /\ c \in Cos /\ x.pc[c] # "free" /\ x.sleeps[c] = None
      /\ (\A m \in Sessions(s) : x.waits[m] # c) /\ (\A i \in 1 .. Len(x.forks) : x.forks[i] # c)
  BY NamesAssumption, SessionNumbers DEF Alone
<1>1. /\ n = x.session + 1
      /\ p \in {"call", "sleep", "queue"} /\ (v # None => v = n /\ w = None)
      /\ y.session = n /\ y.pool = x.pool /\ y.forks = x.forks /\ y.errors = x.errors /\ y.unknown = x.unknown
  BY DEF Waits
<1>2. \A d \in Cos : y.pc[d] = IF d = c THEN p ELSE x.pc[d]
  BY <1>0 DEF Waits, Tidy, Typed
<1>3. \A m \in Sessions(s) : y.waits[m] = IF m = n THEN c ELSE x.waits[m]
  BY DEF Waits, Tidy, Typed
<1>4. \A m \in Sessions(s) : y.watchSession[m] = IF m = n THEN w ELSE x.watchSession[m]
  BY DEF Waits, Tidy, Typed
<1>5. \A d \in Cos : y.sleeps[d] = IF d = c THEN v ELSE x.sleeps[d]
  BY <1>0 DEF Waits, Tidy, Typed
<1>6. x.session \in Nat /\ Sessions(s) \subseteq Nat
  BY SessionNumbers DEF Tidy, Typed
<1>7. \A m \in L : m \in 1 .. x.session /\ m # n /\ m \in Sessions(s)
  <2>1. \A m \in L : m \in 1 .. x.session
    BY DEF Tidy, Expected
  <2>2. \A m \in L : m # n
    BY <1>1, <1>6, <2>1
  <2>3. \A m \in L : m \in 1 .. MaxOps[s] + 1
    <3>1. x.session <= x.ops + 1 /\ x.ops <= MaxOps[s] /\ x.ops \in Nat /\ MaxOps[s] \in Nat
      BY MaxOpsAssumption DEF Tidy, Typed
    <3> QED BY <1>6, <2>1, <3>1
  <2> QED BY <2>1, <2>2, <2>3, SessionNumbers
<1>8. x.waits[n] = None /\ x.watchSession[n] = None
  <2>1. n > x.session
    BY <1>1, <1>6
  <2>2. x.waits[n] = None
    BY <2>1 DEF Tidy, Waiting
  <2> QED BY <1>0, <2>2 DEF Tidy, Waiting
<1>9. Pooled(y)
  <2>1. \A i \in 1 .. Len(x.pool) : x.pool[i] \in Cos /\ x.pool[i] # c
    BY SMTT(60), <1>0 DEF Tidy, Typed, Pooled
  <2>2. \A i \in 1 .. Len(x.forks) : x.forks[i] \in Cos
    BY DEF Tidy, Typed
  <2> QED BY <1>0, <1>1, <1>2, <2>1, <2>2 DEF Tidy, Pooled
<1>10. Waiting(y, s)
  <2>1. \A m \in Sessions(s) : y.waits[m] \in Cos =>
          /\ y.pc[y.waits[m]] \in {"new", "call", "sleep", "queue"}
          /\ \A i \in 1 .. Len(y.forks) : y.forks[i] # y.waits[m]
          /\ \A k \in Sessions(s) : y.waits[k] = y.waits[m] => k = m
    <3>1. \A m \in Sessions(s) : m # n => y.waits[m] = x.waits[m] /\ x.waits[m] # c
      BY <1>0, <1>3
    <3>2. y.waits[n] = c /\ y.pc[c] = p
      BY <1>0, <1>2, <1>3
    <3>3. SUFFICES ASSUME NEW m \in Sessions(s), y.waits[m] \in Cos
                   PROVE  /\ y.pc[y.waits[m]] \in {"new", "call", "sleep", "queue"}
                          /\ \A i \in 1 .. Len(y.forks) : y.forks[i] # y.waits[m]
                          /\ \A k \in Sessions(s) : y.waits[k] = y.waits[m] => k = m
      OBVIOUS
    <3>4. CASE m = n
      BY <1>0, <1>1, <3>1, <3>2, <3>4
    <3>5. CASE m # n
      <4>1. y.waits[m] = x.waits[m] /\ x.waits[m] # c /\ x.waits[m] \in Cos
        BY <3>1, <3>3, <3>5
      <4>2. x.pc[x.waits[m]] \in {"new", "call", "sleep", "queue"}
            /\ (\A i \in 1 .. Len(x.forks) : x.forks[i] # x.waits[m])
            /\ \A k \in Sessions(s) : x.waits[k] = x.waits[m] => k = m
        BY <4>1 DEF Tidy, Waiting
      <4> QED BY <1>1, <1>2, <3>1, <3>2, <4>1, <4>2
    <3> QED BY <3>4, <3>5
  <2>2. \A m \in Sessions(s) : y.watchSession[m] # None => y.waits[m] \in Cos
    BY <1>0, <1>3, <1>4 DEF Tidy, Waiting
  <2>3. \A m \in Sessions(s) : m > y.session => y.waits[m] = None
    <3>1. \A m \in Sessions(s) : m > n => m > x.session /\ m # n
      BY <1>1, <1>6
    <3> QED BY <1>1, <1>3, <3>1 DEF Tidy, Waiting
  <2> QED BY <2>1, <2>2, <2>3 DEF Waiting
<1>11. Sleeping(y, s, M)
  <2>1. SUFFICES ASSUME NEW d \in Cos, y.sleeps[d] # None
                 PROVE  /\ y.waits[y.sleeps[d]] = d
                        /\ y.watchSession[y.sleeps[d]] = None
                        /\ y.pc[d] \in {"sleep", "queue"}
                        /\ y.pc[d] = "queue" => y.sleeps[d] \notin M
    BY DEF Sleeping
  <2>2. CASE d = c
    <3>1. v = n /\ w = None /\ y.sleeps[d] = n /\ p # "call" /\ y.pc[d] = p
      BY <1>1, <1>2, <1>5, <2>1, <2>2
    <3> QED BY <1>1, <1>3, <1>4, <2>2, <3>1
  <2>3. CASE d # c
    <3>1. y.sleeps[d] = x.sleeps[d] /\ y.pc[d] = x.pc[d] /\ x.sleeps[d] # None
      BY <1>2, <1>5, <2>1, <2>3
    <3>2. x.sleeps[d] \in Sessions(s) /\ x.waits[x.sleeps[d]] = d /\ x.watchSession[x.sleeps[d]] = None
          /\ x.pc[d] \in {"sleep", "queue"} /\ (x.pc[d] = "queue" => x.sleeps[d] \notin L)
      BY <3>1 DEF Tidy, Typed, Sleeping
    <3>3. x.sleeps[d] # n
      BY <1>0, <1>8, <3>2
    <3> QED BY <1>3, <1>4, <3>1, <3>2, <3>3
  <2> QED BY <2>2, <2>3
<1>12. Failing(y, M)
  <2>1. \A i \in 1 .. Len(x.errors) : x.errors[i] \in Sessions(s) /\ x.watchSession[x.errors[i]] # None /\ x.errors[i] \notin L
    BY DEF Tidy, Typed, Failing
  <2>2. \A i \in 1 .. Len(x.errors) : x.errors[i] # n
    BY <1>8, <2>1
  <2>3. \A i \in 1 .. Len(x.errors) : y.watchSession[x.errors[i]] # None /\ x.errors[i] \notin M
    BY <1>4, <2>1, <2>2
  <2> QED BY <1>1, <2>3 DEF Tidy, Failing
<1>13. Expected(y, M)
  <2>1. SUFFICES ASSUME NEW m \in M PROVE m \in 1 .. y.session /\ y.waits[m] # None
    BY <1>1 DEF Tidy, Expected
  <2>2. CASE m = n
    BY <1>0, <1>1, <1>3, <1>6, <2>2
  <2>3. CASE m # n
    <3>1. m \in L /\ m \in 1 .. x.session /\ x.waits[m] # None /\ m \in Sessions(s)
      BY <1>7, <2>1, <2>3 DEF Tidy, Expected
    <3> QED BY <1>1, <1>3, <1>6, <2>3, <3>1
  <2> QED BY <2>2, <2>3
<1>14. \A m \in L : y.watchSession[m] = x.watchSession[m] /\ m # n
  BY <1>4, <1>7
<1> QED BY <1>9, <1>10, <1>11, <1>12, <1>13, <1>14 DEF Tidy

\* The running coroutine goes on inside the critical section.
LEMMA PcTidy ==
  ASSUME NEW s \in Services, NEW x, NEW L, Tidy(x, s, L), NEW c, Alone(x, c, s),
         NEW p \in States, p # "free",
         NEW y, y.pc = [x.pc EXCEPT ![c] = p], Typed(y, s),
         y.pool = x.pool, y.waits = x.waits, y.watchSession = x.watchSession, y.sleeps = x.sleeps,
         y.errors = x.errors, y.forks = x.forks, y.session = x.session, y.unknown = x.unknown
  PROVE  Tidy(y, s, L) /\ Alone(y, c, s)
<1>0. c \in Cos /\ x.pc[c] # "free" /\ x.sleeps[c] = None
      /\ (\A m \in Sessions(s) : x.waits[m] # c) /\ (\A i \in 1 .. Len(x.forks) : x.forks[i] # c)
  BY DEF Alone
<1>2. \A d \in Cos : y.pc[d] = IF d = c THEN p ELSE x.pc[d]
  BY <1>0 DEF Tidy, Typed
<1>3. Pooled(y)
  <2>1. \A i \in 1 .. Len(x.pool) : x.pool[i] \in Cos /\ x.pool[i] # c
    BY <1>0 DEF Tidy, Typed, Pooled
  <2>2. \A i \in 1 .. Len(x.forks) : x.forks[i] \in Cos
    BY DEF Tidy, Typed
  <2> QED BY <1>0, <1>2, <2>1, <2>2 DEF Tidy, Pooled
<1>4. Waiting(y, s)
  BY <1>0, <1>2 DEF Tidy, Waiting
<1>5. Sleeping(y, s, L)
  BY <1>0, <1>2 DEF Tidy, Sleeping
<1>6. Failing(y, L) /\ Expected(y, L)
  BY DEF Tidy, Failing, Expected
<1>7. Alone(y, c, s)
  BY <1>0, <1>2 DEF Alone
<1> QED BY <1>3, <1>4, <1>5, <1>6, <1>7 DEF Tidy

\* A session that was marked is forgotten when its timeout comes.
Unmarked(x, y, n) ==
  /\ y.waits = [x.waits EXCEPT ![n] = None] /\ ~ y.unknown
  /\ y.pc = x.pc /\ y.pool = x.pool /\ y.watchSession = x.watchSession /\ y.sleeps = x.sleeps
  /\ y.errors = x.errors /\ y.forks = x.forks /\ y.session = x.session

\* The session of a coroutine that was woken before its timeout is forgotten.
LEMMA MarkedTidy ==
  ASSUME NEW s \in Services, NEW x, NEW L, Tidy(x, s, L), NEW n \in Sessions(s), x.waits[n] = Break,
         NEW M, M \subseteq L, n \notin M,
         NEW y, Typed(y, s), Unmarked(x, y, n)
  PROVE  Tidy(y, s, M)
<1>0. Break \notin Cos /\ None \notin Cos
  BY NamesAssumption
<1>. USE DEF Unmarked
<1>1. \A m \in Sessions(s) : y.waits[m] = IF m = n THEN None ELSE x.waits[m]
  BY DEF Tidy, Typed
<1>2. Pooled(y)
  BY DEF Tidy, Pooled
<1>3. Waiting(y, s)
  <2>1. \A m \in Sessions(s) : y.waits[m] \in Cos => y.waits[m] = x.waits[m]
    BY <1>0, <1>1
  <2>2. \A m \in Sessions(s) : y.waits[m] \in Cos =>
          /\ y.pc[y.waits[m]] \in {"new", "call", "sleep", "queue"}
          /\ \A i \in 1 .. Len(y.forks) : y.forks[i] # y.waits[m]
          /\ \A k \in Sessions(s) : y.waits[k] = y.waits[m] => k = m
    BY <2>1 DEF Tidy, Waiting
  <2>3. \A m \in Sessions(s) : y.watchSession[m] # None => y.waits[m] \in Cos
    BY <1>0, <1>1 DEF Tidy, Waiting
  <2>4. \A m \in Sessions(s) : m > y.session => y.waits[m] = None
    BY <1>1 DEF Tidy, Waiting
  <2> QED BY <2>2, <2>3, <2>4 DEF Waiting
<1>4. Sleeping(y, s, M)
  BY <1>0, <1>1 DEF Tidy, Typed, Sleeping
<1>5. Failing(y, M)
  BY DEF Tidy, Failing
<1>6. Expected(y, M)
  <2>1. \A m \in M : m \in 1 .. x.session /\ x.waits[m] # None /\ m # n
    BY DEF Tidy, Expected
  <2>2. \A m \in M : m \in Sessions(s)
    <3>1. x.session <= x.ops + 1 /\ x.ops <= MaxOps[s] /\ x.ops \in Nat /\ MaxOps[s] \in Nat /\ x.session \in Nat
      BY MaxOpsAssumption DEF Tidy, Typed
    <3>2. \A m \in M : m \in 1 .. MaxOps[s] + 1
      BY <2>1, <3>1
    <3> QED BY <3>2, SessionNumbers
  <2> QED BY <1>1, <2>1, <2>2 DEF Tidy, Expected
<1> QED BY <1>2, <1>3, <1>4, <1>5, <1>6 DEF Tidy

-----------------------------------------------------------------------------
(* What a message makes of the state of a service                              *)

\* A session that may be answered is one the service has.
LEMMA LiveIsSession ==
  ASSUME NEW s \in Services, NEW x, NEW L, Tidy(x, s, L)
  PROVE  \A n \in L : n \in Sessions(s) /\ n \in 1 .. x.session /\ x.waits[n] # None
<1>1. \A n \in L : n \in 1 .. x.session /\ x.waits[n] # None
  BY DEF Tidy, Expected
<1>2. x.session <= x.ops + 1 /\ x.ops <= MaxOps[s] /\ x.ops \in Nat /\ MaxOps[s] \in Nat /\ x.session \in Nat
  BY MaxOpsAssumption DEF Tidy, Typed
<1>3. \A n \in L : n \in 1 .. MaxOps[s] + 1
  BY <1>1, <1>2
<1> QED BY <1>1, <1>3, SessionNumbers

\* What TakeResponse makes of x for the session n.
Returned(x, n) ==
  LET y == [x EXCEPT !.waits[n] = None, !.watchSession[n] = None]
  IN IF x.waits[n] \in Cos THEN Resume(y, x.waits[n]) ELSE Forks([y EXCEPT !.unknown = @ \/ x.waits[n] = None])

\* Before it goes on, when nobody waits for n any more.
Missed(x, n) ==
  [[x EXCEPT !.waits[n] = None, !.watchSession[n] = None] EXCEPT !.unknown = @ \/ x.waits[n] = None]

\* A response that comes after its coroutine was woken makes the service forget the session.
LEMMA MissedTidy ==
  ASSUME NEW s \in Services, NEW x, NEW L, Tidy(x, s, L), NEW n \in L, NEW M, M \subseteq L, n \notin M,
         x.waits[n] \notin Cos, NEW z, z = Missed(x, n)
  PROVE  /\ Tidy(z, s, M) /\ Keeping(x, z, M) /\ z.errors = x.errors /\ z.pc = x.pc /\ Turns(z) = Turns(x)
         /\ z.watchService = x.watchService /\ z.forks = x.forks /\ z.run = x.run
<1>0. DOMAIN x = Fields /\ n \in Sessions(s) /\ n \in 1 .. x.session /\ x.waits[n] # None
  BY LiveIsSession DEF Tidy, Typed
<1>1. PICK y : y = [x EXCEPT !.waits[n] = None, !.watchSession[n] = None]
  OBVIOUS
<1>2. /\ DOMAIN y = Fields
      /\ y.waits = [x.waits EXCEPT ![n] = None]
      /\ y.watchSession = [x.watchSession EXCEPT ![n] = None]
      /\ y.pc = x.pc /\ y.pool = x.pool /\ y.id = x.id /\ y.address = x.address
      /\ y.sleeps = x.sleeps /\ y.forks = x.forks /\ y.unresponse = x.unresponse
      /\ y.session = x.session /\ y.ops = x.ops /\ y.threads = x.threads /\ y.unknown = x.unknown
      /\ y.errors = x.errors /\ y.wakeups = x.wakeups /\ y.current = x.current /\ y.ref = x.ref
      /\ y.watchService = x.watchService /\ y.run = x.run
  BY <1>0, <1>1 DEF Fields
<1>3. x.waits[n] = Break
  BY <1>0 DEF Tidy, Typed
<1>4. x.watchSession[n] = None
  BY <1>0 DEF Tidy, Waiting
<1>5. z = [y EXCEPT !.unknown = @ \/ x.waits[n] = None]
  BY <1>1 DEF Missed
<1>6. z.unknown = (x.unknown \/ x.waits[n] = None)
  BY <1>2, <1>5 DEF Fields
<1>7. /\ DOMAIN z = Fields
      /\ z.waits = y.waits /\ z.watchSession = y.watchSession
      /\ z.pc = y.pc /\ z.pool = y.pool /\ z.id = y.id /\ z.address = y.address
      /\ z.sleeps = y.sleeps /\ z.forks = y.forks /\ z.unresponse = y.unresponse
      /\ z.session = y.session /\ z.ops = y.ops /\ z.threads = y.threads
      /\ z.errors = y.errors /\ z.wakeups = y.wakeups /\ z.current = y.current /\ z.ref = y.ref
      /\ z.watchService = y.watchService /\ z.run = y.run
  BY <1>2, <1>5 DEF Fields
<1>8. y.watchSession = x.watchSession
  BY <1>0, <1>2, <1>4 DEF Tidy, Typed
<1>9. y.waits \in [Sessions(s) -> Cos \cup {None, Break}]
  <2>1. x.waits \in [Sessions(s) -> Cos \cup {None, Break}]
    BY DEF Tidy, Typed
  <2> QED BY <1>2, <2>1
<1>10. Typed(z, s)
  BY <1>2, <1>7, <1>8, <1>9 DEF Tidy, Typed
<1>11. /\ z.waits = [x.waits EXCEPT ![n] = None] /\ z.pc = x.pc /\ z.pool = x.pool
       /\ z.watchSession = x.watchSession /\ z.sleeps = x.sleeps
       /\ z.errors = x.errors /\ z.forks = x.forks /\ z.session = x.session
       /\ z.id = x.id /\ z.address = x.address /\ z.unresponse = x.unresponse
       /\ z.watchService = x.watchService /\ z.run = x.run
  BY <1>2, <1>7, <1>8
<1>12. ~ z.unknown
  BY <1>0, <1>6 DEF Tidy, Expected
<1>13. Unmarked(x, z, n)
  BY <1>11, <1>12 DEF Unmarked
<1>14. Tidy(z, s, M)
  BY <1>0, <1>3, <1>10, <1>13, MarkedTidy
<1>15. Turns(z) = Turns(x)
  BY <1>2, <1>7 DEF Turns
<1>16. Keeping(x, z, M)
  BY <1>11 DEF Keeping
<1> QED BY <1>11, <1>14, <1>15, <1>16

\* A response resumes the coroutine that waits for it, or comes after it was woken.
LEMMA ReturnedTidy ==
  ASSUME NEW s \in Services, NEW x, NEW L, Tidy(x, s, L), x.errors = <<>>,
         NEW n \in L, NEW M, M \subseteq L, n \notin M
  PROVE  Follows(x, Returned(x, n), s, M)
<1>0. DOMAIN x = Fields /\ n \in Sessions(s) /\ n \in 1 .. x.session /\ x.waits[n] # None
  BY LiveIsSession DEF Tidy, Typed
<1>1. PICK y : y = [x EXCEPT !.waits[n] = None, !.watchSession[n] = None]
  OBVIOUS
<1>2. /\ DOMAIN y = Fields
      /\ y.waits = [x.waits EXCEPT ![n] = None]
      /\ y.watchSession = [x.watchSession EXCEPT ![n] = None]
      /\ y.pc = x.pc /\ y.pool = x.pool /\ y.id = x.id /\ y.address = x.address
      /\ y.sleeps = x.sleeps /\ y.forks = x.forks /\ y.unresponse = x.unresponse
      /\ y.session = x.session /\ y.ops = x.ops /\ y.threads = x.threads /\ y.unknown = x.unknown
      /\ y.errors = x.errors /\ y.wakeups = x.wakeups
  BY <1>0, <1>1 DEF Fields
<1>3. CASE x.waits[n] \in Cos
  <2>1. PICK c \in Cos : x.waits[n] = c
    BY <1>3
  <2>2. Returned(x, n) = Resume(y, c)
    BY <1>1, <1>3, <2>1 DEF Returned
  <2>3. Parted(x, y, s, n, None)
    BY <1>2 DEF Tidy, Typed, Parted
  <2>4. Failing(y, M)
    BY <1>2 DEF Failing
  <2> QED BY <1>0, <2>1, <2>2, <2>3, <2>4, WakeTidy DEF Follows
<1>4. CASE x.waits[n] \notin Cos
  <2>1. PICK z : z = Missed(x, n)
    OBVIOUS
  <2>2. Tidy(z, s, M) /\ Keeping(x, z, M) /\ z.errors = <<>>
    BY <1>4, <2>1, MissedTidy
  <2>3. Follows(z, Forks(z), s, M)
    BY <2>2, ForksTidy
  <2>4. Returned(x, n) = Forks(z)
    BY <1>4, <2>1 DEF Returned, Missed
  <2> QED BY <2>2, <2>3, <2>4, FollowsTwice
<1> QED BY <1>3, <1>4

\* The sequence made of a finite set has its elements, each of them once.
Listed(S, q) ==
  /\ q \in Seq(S)
  /\ \A i, j \in 1 .. Len(q) : q[i] = q[j] => i = j

\* SetToSeq lists a finite set, each element once.
LEMMA SetToSeqIs ==
  ASSUME NEW S, IsFiniteSet(S)
  PROVE  Listed(S, SetToSeq(S)) /\ Len(SetToSeq(S)) = Cardinality(S)
<1>1. PICK f \in [1 .. Cardinality(S) -> S] : IsInjective(f)
  <2>1. ExistsBijection(1 .. Cardinality(S), S)
    BY FS_CardinalityType
  <2>2. PICK f : f \in Bijection(1 .. Cardinality(S), S)
    BY <2>1 DEF ExistsBijection
  <2>3. f \in [1 .. Cardinality(S) -> S] /\ \A a, b \in 1 .. Cardinality(S) : f[a] = f[b] => a = b
    BY <2>2 DEF Bijection, Injection, IsInjective
  <2> QED BY <2>3 DEF IsInjective
<1>2. PICK g : g = SetToSeq(S)
  OBVIOUS
<1>3. g \in [1 .. Cardinality(S) -> S] /\ IsInjective(g)
  BY <1>1, <1>2 DEF SetToSeq
<1>4. Cardinality(S) \in Nat
  BY FS_CardinalityType
<1>5. g \in Seq(S) /\ Len(g) = Cardinality(S)
  BY <1>3, <1>4
<1>6. \A i, j \in 1 .. Len(g) : g[i] = g[j] => i = j
  BY <1>3, <1>5 DEF IsInjective
<1> QED BY <1>2, <1>5, <1>6 DEF Listed

\* What TakeRequest makes of x for the session n of the service t.
Served(x, n, t) ==
  Resume([Watched(Created(x, "new"), t) EXCEPT !.id[Last(x.pool)] = n, !.address[Last(x.pool)] = t], Last(x.pool))

\* Before it goes on.
Given(x, n, t) ==
  [Watched(Created(x, "new"), t) EXCEPT !.id[Last(x.pool)] = n, !.address[Last(x.pool)] = t]

\* y is x with one more coroutine, c, at p, that came out of the pool for a message of t.
Hired(x, y, c, p, t) ==
  /\ c \in Cos /\ x.pc[c] = "free" /\ Turns(y) = Turns(x) /\ y.pc = [x.pc EXCEPT ![c] = p]
  /\ y.address = [x.address EXCEPT ![c] = t] /\ y.pool = Front(x.pool) /\ x.pool # <<>> /\ c = Last(x.pool)
  /\ y.watchService = [x.watchService EXCEPT ![t] = @ + 1]
  /\ y.unresponse = x.unresponse

\* r is x when a coroutine of the pool answers the session n of t.
Serves(x, r, c, n, t) ==
  /\ c \in Cos /\ r.id = [x.id EXCEPT ![c] = n] /\ r.address = [x.address EXCEPT ![c] = t]
  /\ r.unresponse = x.unresponse /\ r.session = x.session /\ r.pool = Front(x.pool)

\* A coroutine of the pool that is given a request is alone.
LEMMA GivenTidy ==
  ASSUME NEW s \in Services, NEW x, NEW L, Tidy(x, s, L), x.pool # <<>>,
         NEW n \in Nat, NEW t \in Services, NEW y, y = Given(x, n, t)
  PROVE  \E d \in Cos :
           /\ d = Last(x.pool) /\ Tidy(y, s, L) /\ Alone(y, d, s) /\ Hired(x, y, d, "new", t)
           /\ y.id = [x.id EXCEPT ![d] = n] /\ y.session = x.session /\ y.watchSession = x.watchSession
<1>0. DOMAIN x = Fields
  BY DEF Tidy, Typed
<1>1. PICK d \in Cos : d = Last(x.pool)
  BY BeforeIs DEF Tidy, Typed, Before
<1>2. PICK u : u = Created(x, "new")
  OBVIOUS
<1>3. /\ DOMAIN u = Fields /\ u.pool = Front(x.pool) /\ u.pc = [x.pc EXCEPT ![d] = "new"]
      /\ u.waits = x.waits /\ u.watchSession = x.watchSession /\ u.sleeps = x.sleeps
      /\ u.errors = x.errors /\ u.forks = x.forks /\ u.session = x.session /\ u.unknown = x.unknown
      /\ u.id = x.id /\ u.address = x.address /\ u.wakeups = x.wakeups /\ u.threads = x.threads
      /\ u.unresponse = x.unresponse /\ u.ops = x.ops /\ u.current = x.current /\ u.ref = x.ref
      /\ u.watchService = x.watchService
  BY <1>0, <1>1, <1>2 DEF Created, Fields
<1>4. PICK v : v = Watched(u, t)
  OBVIOUS
<1>5. /\ DOMAIN v = Fields /\ v.pool = u.pool /\ v.pc = u.pc
      /\ v.waits = u.waits /\ v.watchSession = u.watchSession /\ v.sleeps = u.sleeps
      /\ v.errors = u.errors /\ v.forks = u.forks /\ v.session = u.session /\ v.unknown = u.unknown
      /\ v.id = u.id /\ v.address = u.address /\ v.wakeups = u.wakeups /\ v.threads = u.threads
      /\ v.unresponse = u.unresponse /\ v.ops = u.ops /\ v.current = u.current /\ v.ref = u.ref
      /\ v.watchService = [u.watchService EXCEPT ![t] = @ + 1]
  BY <1>3, <1>4 DEF Watched, Fields
<1>6. y = [v EXCEPT !.id[d] = n, !.address[d] = t]
  BY <1>1, <1>2, <1>4 DEF Given
<1>7. /\ DOMAIN y = Fields /\ y.pool = v.pool /\ y.pc = v.pc
      /\ y.waits = v.waits /\ y.watchSession = v.watchSession /\ y.sleeps = v.sleeps
      /\ y.errors = v.errors /\ y.forks = v.forks /\ y.session = v.session /\ y.unknown = v.unknown
      /\ y.wakeups = v.wakeups /\ y.threads = v.threads
      /\ y.unresponse = v.unresponse /\ y.ops = v.ops /\ y.current = v.current /\ y.ref = v.ref
      /\ y.watchService = v.watchService
      /\ y.id = [v.id EXCEPT ![d] = n] /\ y.address = [v.address EXCEPT ![d] = t]
  BY <1>5, <1>6 DEF Fields
<1>8. /\ y.pool = Front(x.pool) /\ y.pc = [x.pc EXCEPT ![d] = "new"]
      /\ y.waits = x.waits /\ y.watchSession = x.watchSession /\ y.sleeps = x.sleeps
      /\ y.errors = x.errors /\ y.forks = x.forks /\ y.session = x.session /\ y.unknown = x.unknown
      /\ y.wakeups = x.wakeups /\ y.threads = x.threads /\ y.unresponse = x.unresponse /\ y.ops = x.ops
      /\ y.id = [x.id EXCEPT ![d] = n] /\ y.address = [x.address EXCEPT ![d] = t]
  BY <1>3, <1>5, <1>7
<1>9. Typed(y, s)
  <2>1. Front(x.pool) \in Seq(Cos)
    BY BeforeIs DEF Tidy, Typed, Before
  <2>2. x.pc \in [Cos -> States] /\ x.id \in [Cos -> Nat \cup {None}] /\ x.address \in [Cos -> Services \cup {None}]
    BY DEF Tidy, Typed
  <2>3. y.pc \in [Cos -> States]
    BY <1>8, <2>2 DEF States
  <2>4. y.id \in [Cos -> Nat \cup {None}]
    BY <1>8, <2>2
  <2>5. y.address \in [Cos -> Services \cup {None}]
    BY <1>8, <2>2
  <2>6. \A e \in Cos : y.id[e] # None => y.address[e] # None
    <3>1. \A e \in Cos : x.id[e] # None => x.address[e] # None
      BY DEF Tidy, Typed
    <3>2. t # None
      BY NamesAssumption
    <3> QED BY <1>8, <2>2, <3>1, <3>2
  <2> QED BY <1>7, <1>8, <2>1, <2>3, <2>4, <2>5, <2>6 DEF Tidy, Typed
<1>10. Drawn(x, y, d, "new")
  BY <1>1, <1>8 DEF Drawn
<1>11. Tidy(y, s, L) /\ Alone(y, d, s)
  BY <1>9, <1>10, DrawnTidy
<1>12. Turns(y) = Turns(x) /\ y.watchService = [x.watchService EXCEPT ![t] = @ + 1]
  BY <1>3, <1>5, <1>7 DEF Turns
<1>13. x.pc[d] = "free"
  BY <1>1, LastIsFree
<1>14. Hired(x, y, d, "new", t)
  BY <1>1, <1>8, <1>12, <1>13 DEF Hired
<1> QED BY <1>1, <1>8, <1>11, <1>14

\* A request is given to a coroutine of the pool, that knows its session and address.
LEMMA ServedTidy ==
  ASSUME NEW s \in Services, NEW x, NEW L, Tidy(x, s, L), x.pool # <<>>,
         NEW n \in Nat, NEW t \in Services
  PROVE  /\ Tidy(Served(x, n, t), s, L) /\ Busy(Served(x, n, t), s)
         /\ \E c \in Cos : Serves(x, Served(x, n, t), c, n, t)
         /\ \A m \in L : Served(x, n, t).watchSession[m] = x.watchSession[m]
<1>1. PICK y : y = Given(x, n, t)
  OBVIOUS
<1>2. PICK d \in Cos :
        /\ d = Last(x.pool) /\ Tidy(y, s, L) /\ Alone(y, d, s) /\ Hired(x, y, d, "new", t)
        /\ y.id = [x.id EXCEPT ![d] = n] /\ y.session = x.session /\ y.watchSession = x.watchSession
  BY <1>1, GivenTidy
<1>3. PICK r : r = Resume(y, d)
  OBVIOUS
<1>4. Served(x, n, t) = r
  BY <1>1, <1>2, <1>3 DEF Served, Given
<1>5. Tidy(r, s, L) /\ Busy(r, s) /\ Keeping(y, r, L)
  BY <1>2, <1>3, ResumeTidy
<1>6. Serves(x, r, d, n, t)
  BY <1>2, <1>5 DEF Keeping, Serves, Hired
<1>7. \A m \in L : r.watchSession[m] = x.watchSession[m]
  BY <1>2, <1>5 DEF Keeping
<1> QED BY <1>4, <1>5, <1>6, <1>7

\* y is x with errors to be told of the sessions in N.
LEMMA BlamedTidy ==
  ASSUME NEW s \in Services, NEW x, NEW L, Tidy(x, s, L), NEW c, Alone(x, c, s),
         NEW y, Typed(y, s), NEW N \in SUBSET Sessions(s), Listed(N, y.errors),
         \A n \in N : x.watchSession[n] # None /\ n \notin L,
         <<y.pc, y.pool, y.waits, y.watchSession, y.sleeps, y.forks, y.session, y.unknown>>
           = <<x.pc, x.pool, x.waits, x.watchSession, x.sleeps, x.forks, x.session, x.unknown>>
  PROVE  Tidy(y, s, L) /\ Alone(y, c, s)
<1>1. /\ y.pc = x.pc /\ y.pool = x.pool /\ y.waits = x.waits /\ y.watchSession = x.watchSession
      /\ y.sleeps = x.sleeps /\ y.forks = x.forks /\ y.session = x.session /\ y.unknown = x.unknown
  OBVIOUS
<1>2. Pooled(y) /\ Waiting(y, s) /\ Sleeping(y, s, L) /\ Expected(y, L)
  <2>1. Pooled(y)
    BY <1>1 DEF Tidy, Pooled
  <2>2. Waiting(y, s)
    BY <1>1 DEF Tidy, Waiting
  <2>3. Sleeping(y, s, L) /\ Expected(y, L)
    BY <1>1 DEF Tidy, Sleeping, Expected
  <2> QED BY <2>1, <2>2, <2>3
<1>3. Failing(y, L)
  <2>1. \A i \in 1 .. Len(y.errors) : y.errors[i] \in N
    BY DEF Listed
  <2> QED BY <1>1, <2>1 DEF Failing, Listed
<1>4. Alone(y, c, s)
  BY <1>1 DEF Alone
<1> QED BY <1>2, <1>3, <1>4 DEF Tidy

\* What TakeError makes of x for a message m.
Told(x, m) ==
  LET c == Last(x.pool)
      y == [Watched(Created(x, "run"), m.source) EXCEPT !.address[c] = m.source]
  IN Suspend(Recycled(Blamed(y, m), c))

\* Before the errors are told.
Accused(x, m) ==
  Recycled(Blamed([Watched(Created(x, "run"), m.source) EXCEPT !.address[Last(x.pool)] = m.source], m),
           Last(x.pool))

\* r is x when a coroutine has told of an error from t.
Tells(x, r, c, t) ==
  /\ c \in Cos /\ r.id = [x.id EXCEPT ![c] = None] /\ r.address = [x.address EXCEPT ![c] = t]
  /\ r.unresponse = x.unresponse /\ r.session = x.session /\ r.pool # <<>>

\* _error_dispatch tells the calls of a service that is down, or one call, that they
\* failed, and these are not answered any more.
LEMMA AccusedTidy ==
  ASSUME NEW s \in Services, NEW x, NEW L, Tidy(x, s, L), x.pool # <<>>, x.errors = <<>>,
         NEW m \in Messages,
         IF m.session = 0 THEN \A n \in L : x.watchSession[n] # m.source
         ELSE m.session \in (1 .. x.session) \ L,
         NEW e, e = Accused(x, m)
  PROVE  /\ Tidy(e, s, L)
         /\ \E c \in Cos : \E b : /\ Hired(x, b, c, "run", m.source) /\ Ended(b, e, c) /\ e = Recycled(b, c)
                               /\ b.id = x.id /\ b.session = x.session /\ b.watchSession = x.watchSession
                               /\ DOMAIN b = Fields /\ Turns(e) = Turns(x) /\ e.pc = x.pc /\ b.pool \in Seq(Cos)
                               /\ b.stale = x.stale
<1>0. DOMAIN x = Fields /\ m.source \in Services
  BY DEF Tidy, Typed, Messages
<1>1. PICK d \in Cos : d = Last(x.pool)
  BY BeforeIs DEF Tidy, Typed, Before
<1>2. PICK u : u = Created(x, "run")
  OBVIOUS
<1>3. /\ DOMAIN u = Fields /\ u.pool = Front(x.pool) /\ u.pc = [x.pc EXCEPT ![d] = "run"]
      /\ u.waits = x.waits /\ u.watchSession = x.watchSession /\ u.sleeps = x.sleeps
      /\ u.errors = x.errors /\ u.forks = x.forks /\ u.session = x.session /\ u.unknown = x.unknown
      /\ u.id = x.id /\ u.address = x.address /\ u.wakeups = x.wakeups /\ u.threads = x.threads
      /\ u.unresponse = x.unresponse /\ u.ops = x.ops /\ u.current = x.current /\ u.ref = x.ref
      /\ u.watchService = x.watchService /\ u.stale = x.stale
  BY <1>0, <1>1, <1>2 DEF Created, Fields
<1>4. PICK v : v = Watched(u, m.source)
  OBVIOUS
<1>5. /\ DOMAIN v = Fields /\ v.pool = u.pool /\ v.pc = u.pc
      /\ v.waits = u.waits /\ v.watchSession = u.watchSession /\ v.sleeps = u.sleeps
      /\ v.errors = u.errors /\ v.forks = u.forks /\ v.session = u.session /\ v.unknown = u.unknown
      /\ v.id = u.id /\ v.address = u.address /\ v.wakeups = u.wakeups /\ v.threads = u.threads
      /\ v.unresponse = u.unresponse /\ v.ops = u.ops /\ v.current = u.current /\ v.ref = u.ref
      /\ v.stale = u.stale /\ v.watchService = [u.watchService EXCEPT ![m.source] = @ + 1]
  BY <1>3, <1>4 DEF Watched, Fields
<1>6. PICK y : y = [v EXCEPT !.address[d] = m.source]
  OBVIOUS
<1>7. /\ DOMAIN y = Fields /\ y.pool = v.pool /\ y.pc = v.pc
      /\ y.waits = v.waits /\ y.watchSession = v.watchSession /\ y.sleeps = v.sleeps
      /\ y.errors = v.errors /\ y.forks = v.forks /\ y.session = v.session /\ y.unknown = v.unknown
      /\ y.wakeups = v.wakeups /\ y.threads = v.threads
      /\ y.unresponse = v.unresponse /\ y.ops = v.ops /\ y.current = v.current /\ y.ref = v.ref
      /\ y.watchService = v.watchService /\ y.stale = v.stale
      /\ y.id = v.id /\ y.address = [v.address EXCEPT ![d] = m.source]
  BY <1>5, <1>6 DEF Fields
<1>8. /\ y.pool = Front(x.pool) /\ y.pc = [x.pc EXCEPT ![d] = "run"]
      /\ y.waits = x.waits /\ y.watchSession = x.watchSession /\ y.sleeps = x.sleeps
      /\ y.errors = x.errors /\ y.forks = x.forks /\ y.session = x.session /\ y.unknown = x.unknown
      /\ y.wakeups = x.wakeups /\ y.threads = x.threads /\ y.unresponse = x.unresponse /\ y.ops = x.ops
      /\ y.id = x.id /\ y.address = [x.address EXCEPT ![d] = m.source]
  BY <1>3, <1>5, <1>7
<1>9. Typed(y, s)
  <2>1. Front(x.pool) \in Seq(Cos)
    BY BeforeIs DEF Tidy, Typed, Before
  <2>2. x.pc \in [Cos -> States] /\ x.address \in [Cos -> Services \cup {None}]
    BY DEF Tidy, Typed
  <2>3. y.pc \in [Cos -> States]
    BY <1>8, <2>2 DEF States
  <2>4. y.address \in [Cos -> Services \cup {None}]
    BY <1>0, <1>8, <2>2
  <2>5. \A c \in Cos : y.id[c] # None => y.address[c] # None
    <3>1. \A c \in Cos : x.id[c] # None => x.address[c] # None
      BY DEF Tidy, Typed
    <3>2. m.source # None
      BY <1>0, NamesAssumption
    <3> QED BY <1>8, <2>2, <3>1, <3>2
  <2> QED BY <1>7, <1>8, <2>1, <2>3, <2>4, <2>5 DEF Tidy, Typed
<1>10. Drawn(x, y, d, "run")
  BY <1>1, <1>8 DEF Drawn
<1>11. Tidy(y, s, L) /\ Alone(y, d, s)
  BY <1>9, <1>10, DrawnTidy
<1>12. PICK b : b = Blamed(y, m)
  OBVIOUS
<1>13. /\ DOMAIN b = Fields /\ b.pool = y.pool /\ b.pc = y.pc
       /\ b.waits = y.waits /\ b.watchSession = y.watchSession /\ b.sleeps = y.sleeps
       /\ b.forks = y.forks /\ b.session = y.session /\ b.unknown = y.unknown
       /\ b.id = y.id /\ b.address = y.address /\ b.wakeups = y.wakeups /\ b.threads = y.threads
       /\ b.unresponse = y.unresponse /\ b.ops = y.ops /\ b.current = y.current /\ b.ref = y.ref
       /\ b.watchService = y.watchService /\ b.stale = y.stale
  BY <1>7, <1>12 DEF Blamed, Fields
<1>14. \E N \in SUBSET Sessions(s) :
         /\ Listed(N, b.errors)
         /\ \A n \in N : y.watchSession[n] # None /\ n \notin L
  <2>1. CASE m.session = 0
    <3>1. b.errors = y.errors \o SetToSeq(Down(y, m.source))
      BY <1>7, <1>12, <2>1 DEF Blamed, Fields
    <3>2. PICK N : N = Down(y, m.source)
      OBVIOUS
    <3>3. DOMAIN y.watchSession = Sessions(s)
      BY <1>9 DEF Typed
    <3>4. N \subseteq Sessions(s) /\ \A n \in N : y.watchSession[n] = m.source
      BY <3>2, <3>3 DEF Down
    <3>5. IsFiniteSet(N)
      <4>1. IsFiniteSet(Sessions(s))
        BY MaxOpsAssumption, FS_Interval DEF Sessions
      <4> QED BY <3>4, <4>1, FS_Subset
    <3>6. Listed(N, SetToSeq(N))
      BY <3>5, SetToSeqIs
    <3>7. PICK q : q = SetToSeq(N)
      OBVIOUS
    <3>8. q \in Seq(N)
      BY <3>6, <3>7 DEF Listed
    <3>9. b.errors = q
      <4>1. y.errors = <<>>
        BY <1>8
      <4>2. <<>> \o q = q
        BY <3>8
      <4> QED BY <3>1, <3>2, <3>7, <4>1, <4>2
    <3>10. \A n \in N : y.watchSession[n] # None /\ n \notin L
      <4>1. m.source # None
        BY <1>0, NamesAssumption
      <4> QED BY <1>8, <2>1, <3>4, <4>1
    <3> QED BY <3>4, <3>6, <3>7, <3>9, <3>10
  <2>2. CASE m.session # 0
    <3>1. b.errors = IF y.watchSession[m.session] = None THEN y.errors ELSE Append(y.errors, m.session)
      BY <1>7, <1>12, <2>2 DEF Blamed, Fields
    <3>2. y.errors = <<>>
      BY <1>8
    <3>3. CASE y.watchSession[m.session] = None
      <4>1. b.errors = <<>>
        BY <3>1, <3>2, <3>3
      <4>2. Listed({}, b.errors)
        BY <4>1 DEF Listed
      <4> QED BY <4>2
    <3>4. CASE y.watchSession[m.session] # None
      <4>1. b.errors = <<m.session>>
        BY <3>1, <3>2, <3>4
      <4>2. Listed({m.session}, b.errors)
        BY <4>1 DEF Listed
      <4>3. m.session \in Sessions(s)
        <5>1. x.session <= x.ops + 1 /\ x.ops <= MaxOps[s] /\ x.ops \in Nat /\ MaxOps[s] \in Nat /\ x.session \in Nat
          BY MaxOpsAssumption DEF Tidy, Typed
        <5>2. m.session \in 1 .. MaxOps[s] + 1
          BY <2>2, <5>1
        <5> QED BY <5>2, SessionNumbers
      <4> QED BY <2>2, <3>4, <4>2, <4>3
    <3> QED BY <3>3, <3>4
  <2> QED BY <2>1, <2>2
<1>15. Typed(b, s)
  <2>1. b.errors \in Seq(Sessions(s))
    BY <1>14 DEF Listed
  <2> QED BY <1>9, <1>13, <2>1 DEF Typed
<1>16. Tidy(b, s, L) /\ Alone(b, d, s)
  <2>1. PICK N \in SUBSET Sessions(s) :
         /\ Listed(N, b.errors)
         /\ \A n \in N : y.watchSession[n] # None /\ n \notin L
    BY <1>14
  <2>2. <<b.pc, b.pool, b.waits, b.watchSession, b.sleeps, b.forks, b.session, b.unknown>>
           = <<y.pc, y.pool, y.waits, y.watchSession, y.sleeps, y.forks, y.session, y.unknown>>
    BY <1>13
  <2> QED BY <1>11, <1>15, <2>1, <2>2, BlamedTidy
<1>17. e = Recycled(b, d)
  BY <1>1, <1>2, <1>4, <1>6, <1>12 DEF Accused
<1>18. Tidy(e, s, L) /\ Ended(b, e, d) /\ Turns(e) = Turns(b) /\ e.pc = [b.pc EXCEPT ![d] = "free"]
  <2>1. /\ Tidy(Recycled(b, d), s, L) /\ Ended(b, Recycled(b, d), d)
        /\ Turns(Recycled(b, d)) = Turns(b) /\ Recycled(b, d).pc = [b.pc EXCEPT ![d] = "free"]
    BY <1>16, RecycledTidy
  <2> QED BY <1>17, <2>1
<1>19. x.pc[d] = "free"
  BY <1>1, LastIsFree
<1>20. Turns(b) = Turns(x) /\ b.watchService = [x.watchService EXCEPT ![m.source] = @ + 1]
  BY <1>3, <1>5, <1>7, <1>13 DEF Turns
<1>21. Hired(x, b, d, "run", m.source)
  BY <1>1, <1>8, <1>13, <1>19, <1>20 DEF Hired
<1>22. e.pc = x.pc
  <2>1. e.pc = [[x.pc EXCEPT ![d] = "run"] EXCEPT ![d] = "free"]
    BY <1>8, <1>13, <1>18
  <2>2. x.pc \in [Cos -> States]
    BY DEF Tidy, Typed
  <2> QED BY <1>19, <2>1, <2>2
<1>23. b.id = x.id /\ b.session = x.session /\ b.watchSession = x.watchSession /\ DOMAIN b = Fields
       /\ b.stale = x.stale
       /\ Turns(e) = Turns(x) /\ b.pool \in Seq(Cos)
  BY <1>3, <1>5, <1>7, <1>8, <1>13, <1>15, <1>18, <1>20 DEF Typed
<1> QED BY <1>17, <1>18, <1>21, <1>22, <1>23

\* _error_dispatch goes on with what is woken, told and forked.
LEMMA ToldTidy ==
  ASSUME NEW s \in Services, NEW x, NEW L, Tidy(x, s, L), x.pool # <<>>, x.errors = <<>>,
         NEW m \in Messages,
         IF m.session = 0 THEN \A n \in L : x.watchSession[n] # m.source
         ELSE m.session \in (1 .. x.session) \ L
  PROVE  /\ Tidy(Told(x, m), s, L) /\ Busy(Told(x, m), s)
         /\ \E c \in Cos : Tells(x, Told(x, m), c, m.source)
         /\ \A n \in L : Told(x, m).watchSession[n] = x.watchSession[n]
<1>1. PICK e : e = Accused(x, m)
  OBVIOUS
<1>2. /\ Tidy(e, s, L)
      /\ \E c \in Cos : \E b : /\ Hired(x, b, c, "run", m.source) /\ Ended(b, e, c) /\ e = Recycled(b, c)
                            /\ b.id = x.id /\ b.session = x.session /\ b.watchSession = x.watchSession
                            /\ DOMAIN b = Fields /\ Turns(e) = Turns(x) /\ e.pc = x.pc /\ b.pool \in Seq(Cos)
                            /\ b.stale = x.stale
  BY <1>1, AccusedTidy
<1>20. PICK d \in Cos : \E b : /\ Hired(x, b, d, "run", m.source) /\ Ended(b, e, d) /\ b.pool \in Seq(Cos)
                              /\ b.id = x.id /\ b.session = x.session /\ b.watchSession = x.watchSession
  BY <1>2
<1>3. PICK b : /\ Hired(x, b, d, "run", m.source) /\ Ended(b, e, d) /\ b.pool \in Seq(Cos)
               /\ b.id = x.id /\ b.session = x.session /\ b.watchSession = x.watchSession
  BY <1>20
<1>4. PICK r : r = Suspend(e)
  OBVIOUS
<1>5. Tidy(r, s, L) /\ Busy(r, s) /\ Keeping(e, r, L)
  BY <1>2, <1>4, SuspendTidy DEF Follows
<1>6. Told(x, m) = r
  BY <1>1, <1>4 DEF Told, Accused
<1>7. e.pool # <<>>
  BY <1>3, AppendIs DEF Ended
<1>8. Tells(x, r, d, m.source)
  BY <1>3, <1>5, <1>7 DEF Ended, Keeping, Tells, Hired
<1>9. \A n \in L : r.watchSession[n] = x.watchSession[n]
  BY <1>3, <1>5 DEF Ended, Keeping
<1> QED BY <1>5, <1>6, <1>8, <1>9

-----------------------------------------------------------------------------
(* Messages                                                                    *)

\* r is the queue q with the message m at its end, or without its first, or unchanged.
Queued(q, r, m) ==
  \/ r = q
  \/ q # <<>> /\ r = Tail(q)
  \/ r = Append(q, m) /\ (m.type # "error" => ~ Has(q, m))

\* A queue that moves by a message has only that new, and no message but an error
\* twice.
LEMMA QueuedHas ==
  ASSUME NEW q \in Seq(Messages), NEW m \in Messages, NEW r, Queued(q, r, m)
  PROVE  /\ r \in Seq(Messages)
         /\ \A e : Has(r, e) => Has(q, e) \/ (r = Append(q, m) /\ e = m)
         /\ \A e : Once(q, e) /\ e.type # "error" => Once(r, e)
<1>1. CASE r = q
  BY <1>1
<1>2. CASE q # <<>> /\ r = Tail(q)
  <2>1. Rest(Messages, q)
    BY <1>2, RestIs
  <2>2. r \in Seq(Messages) /\ \A i \in 1 .. Len(r) : i + 1 \in 1 .. Len(q) /\ r[i] = q[i + 1]
    BY <1>2, <2>1 DEF Rest
  <2>3. \A e : Has(r, e) => Has(q, e)
    BY <2>2 DEF Has
  <2>4. \A e : Once(q, e) => \A i, j \in 1 .. Len(r) : r[i] = e /\ r[j] = e => i + 1 = j + 1
    BY <2>2 DEF Once
  <2>5. \A e : Once(q, e) => Once(r, e)
    BY <2>4 DEF Once
  <2> QED BY <2>2, <2>3, <2>5
<1>3. CASE r = Append(q, m) /\ (m.type # "error" => ~ Has(q, m))
  <2>1. r \in Seq(Messages)
    BY <1>3
  <2>2. \A i \in 1 .. Len(r) : \/ i \in 1 .. Len(q) /\ r[i] = q[i]
                               \/ i = Len(q) + 1 /\ r[i] = m
    BY <1>3
  <2>3. \A e : Has(r, e) => Has(q, e) \/ e = m
    BY <2>2 DEF Has
  <2>4. \A e : Once(q, e) /\ e.type # "error" => Once(r, e)
    <3>1. SUFFICES ASSUME NEW e, Once(q, e), e.type # "error",
                          NEW i \in 1 .. Len(r), NEW j \in 1 .. Len(r), r[i] = e, r[j] = e
                   PROVE  i = j
      BY DEF Once
    <3>2. CASE e = m
      <4>1. ~ Has(q, m)
        BY <1>3, <3>1, <3>2
      <4>2. i = Len(q) + 1 /\ j = Len(q) + 1
        BY <2>2, <3>1, <3>2, <4>1 DEF Has
      <4> QED BY <4>2
    <3>3. CASE e # m
      BY <2>2, <3>1, <3>3 DEF Once
    <3> QED BY <3>2, <3>3
  <2> QED BY <1>3, <2>1, <2>3, <2>4
<1> QED BY <1>1, <1>2, <1>3 DEF Queued

\* Requests, responses and errors differ, and so do those of different sessions or services.
LEMMA MessageIs ==
  ASSUME NEW n, NEW s
  PROVE  /\ Req(n, s).type = "request" /\ Resp(n, s).type = "response" /\ Err(n, s).type = "error"
         /\ Req(n, s).session = n /\ Resp(n, s).session = n /\ Err(n, s).session = n
         /\ Req(n, s).source = s /\ Resp(n, s).source = s /\ Err(n, s).source = s
         /\ (n \in Nat /\ s \in Services => {Req(n, s), Resp(n, s), Err(n, s)} \subseteq Messages)
BY DEF Req, Resp, Err, Message, Messages

\* The queue of every service moves by one message, m where one is added.
Posted(m) == \A u \in Services : Queued(box[u], box'[u], m)

\* When the queues move by one message, no request or response gets into a queue twice.
LEMMA PostedOnce ==
  ASSUME Shaped, InPlaceOnce, NEW m \in Messages, Posted(m), alive' = alive,
         \A t \in alive, s \in alive, n \in Nat, c, d \in Cos :
           Answers(sv'[t], c, n, s) /\ Answers(sv'[t], d, n, s) => c = d
  PROVE  InPlaceOnce'
<1> SUFFICES ASSUME NEW s \in alive, NEW t \in Services, NEW n \in Nat
             PROVE  /\ Once(box'[s], Resp(n, t))
                    /\ t \in alive =>
                         /\ Once(box'[t], Req(n, s))
                         /\ \A c, d \in Cos : Answers(sv'[t], c, n, s) /\ Answers(sv'[t], d, n, s) => c = d
  BY DEF InPlaceOnce, Once, Answers, Req, Resp, Message
<1>1. s \in Services /\ box[s] \in Seq(Messages) /\ box[t] \in Seq(Messages)
  BY DEF Shaped
<1>2. Resp(n, t).type # "error" /\ Req(n, s).type # "error"
  BY MessageIs
<1>3. Once(box'[s], Resp(n, t))
  <2>1. Once(box[s], Resp(n, t))
    BY DEF InPlaceOnce
  <2>2. Queued(box[s], box'[s], m)
    BY <1>1 DEF Posted
  <2> QED BY <1>1, <1>2, <2>1, <2>2, QueuedHas
<1>4. t \in alive => Once(box'[t], Req(n, s))
  <2>1. t \in alive => Once(box[t], Req(n, s))
    BY DEF InPlaceOnce
  <2>2. Queued(box[t], box'[t], m)
    BY DEF Posted
  <2> QED BY <1>1, <1>2, <2>1, <2>2, QueuedHas
<1> QED BY <1>3, <1>4

\* When the queues move by one message, errors stay behind the answers of who sent
\* them.
LEMMA PostedErrors ==
  ASSUME Shaped, ErrorsAreLast, NEW m \in Messages, Posted(m), alive' = alive,
         \A u \in alive : box'[u] = Append(box[u], m) =>
           /\ m.type = "response" => m.source \in alive
           /\ m.type = "error" => IF m.session = 0 THEN m.source \notin alive
                                  ELSE m.session \in (1 .. sv'[u].session) \ Live(u)',
         \A u \in alive : (1 .. sv[u].session) \ Live(u) \subseteq (1 .. sv'[u].session) \ Live(u)'
  PROVE  ErrorsAreLast'
<1> SUFFICES ASSUME NEW u \in alive, NEW i \in 1 .. Len(box'[u]), box'[u][i].type = "error"
             PROVE  IF box'[u][i].session = 0
                    THEN /\ box'[u][i].source \notin alive
                         /\ \A j \in i .. Len(box'[u]) :
                              box'[u][j].type = "response" => box'[u][j].source # box'[u][i].source
                    ELSE box'[u][i].session \in (1 .. sv'[u].session) \ Live(u)'
  BY DEF ErrorsAreLast
<1>1. PICK q \in Seq(Messages) : q = box[u]
  BY DEF Shaped
<1>2. PICK r : r = box'[u]
  OBVIOUS
<1>3. Queued(q, r, m)
  BY <1>1, <1>2 DEF Shaped, Posted
<1>4. \A k \in 1 .. Len(q) : q[k].type = "error" =>
        IF q[k].session = 0
        THEN /\ q[k].source \notin alive
             /\ \A j \in k .. Len(q) : q[j].type = "response" => q[j].source # q[k].source
        ELSE q[k].session \in (1 .. sv'[u].session) \ Live(u)'
  BY <1>1 DEF ErrorsAreLast
<1> SUFFICES ASSUME i \in 1 .. Len(r), r[i].type = "error"
             PROVE  IF r[i].session = 0
                    THEN /\ r[i].source \notin alive
                         /\ \A j \in i .. Len(r) : r[j].type = "response" => r[j].source # r[i].source
                    ELSE r[i].session \in (1 .. sv'[u].session) \ Live(u)'
  BY <1>2
<1>5. CASE r = q
  BY <1>4, <1>5
<1>6. CASE q # <<>> /\ r = Tail(q)
  <2>1. Rest(Messages, q)
    BY <1>6, RestIs
  <2>2. \A j \in 1 .. Len(r) : j + 1 \in 1 .. Len(q) /\ r[j] = q[j + 1]
    BY <1>6, <2>1 DEF Rest
  <2>3. i + 1 \in 1 .. Len(q) /\ r[i] = q[i + 1]
    BY <2>2
  <2>4. \A j \in i .. Len(r) : j + 1 \in (i + 1) .. Len(q) /\ r[j] = q[j + 1]
    BY <2>2
  <2> QED BY <1>4, <2>3, <2>4
<1>7. CASE r = Append(q, m) /\ (m.type # "error" => ~ Has(q, m))
  <2>1. Len(r) = Len(q) + 1 /\ Len(q) \in Nat
    BY <1>7
  <2>2. \A j \in 1 .. Len(r) : \/ j \in 1 .. Len(q) /\ r[j] = q[j]
                               \/ j = Len(q) + 1 /\ r[j] = m
    BY <1>7
  <2>3. /\ m.type = "response" => m.source \in alive
        /\ m.type = "error" => IF m.session = 0 THEN m.source \notin alive
                               ELSE m.session \in (1 .. sv'[u].session) \ Live(u)'
    BY <1>1, <1>2, <1>7
  <2>4. CASE i \in 1 .. Len(q)
    <3>1. r[i] = q[i] /\ q[i].type = "error"
      BY <2>1, <2>2, <2>4
    <3>2. CASE r[i].session # 0
      BY <1>4, <2>4, <3>1, <3>2
    <3>3. CASE r[i].session = 0
      <4>1. q[i].source \notin alive /\ \A j \in i .. Len(q) : q[j].type = "response" => q[j].source # q[i].source
        BY <1>4, <2>4, <3>1, <3>3
      <4>2. SUFFICES ASSUME NEW j \in i .. Len(r), r[j].type = "response" PROVE r[j].source # r[i].source
        BY <3>1, <3>3, <4>1
      <4>3. j \in 1 .. Len(r)
        OBVIOUS
      <4>4. CASE j \in 1 .. Len(q) /\ r[j] = q[j]
        BY <3>1, <4>1, <4>2, <4>4
      <4>5. CASE j = Len(q) + 1 /\ r[j] = m
        BY <2>3, <3>1, <4>1, <4>2, <4>5
      <4> QED BY <2>2, <4>3, <4>4, <4>5
    <3> QED BY <3>2, <3>3
  <2>5. CASE i = Len(q) + 1 /\ r[i] = m
    <3>1. \A j \in i .. Len(r) : j = i
      BY <2>1, <2>5
    <3>2. \A j \in i .. Len(r) : r[j].type # "response"
      BY <3>1
    <3> QED BY <2>3, <2>5, <3>2
  <2> QED BY <2>2, <2>4, <2>5
<1> QED BY <1>3, <1>5, <1>6, <1>7 DEF Queued

-----------------------------------------------------------------------------
(* The places of a session                                                     *)

\* y answers what x does, but for what Q says.
From(x, y, s, Q) ==
  /\ \A u \in Services, n \in Nat, c \in Cos :
       Answers(y, c, n, u) => (\E d \in Cos : Answers(x, d, n, u)) \/ <<"taken", s, u, n>> \in Q
  /\ \A u \in Services, n \in Nat :
       [session |-> n, address |-> u] \in y.unresponse =>
         [session |-> n, address |-> u] \in x.unresponse \/ <<"closure", s, u, n>> \in Q

\* A message that is added is at a place of Q.
Delivers(m, Q) ==
  \A t \in alive : box'[t] = Append(box[t], m) =>
    /\ m.type = "request" => <<"asked", t, m.source, m.session>> \in Q
    /\ m.type = "response" => <<"answer", m.source, t, m.session>> \in Q

\* A step with the message m that makes no places but those of Q.
Moves(m, Q) ==
  /\ m \in Messages /\ alive' = alive
  /\ DOMAIN sv' = Services /\ box' = [u \in Services |-> box'[u]] /\ timers' \subseteq Services \X Nat
  /\ Posted(m) /\ Delivers(m, Q)
  /\ \A t \in Services, n \in Nat : <<t, n>> \in timers' => <<t, n>> \in timers \/ <<"timer", t, t, n>> \in Q
  /\ \A t \in alive : From(sv[t], sv'[t], t, Q)

\* A step with one message keeps the shape of the state.
LEMMA MovesShaped ==
  ASSUME Shaped, NEW m, NEW Q, Moves(m, Q)
  PROVE  Shaped'
<1>1. \A u \in Services : box'[u] \in Seq(Messages)
  <2> SUFFICES ASSUME NEW u \in Services PROVE box'[u] \in Seq(Messages)
    OBVIOUS
  <2>1. box[u] \in Seq(Messages) /\ Queued(box[u], box'[u], m) /\ m \in Messages
    BY DEF Shaped, Moves, Posted
  <2> QED BY <2>1, QueuedHas
<1> QED BY <1>1 DEF Moves, Shaped

\* A step with one message makes no places of sessions but those of Q.
LEMMA MovesPlaces ==
  ASSUME Shaped, NEW m, NEW Q, Moves(m, Q)
  PROVE  Places' \subseteq Places \cup Q
<1> SUFFICES ASSUME NEW p \in Places' PROVE p \in Places \/ p \in Q
  OBVIOUS
<1>1. PICK k \in Kinds, t \in Services, u \in Services, n \in Nat : p = <<k, t, u, n>>
  BY DEF Places
<1>2. u \in alive /\ Place(k, t, u, n)'
  BY <1>1 DEF Places, Moves
<1>3. \A v \in Services : \A e : Has(box'[v], e) => Has(box[v], e) \/ (box'[v] = Append(box[v], m) /\ e = m)
  <2> SUFFICES ASSUME NEW v \in Services, NEW e, Has(box'[v], e)
               PROVE  Has(box[v], e) \/ (box'[v] = Append(box[v], m) /\ e = m)
    OBVIOUS
  <2>1. box[v] \in Seq(Messages) /\ Queued(box[v], box'[v], m) /\ m \in Messages
    BY DEF Shaped, Moves, Posted
  <2> QED BY <2>1, QueuedHas
<1>4. Place(k, t, u, n) => p \in Places
  BY <1>1, <1>2 DEF Places
<1>5. CASE k = "timer"
  BY <1>1, <1>2, <1>4, <1>5 DEF Place, Moves
<1>6. CASE k = "asked"
  <2>1. t \in alive /\ Has(box'[t], Req(n, u))
    BY <1>2, <1>6 DEF Place, Moves, Has, Req, Message
  <2>2. CASE Has(box[t], Req(n, u))
    BY <1>4, <1>6, <2>1, <2>2 DEF Place
  <2>3. CASE box'[t] = Append(box[t], m) /\ Req(n, u) = m
    <3>1. m.type = "request" /\ m.source = u /\ m.session = n
      BY <2>3, MessageIs
    <3>2. <<"asked", t, m.source, m.session>> \in Q
      BY <2>1, <2>3, <3>1 DEF Moves, Delivers
    <3> QED BY <1>1, <1>6, <3>1, <3>2
  <2> QED BY <1>3, <2>1, <2>2, <2>3
<1>7. CASE k = "taken"
  <2>1. t \in alive /\ \E c \in Cos : Answers(sv'[t], c, n, u)
    BY <1>2, <1>7 DEF Place, Moves, Answers
  <2>2. From(sv[t], sv'[t], t, Q)
    BY <2>1 DEF Moves
  <2> QED BY <1>1, <1>4, <1>7, <2>1, <2>2 DEF From, Place
<1>8. CASE k = "closure"
  <2>1. t \in alive /\ [session |-> n, address |-> u] \in sv'[t].unresponse
    BY <1>2, <1>8 DEF Place, Moves
  <2>2. From(sv[t], sv'[t], t, Q)
    BY <2>1 DEF Moves
  <2> QED BY <1>1, <1>4, <1>8, <2>1, <2>2 DEF From, Place
<1>9. CASE k = "answer"
  <2>1. Has(box'[u], Resp(n, t))
    BY <1>2, <1>9 DEF Place, Has, Resp, Message
  <2>2. CASE Has(box[u], Resp(n, t))
    BY <1>4, <1>9, <2>2 DEF Place
  <2>3. CASE box'[u] = Append(box[u], m) /\ Resp(n, t) = m
    <3>1. m.type = "response" /\ m.source = t /\ m.session = n
      BY <2>3, MessageIs
    <3>2. <<"answer", m.source, u, m.session>> \in Q
      BY <1>2, <2>3, <3>1 DEF Moves, Delivers
    <3> QED BY <1>1, <1>9, <3>1, <3>2
  <2> QED BY <1>3, <2>1, <2>2, <2>3
<1> QED BY <1>5, <1>6, <1>7, <1>8, <1>9 DEF Kinds

\* No other place has a session that Q places.
Single(Q) == \A a \in Places', q \in Q : a[3] = q[3] /\ a[4] = q[4] => a = q

\* A session is still in one place when those that are new are of sessions with no
\* other.
LEMMA OnePlaceKept ==
  ASSUME OnePlace, NEW Q, Places' \subseteq Places \cup Q, Single(Q)
  PROVE  OnePlace'
<1> SUFFICES ASSUME NEW p \in Places', NEW q \in Places', p[3] = q[3], p[4] = q[4] PROVE p = q
  BY DEF OnePlace
<1>1. CASE p \in Q
  BY <1>1 DEF Single
<1>2. CASE q \in Q
  BY <1>2 DEF Single
<1>3. CASE p \in Places /\ q \in Places
  BY <1>3 DEF OnePlace
<1> QED BY <1>1, <1>2, <1>3

\* A session may be answered when it has a place.
LEMMA LiveIs ==
  ASSUME NEW s \in Services
  PROVE  /\ Live(s) \subseteq Nat
         /\ \A n : n \in Live(s) <=> \E p \in Places : p[3] = s /\ p[4] = n
<1>1. Live(s) \subseteq Nat
  BY DEF Live
<1>2. ASSUME NEW n, n \in Live(s) PROVE \E p \in Places : p[3] = s /\ p[4] = n
  <2>1. PICK k \in Kinds, t \in Services : <<k, t, s, n>> \in Places
    BY <1>2 DEF Live
  <2> QED BY <2>1
<1>3. ASSUME NEW p \in Places, p[3] = s PROVE p[4] \in Live(s)
  <2>1. p \in Kinds \X Services \X Services \X Nat
    BY DEF Places
  <2>2. p = <<p[1], p[2], s, p[4]>> /\ p[1] \in Kinds /\ p[2] \in Services /\ p[4] \in Nat
    BY <1>3, <2>1
  <2> QED BY <2>2 DEF Live
<1> QED BY <1>1, <1>2, <1>3

\* LiveIs of the next state.
LEMMA LiveNext ==
  ASSUME NEW s \in Services
  PROVE  /\ Live(s)' \subseteq Nat
         /\ \A n : n \in Live(s)' <=> \E p \in Places' : p[3] = s /\ p[4] = n
<1>1. Live(s)' \subseteq Nat
  BY DEF Live
<1>2. ASSUME NEW n, n \in Live(s)' PROVE \E p \in Places' : p[3] = s /\ p[4] = n
  <2>1. PICK k \in Kinds, t \in Services : <<k, t, s, n>> \in Places'
    BY <1>2 DEF Live
  <2> QED BY <2>1
<1>3. ASSUME NEW p \in Places', p[3] = s PROVE p[4] \in Live(s)'
  <2>1. p \in Kinds \X Services \X Services \X Nat
    BY DEF Places
  <2>2. p = <<p[1], p[2], s, p[4]>> /\ p[1] \in Kinds /\ p[2] \in Services /\ p[4] \in Nat
    BY <1>3, <2>1
  <2> QED BY <2>2 DEF Live
<1> QED BY <1>1, <1>2, <1>3

\* The parts of a place.
LEMMA PlaceOf ==
  ASSUME NEW p \in Places
  PROVE  p[1] \in Kinds /\ p[2] \in Services /\ p[3] \in Services /\ p[3] \in alive /\ p[4] \in Nat
         /\ p = <<p[1], p[2], p[3], p[4]>>
BY DEF Places

\* No service moves, but one that has exited may count what is left of its batch.
Stands(u) == sv'[u].unknown = sv[u].unknown /\ (u \in alive => sv'[u] = sv[u])

\* y is the next state of the service s, and no other moves.
OnlyMoves(s, y) == sv'[s] = y /\ \A u \in Services : u # s => Stands(u)

\* An assignment to sv[s] moves the service s alone.
LEMMA ExceptMoves ==
  ASSUME Shaped, NEW s \in Services, NEW y, sv' = [sv EXCEPT ![s] = y]
  PROVE  OnlyMoves(s, y)
BY DEF Shaped, OnlyMoves, Stands

\* What a service s makes of the sessions.
LEMMA ServiceStep ==
  ASSUME SessionInv, NEW s \in alive, NEW y, OnlyMoves(s, y),
         NEW m, NEW Q, Moves(m, Q), Single(Q),
         \A q \in Q : q[3] = s \/ q[4] \in Live(q[3]) \/ q[3] \notin alive,
         Tidy(y, s, Live(s)'), Busy(y, s), y.pool # <<>>,
         \A n \in Live(s) : n \in Live(s)' => y.watchSession[n] = sv[s].watchSession[n],
         \A q \in Q : q \in Places' => sv'[q[3]].watchSession[q[4]] = IF q[2] = q[3] THEN None ELSE q[2],
         \A u \in alive, n \in Nat, c, d \in Cos : Answers(y, c, n, u) /\ Answers(y, d, n, u) => c = d,
         \A u \in alive : box'[u] = Append(box[u], m) =>
           /\ m.type = "response" => m.source \in alive
           /\ m.type = "error" => IF m.session = 0 THEN m.source \notin alive
                                  ELSE m.session \in (1 .. sv'[u].session) \ Live(u)',
         (1 .. sv[s].session) \ Live(s) \subseteq (1 .. y.session) \ Live(s)'
  PROVE  SessionInv'
<1>0. Shaped /\ OnePlace /\ InPlaceOnce /\ Watches /\ ErrorsAreLast
  BY DEF SessionInv
<1>1. s \in Services /\ DOMAIN sv = Services /\ alive \subseteq Services /\ alive' = alive /\ m \in Messages
  BY <1>0 DEF Shaped, Moves
<1>2. sv'[s] = y /\ (\A u \in alive : u # s => sv'[u] = sv[u])
      /\ \A u \in Services : u # s => sv'[u].unknown = sv[u].unknown
  BY <1>1 DEF OnlyMoves, Stands
<1>3. Shaped'
  BY <1>0, MovesShaped
<1>4. Places' \subseteq Places \cup Q
  BY <1>0, MovesPlaces
<1>5. OnePlace'
  BY <1>0, <1>4, OnePlaceKept
<1>6. \A u \in alive : u # s => Live(u)' \subseteq Live(u)
  <2> SUFFICES ASSUME NEW u \in alive, u # s, NEW n \in Live(u)' PROVE n \in Live(u)
    OBVIOUS
  <2>1. PICK p \in Places' : p[3] = u /\ p[4] = n
    BY <1>1, LiveNext
  <2>2. CASE p \in Places
    BY <1>1, <2>1, <2>2, LiveIs
  <2>3. CASE p \in Q
    BY <2>1, <2>3
  <2> QED BY <1>4, <2>2, <2>3
<1>7. Watches'
  <2> SUFFICES ASSUME NEW p \in Places'
               PROVE  sv'[p[3]].watchSession[p[4]] = IF p[2] = p[3] THEN None ELSE p[2]
    BY DEF Watches
  <2>1. CASE p \in Q
    BY <2>1
  <2>2. CASE p \in Places
    <3>1. p[3] \in alive /\ sv[p[3]].watchSession[p[4]] = IF p[2] = p[3] THEN None ELSE p[2]
      BY <1>0, <2>2, PlaceOf DEF Watches
    <3>2. CASE p[3] = s
      <4>1. p[4] \in Live(s) /\ p[4] \in Live(s)'
        BY <1>1, <2>2, <3>2, LiveIs, LiveNext
      <4> QED BY <1>2, <3>1, <3>2, <4>1
    <3>3. CASE p[3] # s
      BY <1>2, <3>1, <3>3
    <3> QED BY <3>2, <3>3
  <2> QED BY <1>4, <2>1, <2>2
<1>8. InPlaceOnce'
  <2>1. \A t \in alive, u \in alive, n \in Nat, c, d \in Cos :
           Answers(sv'[t], c, n, u) /\ Answers(sv'[t], d, n, u) => c = d
    <3> SUFFICES ASSUME NEW t \in alive, NEW u \in alive, NEW n \in Nat, NEW c \in Cos, NEW d \in Cos,
                        Answers(sv'[t], c, n, u), Answers(sv'[t], d, n, u)
                 PROVE  c = d
      OBVIOUS
    <3>1. CASE t = s
      BY <1>2, <3>1
    <3>2. CASE t # s
      <4>1. Answers(sv[t], c, n, u) /\ Answers(sv[t], d, n, u) /\ t \in Services
        BY <1>1, <1>2, <3>2
      <4> QED BY <1>0, <4>1 DEF InPlaceOnce
    <3> QED BY <3>1, <3>2
  <2>2. Posted(m)
    BY DEF Moves
  <2> QED BY <1>0, <1>1, <2>1, <2>2, PostedOnce
<1>9. ErrorsAreLast'
  <2>1. \A u \in alive : (1 .. sv[u].session) \ Live(u) \subseteq (1 .. sv'[u].session) \ Live(u)'
    BY <1>1, <1>2, <1>6
  <2>2. Posted(m)
    BY DEF Moves
  <2> QED BY <1>0, <1>1, <2>1, <2>2, PostedErrors
<1>10. \A u \in alive : Tidy(sv'[u], u, Live(u)') /\ Busy(sv'[u], u) /\ sv'[u].pool # <<>>
  <2> SUFFICES ASSUME NEW u \in alive, u # s PROVE Tidy(sv'[u], u, Live(u)') /\ Busy(sv'[u], u) /\ sv'[u].pool # <<>>
    BY <1>2
  <2>1. Tidy(sv[u], u, Live(u)) /\ Busy(sv[u], u) /\ sv[u].pool # <<>>
    BY DEF SessionInv
  <2>2. Tidy(sv[u], u, Live(u)')
    BY <1>6, <2>1, TidyLess
  <2> QED BY <1>1, <1>2, <2>1, <2>2
<1>11. \A u \in Services : ~ sv'[u].unknown
  <2>1. ~ y.unknown
    BY DEF Tidy, Expected
  <2> QED BY <1>2, <2>1 DEF SessionInv
<1>12. \A u \in alive' : Tidy(sv[u], u, Live(u))' /\ Busy(sv[u], u)' /\ sv'[u].pool # <<>>
  BY <1>1, <1>10
<1> QED BY <1>3, <1>5, <1>7, <1>8, <1>9, <1>11, <1>12 DEF SessionInv

\* A queue is not longer than itself.
LEMMA NoAppend ==
  ASSUME NEW q \in Seq(Messages), NEW m
  PROVE  q # Append(q, m) /\ (q # <<>> => Tail(q) # Append(q, m))
<1>1. Len(q) \in Nat /\ Len(Append(q, m)) = Len(q) + 1
  OBVIOUS
<1>2. q # <<>> => Len(Tail(q)) = Len(q) - 1
  OBVIOUS
<1> QED BY <1>1, <1>2

\* The next queues are functions of the services.
Boxed == box' = [u \in Services |-> box'[u]]

\* No queue gets the message m.
Silent(m) == \A u \in Services : box'[u] # Append(box[u], m)

\* Queues that do not move get no message.
LEMMA StillPosts ==
  ASSUME Shaped, box' = box, NEW m \in Messages
  PROVE  Boxed /\ Posted(m) /\ Silent(m)
<1>1. \A u \in Services : box[u] \in Seq(Messages)
  BY DEF Shaped
<1> QED BY <1>1, NoAppend DEF Shaped, Boxed, Posted, Queued, Silent

\* Taking a message adds none.
LEMMA TakePosts ==
  ASSUME Shaped, NEW s \in Services, box[s] # <<>>, box' = [box EXCEPT ![s] = Tail(@)], NEW m \in Messages
  PROVE  Boxed /\ Posted(m) /\ Silent(m)
<1>1. \A u \in Services : box[u] \in Seq(Messages)
  BY DEF Shaped
<1>2. \A u \in Services : box'[u] = IF u = s THEN Tail(box[s]) ELSE box[u]
  BY DEF Shaped
<1>3. Boxed
  BY DEF Shaped, Boxed
<1>4. Posted(m)
  BY <1>2 DEF Posted, Queued
<1>5. Silent(m)
  BY <1>1, <1>2, NoAppend DEF Silent
<1> QED BY <1>3, <1>4, <1>5

\* Sending m adds it to the queue of t at most.
LEMMA SentPosts ==
  ASSUME Shaped, NEW t, NEW m \in Messages, box' = Sent(t, m),
         t \in alive /\ m.type # "error" => ~ Has(box[t], m)
  PROVE  /\ Boxed /\ Posted(m)
         /\ \A u \in Services : box'[u] = Append(box[u], m) => u = t /\ t \in alive
<1>1. \A u \in Services : box[u] \in Seq(Messages)
  BY DEF Shaped
<1>2. CASE t \in alive
  <2>1. t \in Services /\ box' = [box EXCEPT ![t] = Append(@, m)]
    BY <1>2 DEF Shaped, Sent
  <2>2. \A u \in Services : box'[u] = IF u = t THEN Append(box[t], m) ELSE box[u]
    BY <2>1 DEF Shaped
  <2>3. Boxed
    BY <2>1 DEF Shaped, Boxed
  <2>4. Posted(m)
    BY <1>2, <2>2 DEF Posted, Queued
  <2> QED BY <1>1, <1>2, <2>2, <2>3, <2>4, NoAppend
<1>3. CASE t \notin alive
  <2>1. box' = box
    BY <1>3 DEF Sent
  <2> QED BY <2>1, StillPosts DEF Silent
<1> QED BY <1>2, <1>3

\* What is known of a service that has not exited.
LEMMA ServiceIs ==
  ASSUME SessionInv, NEW s \in alive
  PROVE  /\ s \in Services /\ Shaped
         /\ Tidy(sv[s], s, Live(s)) /\ Busy(sv[s], s) /\ sv[s].pool # <<>>
         /\ \A u \in Services, n \in Nat, c \in Cos, d \in Cos :
              u \in alive /\ Answers(sv[s], c, n, u) /\ Answers(sv[s], d, n, u) => c = d
BY DEF SessionInv, Shaped, InPlaceOnce

\* y answers nothing that x does not.
Fewer(x, y) ==
  /\ \A u \in Services, n \in Nat, c \in Cos : Answers(y, c, n, u) => Answers(x, c, n, u)
  /\ y.unresponse \subseteq x.unresponse

\* What answers less has no new places.
LEMMA FewerFrom == ASSUME NEW x, NEW y, NEW s, Fewer(x, y), NEW Q PROVE From(x, y, s, Q)
BY DEF Fewer, From

\* What does not move has no new places.
LEMMA SelfFrom == ASSUME NEW x, NEW s, NEW Q PROVE From(x, x, s, Q)
BY DEF From

\* Nothing gets a new place.
LEMMA QuietMoves ==
  ASSUME SessionInv, NEW s \in alive, NEW y, sv' = [sv EXCEPT ![s] = y], alive' = alive,
         timers' \subseteq timers, NEW m \in Messages, m.type = "error" \/ Silent(m), Boxed, Posted(m), Fewer(sv[s], y)
  PROVE  Moves(m, {})
<1>1. s \in Services /\ Shaped /\ DOMAIN sv = Services /\ alive \subseteq Services /\ timers \subseteq Services \X Nat
  BY ServiceIs DEF Shaped
<1>2. sv'[s] = y /\ \A u \in Services : u # s => sv'[u] = sv[u]
  BY <1>1
<1>3. \A t \in alive : From(sv[t], sv'[t], t, {})
  BY <1>1, <1>2, FewerFrom, SelfFrom
<1>4. Delivers(m, {})
  BY <1>1 DEF Delivers, Silent
<1> QED BY <1>1, <1>3, <1>4 DEF Moves, Boxed

\* A step of s that makes no new place, and sends an error at most, keeps the
\* invariant.
LEMMA QuietStep ==
  ASSUME SessionInv, NEW s \in alive, NEW y, sv' = [sv EXCEPT ![s] = y], alive' = alive,
         timers' \subseteq timers, NEW m \in Messages, m.type = "error" \/ Silent(m), Boxed, Posted(m), Fewer(sv[s], y),
         Tidy(y, s, Live(s)'), Busy(y, s), y.pool # <<>>, y.session >= sv[s].session,
         \A n \in Live(s) : n \in Live(s)' => y.watchSession[n] = sv[s].watchSession[n],
         \A u \in alive : box'[u] = Append(box[u], m) =>
            IF m.session = 0 THEN m.source \notin alive ELSE m.session \in (1 .. sv'[u].session) \ Live(u)'
  PROVE  SessionInv'
<1>1. s \in Services /\ Shaped /\ Tidy(sv[s], s, Live(s)) /\ alive \subseteq Services
  BY ServiceIs DEF Shaped
<1>2. Moves(m, {})
  BY QuietMoves
<1>3. Single({})
  BY DEF Single
<1>4. Places' \subseteq Places
  BY <1>1, <1>2, MovesPlaces
<1>5. Live(s)' \subseteq Live(s)
  BY <1>1, <1>4, LiveIs, LiveNext
<1>6. (1 .. sv[s].session) \ Live(s) \subseteq (1 .. y.session) \ Live(s)'
  <2>1. sv[s].session \in Nat /\ y.session \in Nat
    BY <1>1 DEF Tidy, Typed
  <2> QED BY <1>5, <2>1
<1>7. \A u \in alive, n \in Nat, c, d \in Cos : Answers(y, c, n, u) /\ Answers(y, d, n, u) => c = d
  BY <1>1, ServiceIs DEF Fewer
<1>8. \A u \in alive : box'[u] = Append(box[u], m) =>
           /\ m.type = "response" => m.source \in alive
           /\ m.type = "error" => IF m.session = 0 THEN m.source \notin alive
                                  ELSE m.session \in (1 .. sv'[u].session) \ Live(u)'
  BY <1>1 DEF Silent
<1>9. OnlyMoves(s, y)
  BY <1>1, ExceptMoves
<1> QED BY <1>2, <1>3, <1>6, <1>7, <1>8, <1>9, ServiceStep

\* A step of a service that sends and takes nothing, and forgets none of its sessions.
LEMMA LocalStep ==
  ASSUME SessionInv, NEW s \in alive, NEW y, sv' = [sv EXCEPT ![s] = y], alive' = alive,
         timers' = timers, box' = box, Fewer(sv[s], y),
         Tidy(y, s, Live(s)), Busy(y, s), y.pool # <<>>, y.session >= sv[s].session,
         \A n \in Live(s) : y.watchSession[n] = sv[s].watchSession[n]
  PROVE  SessionInv'
<1>1. s \in Services /\ Shaped
  BY ServiceIs
<1>2. PICK m \in Messages : m = Err(0, s)
  BY <1>1, MessageIs
<1>3. Boxed /\ Posted(m) /\ Silent(m)
  BY <1>1, StillPosts
<1>4. Moves(m, {})
  BY <1>3, QuietMoves
<1>5. Places' \subseteq Places
  BY <1>1, <1>4, MovesPlaces
<1>6. Live(s)' \subseteq Live(s)
  BY <1>1, <1>5, LiveIs, LiveNext
<1>7. Tidy(y, s, Live(s)')
  BY <1>6, TidyLess
<1>8. \A u \in alive : box'[u] = Append(box[u], m) =>
            IF m.session = 0 THEN m.source \notin alive ELSE m.session \in (1 .. sv'[u].session) \ Live(u)'
  BY <1>1, <1>3 DEF Silent, Shaped
<1> QED BY <1>3, <1>7, <1>8, QuietStep

\* A place that is left: its session is not answered any more, or moves to q.
LEMMA WentAway ==
  ASSUME OnePlace, NEW p \in Places, Places' \subseteq Places, p \notin Places'
  PROVE  p[4] \notin Live(p[3])'
<1>1. p[3] \in Services
  BY PlaceOf
<1>2. \A a \in Places' : ~ (a[3] = p[3] /\ a[4] = p[4])
  BY DEF OnePlace
<1> QED BY <1>1, <1>2, LiveNext

\* A session that goes from the place p to q is in no other place, and no other session
\* is new.
LEMMA Moved ==
  ASSUME OnePlace, NEW p \in Places, NEW q, q[3] = p[3], q[4] = p[4],
         Places' \subseteq Places \cup {q}, p \notin Places'
  PROVE  Single({q}) /\ \A u \in Services : Live(u)' \subseteq Live(u)
<1>1. Single({q})
  BY DEF OnePlace, Single
<1>2. ASSUME NEW u \in Services, NEW n \in Live(u)' PROVE n \in Live(u)
  <2>1. PICK a \in Places' : a[3] = u /\ a[4] = n
    BY LiveNext
  <2>2. \E b \in Places : b[3] = u /\ b[4] = n
    BY <2>1
  <2> QED BY <2>2, LiveIs
<1> QED BY <1>1, <1>2

\* A session that may be answered is one that its service has given out.
LEMMA LiveWithin ==
  ASSUME SessionInv, NEW p \in Places
  PROVE  /\ p[3] \in alive /\ p[4] \in Live(p[3]) /\ p[4] \in Sessions(p[3])
         /\ p[4] \in 1 .. sv[p[3]].session /\ sv[p[3]].session \in Nat
<1>1. p[3] \in alive /\ p[3] \in Services /\ p[4] \in Live(p[3])
  BY PlaceOf, LiveIs
<1>2. Tidy(sv[p[3]], p[3], Live(p[3]))
  BY <1>1, ServiceIs
<1>3. PICK u \in Services, n \in Nat : u = p[3] /\ n = p[4]
  BY PlaceOf
<1>4. PICK x, L : x = sv[u] /\ L = Live(u)
  OBVIOUS
<1>5. Tidy(x, u, L) /\ n \in L
  BY <1>1, <1>2, <1>3, <1>4
<1>6. n \in Sessions(u) /\ n \in 1 .. x.session
  BY <1>5, LiveIsSession
<1>7. x.session \in Nat
  BY <1>5 DEF Tidy, Typed
<1> QED BY <1>1, <1>3, <1>4, <1>6, <1>7

\* The session n of a goes from a coroutine or a closure of s into an answer.
LEMMA AnswerStep ==
  ASSUME SessionInv, NEW s \in alive, NEW y, sv' = [sv EXCEPT ![s] = y], alive' = alive, timers' = timers,
         NEW k \in {"taken", "closure"}, NEW a \in alive, NEW n \in Nat, <<k, s, a, n>> \in Places,
         ~ Place(k, s, a, n)', box' = Sent(a, Resp(n, s)), Fewer(sv[s], y),
         Tidy(y, s, Live(s)), Busy(y, s), y.pool # <<>>, y.session >= sv[s].session,
         \A i \in Live(s) : y.watchSession[i] = sv[s].watchSession[i]
  PROVE  SessionInv'
<1>1. s \in Services /\ Shaped /\ Tidy(sv[s], s, Live(s)) /\ alive \subseteq Services /\ OnePlace /\ Watches
      /\ DOMAIN sv = Services /\ timers \subseteq Services \X Nat
  BY ServiceIs DEF SessionInv, Shaped
<1>2. PICK p : p = <<k, s, a, n>>
  OBVIOUS
<1>3. PICK q : q = <<"answer", s, a, n>>
  OBVIOUS
<1>4. PICK m \in Messages : m = Resp(n, s)
  BY <1>1, MessageIs
<1>5. p \in Places /\ p[3] = a /\ p[4] = n /\ p[2] = s /\ q[2] = s /\ q[3] = a /\ q[4] = n /\ p[1] = k /\ q[1] = "answer"
  BY <1>2, <1>3
<1>6. p \notin Places'
  BY <1>2 DEF Places
<1>7. ~ Has(box[a], m)
  <2>1. Has(box[a], m) => q \in Places
    BY <1>1, <1>3, <1>4 DEF Places, Kinds, Place
  <2>2. q \in Places => p = q
    BY <1>1, <1>5 DEF OnePlace
  <2> QED BY <1>5, <2>1, <2>2
<1>8. Boxed /\ Posted(m) /\ \A u \in Services : box'[u] = Append(box[u], m) => u = a
  BY <1>1, <1>4, <1>7, SentPosts
<1>9. OnlyMoves(s, y)
  BY <1>1, ExceptMoves
<1>10. m.type = "response" /\ m.source = s /\ m.session = n
  BY <1>4, MessageIs
<1>11. Moves(m, {q})
  <2>1. Delivers(m, {q})
    BY <1>1, <1>3, <1>8, <1>10 DEF Delivers
  <2>2. \A t \in alive : From(sv[t], sv'[t], t, {q})
    BY <1>1, <1>9, FewerFrom, SelfFrom DEF OnlyMoves, Stands
  <2> QED BY <1>1, <1>8, <2>1, <2>2 DEF Moves, Boxed
<1>12. Places' \subseteq Places \cup {q}
  BY <1>1, <1>11, MovesPlaces
<1>13. Single({q}) /\ \A u \in Services : Live(u)' \subseteq Live(u)
  BY <1>1, <1>5, <1>6, <1>12, Moved
<1>14. Tidy(y, s, Live(s)')
  BY <1>1, <1>13, TidyLess
<1>15. n \in Live(a) /\ a \in Services
  BY <1>1, <1>5, LiveIs
<1>16. sv'[a].watchSession[n] = IF s = a THEN None ELSE s
  <2>1. sv[a].watchSession[n] = IF s = a THEN None ELSE s
    BY <1>1, <1>5 DEF Watches
  <2> QED BY <1>9, <1>15, <2>1 DEF OnlyMoves, Stands
<1>17. \A u \in alive, i \in Nat, c, d \in Cos : Answers(y, c, i, u) /\ Answers(y, d, i, u) => c = d
  BY ZenonT(60), <1>1, ServiceIs DEF Fewer
<1>18. (1 .. sv[s].session) \ Live(s) \subseteq (1 .. y.session) \ Live(s)'
  <2>1. sv[s].session \in Nat /\ y.session \in Nat
    BY <1>1 DEF Tidy, Typed
  <2> QED BY <1>1, <1>13, <2>1
<1>19. \A e \in {q} : e[3] = s \/ e[4] \in Live(e[3]) \/ e[3] \notin alive
  BY <1>5, <1>15
<1>20. \A e \in {q} : e \in Places' => sv'[e[3]].watchSession[e[4]] = IF e[2] = e[3] THEN None ELSE e[2]
  BY <1>5, <1>16
<1>21. \A u \in alive : box'[u] = Append(box[u], m) =>
           /\ m.type = "response" => m.source \in alive
           /\ m.type = "error" => IF m.session = 0 THEN m.source \notin alive
                                  ELSE m.session \in (1 .. sv'[u].session) \ Live(u)'
  BY <1>10
<1> QED BY <1>9, <1>11, <1>13, <1>14, <1>17, <1>18, <1>19, <1>20, <1>21, ServiceStep

\* The session n of a is told to be an error.
LEMMA ErrorStep ==
  ASSUME SessionInv, NEW s \in alive, NEW y, sv' = [sv EXCEPT ![s] = y], alive' = alive, timers' = timers,
         NEW k \in {"taken", "closure"}, NEW a \in alive, NEW n \in Nat, <<k, s, a, n>> \in Places,
         ~ Place(k, s, a, n)', box' = Sent(a, Err(n, s)), Fewer(sv[s], y),
         Tidy(y, s, Live(s)), Busy(y, s), y.pool # <<>>, y.session >= sv[s].session,
         \A i \in Live(s) : y.watchSession[i] = sv[s].watchSession[i]
  PROVE  SessionInv'
<1>1. s \in Services /\ Shaped /\ OnePlace /\ alive \subseteq Services /\ Tidy(sv[s], s, Live(s))
  BY ServiceIs DEF SessionInv, Shaped
<1>2. PICK p : p = <<k, s, a, n>>
  OBVIOUS
<1>3. PICK m \in Messages : m = Err(n, s)
  BY <1>1, MessageIs
<1>4. p \in Places /\ p[3] = a /\ p[4] = n
  BY <1>2
<1>5. p \notin Places'
  BY <1>2 DEF Places
<1>6. m.type = "error" /\ m.source = s /\ m.session = n
  BY <1>3, MessageIs
<1>7. Boxed /\ Posted(m) /\ \A u \in Services : box'[u] = Append(box[u], m) => u = a
  BY <1>1, <1>3, <1>6, SentPosts
<1>8. Moves(m, {})
  BY <1>6, <1>7, QuietMoves
<1>9. Places' \subseteq Places
  BY <1>1, <1>8, MovesPlaces
<1>10. n \notin Live(a)'
  BY <1>1, <1>4, <1>5, <1>9, WentAway
<1>11. Live(s)' \subseteq Live(s)
  BY <1>1, <1>9, LiveIs, LiveNext
<1>12. Tidy(y, s, Live(s)')
  BY <1>11, TidyLess
<1>13. n \in 1 .. sv[a].session /\ sv[a].session \in Nat
  BY <1>4, LiveWithin
<1>14. OnlyMoves(s, y)
  BY <1>1, ExceptMoves
<1>15. sv'[a].session \in Nat /\ sv'[a].session >= sv[a].session
  <2>1. CASE a = s
    BY <1>12, <1>14, <2>1 DEF OnlyMoves, Stands, Tidy, Typed
  <2>2. CASE a # s
    BY <1>1, <1>13, <1>14, <2>2 DEF OnlyMoves, Stands
  <2> QED BY <2>1, <2>2
<1>16. n # 0 /\ n \in (1 .. sv'[a].session) \ Live(a)'
  BY <1>10, <1>13, <1>15
<1>17. \A u \in alive : box'[u] = Append(box[u], m) =>
            IF m.session = 0 THEN m.source \notin alive ELSE m.session \in (1 .. sv'[u].session) \ Live(u)'
  BY <1>1, <1>6, <1>7, <1>16
<1> QED BY <1>6, <1>7, <1>12, <1>17, QuietStep

-----------------------------------------------------------------------------
(* Operations of a running coroutine                                           *)

\* An error that nobody catches: x is the state of s when it is raised.
LEMMA RaiseKeeps ==
  ASSUME SessionInv, NEW s \in alive, NEW c, NEW x, Raise(s, c, x), alive' = alive, timers' = timers,
         Tidy(x, s, Live(s)), Alone(x, c, s), x.pool # <<>>, Fewer(sv[s], x),
         x.session = sv[s].session, x.watchSession = sv[s].watchSession
  PROVE  SessionInv'
<1>1. s \in Services /\ Shaped /\ OnePlace /\ alive \subseteq Services /\ Tidy(sv[s], s, Live(s))
  BY ServiceIs DEF SessionInv, Shaped
<1>2. PICK y : y = Raised(x, c)
  OBVIOUS
<1>3. /\ Tidy(y, s, Live(s)) /\ Busy(y, s) /\ Failed(x, y, c)
      /\ \A n \in Live(s) : y.watchSession[n] = x.watchSession[n]
  BY <1>1, <1>2, RaisedTidy
<1>4. sv' = [sv EXCEPT ![s] = y]
  BY <1>2 DEF Raise
<1>5. c \in Cos /\ x.id \in [Cos -> Nat \cup {None}] /\ x.address \in [Cos -> Services \cup {None}]
      /\ x.pool \in Seq(Cos) /\ None \notin Services
  BY NamesAssumption DEF Alone, Tidy, Typed
<1>6. y.pool # <<>>
  <2>1. PICK q : q = <<c>> \o x.pool
    OBVIOUS
  <2>2. <<c>> \in Seq(Cos) /\ Len(<<c>>) = 1
    BY <1>5
  <2>3. q \in Seq(Cos) /\ Len(q) = 1 + Len(x.pool) /\ Len(x.pool) > 0
    BY <1>5, <2>1, <2>2
  <2>4. Len(Front(q)) = Len(q) - 1
    BY <2>3 DEF Front
  <2>5. y.pool = Front(q)
    BY <1>3, <2>1 DEF Failed
  <2>6. Len(y.pool) > 0
    BY <2>3, <2>4, <2>5
  <2> QED BY <2>6
<1>7. \A u \in Services, n \in Nat, d \in Cos : Answers(y, d, n, u) => Answers(x, d, n, u) /\ d # c
  <2> SUFFICES ASSUME NEW u \in Services, NEW n \in Nat, NEW d \in Cos, Answers(y, d, n, u)
               PROVE  Answers(x, d, n, u) /\ d # c
    OBVIOUS
  <2>1. y.id = [x.id EXCEPT ![c] = None] /\ y.address = [x.address EXCEPT ![c] = None]
    BY <1>3 DEF Failed
  <2>2. d # c
    BY <1>5, <2>1 DEF Answers
  <2> QED BY <1>5, <2>1, <2>2 DEF Answers
<1>8. Fewer(sv[s], y)
  <2>1. y.unresponse = x.unresponse
    BY <1>3 DEF Failed
  <2> QED BY <1>7, <2>1 DEF Fewer
<1>9. y.session >= sv[s].session
  <2>1. y.session = x.session /\ sv[s].session \in Nat
    BY <1>1, <1>3 DEF Failed, Tidy, Typed
  <2> QED BY <2>1
<1>10. \A n \in Live(s) : y.watchSession[n] = sv[s].watchSession[n]
  BY <1>3
<1>11. CASE x.id[c] = None \/ x.address[c] \notin alive
  <2>1. box' = box
    BY <1>11 DEF Raise, Sent
  <2> QED BY <1>3, <1>4, <1>6, <1>8, <1>9, <1>10, <2>1, LocalStep
<1>12. CASE x.id[c] # None /\ x.address[c] \in alive
  <2>1. PICK n \in Nat, a \in alive : n = x.id[c] /\ a = x.address[c]
    BY <1>5, <1>12
  <2>2. Answers(x, c, n, a) /\ a \in Services
    BY <1>1, <2>1 DEF Answers
  <2>3. Answers(sv[s], c, n, a)
    BY <1>5, <2>2 DEF Fewer
  <2>4. <<"taken", s, a, n>> \in Places
    BY <1>1, <1>5, <2>2, <2>3 DEF Places, Kinds, Place
  <2>5. box' = Sent(a, Err(n, s))
    BY <1>12, <2>1 DEF Raise, Err
  <2>6. ~ Place("taken", s, a, n)'
    <3>1. sv'[s] = y
      BY <1>1, <1>4, ExceptMoves DEF OnlyMoves, Stands
    <3>2. ASSUME NEW d \in Cos, Answers(y, d, n, a) PROVE FALSE
      <4>1. Answers(x, d, n, a) /\ d # c
        BY <1>7, <2>2, <3>2
      <4>2. Answers(sv[s], d, n, a)
        BY <2>2, <4>1 DEF Fewer
      <4> QED BY <1>5, <2>2, <2>3, <4>1, <4>2, ServiceIs
    <3> QED BY <3>1, <3>2 DEF Place, Answers
  <2>7. "taken" \in {"taken", "closure"}
    OBVIOUS
  <2> QED BY <1>3, <1>4, <1>6, <1>8, <1>9, <1>10, <2>4, <2>5, <2>6, <2>7, ErrorStep
<1> QED BY <1>11, <1>12

\* What is known of a running coroutine.
LEMMA RunningIs ==
  ASSUME SessionInv, NEW s \in alive, NEW c \in Cos, sv[s].run = c
  PROVE  /\ s \in Services /\ Tidy(sv[s], s, Live(s)) /\ Alone(sv[s], c, s) /\ sv[s].pool # <<>>
         /\ DOMAIN sv[s] = Fields /\ sv[s].session \in Nat
BY ServiceIs, NamesAssumption DEF Busy, Tidy, Typed

\* Nothing that Tidy looks at but the types has changed.
LEMMA CoreStep ==
  ASSUME SessionInv, NEW s \in alive, NEW c \in Cos, sv[s].run = c,
         NEW y, Typed(y, s), Core(y) = Core(sv[s]), y.run = c
  PROVE  /\ Tidy(y, s, Live(s)) /\ Busy(y, s) /\ y.pool # <<>> /\ y.session >= sv[s].session
         /\ \A n \in Live(s) : y.watchSession[n] = sv[s].watchSession[n]
<1>1. /\ s \in Services /\ Tidy(sv[s], s, Live(s)) /\ Alone(sv[s], c, s) /\ sv[s].pool # <<>>
      /\ sv[s].session \in Nat
  BY RunningIs
<1>2. Tidy(y, s, Live(s)) /\ Alone(y, c, s)
  BY <1>1, CoreTidy, CoreAlone
<1>3. Busy(y, s)
  BY <1>2, NamesAssumption DEF Busy
<1>4. y.pool = sv[s].pool /\ y.session = sv[s].session /\ y.watchSession = sv[s].watchSession
  BY DEF Core
<1> QED BY <1>1, <1>2, <1>3, <1>4

\* A state with the same sessions to answer answers nothing new.
LEMMA ServingFewer ==
  ASSUME NEW x, NEW y, y.id = x.id, y.address = x.address, y.unresponse = x.unresponse
  PROVE  Fewer(x, y)
BY DEF Fewer, Answers

\* y is x, but for the section, the wakeups, and what is counted.
Alike(x, y) ==
  /\ DOMAIN y = Fields
  /\ y.run = x.run /\ y.pc = x.pc /\ y.pool = x.pool
  /\ y.id = x.id /\ y.address = x.address /\ y.waits = x.waits /\ y.watchSession = x.watchSession
  /\ y.sleeps = x.sleeps /\ y.errors = x.errors /\ y.forks = x.forks
  /\ y.unresponse = x.unresponse /\ y.session = x.session /\ y.unknown = x.unknown

\* w is the state of s when another operation is counted, or a call.
Tallied(s, w) == w = Counted(s) \/ w = [Counted(s) EXCEPT !.calls = @ + 1]

\* Another operation is counted: the bound leaves a session for it.
LEMMA CountedIs ==
  ASSUME SessionInv, NEW s \in alive, NEW c \in Cos, sv[s].run = c, sv[s].ops < MaxOps[s],
         NEW w, Tallied(s, w)
  PROVE  /\ Alike(sv[s], w) /\ w.wakeups = sv[s].wakeups /\ w.threads = sv[s].threads
         /\ w.ops \in Nat /\ w.ops <= MaxOps[s] /\ w.session \in Nat /\ 1 <= w.session /\ w.session + 1 <= w.ops + 1
         /\ Tidy(w, s, Live(s)) /\ Alone(w, c, s) /\ Core(w) = Core(sv[s]) /\ w.pool # <<>>
         /\ w.session + 1 \in Sessions(s)
<1>1. PICK x : x = sv[s]
  OBVIOUS
<1>2. s \in Services /\ Tidy(x, s, Live(s)) /\ Alone(x, c, s) /\ x.pool # <<>> /\ DOMAIN x = Fields
  BY <1>1, RunningIs
<1>3. PICK v : v = [x EXCEPT !.ops = @ + 1]
  OBVIOUS
<1>13. w = v \/ w = [v EXCEPT !.calls = @ + 1]
  BY <1>1, <1>3 DEF Counted, Tallied
<1>4. Alike(x, w) /\ w.wakeups = x.wakeups /\ w.threads = x.threads /\ w.ops = x.ops + 1
  <2>1. Alike(x, v) /\ v.wakeups = x.wakeups /\ v.threads = x.threads /\ v.ops = x.ops + 1
    BY <1>2, <1>3 DEF Fields, Alike
  <2>2. ASSUME w = [v EXCEPT !.calls = @ + 1]
        PROVE  Alike(v, w) /\ w.wakeups = v.wakeups /\ w.threads = v.threads /\ w.ops = v.ops
    BY <2>1, <2>2 DEF Fields, Alike
  <2> QED BY <1>13, <2>1, <2>2 DEF Alike
<1>5. x.ops < MaxOps[s] /\ MaxOps[s] \in Nat /\ x.ops \in Nat /\ x.session \in Nat /\ 1 <= x.session
      /\ x.session <= x.ops + 1
  BY <1>1, <1>2, MaxOpsAssumption DEF Tidy, Typed
<1>6. w.session = x.session
  BY <1>4 DEF Alike
<1>7. w.ops \in Nat /\ w.ops <= MaxOps[s] /\ w.session <= w.ops + 1
      /\ w.session \in Nat /\ 1 <= w.session /\ w.session + 1 <= w.ops + 1
  BY <1>4, <1>5, <1>6
<1>8. Typed(w, s)
  BY <1>2, <1>4, <1>7 DEF Tidy, Typed, Alike
<1>9. Core(w) = Core(x)
  BY <1>4 DEF Core, Alike
<1>10. Tidy(w, s, Live(s)) /\ Alone(w, c, s)
  BY <1>2, <1>8, <1>9, CoreTidy, CoreAlone
<1>11. w.session + 1 \in Sessions(s)
  <2>1. w.session + 1 \in Nat /\ w.session + 1 \in 1 .. MaxOps[s] + 1
    BY <1>5, <1>7
  <2> QED BY <1>2, <2>1, SessionNumbers
<1>12. w.pool # <<>>
  BY <1>2, <1>4 DEF Alike
<1> QED BY <1>1, <1>4, <1>7, <1>9, <1>10, <1>11, <1>12

\* skynet.fork.
LEMMA ForkKeeps ==
  ASSUME SessionInv, NEW s \in Services, s \in alive, NEW c \in Cos, Fork(s, c)
  PROVE  SessionInv'
<1>1. s \in alive /\ sv[s].run = c /\ Spare(sv[s]) /\ sv[s].ops < MaxOps[s]
      /\ alive' = alive /\ timers' = timers /\ box' = box
  BY DEF Fork, Counts, Does
<1>2. PICK x : x = sv[s]
  OBVIOUS
<1>3. Tidy(x, s, Live(s))
  BY <1>1, <1>2, RunningIs
<1>4. PICK w : w = Counted(s) /\ Tallied(s, w)
  BY DEF Tallied
<1>5. Alike(x, w) /\ w.pool # <<>> /\ Tidy(w, s, Live(s)) /\ Alone(w, c, s)
  BY <1>1, <1>2, <1>4, CountedIs
<1>6. PICK y : y = Forking(w, "new")
  OBVIOUS
<1>7. /\ Tidy(y, s, Live(s)) /\ Serving(w, y) /\ y.watchSession = w.watchSession
      /\ y.pool = Front(w.pool) /\ y.run = w.run /\ Alone(y, c, s)
  BY <1>5, <1>6, ForkTidy
<1>8. w.id = x.id /\ w.address = x.address /\ w.unresponse = x.unresponse /\ w.session = x.session
      /\ w.pool = x.pool /\ w.watchSession = x.watchSession /\ w.run = x.run
  BY <1>5 DEF Alike
<1>9. sv' = [sv EXCEPT ![s] = y]
  BY <1>4, <1>6 DEF Fork
<1>10. y.pool # <<>>
  <2>1. Len(x.pool) > 1 /\ x.pool \in Seq(Cos)
    BY <1>1, <1>2, <1>3 DEF Spare, Tidy, Typed
  <2>2. Len(Front(x.pool)) = Len(x.pool) - 1
    BY <2>1 DEF Front
  <2>3. Len(y.pool) > 0
    BY <1>7, <1>8, <2>1, <2>2
  <2> QED BY <2>3
<1>11. Busy(y, s)
  BY <1>1, <1>2, <1>7, <1>8, NamesAssumption DEF Busy
<1>12. Fewer(sv[s], y)
  BY <1>2, <1>7, <1>8, ServingFewer DEF Serving
<1>13. y.session >= sv[s].session
  BY <1>2, <1>3, <1>7, <1>8 DEF Serving, Tidy, Typed
<1>14. \A n \in Live(s) : y.watchSession[n] = sv[s].watchSession[n]
  BY <1>2, <1>7, <1>8
<1> QED BY <1>1, <1>7, <1>9, <1>10, <1>11, <1>12, <1>13, <1>14, LocalStep

\* An operation that changes only the section, the wakeups, and what is counted.
LEMMA AlikeStep ==
  ASSUME SessionInv, NEW s \in alive, NEW c \in Cos, sv[s].run = c,
         NEW y, sv' = [sv EXCEPT ![s] = y], alive' = alive, timers' = timers, box' = box,
         Alike(sv[s], y), Typed(y, s)
  PROVE  SessionInv'
<1>1. Core(y) = Core(sv[s]) /\ y.run = c
  BY DEF Core, Alike
<1>2. /\ Tidy(y, s, Live(s)) /\ Busy(y, s) /\ y.pool # <<>> /\ y.session >= sv[s].session
      /\ \A n \in Live(s) : y.watchSession[n] = sv[s].watchSession[n]
  BY <1>1, CoreStep
<1>3. Fewer(sv[s], y)
  BY ServingFewer DEF Alike
<1> QED BY <1>2, <1>3, LocalStep

\* skynet.wakeup.
LEMMA WakeupKeeps ==
  ASSUME SessionInv, NEW s \in Services, s \in alive, NEW c \in Cos, NEW d \in Cos, Wakeup(s, c, d)
  PROVE  SessionInv'
<1>1. s \in alive /\ sv[s].run = c /\ sv[s].ops < MaxOps[s]
      /\ alive' = alive /\ timers' = timers /\ box' = box
  BY DEF Wakeup, Counts, Does
<1>2. PICK w : w = Counted(s) /\ Tallied(s, w)
  BY DEF Tallied
<1>3. Alike(sv[s], w) /\ Tidy(w, s, Live(s))
  BY <1>1, <1>2, CountedIs
<1>4. PICK y : y = [w EXCEPT !.wakeups = Append(@, d),
                           !.disturbed = @ \/ sv[s].pc[d] = "queue" \/ Contains(sv[s].wakeups, d)]
  OBVIOUS
<1>5. Alike(w, y) /\ y.wakeups = Append(w.wakeups, d) /\ y.threads = w.threads /\ y.ops = w.ops
  BY <1>3, <1>4 DEF Alike, Fields
<1>6. Append(w.wakeups, d) \in Seq(Tokens)
  <2>1. w.wakeups \in Seq(Tokens) /\ d \in Tokens
    BY <1>3 DEF Tidy, Typed, Tokens
  <2> QED BY <2>1, AppendIs
<1>7. Typed(y, s)
  BY <1>3, <1>5, <1>6 DEF Tidy, Typed, Alike
<1>8. Alike(sv[s], y)
  BY <1>3, <1>5 DEF Alike
<1>9. sv' = [sv EXCEPT ![s] = y]
  BY <1>2, <1>4 DEF Wakeup
<1> QED BY <1>1, <1>7, <1>8, <1>9, AlikeStep

\* A coroutine leaves the critical section, which its next waiter is woken for.
LEMMA LeaveKeeps ==
  ASSUME SessionInv, NEW s \in Services, s \in alive, NEW c \in Cos, Leave(s, c)
  PROVE  SessionInv'
<1>1. s \in alive /\ sv[s].run = c /\ alive' = alive /\ timers' = timers /\ box' = box
  BY DEF Leave, Does
<1>2. PICK x : x = sv[s]
  OBVIOUS
<1>3. Tidy(x, s, Live(s)) /\ x.run = c
  BY <1>1, <1>2, RunningIs
<1>4. PICK y : y = Left(x, c)
  OBVIOUS
<1>5. Tidy(y, s, Live(s)) /\ Serving(x, y) /\ Core(y) = Core(x) /\ y.run = x.run
  BY <1>3, <1>4, LeftTidy
<1>6. sv' = [sv EXCEPT ![s] = y]
  BY <1>2, <1>4 DEF Leave
<1>7. Alike(x, y) /\ Typed(y, s)
  BY <1>5 DEF Serving, Core, Tidy, Typed, Alike
<1> QED BY <1>1, <1>2, <1>6, <1>7, AlikeStep

\* c goes on, or waits, as y, and gives the service to the coroutine that is next.
Yields(s, y) == sv' = [sv EXCEPT ![s] = Suspend(y)] /\ alive' = alive /\ timers' = timers /\ box' = box

\* A step of a coroutine that yields, with no message, keeps the invariant.
LEMMA SuspendStep ==
  ASSUME SessionInv, NEW s \in alive, NEW y, Yields(s, y),
         Tidy(y, s, Live(s)), Fewer(sv[s], y), y.pool # <<>>, y.session >= sv[s].session,
         \A n \in Live(s) : y.watchSession[n] = sv[s].watchSession[n]
  PROVE  SessionInv'
<1>1. PICK r : r = Suspend(y)
  OBVIOUS
<1>2. Tidy(r, s, Live(s)) /\ Busy(r, s) /\ Keeping(y, r, Live(s))
  BY <1>1, ServiceIs, SuspendTidy DEF Follows
<1>3. Fewer(sv[s], r)
  BY <1>2 DEF Fewer, Keeping, Answers
<1>4. r.pool # <<>> /\ r.session >= sv[s].session /\ \A n \in Live(s) : r.watchSession[n] = sv[s].watchSession[n]
  BY <1>2 DEF Keeping
<1>5. sv' = [sv EXCEPT ![s] = r] /\ alive' = alive /\ timers' = timers /\ box' = box
  BY <1>1 DEF Yields
<1> QED BY <1>2, <1>3, <1>4, <1>5, LocalStep

\* A coroutine ends, its request answered.
LEMMA EndKeeps ==
  ASSUME SessionInv, NEW s \in Services, s \in alive, NEW c \in Cos, End(s, c)
  PROVE  SessionInv'
<1>1. s \in alive /\ sv[s].run = c /\ alive' = alive /\ timers' = timers /\ box' = box /\ sv[s].id[c] = None
  BY DEF End
<1>2. PICK x : x = sv[s]
  OBVIOUS
<1>3. Tidy(x, s, Live(s)) /\ Alone(x, c, s) /\ x.session \in Nat
  BY <1>1, <1>2, RunningIs
<1>4. PICK y : y = Recycled(x, c)
  OBVIOUS
<1>5. Tidy(y, s, Live(s)) /\ Ended(x, y, c)
  BY <1>3, <1>4, RecycledTidy
<1>6. Yields(s, y)
  BY <1>1, <1>2, <1>4 DEF End, Yields
<1>7. y.id = x.id
  <2>1. x.id[c] = None /\ x.id \in [Cos -> Nat \cup {None}]
    BY <1>1, <1>2, <1>3 DEF Tidy, Typed
  <2> QED BY <1>5, <2>1 DEF Ended
<1>8. Fewer(sv[s], y)
  BY <1>2, <1>5, <1>7, ServingFewer DEF Ended
<1>9. y.pool # <<>>
  <2>1. x.pool \in Seq(Cos) /\ c \in Cos
    BY <1>3 DEF Tidy, Typed
  <2> QED BY <1>5, <2>1, AppendIs DEF Ended
<1>10. y.session >= sv[s].session
  BY <1>2, <1>3, <1>5 DEF Ended
<1>11. \A n \in Live(s) : y.watchSession[n] = sv[s].watchSession[n]
  BY <1>2, <1>5 DEF Ended
<1> QED BY <1>1, <1>5, <1>6, <1>8, <1>9, <1>10, <1>11, SuspendStep

\* An error of a coroutine is told to the caller.
LEMMA FailKeeps ==
  ASSUME SessionInv, NEW s \in Services, s \in alive, NEW c \in Cos, Fail(s, c)
  PROVE  SessionInv'
<1>1. s \in alive /\ sv[s].run = c /\ alive' = alive /\ timers' = timers
  BY DEF Fail, Does
<1>2. PICK x : x = sv[s]
  OBVIOUS
<1>3. Tidy(x, s, Live(s)) /\ Alone(x, c, s) /\ x.pool # <<>>
  BY <1>1, <1>2, RunningIs
<1>4. Raise(s, c, x)
  BY <1>2 DEF Fail
<1>5. Fewer(sv[s], x)
  BY <1>2, ServingFewer
<1> QED BY <1>1, <1>2, <1>3, <1>4, <1>5, RaiseKeeps

\* A coroutine that was woken takes the section, or fails its assertion.
LEMMA EnteredKeeps ==
  ASSUME SessionInv, NEW s \in Services, s \in alive, NEW c \in Cos, Entered(s, c)
  PROVE  SessionInv'
<1>1. s \in alive /\ sv[s].run = c /\ alive' = alive /\ timers' = timers
  BY DEF Entered
<1>2. PICK x : x = sv[s]
  OBVIOUS
<1>3. Tidy(x, s, Live(s)) /\ Alone(x, c, s) /\ x.pool # <<>> /\ DOMAIN x = Fields /\ x.run = c
  BY <1>1, <1>2, RunningIs
<1>4. PICK z : z = [x EXCEPT !.pc[c] = "run"]
  OBVIOUS
<1>5. /\ DOMAIN z = Fields /\ z.pc = [x.pc EXCEPT ![c] = "run"] /\ z.run = x.run /\ z.pool = x.pool
      /\ z.id = x.id /\ z.address = x.address /\ z.waits = x.waits /\ z.watchSession = x.watchSession
      /\ z.sleeps = x.sleeps /\ z.errors = x.errors /\ z.forks = x.forks
      /\ z.unresponse = x.unresponse /\ z.session = x.session /\ z.unknown = x.unknown
      /\ z.wakeups = x.wakeups /\ z.threads = x.threads /\ z.ops = x.ops
  BY <1>3, <1>4 DEF Fields
<1>6. Typed(z, s)
  <2>1. x.pc \in [Cos -> States]
    BY <1>3 DEF Tidy, Typed
  <2>2. z.pc \in [Cos -> States]
    BY <1>5, <2>1 DEF States
  <2> QED BY <1>3, <1>5, <2>2 DEF Tidy, Typed
<1>7. Tidy(z, s, Live(s)) /\ Alone(z, c, s)
  <2>1. "run" \in States /\ "run" # "free"
    BY DEF States
  <2> QED BY <1>3, <1>5, <1>6, <2>1, PcTidy
<1>8. Fewer(sv[s], z)
  BY <1>2, <1>5, ServingFewer
<1>9. CASE z.ref # 0
  <2>1. Raise(s, c, z)
    BY <1>2, <1>4, <1>9 DEF Entered
  <2>2. z.pool # <<>> /\ z.session = sv[s].session /\ z.watchSession = sv[s].watchSession
    BY <1>2, <1>3, <1>5
  <2> QED BY <1>1, <1>7, <1>8, <2>1, <2>2, RaiseKeeps
<1>10. CASE z.ref = 0
  <2>1. PICK y : y = [z EXCEPT !.current = c, !.ref = 1, !.depth[c] = 1]
    OBVIOUS
  <2>2. sv' = [sv EXCEPT ![s] = y] /\ box' = box
    BY <1>2, <1>4, <1>10, <2>1 DEF Entered
  <2>3. Alike(z, y) /\ y.wakeups = z.wakeups /\ y.threads = z.threads /\ y.ops = z.ops
    BY <1>5, <2>1 DEF Alike, Fields
  <2>4. Typed(y, s)
    BY <1>6, <2>3 DEF Typed, Alike
  <2>5. Core(y) = Core(z) /\ y.run = c
    BY <1>3, <1>5, <2>3 DEF Core, Alike
  <2>6. Tidy(y, s, Live(s)) /\ Alone(y, c, s)
    BY <1>7, <2>4, <2>5, CoreTidy, CoreAlone
  <2>7. Busy(y, s)
    BY <2>5, <2>6, NamesAssumption DEF Busy
  <2>8. Fewer(sv[s], y)
    BY <1>2, <1>5, <2>3, ServingFewer DEF Alike
  <2>9. y.pool # <<>> /\ y.session >= sv[s].session
    BY <1>2, <1>3, <1>5, <2>3 DEF Alike, Tidy, Typed
  <2>10. \A n \in Live(s) : y.watchSession[n] = sv[s].watchSession[n]
    BY <1>2, <1>5, <2>3 DEF Alike
  <2> QED BY <1>1, <2>2, <2>6, <2>7, <2>8, <2>9, <2>10, LocalStep
<1> QED BY <1>9, <1>10

\* y is x without the session of c.
Quits(x, y, c) ==
  /\ DOMAIN y = Fields /\ y.id = [x.id EXCEPT ![c] = None] /\ Core(y) = Core(x) /\ y.run = x.run
  /\ y.address = x.address /\ y.unresponse = x.unresponse
  /\ y.wakeups = x.wakeups /\ y.threads = x.threads /\ y.ops = x.ops

\* A coroutine without its session answers less.
LEMMA QuitsIs ==
  ASSUME NEW s \in Services, NEW x, NEW L, Tidy(x, s, L), NEW c \in Cos, NEW y, Quits(x, y, c)
  PROVE  Typed(y, s) /\ Fewer(x, y)
<1>1. x.id \in [Cos -> Nat \cup {None}] /\ y.id = [x.id EXCEPT ![c] = None] /\ y.address = x.address
      /\ y.unresponse = x.unresponse
  BY DEF Tidy, Typed, Quits
<1>2. y.id \in [Cos -> Nat \cup {None}]
  BY <1>1
<1>3. \A d \in Cos : y.id[d] # None => x.id[d] = y.id[d]
  BY <1>1
<1>4. \A d \in Cos : y.id[d] # None => y.address[d] # None
  BY <1>1, <1>3 DEF Tidy, Typed
<1>5. Typed(y, s)
  BY <1>1, <1>2, <1>4 DEF Tidy, Typed, Quits, Core
<1>6. \A d \in Cos : \A n \in Nat : y.id[d] = n => x.id[d] = n
  <2>1. \A n \in Nat : n # None
    BY NamesAssumption
  <2> QED BY <1>3, <2>1
<1> QED BY <1>1, <1>5, <1>6 DEF Fewer, Answers

\* The session and the address that c is to answer.
LEMMA AnsweringIs ==
  ASSUME NEW s, NEW x, Typed(x, s), NEW c \in Cos, x.id[c] # None
  PROVE  x.id[c] \in Nat /\ x.address[c] \in Services /\ Answers(x, c, x.id[c], x.address[c])
BY DEF Typed, Answers

\* skynet.ret: the session goes from the coroutine into the response, or the error,
\* unless the caller is dead.
LEMMA RetKeeps ==
  ASSUME SessionInv, NEW s \in Services, s \in alive, NEW c \in Cos, NEW type \in {"response", "error"},
         Ret(s, c, type)
  PROVE  SessionInv'
<1>1. s \in alive /\ sv[s].run = c /\ alive' = alive /\ timers' = timers /\ sv[s].id[c] # None
      /\ alive \subseteq Services
  BY DEF Ret, Does, SessionInv, Shaped
<1>2. PICK x : x = sv[s]
  OBVIOUS
<1>3. Tidy(x, s, Live(s)) /\ DOMAIN x = Fields /\ x.run = c
  BY <1>1, <1>2, RunningIs
<1>4. PICK n \in Nat, a \in Services : n = x.id[c] /\ a = x.address[c]
  BY <1>1, <1>2, <1>3, AnsweringIs DEF Tidy
<1>5. PICK y : y = [x EXCEPT !.id[c] = None]
  OBVIOUS
<1>6. Quits(x, y, c)
  BY <1>3, <1>5 DEF Quits, Core, Fields
<1>7. Typed(y, s) /\ Fewer(sv[s], y)
  BY <1>2, <1>3, <1>6, QuitsIs
<1>8. /\ Tidy(y, s, Live(s)) /\ Busy(y, s) /\ y.pool # <<>> /\ y.session >= sv[s].session
      /\ \A i \in Live(s) : y.watchSession[i] = sv[s].watchSession[i]
  BY <1>1, <1>2, <1>3, <1>6, <1>7, CoreStep DEF Quits
<1>9. sv' = [sv EXCEPT ![s] = y]
  BY <1>2, <1>5 DEF Ret
<1>10. box' = IF a \in x.dead THEN box ELSE Sent(a, Message(type, n, s))
  BY <1>2, <1>4 DEF Ret
<1>11. CASE a \in x.dead \/ a \notin alive
  <2>1. box' = box
    BY <1>10, <1>11 DEF Sent
  <2> QED BY <1>1, <1>7, <1>8, <1>9, <2>1, LocalStep
<1>12. CASE a \notin x.dead /\ a \in alive
  <2>1. box' = Sent(a, Message(type, n, s))
    BY <1>10, <1>12
  <2>2. Answers(x, c, n, a) /\ <<"taken", s, a, n>> \in Places
    BY <1>1, <1>2, <1>4, <1>12 DEF Places, Kinds, Place, Answers
  <2>3. ~ Place("taken", s, a, n)'
    <3>1. sv'[s] = y
      BY <1>1, <1>9, ServiceIs, ExceptMoves DEF OnlyMoves, Stands
    <3>2. y.id[c] # n
      <4>1. x.id \in [Cos -> Nat \cup {None}] /\ y.id = [x.id EXCEPT ![c] = None] /\ n # None
        BY <1>3, <1>6, NamesAssumption DEF Tidy, Typed, Quits
      <4> QED BY <4>1
    <3>3. ASSUME NEW d \in Cos, Answers(y, d, n, a) PROVE FALSE
      <4>1. Answers(x, d, n, a)
        BY <1>2, <1>7, <3>3 DEF Fewer
      <4>2. d = c
        BY <1>1, <1>2, <1>12, <2>2, <4>1, ServiceIs
      <4> QED BY <3>2, <3>3, <4>2 DEF Answers
    <3> QED BY <3>1, <3>3 DEF Place, Answers
  <2>4. "taken" \in {"taken", "closure"}
    OBVIOUS
  <2>5. CASE type = "response"
    <3>1. box' = Sent(a, Resp(n, s))
      BY <2>1, <2>5 DEF Resp
    <3> QED BY <1>1, <1>7, <1>8, <1>9, <1>12, <2>2, <2>3, <2>4, <3>1, AnswerStep
  <2>6. CASE type = "error"
    <3>1. box' = Sent(a, Err(n, s))
      BY <2>1, <2>6 DEF Err
    <3> QED BY <1>1, <1>7, <1>8, <1>9, <1>12, <2>2, <2>3, <2>4, <3>1, ErrorStep
  <2> QED BY <2>5, <2>6
<1> QED BY <1>11, <1>12

\* The closure of skynet.response is called: its session goes into a response or an
\* error.
LEMMA RespondKeeps ==
  ASSUME SessionInv, NEW s \in Services, s \in alive, NEW c \in Cos, NEW r \in sv[s].unresponse,
         NEW type \in {"response", "error"}, Respond(s, c, r, type)
  PROVE  SessionInv'
<1>1. s \in alive /\ sv[s].run = c /\ alive' = alive /\ timers' = timers /\ alive \subseteq Services
  BY DEF Respond, Does, SessionInv, Shaped
<1>2. PICK x : x = sv[s]
  OBVIOUS
<1>3. Tidy(x, s, Live(s)) /\ DOMAIN x = Fields /\ x.run = c
  BY <1>1, <1>2, RunningIs
<1>4. PICK n \in Nat, a \in Services : n = r.session /\ a = r.address /\ r = [session |-> n, address |-> a]
  <2>1. r \in [session : Nat, address : Services]
    BY <1>2, <1>3 DEF Tidy, Typed
  <2> QED BY <2>1
<1>5. PICK z : z = [x EXCEPT !.unresponse = @ \ {r}]
  OBVIOUS
<1>6. PICK y : y = Release(z, a)
  OBVIOUS
<1>7. DOMAIN z = Fields /\ Core(z) = Core(x) /\ z.run = x.run /\ z.id = x.id /\ z.address = x.address
      /\ z.unresponse = x.unresponse \ {r} /\ z.wakeups = x.wakeups /\ z.threads = x.threads /\ z.ops = x.ops
  BY <1>3, <1>5 DEF Core, Fields
<1>8. DOMAIN y = Fields /\ Core(y) = Core(z) /\ y.run = z.run /\ y.id = z.id /\ y.address = z.address
      /\ y.unresponse = z.unresponse /\ y.wakeups = z.wakeups /\ y.threads = z.threads /\ y.ops = z.ops
  BY <1>6, <1>7 DEF Release, Core, Fields
<1>9. Typed(y, s)
  BY <1>3, <1>7, <1>8 DEF Tidy, Typed, Core
<1>10. /\ Tidy(y, s, Live(s)) /\ Busy(y, s) /\ y.pool # <<>> /\ y.session >= sv[s].session
       /\ \A i \in Live(s) : y.watchSession[i] = sv[s].watchSession[i]
  BY <1>1, <1>2, <1>3, <1>7, <1>8, <1>9, CoreStep
<1>11. Fewer(sv[s], y)
  BY <1>2, <1>7, <1>8 DEF Fewer, Answers
<1>12. sv' = [sv EXCEPT ![s] = y]
  BY <1>2, <1>4, <1>5, <1>6 DEF Respond
<1>13. box' = IF a \in x.dead THEN box ELSE Sent(a, Message(type, n, s))
  BY <1>2, <1>4 DEF Respond
<1>14. CASE a \in x.dead \/ a \notin alive
  <2>1. box' = box
    BY <1>13, <1>14 DEF Sent
  <2> QED BY <1>1, <1>10, <1>11, <1>12, <2>1, LocalStep
<1>15. CASE a \notin x.dead /\ a \in alive
  <2>1. box' = Sent(a, Message(type, n, s))
    BY <1>13, <1>15
  <2>2. <<"closure", s, a, n>> \in Places
    BY <1>1, <1>4, <1>15 DEF Places, Kinds, Place
  <2>3. ~ Place("closure", s, a, n)'
    <3>1. sv'[s] = y
      BY <1>1, <1>12, ServiceIs, ExceptMoves DEF OnlyMoves, Stands
    <3>2. r \notin y.unresponse
      BY <1>7, <1>8
    <3> QED BY <1>4, <3>1, <3>2 DEF Place
  <2>4. "closure" \in {"taken", "closure"}
    OBVIOUS
  <2>5. CASE type = "response"
    <3>1. box' = Sent(a, Resp(n, s))
      BY <2>1, <2>5 DEF Resp
    <3> QED BY <1>1, <1>10, <1>11, <1>12, <1>15, <2>2, <2>3, <2>4, <3>1, AnswerStep
  <2>6. CASE type = "error"
    <3>1. box' = Sent(a, Err(n, s))
      BY <2>1, <2>6 DEF Err
    <3> QED BY <1>1, <1>10, <1>11, <1>12, <1>15, <2>2, <2>3, <2>4, <3>1, ErrorStep
  <2> QED BY <2>5, <2>6
<1> QED BY <1>14, <1>15

-----------------------------------------------------------------------------
(* Sessions that move within a service                                         *)

\* The session n of a goes from one place of s to another, h; if a has exited, its
\* sessions have no places.
LEMMA TransferStep ==
  ASSUME SessionInv, NEW s \in alive, NEW y, sv' = [sv EXCEPT ![s] = y], alive' = alive, timers' = timers,
         NEW m \in Messages, Boxed, Posted(m), Silent(m),
         NEW k \in Kinds, NEW h \in Kinds, NEW a \in Services, NEW n \in Nat,
         a \in alive => <<k, s, a, n>> \in Places /\ ~ Place(k, s, a, n)',
         From(sv[s], y, s, {<<h, s, a, n>>}),
         Tidy(y, s, Live(s)), Busy(y, s), y.pool # <<>>, y.session >= sv[s].session,
         \A i \in Live(s) : y.watchSession[i] = sv[s].watchSession[i],
         \A u \in alive, i \in Nat, c, d \in Cos : Answers(y, c, i, u) /\ Answers(y, d, i, u) => c = d
  PROVE  SessionInv'
<1>1. s \in Services /\ Shaped /\ Tidy(sv[s], s, Live(s)) /\ alive \subseteq Services /\ OnePlace /\ Watches
      /\ DOMAIN sv = Services /\ timers \subseteq Services \X Nat
  BY ServiceIs DEF SessionInv, Shaped
<1>2. PICK p : p = <<k, s, a, n>>
  OBVIOUS
<1>3. PICK q : q = <<h, s, a, n>>
  OBVIOUS
<1>4. p[1] = k /\ p[2] = s /\ p[3] = a /\ p[4] = n /\ q[2] = s /\ q[3] = a /\ q[4] = n
  BY <1>2, <1>3
<1>5. OnlyMoves(s, y)
  BY <1>1, ExceptMoves
<1>6. Moves(m, {q})
  <2>1. Delivers(m, {q})
    BY <1>1 DEF Delivers, Silent
  <2>2. \A t \in alive : From(sv[t], sv'[t], t, {q})
    BY <1>1, <1>3, <1>5, SelfFrom DEF OnlyMoves, Stands
  <2> QED BY <1>1, <2>1, <2>2 DEF Moves, Boxed
<1>7. Places' \subseteq Places \cup {q}
  BY <1>1, <1>6, MovesPlaces
<1>8. a \in alive => p \in Places /\ p \notin Places'
  BY <1>2 DEF Places
<1>9. a \notin alive => q \notin Places'
  BY <1>4 DEF Places
<1>10. Single({q}) /\ \A u \in Services : Live(u)' \subseteq Live(u)
  <2>1. CASE a \in alive
    BY <1>1, <1>4, <1>7, <1>8, <2>1, Moved
  <2>2. CASE a \notin alive
    <3>1. Places' \subseteq Places
      BY <1>7, <1>9, <2>2
    <3>2. \A u \in Services : Live(u)' \subseteq Live(u)
      BY <3>1, LiveIs, LiveNext
    <3>3. \A b \in Places' : b[3] # a
      BY <2>2 DEF Places
    <3> QED BY <1>4, <3>2, <3>3 DEF Single
  <2> QED BY <2>1, <2>2
<1>11. Tidy(y, s, Live(s)')
  BY <1>1, <1>10, TidyLess
<1>12. \A e \in {q} : e[3] = s \/ e[4] \in Live(e[3]) \/ e[3] \notin alive
  BY <1>1, <1>4, <1>8, LiveIs
<1>13. \A e \in {q} : e \in Places' => sv'[e[3]].watchSession[e[4]] = IF e[2] = e[3] THEN None ELSE e[2]
  <2> SUFFICES ASSUME q \in Places' PROVE sv'[a].watchSession[n] = IF s = a THEN None ELSE s
    BY <1>4
  <2>1. a \in alive /\ p \in Places
    BY <1>8, <1>9
  <2>2. sv[a].watchSession[n] = IF s = a THEN None ELSE s
    BY <1>1, <1>4, <2>1 DEF Watches
  <2>3. n \in Live(a)
    BY <1>4, <2>1, LiveIs
  <2> QED BY <1>5, <2>2, <2>3 DEF OnlyMoves, Stands
<1>14. (1 .. sv[s].session) \ Live(s) \subseteq (1 .. y.session) \ Live(s)'
  <2>1. sv[s].session \in Nat /\ y.session \in Nat
    BY <1>1 DEF Tidy, Typed
  <2> QED BY <1>1, <1>10, <2>1
<1>15. \A u \in alive : box'[u] = Append(box[u], m) =>
           /\ m.type = "response" => m.source \in alive
           /\ m.type = "error" => IF m.session = 0 THEN m.source \notin alive
                                  ELSE m.session \in (1 .. sv'[u].session) \ Live(u)'
  BY <1>1 DEF Silent
<1>16. \A i \in Live(s) : i \in Live(s)' => y.watchSession[i] = sv[s].watchSession[i]
  OBVIOUS
<1> QED BY <1>5, <1>6, <1>10, <1>11, <1>12, <1>13, <1>14, <1>15, <1>16, ServiceStep

\* skynet.response: the session goes from the coroutine into the closure, or is lost
\* with an error.
LEMMA ResponseKeeps ==
  ASSUME SessionInv, NEW s \in Services, s \in alive, NEW c \in Cos, Response(s, c)
  PROVE  SessionInv'
<1>1. s \in alive /\ sv[s].run = c /\ alive' = alive /\ timers' = timers /\ sv[s].id[c] # None
      /\ alive \subseteq Services /\ Shaped
  BY DEF Response, Does, SessionInv, Shaped
<1>2. PICK x : x = sv[s]
  OBVIOUS
<1>3. Tidy(x, s, Live(s)) /\ DOMAIN x = Fields /\ x.run = c /\ Alone(x, c, s) /\ x.pool # <<>>
  BY <1>1, <1>2, RunningIs
<1>4. PICK n \in Nat, a \in Services : n = x.id[c] /\ a = x.address[c]
  BY <1>1, <1>2, <1>3, AnsweringIs DEF Tidy
<1>5. PICK z : z = [x EXCEPT !.id[c] = None]
  OBVIOUS
<1>6. Quits(x, z, c)
  BY <1>3, <1>5 DEF Quits, Core, Fields
<1>7. Typed(z, s) /\ Fewer(sv[s], z)
  BY <1>2, <1>3, <1>6, QuitsIs
<1>8. z.address = x.address /\ z.run = c /\ Core(z) = Core(x)
  BY <1>3, <1>6 DEF Quits
<1>9. CASE z.watchService[a] = 0
  <2>1. Raise(s, c, z)
    BY <1>2, <1>4, <1>5, <1>8, <1>9 DEF Response
  <2>2. Tidy(z, s, Live(s)) /\ Alone(z, c, s)
    BY <1>3, <1>7, <1>8, CoreTidy, CoreAlone
  <2>3. z.pool # <<>> /\ z.session = sv[s].session /\ z.watchSession = sv[s].watchSession
    BY <1>2, <1>3, <1>8 DEF Core
  <2> QED BY <1>1, <1>7, <2>1, <2>2, <2>3, RaiseKeeps
<1>10. CASE z.watchService[a] # 0
  <2>1. PICK r : r = [session |-> n, address |-> a]
    OBVIOUS
  <2>2. PICK y : y = [z EXCEPT !.watchService[a] = @ + 1, !.unresponse = @ \cup {r}]
    OBVIOUS
  <2>3. sv' = [sv EXCEPT ![s] = y] /\ box' = box
    BY <1>2, <1>4, <1>5, <1>8, <1>10, <2>1, <2>2 DEF Response
  <2>4. DOMAIN y = Fields /\ Core(y) = Core(z) /\ y.run = z.run /\ y.id = z.id /\ y.address = z.address
        /\ y.unresponse = z.unresponse \cup {r} /\ y.wakeups = z.wakeups /\ y.threads = z.threads /\ y.ops = z.ops
    BY <1>6, <2>2 DEF Quits, Core, Fields
  <2>5. Typed(y, s)
    <3>1. r \in [session : Nat, address : Services]
      BY <2>1
    <3> QED BY <1>7, <2>4, <3>1 DEF Typed, Core
  <2>6. Core(y) = Core(x) /\ y.run = c
    BY <1>8, <2>4
  <2>7. /\ Tidy(y, s, Live(s)) /\ Busy(y, s) /\ y.pool # <<>> /\ y.session >= sv[s].session
        /\ \A i \in Live(s) : y.watchSession[i] = sv[s].watchSession[i]
    BY <1>1, <1>2, <2>5, <2>6, CoreStep
  <2>8. \A u \in Services, i \in Nat, d \in Cos : Answers(y, d, i, u) => Answers(x, d, i, u) /\ ~ Answers(y, c, i, u)
    <3>1. \A u \in Services, i \in Nat, d \in Cos : Answers(y, d, i, u) => Answers(x, d, i, u)
      BY <1>2, <1>7, <2>4 DEF Fewer, Answers
    <3>2. y.id[c] = None
      <4>1. x.id \in [Cos -> Nat \cup {None}] /\ y.id = [x.id EXCEPT ![c] = None]
        BY <1>3, <1>6, <2>4 DEF Tidy, Typed, Quits
      <4> QED BY <4>1
    <3>3. \A i \in Nat : i # None
      BY NamesAssumption
    <3> QED BY <3>1, <3>2, <3>3 DEF Answers
  <2>9. From(sv[s], y, s, {<<"closure", s, a, n>>})
    <3>1. \A u \in Services, i \in Nat : [session |-> i, address |-> u] = r => <<"closure", s, u, i>> = <<"closure", s, a, n>>
      BY <2>1
    <3>2. z.unresponse = x.unresponse
      BY <1>6 DEF Quits
    <3> QED BY <1>2, <2>4, <2>8, <3>1, <3>2 DEF From
  <2>10. \A u \in alive, i \in Nat, d, e \in Cos : Answers(y, d, i, u) /\ Answers(y, e, i, u) => d = e
    BY <1>1, <1>2, <2>8, ServiceIs
  <2>11. a \in alive => <<"taken", s, a, n>> \in Places /\ ~ Place("taken", s, a, n)'
    <3> SUFFICES ASSUME a \in alive PROVE <<"taken", s, a, n>> \in Places /\ ~ Place("taken", s, a, n)'
      OBVIOUS
    <3>1. Answers(x, c, n, a) /\ <<"taken", s, a, n>> \in Places
      BY <1>1, <1>2, <1>4 DEF Places, Kinds, Place, Answers
    <3>2. sv'[s] = y
      BY <1>1, <2>3, ExceptMoves DEF OnlyMoves, Stands
    <3>3. ASSUME NEW d \in Cos, Answers(y, d, n, a) PROVE FALSE
      <4>1. Answers(x, d, n, a) /\ ~ Answers(y, c, n, a)
        BY <2>8, <3>3
      <4>2. d = c
        BY <1>1, <1>2, <3>1, <4>1, ServiceIs
      <4> QED BY <3>3, <4>1, <4>2
    <3> QED BY <3>1, <3>2, <3>3 DEF Place, Answers
  <2>12. PICK m \in Messages : m = Err(0, s)
    BY MessageIs
  <2>13. Boxed /\ Posted(m) /\ Silent(m)
    BY <1>1, <2>3, StillPosts
  <2>14. "taken" \in Kinds /\ "closure" \in Kinds
    BY DEF Kinds
  <2> QED BY <1>1, <2>3, <2>7, <2>9, <2>10, <2>11, <2>13, <2>14, TransferStep
<1> QED BY <1>9, <1>10

-----------------------------------------------------------------------------
(* New sessions                                                                *)

\* The state w of a service is y once the running coroutine c waits, as p, for a new
\* session of its own, that t answers; it sleeps if v is the session.
Begins(w, y, s, c, p, t, v) ==
  /\ Waits(w, y, c, p, w.session + 1, IF t = s THEN None ELSE t, v) /\ Typed(y, s)
  /\ y.id = w.id /\ y.address = w.address /\ y.unresponse = w.unresponse

\* What Begins says of the new session.
LEMMA BeginsIs ==
  ASSUME NEW s \in Services, NEW w, NEW y, NEW c \in Cos, NEW p, NEW t, NEW v,
         Begins(w, y, s, c, p, t, v), Typed(w, s), w.session + 1 \in Sessions(s)
  PROVE  /\ y.session = w.session + 1 /\ y.pool = w.pool
         /\ y.watchSession[w.session + 1] = IF t = s THEN None ELSE t
BY DEF Begins, Waits, Typed

\* y has the counts, the wakeups and the section of w.
Stays(w, y) ==
  /\ y.watchService = w.watchService /\ y.wakeups = w.wakeups /\ y.ref = w.ref /\ y.current = w.current
  /\ y.run = w.run

\* The coroutine c waits for the session n: of a request, of a timeout, in the section.
Calling(w, c, n, t) == [w EXCEPT !.session = n, !.waits[n] = c, !.watchSession[n] = t, !.pc[c] = "call"]
Dozing(w, c, n) == [w EXCEPT !.session = n, !.waits[n] = c, !.sleeps[c] = n, !.pc[c] = "sleep"]
Lining(w, c, n) ==
  [w EXCEPT !.threads = Append(@, c), !.session = n, !.waits[n] = c, !.sleeps[c] = n, !.pc[c] = "queue"]

\* skynet.call waits for the session of a request.
LEMMA CallBegins ==
  ASSUME NEW s \in Services, NEW w, Typed(w, s), NEW c, Alone(w, c, s), NEW t \in Services, t # s,
         NEW n \in Sessions(s), n = w.session + 1, n <= w.ops + 1,
         NEW y, y = Calling(w, c, n, t)
  PROVE  Begins(w, y, s, c, "call", t, None) /\ Stays(w, y) /\ y.threads = w.threads
<1>1. /\ DOMAIN y = Fields /\ y.session = n /\ y.waits = [w.waits EXCEPT ![n] = c]
      /\ y.watchSession = [w.watchSession EXCEPT ![n] = t] /\ y.pc = [w.pc EXCEPT ![c] = "call"]
      /\ y.pool = w.pool /\ y.id = w.id /\ y.address = w.address /\ y.sleeps = w.sleeps
      /\ y.errors = w.errors /\ y.forks = w.forks /\ y.threads = w.threads
      /\ y.unresponse = w.unresponse /\ y.ops = w.ops /\ y.unknown = w.unknown /\ Stays(w, y)
  BY DEF Typed, Fields, Stays, Calling
<1>2. c \in Cos /\ w.sleeps[c] = None
  BY DEF Alone
<1>3. Typed(y, s)
  <2>1. w.waits \in [Sessions(s) -> Cos \cup {None, Break}] /\ w.pc \in [Cos -> States]
        /\ w.watchSession \in [Sessions(s) -> (Services \ {s}) \cup {None}]
    BY DEF Typed
  <2>2. y.waits \in [Sessions(s) -> Cos \cup {None, Break}]
    BY <1>1, <1>2, <2>1
  <2>3. y.pc \in [Cos -> States]
    <3>1. "call" \in States
      BY DEF States
    <3> QED BY <1>1, <1>2, <2>1, <3>1
  <2>4. y.watchSession \in [Sessions(s) -> (Services \ {s}) \cup {None}]
    BY <1>1, <2>1
  <2>5. 1 <= y.session /\ y.session <= y.ops + 1 /\ y.session \in Nat
    BY <1>1 DEF Typed
  <2> QED BY SMTT(60), <1>1, <2>2, <2>3, <2>4, <2>5 DEF Typed, Stays
<1>4. y.sleeps = [w.sleeps EXCEPT ![c] = None]
  BY <1>1, <1>2 DEF Typed
<1> QED BY <1>1, <1>3, <1>4 DEF Begins, Waits

\* A session that is new watches nobody.
LEMMA NewIsUnwatched ==
  ASSUME NEW s \in Services, NEW w, Typed(w, s), Waiting(w, s), NEW n \in Sessions(s), n = w.session + 1
  PROVE  w.watchSession = [w.watchSession EXCEPT ![n] = None]
<1>1. n > w.session
  BY DEF Typed
<1>2. w.waits[n] = None
  BY <1>1 DEF Waiting
<1>3. w.watchSession[n] = None
  BY <1>2, NamesAssumption DEF Waiting
<1> QED BY <1>3 DEF Typed

\* skynet.sleep waits for the session of a timeout.
LEMMA SleepBegins ==
  ASSUME NEW s \in Services, NEW w, Typed(w, s), Waiting(w, s), NEW c, Alone(w, c, s),
         NEW n \in Sessions(s), n = w.session + 1, n <= w.ops + 1,
         NEW y, y = Dozing(w, c, n)
  PROVE  Begins(w, y, s, c, "sleep", s, n) /\ Stays(w, y) /\ y.threads = w.threads
<1>1. /\ DOMAIN y = Fields /\ y.session = n /\ y.waits = [w.waits EXCEPT ![n] = c]
      /\ y.sleeps = [w.sleeps EXCEPT ![c] = n] /\ y.pc = [w.pc EXCEPT ![c] = "sleep"]
      /\ y.pool = w.pool /\ y.id = w.id /\ y.address = w.address /\ y.watchSession = w.watchSession
      /\ y.errors = w.errors /\ y.forks = w.forks /\ y.threads = w.threads
      /\ y.unresponse = w.unresponse /\ y.ops = w.ops /\ y.unknown = w.unknown /\ Stays(w, y)
  BY DEF Typed, Fields, Stays, Dozing
<1>2. c \in Cos
  BY DEF Alone
<1>3. Typed(y, s)
  <2>1. w.waits \in [Sessions(s) -> Cos \cup {None, Break}] /\ w.pc \in [Cos -> States]
        /\ w.sleeps \in [Cos -> Sessions(s) \cup {None}]
    BY DEF Typed
  <2>2. y.waits \in [Sessions(s) -> Cos \cup {None, Break}]
    BY <1>1, <1>2, <2>1
  <2>3. y.pc \in [Cos -> States]
    <3>1. "sleep" \in States
      BY DEF States
    <3> QED BY <1>1, <1>2, <2>1, <3>1
  <2>4. y.sleeps \in [Cos -> Sessions(s) \cup {None}]
    BY <1>1, <1>2, <2>1
  <2>5. 1 <= y.session /\ y.session <= y.ops + 1 /\ y.session \in Nat
    BY <1>1 DEF Typed
  <2> QED BY <1>1, <2>2, <2>3, <2>4, <2>5 DEF Typed, Stays
<1>4. y.watchSession = [w.watchSession EXCEPT ![n] = None]
  <2>1. w.watchSession = [w.watchSession EXCEPT ![n] = None]
    BY NewIsUnwatched
  <2> QED BY <1>1, <2>1
<1> QED BY <1>1, <1>3, <1>4 DEF Begins, Waits

\* skynet.wait, in the critical section, waits for a session that nobody answers.
LEMMA QueueBegins ==
  ASSUME NEW s \in Services, NEW w, Typed(w, s), Waiting(w, s), NEW c, Alone(w, c, s),
         NEW n \in Sessions(s), n = w.session + 1, n <= w.ops + 1,
         NEW y, y = Lining(w, c, n)
  PROVE  Begins(w, y, s, c, "queue", s, n) /\ Stays(w, y) /\ y.threads = Append(w.threads, c)
<1>1. /\ DOMAIN y = Fields /\ y.session = n /\ y.waits = [w.waits EXCEPT ![n] = c]
      /\ y.sleeps = [w.sleeps EXCEPT ![c] = n] /\ y.pc = [w.pc EXCEPT ![c] = "queue"]
      /\ y.threads = Append(w.threads, c)
      /\ y.pool = w.pool /\ y.id = w.id /\ y.address = w.address /\ y.watchSession = w.watchSession
      /\ y.errors = w.errors /\ y.forks = w.forks
      /\ y.unresponse = w.unresponse /\ y.ops = w.ops /\ y.unknown = w.unknown /\ Stays(w, y)
  BY DEF Typed, Fields, Stays, Lining
<1>2. c \in Cos
  BY DEF Alone
<1>3. Typed(y, s)
  <2>1. w.waits \in [Sessions(s) -> Cos \cup {None, Break}] /\ w.pc \in [Cos -> States]
        /\ w.sleeps \in [Cos -> Sessions(s) \cup {None}] /\ w.threads \in Seq(Tokens)
    BY DEF Typed
  <2>2. y.waits \in [Sessions(s) -> Cos \cup {None, Break}]
    BY <1>1, <1>2, <2>1
  <2>3. y.pc \in [Cos -> States]
    <3>1. "queue" \in States
      BY DEF States
    <3> QED BY <1>1, <1>2, <2>1, <3>1
  <2>4. y.sleeps \in [Cos -> Sessions(s) \cup {None}]
    BY SMTT(60), <1>1, <1>2, <2>1
  <2>5. 1 <= y.session /\ y.session <= y.ops + 1 /\ y.session \in Nat
    BY <1>1 DEF Typed
  <2>6. y.threads \in Seq(Tokens)
    <3>1. w.threads \in Seq(Tokens)
      BY <2>1
    <3>2. Append(w.threads, c) \in Seq(Tokens)
      <4>1. c \in Tokens
        BY <1>2 DEF Tokens
      <4> QED BY <3>1, <4>1, AppendIs
    <3> QED BY <1>1, <3>2
  <2> QED BY SMTT(60), <1>1, <2>2, <2>3, <2>4, <2>5, <2>6 DEF Typed, Stays
<1>4. y.watchSession = [w.watchSession EXCEPT ![n] = None]
  <2>1. w.watchSession = [w.watchSession EXCEPT ![n] = None]
    BY NewIsUnwatched
  <2> QED BY <1>1, <2>1
<1> QED BY <1>1, <1>3, <1>4 DEF Begins, Waits

\* What begins to wait is tidy, whatever may still be answered of the other sessions.
LEMMA BegunTidy ==
  ASSUME NEW s \in Services, NEW w, NEW L, Tidy(w, s, L), NEW c, Alone(w, c, s), NEW p, NEW t, NEW v,
         w.session + 1 \in Sessions(s), NEW y, Begins(w, y, s, c, p, t, v), v # None => p # "call"
  PROVE  Tidy(y, s, {})
<1>1. PICK n \in Sessions(s) : n = w.session + 1
  OBVIOUS
<1>2. PICK u : u = IF t = s THEN None ELSE t
  OBVIOUS
<1>3. Waits(w, y, c, p, n, u, v) /\ Typed(y, s)
  BY <1>1, <1>2 DEF Begins
<1>4. {} \subseteq L \cup {n} /\ (p = "queue" => n \notin {})
  OBVIOUS
<1> QED BY <1>3, <1>4, WaitTidy

\* A call or a sleep makes one new session, with one place, and yields.
LEMMA FreshStep ==
  ASSUME SessionInv, NEW s \in alive, NEW c \in Cos, sv[s].run = c, sv[s].ops < MaxOps[s],
         NEW w, Tallied(s, w), NEW n, n = w.session + 1,
         NEW p, NEW t \in Services, NEW v, NEW y, Begins(w, y, s, c, p, t, v), p # "queue",
         v # None => p # "call",
         sv' = [sv EXCEPT ![s] = Suspend(y)], alive' = alive,
         NEW h, NEW q, q = <<h, t, s, n>>,
         NEW m \in Messages, Boxed, Posted(m), Delivers(m, {q}), m.type = "request" \/ Silent(m),
         timers' \subseteq timers \cup {<<s, n>>}, timers' # timers => q = <<"timer", s, s, n>>
  PROVE  SessionInv'
<1>1. PICK x : x = sv[s]
  OBVIOUS
<1>2. s \in Services /\ Shaped /\ alive \subseteq Services /\ DOMAIN sv = Services /\ timers \subseteq Services \X Nat
  BY ServiceIs DEF SessionInv, Shaped
<1>3. /\ Alike(x, w) /\ w.session \in Nat /\ Tidy(w, s, Live(s)) /\ Alone(w, c, s) /\ w.pool # <<>>
      /\ n \in Sessions(s) /\ Typed(w, s)
  BY <1>1, CountedIs DEF Tidy
<1>4. n \notin Live(s) /\ n \in Nat
  <2>1. \A i \in Live(s) : i \in 1 .. w.session
    BY <1>2, <1>3, LiveIsSession
  <2>2. n \notin 1 .. w.session /\ n \in Nat
    BY <1>3
  <2> QED BY <2>1, <2>2
<1>5. PICK N : N = Live(s) \cup {n}
  OBVIOUS
<1>6. Tidy(y, s, N) /\ \A i \in Live(s) : y.watchSession[i] = w.watchSession[i] /\ i # n
  <2>1. Waits(w, y, c, p, n, IF t = s THEN None ELSE t, v) /\ Typed(y, s)
    BY DEF Begins
  <2>2. N \subseteq Live(s) \cup {n}
    BY <1>5
  <2> QED BY <1>2, <1>3, <2>1, <2>2, WaitTidy
<1>7. PICK r : r = Suspend(y)
  OBVIOUS
<1>8. Tidy(r, s, N) /\ Busy(r, s) /\ Keeping(y, r, N)
  BY <1>2, <1>6, <1>7, SuspendTidy DEF Follows
<1>9. r.id = x.id /\ r.address = x.address /\ r.unresponse = x.unresponse
  BY <1>3, <1>8 DEF Keeping, Begins, Alike
<1>10. r.session = n /\ r.pool = x.pool /\ y.watchSession[n] = IF t = s THEN None ELSE t
  <2>1. y.session = n /\ y.pool = w.pool /\ y.watchSession[n] = IF t = s THEN None ELSE t
    <3>1. s \in Services /\ Typed(w, s) /\ w.session + 1 \in Sessions(s) /\ n = w.session + 1
      BY <1>2, <1>3
    <3>2. y.session = w.session + 1 /\ y.pool = w.pool
          /\ y.watchSession[w.session + 1] = IF t = s THEN None ELSE t
      BY <3>1, BeginsIs
    <3> QED BY <3>1, <3>2
  <2>2. r.session = y.session /\ r.pool = y.pool
    BY <1>8 DEF Keeping
  <2>3. w.pool = x.pool
    BY <1>3 DEF Alike
  <2> QED BY <2>1, <2>2, <2>3
<1>11. OnlyMoves(s, r)
  BY <1>2, <1>7, ExceptMoves
<1>12. Moves(m, {q})
  <2>1. \A u \in alive : From(sv[u], sv'[u], u, {q})
    <3>1. From(sv[s], r, s, {q})
      BY <1>1, <1>9, ServingFewer, FewerFrom
    <3> QED BY <1>2, <1>11, <3>1, SelfFrom DEF OnlyMoves, Stands
  <2>2. \A u \in Services, i \in Nat : <<u, i>> \in timers' => <<u, i>> \in timers \/ <<"timer", u, u, i>> \in {q}
    <3> SUFFICES ASSUME NEW u \in Services, NEW i \in Nat, <<u, i>> \in timers', <<u, i>> \notin timers
                 PROVE  <<"timer", u, u, i>> = q
      OBVIOUS
    <3>1. <<u, i>> = <<s, n>> /\ timers' # timers
      OBVIOUS
    <3> QED BY <3>1
  <2>3. timers' \subseteq Services \X Nat
    BY <1>2, <1>4
  <2> QED BY <1>2, <2>1, <2>2, <2>3 DEF Moves, Boxed
<1>13. Places' \subseteq Places \cup {q}
  BY <1>2, <1>12, MovesPlaces
<1>14. Live(s)' \subseteq N
  <2> SUFFICES ASSUME NEW i \in Live(s)' PROVE i \in N
    OBVIOUS
  <2>1. PICK a \in Places' : a[3] = s /\ a[4] = i
    BY <1>2, LiveNext
  <2>2. CASE a \in Places
    BY <1>2, <1>5, <2>1, <2>2, LiveIs
  <2>3. CASE a = q
    BY <1>5, <2>1, <2>3
  <2> QED BY <1>13, <2>2, <2>3
<1>15. Single({q})
  <2> SUFFICES ASSUME NEW a \in Places', a[3] = s, a[4] = n PROVE a = q
    BY DEF Single
  <2>1. a \notin Places
    BY <1>2, <1>4, LiveIs
  <2> QED BY <1>13, <2>1
<1>16. Tidy(r, s, Live(s)')
  BY <1>8, <1>14, TidyLess
<1>17. \A i \in N : r.watchSession[i] = y.watchSession[i]
  BY <1>8 DEF Keeping
<1>18. \A i \in Live(s) : i \in Live(s)' => r.watchSession[i] = sv[s].watchSession[i]
  BY <1>1, <1>3, <1>5, <1>6, <1>17 DEF Alike
<1>19. \A e \in {q} : e \in Places' => sv'[e[3]].watchSession[e[4]] = IF e[2] = e[3] THEN None ELSE e[2]
  <2>1. sv'[s].watchSession[n] = IF t = s THEN None ELSE t
    BY <1>5, <1>10, <1>11, <1>17 DEF OnlyMoves, Stands
  <2> QED BY <2>1
<1>20. \A u \in alive, i \in Nat, d, e \in Cos : Answers(r, d, i, u) /\ Answers(r, e, i, u) => d = e
  BY <1>1, <1>2, <1>9, ServiceIs DEF Answers
<1>21. (1 .. sv[s].session) \ Live(s) \subseteq (1 .. r.session) \ Live(s)'
  <2>1. sv[s].session = w.session
    BY <1>1, <1>3 DEF Alike
  <2>2. \A i \in 1 .. w.session : i \in 1 .. n /\ i # n
    BY <1>3
  <2> QED BY <1>5, <1>10, <1>14, <2>1, <2>2
<1>22. \A u \in alive : box'[u] = Append(box[u], m) =>
           /\ m.type = "response" => m.source \in alive
           /\ m.type = "error" => IF m.session = 0 THEN m.source \notin alive
                                  ELSE m.session \in (1 .. sv'[u].session) \ Live(u)'
  BY <1>2 DEF Silent
<1>23. \A e \in {q} : e[3] = s \/ e[4] \in Live(e[3]) \/ e[3] \notin alive
  OBVIOUS
<1>24. r.pool # <<>>
  BY <1>3, <1>10 DEF Alike
<1> QED BY <1>8, <1>11, <1>12, <1>15, <1>16, <1>18, <1>19, <1>20, <1>21, <1>22, <1>23, <1>24, ServiceStep

\* skynet.call: the session is in the request; a call of a service that has exited
\* fails at once.
LEMMA CallKeeps ==
  ASSUME SessionInv, NEW s \in Services, s \in alive, NEW c \in Cos, NEW t \in Services, Call(s, c, t)
  PROVE  SessionInv'
<1>1. s \in alive /\ sv[s].run = c /\ sv[s].ops < MaxOps[s] /\ t # s
      /\ alive' = alive /\ timers' = timers /\ Shaped
  BY CallsAssumption DEF Call, Counts, Does, SessionInv
<1>2. PICK w : w = [Counted(s) EXCEPT !.calls = @ + 1] /\ Tallied(s, w)
  BY DEF Tallied
<1>3. /\ Alike(sv[s], w) /\ w.session \in Nat /\ Tidy(w, s, Live(s)) /\ Alone(w, c, s) /\ w.pool # <<>>
      /\ w.session + 1 \in Sessions(s) /\ w.session + 1 <= w.ops + 1 /\ Typed(w, s)
  BY <1>1, <1>2, CountedIs DEF Tidy
<1>4. PICK n \in Nat : n = w.session + 1
  BY <1>3
<1>5. w.session = sv[s].session
  BY <1>3 DEF Alike
<1>6. CASE t \notin alive
  <2>1. Raise(s, c, w)
    BY <1>2, <1>6 DEF Call
  <2>2. Fewer(sv[s], w) /\ w.session = sv[s].session /\ w.watchSession = sv[s].watchSession
    BY <1>3, ServingFewer DEF Alike
  <2> QED BY <1>1, <1>3, <2>1, <2>2, RaiseKeeps
<1>7. CASE t \in alive
  <2>1. PICK y : y = Calling(w, c, n, t)
    OBVIOUS
  <2>2. sv' = [sv EXCEPT ![s] = Suspend(y)]
    BY <1>2, <1>4, <1>5, <1>7, <2>1 DEF Call, Calling
  <2>3. box' = Sent(t, Req(n, s))
    BY <1>4, <1>5, <1>7 DEF Call, Req
  <2>4. n \in Sessions(s) /\ n <= w.ops + 1
    BY <1>3, <1>4
  <2>7. Begins(w, y, s, c, "call", t, None)
    BY <1>1, <1>3, <1>4, <2>1, <2>4, CallBegins
  <2>8. PICK q : q = <<"asked", t, s, n>>
    OBVIOUS
  <2>9. PICK m \in Messages : m = Req(n, s)
    BY MessageIs
  <2>10. m.type = "request" /\ m.source = s /\ m.session = n
    BY <2>9, MessageIs
  <2>11. ~ Has(box[t], m)
    <3>1. Has(box[t], m) => <<"asked", t, s, n>> \in Places
      BY <1>1, <1>7, <2>9 DEF Places, Kinds, Place
    <3>2. <<"asked", t, s, n>> \in Places => n \in Live(s)
      BY LiveIs
    <3>3. n \in Live(s) => n \in 1 .. w.session
      BY <1>3, LiveIsSession
    <3> QED BY <1>3, <1>4, <3>1, <3>2, <3>3
  <2>12. Boxed /\ Posted(m) /\ \A u \in Services : box'[u] = Append(box[u], m) => u = t
    BY <1>1, <2>3, <2>9, <2>11, SentPosts
  <2>13. Delivers(m, {q})
    BY <1>1, <2>8, <2>10, <2>12 DEF Delivers, Shaped
  <2>14. sv[s].ops < MaxOps[s] /\ "call" # "queue" /\ (None # None => "call" # "call")
    BY <1>1
  <2>15. timers' \subseteq timers \cup {<<s, n>>} /\ (timers' # timers => q = <<"timer", s, s, n>>)
    BY <1>1
  <2> QED BY <1>1, <1>2, <1>4, <2>2, <2>7, <2>8, <2>10, <2>12, <2>13, <2>14, <2>15, FreshStep
<1> QED BY <1>6, <1>7

\* skynet.sleep: the session is with its timeout.
LEMMA SleepKeeps ==
  ASSUME SessionInv, NEW s \in Services, s \in alive, NEW c \in Cos, Sleep(s, c)
  PROVE  SessionInv'
<1>1. s \in alive /\ sv[s].run = c /\ sv[s].ops < MaxOps[s] /\ alive' = alive /\ box' = box /\ Shaped
  BY DEF Sleep, Counts, Does, SessionInv
<1>2. PICK w : w = Counted(s) /\ Tallied(s, w)
  BY DEF Tallied
<1>3. /\ Alike(sv[s], w) /\ w.session \in Nat /\ Tidy(w, s, Live(s)) /\ Alone(w, c, s)
      /\ w.session + 1 \in Sessions(s) /\ w.session + 1 <= w.ops + 1 /\ Typed(w, s) /\ Waiting(w, s)
  BY <1>1, <1>2, CountedIs DEF Tidy
<1>4. PICK n \in Nat : n = w.session + 1
  BY <1>3
<1>5. w.session = sv[s].session
  BY <1>3 DEF Alike
<1>6. PICK y : y = Dozing(w, c, n)
  OBVIOUS
<1>7. sv' = [sv EXCEPT ![s] = Suspend(y)]
  BY <1>2, <1>4, <1>5, <1>6 DEF Sleep, Dozing
<1>8. n \in Sessions(s) /\ n <= w.ops + 1
  BY <1>3, <1>4
<1>11. Begins(w, y, s, c, "sleep", s, n)
  BY <1>3, <1>4, <1>6, <1>8, SleepBegins
<1>12. PICK q : q = <<"timer", s, s, n>>
  OBVIOUS
<1>13. PICK m \in Messages : m = Err(0, s)
  BY MessageIs
<1>14. Boxed /\ Posted(m) /\ Silent(m)
  BY <1>1, StillPosts
<1>15. Delivers(m, {q})
  BY <1>1, <1>14 DEF Delivers, Silent, Shaped
<1>16. sv[s].ops < MaxOps[s] /\ "sleep" # "queue" /\ "sleep" # "call"
  BY <1>1
<1>17. timers' \subseteq timers \cup {<<s, n>>} /\ (timers' # timers => q = <<"timer", s, s, n>>)
  BY <1>4, <1>5, <1>12 DEF Sleep
<1> QED BY <1>1, <1>2, <1>4, <1>7, <1>11, <1>12, <1>14, <1>15, <1>16, <1>17, FreshStep

\* The section is taken, or waited for with a session that nobody answers.
LEMMA EnterKeeps ==
  ASSUME SessionInv, NEW s \in Services, s \in alive, NEW c \in Cos, Enter(s, c)
  PROVE  SessionInv'
<1>1. s \in alive /\ sv[s].run = c /\ sv[s].ops < MaxOps[s] /\ alive' = alive /\ timers' = timers /\ box' = box
  BY DEF Enter, Counts, Does
<1>2. PICK w : w = Counted(s) /\ Tallied(s, w)
  BY DEF Tallied
<1>3. /\ Alike(sv[s], w) /\ w.session \in Nat /\ Tidy(w, s, Live(s)) /\ Alone(w, c, s) /\ w.pool # <<>>
      /\ w.session + 1 \in Sessions(s) /\ w.session + 1 <= w.ops + 1 /\ Typed(w, s) /\ Waiting(w, s)
  BY <1>1, <1>2, CountedIs DEF Tidy
<1>4. PICK n \in Nat : n = w.session + 1
  BY <1>3
<1>5. CASE w.current \in {None, c}
  <2>1. PICK y : y = [w EXCEPT !.current = c, !.ref = @ + 1, !.depth[c] = @ + 1]
    OBVIOUS
  <2>2. sv' = [sv EXCEPT ![s] = y]
    BY <1>2, <1>5, <2>1 DEF Enter
  <2>3. Alike(w, y) /\ y.wakeups = w.wakeups /\ y.threads = w.threads /\ y.ops = w.ops
    BY <1>3, <2>1 DEF Alike, Fields
  <2>4. Alike(sv[s], y) /\ Typed(y, s)
    BY <1>3, <2>3 DEF Alike, Typed
  <2> QED BY <1>1, <2>2, <2>4, AlikeStep
<1>6. CASE w.current \notin {None, c}
  <2>1. PICK y : y = Lining(w, c, n)
    OBVIOUS
  <2>2. Yields(s, y)
    BY <1>1, <1>2, <1>4, <1>6, <2>1 DEF Enter, Yields, Lining
  <2>3. n \in Sessions(s) /\ n <= w.ops + 1
    BY <1>3, <1>4
  <2>4. Begins(w, y, s, c, "queue", s, n)
    BY <1>3, <1>4, <2>1, <2>3, QueueBegins
  <2>5. Waits(w, y, c, "queue", n, None, n) /\ Typed(y, s)
    BY <1>4, <2>4 DEF Begins
  <2>6. /\ y.session = n /\ y.pool = w.pool /\ y.id = w.id /\ y.address = w.address
        /\ y.unresponse = w.unresponse
    BY <2>4, <2>5 DEF Begins, Waits
  <2>7. n \notin Live(s)
    <3>1. \A i \in Live(s) : i \in 1 .. w.session
      BY <1>3, LiveIsSession
    <3> QED BY <1>3, <1>4, <3>1
  <2>8. n \in Sessions(s) /\ Live(s) \subseteq Live(s) \cup {n} /\ "queue" # "call"
    BY <1>3, <1>4
  <2>9. Tidy(y, s, Live(s)) /\ \A i \in Live(s) : y.watchSession[i] = w.watchSession[i]
    BY <1>3, <2>5, <2>7, <2>8, WaitTidy
  <2>10. Fewer(sv[s], y)
    BY <1>3, <2>6, ServingFewer DEF Alike
  <2>11. y.pool # <<>> /\ \A i \in Live(s) : y.watchSession[i] = sv[s].watchSession[i]
    BY <1>3, <2>6, <2>9 DEF Alike
  <2>12. y.session >= sv[s].session
    BY <1>3, <1>4, <2>6 DEF Alike
  <2> QED BY <1>1, <2>2, <2>9, <2>10, <2>11, <2>12, SuspendStep
<1> QED BY <1>5, <1>6

-----------------------------------------------------------------------------
(* Messages that are taken                                                     *)

\* The first message of s, and that it is not in the queue again.
LEMMA HeadIs ==
  ASSUME NEW q \in Seq(Messages), q # <<>>
  PROVE  /\ Head(q) \in Messages /\ Has(q, Head(q)) /\ 1 \in 1 .. Len(q) /\ Head(q) = q[1]
         /\ (Once(q, Head(q)) => ~ Has(Tail(q), Head(q)))
<1>1. Rest(Messages, q)
  BY RestIs
<1>2. 1 \in 1 .. Len(q) /\ Head(q) = q[1] /\ Head(q) \in Messages
      /\ \A i \in 1 .. Len(Tail(q)) : i + 1 \in 1 .. Len(q) /\ i + 1 # 1 /\ Tail(q)[i] = q[i + 1]
  BY <1>1 DEF Rest
<1>3. Has(q, Head(q))
  BY <1>2 DEF Has
<1>4. ASSUME Once(q, Head(q)), NEW i \in 1 .. Len(Tail(q)), Tail(q)[i] = Head(q) PROVE FALSE
  <2>1. q[i + 1] = Head(q) /\ q[1] = Head(q) /\ i + 1 \in 1 .. Len(q) /\ i + 1 # 1
    BY <1>2, <1>4
  <2> QED BY <1>2, <1>4, <2>1 DEF Once
<1> QED BY <1>2, <1>3, <1>4 DEF Has

\* What is known when a message is taken: the service is idle, and no error is left to
\* be told.
LEMMA TakeIs ==
  ASSUME SessionInv, NEW s \in Services, s \in alive, NEW type, Take(s, type),
         NEW x, x = Taken(sv[s])
  PROVE  /\ sv[s].run = None /\ alive' = alive /\ timers' = timers
         /\ box[s] \in Seq(Messages) /\ box[s] # <<>> /\ Head(box[s]).type = type
         /\ Tidy(x, s, Live(s)) /\ x.errors = <<>> /\ x.pool # <<>> /\ alive \subseteq Services
         /\ x.id = sv[s].id /\ x.address = sv[s].address /\ x.unresponse = sv[s].unresponse
         /\ x.session = sv[s].session /\ x.watchSession = sv[s].watchSession /\ x.pool = sv[s].pool
         /\ box'[s] = Tail(box[s])
         /\ \A m \in Messages : Boxed /\ Posted(m) /\ Silent(m)
<1>1. sv[s].run = None /\ alive' = alive /\ timers' = timers /\ box[s] # <<>>
      /\ Head(box[s]).type = type /\ box' = [box EXCEPT ![s] = Tail(@)]
  BY DEF Take
<1>2. Shaped /\ Tidy(sv[s], s, Live(s)) /\ Busy(sv[s], s) /\ sv[s].pool # <<>>
  BY <1>1, ServiceIs
<1>3. \A m \in Messages : Boxed /\ Posted(m) /\ Silent(m)
  BY <1>1, <1>2, TakePosts
<1>4. PICK v : v = sv[s]
  OBVIOUS
<1>5. Alike(v, x) /\ x.wakeups = v.wakeups /\ x.threads = v.threads /\ x.ops = v.ops
  <2>1. DOMAIN v = Fields
    BY <1>2, <1>4 DEF Tidy, Typed
  <2>2. x = [v EXCEPT !.rest = IF @ > 0 THEN @ - 1 ELSE 0]
    BY <1>4 DEF Taken
  <2> QED BY <2>1, <2>2 DEF Fields, Alike
<1>6. Typed(x, s)
  BY <1>2, <1>4, <1>5 DEF Tidy, Typed, Alike
<1>7. Core(x) = Core(v)
  BY <1>5 DEF Core, Alike
<1>8. Tidy(x, s, Live(s))
  BY <1>2, <1>4, <1>6, <1>7, CoreTidy
<1>9. x.errors = <<>> /\ x.pool # <<>>
  BY <1>1, <1>2, <1>4, <1>5 DEF Busy, Alike
<1> QED BY <1>1, <1>2, <1>3, <1>4, <1>5, <1>8, <1>9 DEF Alike, Shaped

\* A response is taken: its session is answered.
LEMMA TakeResponseKeeps ==
  ASSUME SessionInv, NEW s \in Services, s \in alive, TakeResponse(s)
  PROVE  SessionInv'
<1>0. Take(s, "response")
  BY DEF TakeResponse
<1>1. /\ alive' = alive /\ timers' = timers
      /\ box[s] \in Seq(Messages) /\ box[s] # <<>> /\ Head(box[s]).type = "response" /\ box'[s] = Tail(box[s])
      /\ alive \subseteq Services
  BY <1>0, TakeIs
<1>2. PICK x : /\ x = Taken(sv[s]) /\ x.id = sv[s].id /\ x.address = sv[s].address
               /\ x.unresponse = sv[s].unresponse /\ x.session = sv[s].session
               /\ x.watchSession = sv[s].watchSession /\ x.pool = sv[s].pool
  BY <1>0, TakeIs
<1>3. Tidy(x, s, Live(s)) /\ x.errors = <<>> /\ x.pool # <<>> /\ x.session \in Nat
  BY SMTT(60), <1>0, <1>2, TakeIs DEF Tidy, Typed
<1>4. PICK m \in Messages : m = Head(box[s])
  BY <1>1, HeadIs
<1>5. PICK n \in Nat, t \in Services : n = m.session /\ t = m.source /\ m = Resp(n, t)
  BY <1>1, <1>4 DEF Messages, Resp, Message
<1>6. Has(box[s], m) /\ ~ Has(Tail(box[s]), m)
  <2>1. Once(box[s], m)
    BY <1>1, <1>5 DEF SessionInv, InPlaceOnce
  <2> QED BY <1>1, <1>4, <2>1, HeadIs
<1>7. PICK p : p = <<"answer", t, s, n>>
  OBVIOUS
<1>8. p \in Places /\ p[3] = s /\ p[4] = n
  BY <1>1, <1>5, <1>6, <1>7 DEF Places, Kinds, Place
<1>9. p \notin Places'
  <2>1. ~ Has(box'[s], Resp(n, t))
    BY <1>1, <1>5, <1>6
  <2>2. ~ Place("answer", t, s, n)'
    BY <2>1 DEF Place, Has, Resp, Message
  <2> QED BY <1>7, <2>2 DEF Places
<1>10. n \in Live(s)
  BY <1>8, LiveIs
<1>11. PICK y : y = Returned(x, n)
  OBVIOUS
<1>12. PICK M : M = Live(s) \ {n}
  OBVIOUS
<1>13. Tidy(y, s, M) /\ Busy(y, s) /\ Keeping(x, y, M)
  BY <1>3, <1>10, <1>11, <1>12, ReturnedTidy DEF Follows
<1>14. sv' = [sv EXCEPT ![s] = y]
  BY <1>2, <1>4, <1>5, <1>11 DEF TakeResponse, Returned
<1>15. Fewer(sv[s], y)
  BY <1>2, <1>13, ServingFewer DEF Keeping
<1>16. PICK e \in Messages : e = Err(0, s)
  BY MessageIs
<1>17. Boxed /\ Posted(e) /\ Silent(e)
  BY <1>0, TakeIs
<1>18. Places' \subseteq Places
  <2>1. Moves(e, {})
    BY <1>1, <1>14, <1>15, <1>17, QuietMoves
  <2> QED BY <1>1, <2>1, ServiceIs, MovesPlaces
<1>19. Live(s)' \subseteq M
  <2>1. n \notin Live(s)'
    BY <1>8, <1>9, <1>18, WentAway DEF SessionInv
  <2>2. Live(s)' \subseteq Live(s)
    BY <1>18, LiveIs, LiveNext
  <2> QED BY <1>12, <2>1, <2>2
<1>20. Tidy(y, s, Live(s)')
  BY <1>13, <1>19, TidyLess
<1>21. y.pool # <<>> /\ y.session >= sv[s].session
  BY <1>2, <1>3, <1>13 DEF Keeping
<1>22. \A i \in Live(s) : i \in Live(s)' => y.watchSession[i] = sv[s].watchSession[i]
  BY <1>2, <1>13, <1>19 DEF Keeping
<1>23. \A u \in alive : box'[u] = Append(box[u], e) =>
            IF e.session = 0 THEN e.source \notin alive ELSE e.session \in (1 .. sv'[u].session) \ Live(u)'
  BY <1>1, <1>17 DEF Silent
<1> QED BY <1>1, <1>13, <1>14, <1>15, <1>17, <1>20, <1>21, <1>22, <1>23, QuietStep

\* A request is taken: the session goes from the queue to a coroutine.
LEMMA TakeRequestKeeps ==
  ASSUME SessionInv, NEW s \in Services, s \in alive, TakeRequest(s)
  PROVE  SessionInv'
<1>0. Take(s, "request") /\ Spare(sv[s])
  BY DEF TakeRequest
<1>1. /\ alive' = alive /\ timers' = timers
      /\ box[s] \in Seq(Messages) /\ box[s] # <<>> /\ Head(box[s]).type = "request" /\ box'[s] = Tail(box[s])
      /\ alive \subseteq Services
  BY <1>0, TakeIs
<1>2. PICK x : /\ x = Taken(sv[s]) /\ x.id = sv[s].id /\ x.address = sv[s].address
               /\ x.unresponse = sv[s].unresponse /\ x.session = sv[s].session
               /\ x.watchSession = sv[s].watchSession /\ x.pool = sv[s].pool
  BY <1>0, TakeIs
<1>3. Tidy(x, s, Live(s)) /\ x.pool # <<>> /\ x.session \in Nat /\ x.pool \in Seq(Cos)
      /\ x.id \in [Cos -> Nat \cup {None}] /\ x.address \in [Cos -> Services \cup {None}]
  BY SMTT(60), <1>0, <1>2, TakeIs DEF Tidy, Typed
<1>4. PICK m \in Messages : m = Head(box[s])
  BY <1>1, HeadIs
<1>5. PICK n \in Nat, a \in Services : n = m.session /\ a = m.source /\ m = Req(n, a)
  BY <1>1, <1>4 DEF Messages, Req, Message
<1>6. PICK y : y = Served(x, n, a)
  OBVIOUS
<1>7. Tidy(y, s, Live(s)) /\ Busy(y, s) /\ \A i \in Live(s) : y.watchSession[i] = x.watchSession[i]
  BY <1>3, <1>6, ServedTidy
<1>8. PICK c \in Cos : Serves(x, y, c, n, a)
  BY <1>3, <1>6, ServedTidy
<1>9. sv' = [sv EXCEPT ![s] = y]
  BY <1>2, <1>4, <1>5, <1>6 DEF TakeRequest, Served
<1>20. \A u, i, d : Answers(x, d, i, u) <=> Answers(sv[s], d, i, u)
  BY <1>2 DEF Answers
<1>10. \A u \in Services, i \in Nat, d \in Cos :
         Answers(y, d, i, u) => IF d = c THEN i = n /\ u = a ELSE Answers(x, d, i, u)
  <2>1. y.id = [x.id EXCEPT ![c] = n] /\ y.address = [x.address EXCEPT ![c] = a]
    BY <1>8 DEF Serves
  <2> QED BY <1>3, <2>1 DEF Answers
<1>11. From(sv[s], y, s, {<<"taken", s, a, n>>})
  <2>1. y.unresponse = x.unresponse
    BY <1>8 DEF Serves
  <2> QED BY <1>2, <1>10, <1>20, <2>1 DEF From
<1>12. a \in alive => <<"asked", s, a, n>> \in Places /\ ~ Place("asked", s, a, n)'
  <2> SUFFICES ASSUME a \in alive PROVE <<"asked", s, a, n>> \in Places /\ ~ Place("asked", s, a, n)'
    OBVIOUS
  <2>1. Once(box[s], m)
    BY <1>1, <1>5 DEF SessionInv, InPlaceOnce
  <2>2. Has(box[s], m) /\ ~ Has(Tail(box[s]), m)
    BY <1>1, <1>4, <2>1, HeadIs
  <2>3. <<"asked", s, a, n>> \in Places
    BY <1>1, <1>5, <2>2 DEF Places, Kinds, Place
  <2>4. ~ Has(box'[s], Req(n, a))
    BY <1>1, <1>5, <2>2
  <2>5. ~ Place("asked", s, a, n)'
    BY <2>4 DEF Place, Has, Req, Message
  <2> QED BY <2>3, <2>5
<1>13. a \in alive => \A d \in Cos : ~ Answers(x, d, n, a)
  <2> SUFFICES ASSUME a \in alive, NEW d \in Cos, Answers(x, d, n, a) PROVE FALSE
    OBVIOUS
  <2>1. <<"taken", s, a, n>> \in Places
    BY <1>1, <1>20 DEF Places, Kinds, Place
  <2>2. <<"asked", s, a, n>> \in Places
    BY <1>12
  <2>3. <<"taken", s, a, n>> = <<"asked", s, a, n>>
    BY <2>1, <2>2 DEF SessionInv, OnePlace
  <2> QED BY <2>3
<1>14. \A u \in alive, i \in Nat, d, e \in Cos : Answers(y, d, i, u) /\ Answers(y, e, i, u) => d = e
  <2> SUFFICES ASSUME NEW u \in alive, NEW i \in Nat, NEW d \in Cos, NEW e \in Cos,
                      Answers(y, d, i, u), Answers(y, e, i, u)
               PROVE  d = e
    OBVIOUS
  <2>1. u \in Services
    BY <1>1
  <2>2. CASE d = c /\ e # c
    BY <1>10, <1>13, <2>1, <2>2
  <2>3. CASE e = c /\ d # c
    BY <1>10, <1>13, <2>1, <2>3
  <2>4. CASE d # c /\ e # c
    <3>1. Answers(x, d, i, u) /\ Answers(x, e, i, u)
      BY <1>10, <2>1, <2>4
    <3>2. Answers(sv[s], d, i, u) /\ Answers(sv[s], e, i, u)
      BY <1>20, <3>1
    <3> QED BY <1>1, <2>1, <3>2, ServiceIs
  <2> QED BY <2>2, <2>3, <2>4
<1>15. y.pool # <<>> /\ y.session >= sv[s].session
  <2>1. Len(x.pool) > 1
    BY <1>0, <1>2 DEF Spare
  <2>2. Len(Front(x.pool)) = Len(x.pool) - 1
    BY <1>3, <2>1 DEF Front
  <2>3. y.pool = Front(x.pool) /\ y.session = x.session
    BY <1>8 DEF Serves
  <2>4. Len(y.pool) > 0
    BY <1>3, <2>1, <2>2, <2>3
  <2> QED BY <1>2, <1>3, <2>3, <2>4
<1>16. PICK e \in Messages : e = Err(0, s)
  BY MessageIs
<1>17. Boxed /\ Posted(e) /\ Silent(e)
  BY <1>0, TakeIs
<1>18. "asked" \in Kinds /\ "taken" \in Kinds
  BY DEF Kinds
<1>19. \A i \in Live(s) : y.watchSession[i] = sv[s].watchSession[i]
  BY <1>2, <1>7
<1> QED BY <1>1, <1>7, <1>9, <1>11, <1>12, <1>14, <1>15, <1>17, <1>18, <1>19, TransferStep

\* An error that is taken is of a session nobody answers any more, or of a service that
\* answers none.
LEMMA ErrorIs ==
  ASSUME SessionInv, NEW s \in Services, s \in alive, Take(s, "error"), NEW m, m = Head(box[s]), NEW x, x = sv[s]
  PROVE  /\ m \in Messages
         /\ IF m.session = 0 THEN \A n \in Live(s) : x.watchSession[n] # m.source
            ELSE m.session \in (1 .. x.session) \ Live(s)
<1>1. /\ box[s] \in Seq(Messages) /\ box[s] # <<>> /\ Head(box[s]).type = "error"
      /\ alive \subseteq Services
  BY TakeIs
<1>2. x = sv[s]
  OBVIOUS
<1>4. m \in Messages
  BY <1>1, HeadIs
<1>5. PICK q \in Seq(Messages) : q = box[s]
  BY <1>1
<1>6. 1 \in 1 .. Len(q) /\ q[1] = m /\ m.type = "error"
  BY <1>1, <1>4, <1>5, HeadIs
<1>7. IF m.session = 0
      THEN m.source \notin alive /\ \A j \in 1 .. Len(q) : q[j].type = "response" => q[j].source # m.source
      ELSE m.session \in (1 .. x.session) \ Live(s)
  BY <1>1, <1>2, <1>5, <1>6 DEF SessionInv, ErrorsAreLast
<1>8. IF m.session = 0 THEN \A n \in Live(s) : x.watchSession[n] # m.source
      ELSE m.session \in (1 .. x.session) \ Live(s)
  <2> SUFFICES ASSUME m.session = 0, NEW n \in Live(s), x.watchSession[n] = m.source PROVE FALSE
    BY <1>7
  <2>1. m.source \notin alive /\ m.source \in Services
    BY <1>4, <1>7 DEF Messages
  <2>2. PICK k \in Kinds, t \in Services : <<k, t, s, n>> \in Places /\ n \in Nat
    BY DEF Live
  <2>3. x.watchSession[n] = IF t = s THEN None ELSE t
    <3>1. PICK p : p = <<k, t, s, n>>
      OBVIOUS
    <3>2. p \in Places /\ p[2] = t /\ p[3] = s /\ p[4] = n
      BY <2>2, <3>1
    <3> QED BY <1>2, <3>2 DEF SessionInv, Watches
  <2>4. t = m.source /\ t # s
    BY <1>1, <2>1, <2>3, NamesAssumption
  <2>5. Place(k, t, s, n)
    BY <2>2 DEF Places
  <2>6. Has(q, Resp(n, t))
    BY <1>5, <2>1, <2>4, <2>5 DEF Place
  <2>7. PICK j \in 1 .. Len(q) : q[j] = Resp(n, t)
    BY <2>6 DEF Has
  <2>8. q[j].type = "response" /\ q[j].source = m.source
    BY <2>4, <2>7, MessageIs
  <2> QED BY <1>7, <2>8
<1> QED BY <1>4, <1>8

\* An error is taken: of a session nobody answers any more, or of a service that is
\* down and has answered what it ever will.
LEMMA TakeErrorKeeps ==
  ASSUME SessionInv, NEW s \in Services, s \in alive, TakeError(s)
  PROVE  SessionInv'
<1>0. Take(s, "error")
  BY DEF TakeError
<1>1. /\ alive' = alive /\ timers' = timers
      /\ box[s] \in Seq(Messages) /\ box[s] # <<>> /\ Head(box[s]).type = "error" /\ box'[s] = Tail(box[s])
      /\ alive \subseteq Services
  BY <1>0, TakeIs
<1>2. PICK x : /\ x = Taken(sv[s]) /\ x.id = sv[s].id /\ x.address = sv[s].address
               /\ x.unresponse = sv[s].unresponse /\ x.session = sv[s].session
               /\ x.watchSession = sv[s].watchSession /\ x.pool = sv[s].pool
  BY <1>0, TakeIs
<1>3. Tidy(x, s, Live(s)) /\ x.errors = <<>> /\ x.pool # <<>> /\ x.session \in Nat
      /\ x.id \in [Cos -> Nat \cup {None}] /\ x.address \in [Cos -> Services \cup {None}]
  BY SMTT(60), <1>0, <1>2, TakeIs DEF Tidy, Typed
<1>4. PICK m \in Messages : m = Head(box[s])
  BY <1>1, HeadIs
<1>8. IF m.session = 0 THEN \A n \in Live(s) : x.watchSession[n] # m.source
      ELSE m.session \in (1 .. x.session) \ Live(s)
  BY <1>0, <1>2, <1>4, ErrorIs
<1>9. PICK y : y = Told(x, m)
  OBVIOUS
<1>10. Tidy(y, s, Live(s)) /\ Busy(y, s) /\ \A n \in Live(s) : y.watchSession[n] = x.watchSession[n]
  BY <1>3, <1>8, <1>9, ToldTidy
<1>11. PICK c \in Cos : Tells(x, y, c, m.source)
  BY <1>3, <1>8, <1>9, ToldTidy
<1>12. sv' = [sv EXCEPT ![s] = y]
  BY <1>2, <1>4, <1>9 DEF TakeError, Told
<1>13. \A u \in Services, i \in Nat, d \in Cos : Answers(y, d, i, u) => Answers(x, d, i, u)
  <2>1. y.id = [x.id EXCEPT ![c] = None] /\ y.address = [x.address EXCEPT ![c] = m.source]
    BY <1>11 DEF Tells
  <2>2. \A i \in Nat : i # None
    BY NamesAssumption
  <2> QED BY <1>3, <2>1, <2>2 DEF Answers
<1>14. Fewer(sv[s], y) /\ y.pool # <<>> /\ y.session = x.session
  <2>1. \A u, i, d : Answers(x, d, i, u) => Answers(sv[s], d, i, u)
    BY <1>2 DEF Answers
  <2> QED BY <1>2, <1>11, <1>13, <2>1 DEF Fewer, Tells
<1>15. PICK e \in Messages : e = Err(0, s)
  BY MessageIs
<1>16. Boxed /\ Posted(e) /\ Silent(e)
  BY <1>0, TakeIs
<1>17. Live(s)' \subseteq Live(s)
  <2>1. Moves(e, {})
    BY <1>1, <1>12, <1>14, <1>16, QuietMoves
  <2>2. Places' \subseteq Places
    BY <1>1, <2>1, ServiceIs, MovesPlaces
  <2> QED BY <2>2, LiveIs, LiveNext
<1>18. Tidy(y, s, Live(s)')
  BY <1>10, <1>17, TidyLess
<1>19. \A i \in Live(s) : i \in Live(s)' => y.watchSession[i] = sv[s].watchSession[i]
  BY <1>2, <1>10
<1>20. \A u \in alive : box'[u] = Append(box[u], e) =>
            IF e.session = 0 THEN e.source \notin alive ELSE e.session \in (1 .. sv'[u].session) \ Live(u)'
  BY <1>1, <1>16 DEF Silent
<1>21. y.session >= sv[s].session
  BY <1>2, <1>3, <1>14
<1> QED BY <1>1, <1>10, <1>12, <1>14, <1>16, <1>18, <1>19, <1>20, <1>21, QuietStep

-----------------------------------------------------------------------------
(* Steps without a service                                                     *)

\* A step without a service keeps the invariant like one of a service that stands
\* still.
LEMMA SameStep ==
  ASSUME SessionInv, \A u \in Services : Stands(u), NEW m, NEW Q, Moves(m, Q), Single(Q),
         \A q \in Q : q[4] \in Live(q[3]),
         \A q \in Q : q \in Places' => sv[q[3]].watchSession[q[4]] = IF q[2] = q[3] THEN None ELSE q[2],
         \A u \in alive : box'[u] = Append(box[u], m) =>
           /\ m.type = "response" => m.source \in alive
           /\ m.type = "error" => m.session = 0 /\ m.source \notin alive
  PROVE  SessionInv'
<1>1. Shaped /\ alive \subseteq Services /\ alive' = alive /\ Shaped'
  BY MovesShaped DEF SessionInv, Moves, Shaped
<1>2. CASE alive = {}
  <2>1. Places' = {}
    BY <1>1, <1>2 DEF Places
  <2>2. OnePlace' /\ Watches'
    BY <2>1 DEF OnePlace, Watches
  <2>3. InPlaceOnce' /\ ErrorsAreLast'
    BY <1>1, <1>2 DEF InPlaceOnce, ErrorsAreLast
  <2>4. \A u \in Services : ~ sv'[u].unknown
    BY DEF SessionInv, Stands
  <2> QED BY <1>1, <1>2, <2>2, <2>3, <2>4 DEF SessionInv
<1>3. CASE alive # {}
  <2>1. PICK s \in alive : TRUE
    BY <1>3
  <2>2. PICK y : y = sv[s]
    OBVIOUS
  <2>3. s \in Services /\ Tidy(y, s, Live(s)) /\ Busy(y, s) /\ y.pool # <<>>
    BY <2>2, ServiceIs
  <2>4. OnlyMoves(s, y)
    BY <2>2, <2>3 DEF OnlyMoves, Stands
  <2>5. Places' \subseteq Places \cup Q
    BY <1>1, MovesPlaces
  <2>6. Live(s)' \subseteq Live(s)
    <3> SUFFICES ASSUME NEW n \in Live(s)' PROVE n \in Live(s)
      OBVIOUS
    <3>1. PICK p \in Places' : p[3] = s /\ p[4] = n
      BY <2>3, LiveNext
    <3>2. CASE p \in Places
      BY <2>3, <3>1, <3>2, LiveIs
    <3>3. CASE p \in Q
      BY <3>1, <3>3
    <3> QED BY <2>5, <3>2, <3>3
  <2>7. Tidy(y, s, Live(s)')
    BY <2>3, <2>6, TidyLess
  <2>8. \A u \in alive, n \in Nat, c, d \in Cos : Answers(y, c, n, u) /\ Answers(y, d, n, u) => c = d
    BY <1>1, <2>2, ServiceIs
  <2>9. (1 .. sv[s].session) \ Live(s) \subseteq (1 .. y.session) \ Live(s)'
    BY <2>2, <2>6
  <2>10. \A u \in alive : box'[u] = Append(box[u], m) =>
           /\ m.type = "response" => m.source \in alive
           /\ m.type = "error" => IF m.session = 0 THEN m.source \notin alive
                                  ELSE m.session \in (1 .. sv'[u].session) \ Live(u)'
    OBVIOUS
  <2>11. \A q \in Q : q \in Places' => sv'[q[3]].watchSession[q[4]] = IF q[2] = q[3] THEN None ELSE q[2]
    <3> SUFFICES ASSUME NEW q \in Q, q \in Places'
                 PROVE  sv'[q[3]].watchSession[q[4]] = IF q[2] = q[3] THEN None ELSE q[2]
      OBVIOUS
    <3>1. q[3] \in alive
      BY <1>1 DEF Places
    <3>2. sv'[q[3]] = sv[q[3]]
      BY <1>1, <3>1 DEF Stands
    <3> QED BY <3>2
  <2>12. \A q \in Q : q[3] = s \/ q[4] \in Live(q[3]) \/ q[3] \notin alive
    OBVIOUS
  <2>13. \A n \in Live(s) : n \in Live(s)' => y.watchSession[n] = sv[s].watchSession[n]
    BY <2>2
  <2> QED BY <2>3, <2>4, <2>7, <2>8, <2>9, <2>10, <2>11, <2>12, <2>13, ServiceStep
<1> QED BY <1>2, <1>3

\* drop_message: the source of a message left to a service that has exited is told.
LEMMA DropKeeps ==
  ASSUME SessionInv, NEW s \in Services, Drop(s)
  PROVE  SessionInv'
<1>1. s \notin alive /\ box[s] # <<>> /\ sv' = [sv EXCEPT ![s].rest = 0] /\ alive' = alive /\ timers' = timers
  BY DEF Drop
<1>2. Shaped /\ alive \subseteq Services /\ DOMAIN sv = Services /\ timers \subseteq Services \X Nat
      /\ \A u \in Services : box[u] \in Seq(Messages)
  BY DEF SessionInv, Shaped
<1>15. \A u \in Services : Stands(u)
  <2>1. \A u \in Services : u # s => sv'[u] = sv[u]
    BY <1>1, <1>2
  <2>2. sv'[s] = [sv[s] EXCEPT !.rest = 0]
    BY <1>1, <1>2
  <2>3. sv'[s].unknown = sv[s].unknown
    BY <2>2
  <2> QED BY <1>1, <2>1, <2>3 DEF Stands
<1>3. PICK m \in Messages : m = Head(box[s])
  BY <1>1, <1>2, HeadIs
<1>4. PICK e \in Messages : e = Err(0, s)
  BY MessageIs
<1>5. e.type = "error" /\ e.session = 0 /\ e.source = s
  BY <1>4, MessageIs
<1>6. PICK t : t = m.source
  OBVIOUS
<1>7. t \in Services
  BY <1>6 DEF Messages
<1>8. PICK left : left = [box EXCEPT ![s] = Tail(@)]
  OBVIOUS
<1>9. box' = IF t \in alive THEN [left EXCEPT ![t] = Append(@, e)] ELSE left
  BY <1>3, <1>4, <1>6, <1>8 DEF Drop, Err
<1>10. \A u \in Services : box'[u] = IF u = s THEN Tail(box[s])
                                     ELSE IF u = t /\ t \in alive THEN Append(box[u], e) ELSE box[u]
  BY <1>1, <1>2, <1>8, <1>9 DEF Shaped
<1>11. Boxed
  BY <1>2, <1>8, <1>9 DEF Shaped, Boxed
<1>12. Posted(e)
  BY <1>1, <1>5, <1>10 DEF Posted, Queued
<1>13. Moves(e, {})
  <2>1. \A u \in alive : From(sv[u], sv'[u], u, {})
    BY <1>2, <1>15, SelfFrom DEF Stands
  <2>2. Delivers(e, {})
    BY <1>5 DEF Delivers
  <2> QED BY <1>1, <1>2, <1>11, <1>12, <2>1, <2>2 DEF Moves, Boxed
<1>14. Single({})
  BY DEF Single
<1> QED BY <1>1, <1>5, <1>13, <1>14, <1>15, SameStep

\* A timeout: the session goes into the response.
LEMMA TimeOutKeeps ==
  ASSUME SessionInv, NEW t \in timers, TimeOut(t)
  PROVE  SessionInv'
<1>1. sv' = sv /\ alive' = alive /\ timers' = timers \ {t} /\ box' = Sent(t[1], Message("response", t[2], t[1]))
  BY DEF TimeOut
<1>2. Shaped /\ alive \subseteq Services /\ DOMAIN sv = Services /\ timers \subseteq Services \X Nat
      /\ OnePlace /\ Watches
  BY DEF SessionInv, Shaped
<1>17. \A w \in Services : Stands(w)
  BY <1>1 DEF Stands
<1>3. PICK u \in Services, n \in Nat : t = <<u, n>>
  BY <1>2
<1>4. PICK m \in Messages : m = Resp(n, u)
  BY MessageIs
<1>5. box' = Sent(u, m)
  BY <1>1, <1>3, <1>4 DEF Resp
<1>6. m.type = "response" /\ m.source = u /\ m.session = n
  BY <1>4, MessageIs
<1>7. PICK p : p = <<"timer", u, u, n>>
  OBVIOUS
<1>8. PICK q : q = <<"answer", u, u, n>>
  OBVIOUS
<1>9. p[3] = u /\ p[4] = n /\ p[2] = u /\ q[3] = u /\ q[4] = n /\ q[2] = u /\ p # q
  BY <1>7, <1>8
<1>10. u \in alive => p \in Places
  BY <1>3, <1>7 DEF Places, Kinds, Place
<1>11. u \in alive => ~ Has(box[u], m)
  <2>1. u \in alive /\ Has(box[u], m) => q \in Places
    BY <1>4, <1>8 DEF Places, Kinds, Place
  <2> QED BY <1>2, <1>9, <1>10, <2>1 DEF OnePlace
<1>12. Boxed /\ Posted(m) /\ \A w \in Services : box'[w] = Append(box[w], m) => w = u /\ u \in alive
  BY <1>2, <1>5, <1>11, SentPosts
<1>13. p \notin Places'
  BY <1>1, <1>3, <1>7 DEF Places, Place
<1>14. \A w \in alive : From(sv[w], sv'[w], w, {}) /\ From(sv[w], sv'[w], w, {q})
  BY <1>1, SelfFrom
<1>15. CASE u \in alive
  <2>1. Delivers(m, {q})
    BY <1>2, <1>6, <1>8, <1>12 DEF Delivers
  <2>2. Moves(m, {q})
    BY <1>1, <1>2, <1>12, <1>14, <2>1 DEF Moves, Boxed
  <2>3. Places' \subseteq Places \cup {q}
    BY <1>2, <2>2, MovesPlaces
  <2>4. Single({q})
    BY <1>2, <1>9, <1>10, <1>13, <1>15, <2>3, Moved
  <2>5. \A e \in {q} : e[4] \in Live(e[3])
    BY <1>9, <1>10, <1>15, LiveIs
  <2>6. \A e \in {q} : e \in Places' => sv[e[3]].watchSession[e[4]] = IF e[2] = e[3] THEN None ELSE e[2]
    BY <1>2, <1>9, <1>10, <1>15 DEF Watches
  <2>7. \A w \in alive : box'[w] = Append(box[w], m) =>
           /\ m.type = "response" => m.source \in alive
           /\ m.type = "error" => m.session = 0 /\ m.source \notin alive
    BY <1>6, <1>15
  <2> QED BY <1>1, <2>2, <2>4, <2>5, <2>6, <2>7, <1>17, SameStep
<1>16. CASE u \notin alive
  <2>1. Delivers(m, {})
    BY <1>2, <1>12, <1>16 DEF Delivers
  <2>2. Moves(m, {})
    BY <1>1, <1>2, <1>12, <1>14, <2>1 DEF Moves, Boxed
  <2>3. Single({})
    BY DEF Single
  <2>4. \A w \in alive : box'[w] = Append(box[w], m) =>
           /\ m.type = "response" => m.source \in alive
           /\ m.type = "error" => m.session = 0 /\ m.source \notin alive
    BY <1>2, <1>12, <1>16
  <2> QED BY <1>1, <1>17, <2>2, <2>3, <2>4, SameStep
<1> QED BY <1>15, <1>16

-----------------------------------------------------------------------------
(* A service that exits                                                        *)

\* r is the queue q with errors at its end, all of E.
Warned(q, r, E) ==
  /\ r \in Seq(Messages) /\ Len(q) <= Len(r)
  /\ \A i \in 1 .. Len(r) : IF i <= Len(q) THEN r[i] = q[i] ELSE r[i] \in E /\ r[i].type = "error"

\* Errors at the end of a queue.
LEMMA WarnedIs ==
  ASSUME NEW q \in Seq(Messages), NEW E \in SUBSET Messages, NEW e, Listed(E, e),
         \A m \in E : m.type = "error"
  PROVE  Warned(q, q \o e, E)
<1>1. e \in Seq(E) /\ e \in Seq(Messages)
  <2>1. e \in Seq(E)
    BY DEF Listed
  <2>2. \A i \in 1 .. Len(e) : e[i] \in E
    BY <2>1
  <2>3. \A i \in 1 .. Len(e) : e[i] \in Messages
    BY <2>2
  <2> QED BY <2>1, <2>3
<1>2. q \o e \in Seq(Messages) /\ Len(q \o e) = Len(q) + Len(e) /\ Len(q) \in Nat /\ Len(e) \in Nat
  BY <1>1
<1>3. \A i \in 1 .. Len(q \o e) : (q \o e)[i] = IF i <= Len(q) THEN q[i] ELSE e[i - Len(q)]
  BY <1>1
<1>4. \A i \in 1 .. Len(q \o e) : i > Len(q) => i - Len(q) \in 1 .. Len(e)
  BY <1>2
<1>5. \A i \in 1 .. Len(e) : e[i] \in E
  BY <1>1
<1>6. \A i \in 1 .. Len(q \o e) : ~ (i <= Len(q)) => (q \o e)[i] \in E
  <2> SUFFICES ASSUME NEW i \in 1 .. Len(q \o e), ~ (i <= Len(q)) PROVE (q \o e)[i] \in E
    OBVIOUS
  <2>1. i > Len(q)
    BY <1>2
  <2>2. i - Len(q) \in 1 .. Len(e) /\ (q \o e)[i] = e[i - Len(q)]
    BY <1>3, <1>4, <2>1
  <2> QED BY <1>5, <2>2
<1> QED BY <1>2, <1>3, <1>6 DEF Warned

\* Errors at the end of a queue are no requests and no responses.
LEMMA WarnedHas ==
  ASSUME NEW q \in Seq(Messages), NEW r, NEW E, Warned(q, r, E), NEW m, m.type # "error"
  PROVE  (Has(r, m) => Has(q, m)) /\ (Once(q, m) => Once(r, m))
<1>1. \A i \in 1 .. Len(r) : r[i] = m => i \in 1 .. Len(q) /\ q[i] = m
  BY DEF Warned
<1>2. Has(r, m) => Has(q, m)
  BY <1>1 DEF Has
<1>3. ASSUME Once(q, m), NEW i \in 1 .. Len(r), NEW j \in 1 .. Len(r), r[i] = m, r[j] = m PROVE i = j
  <2>1. i \in 1 .. Len(q) /\ q[i] = m /\ j \in 1 .. Len(q) /\ q[j] = m
    BY <1>1, <1>3
  <2> QED BY <1>3, <2>1 DEF Once
<1> QED BY <1>2, <1>3 DEF Once

\* What s tells t when it exits: errors of sessions of t that it has, or that it is down.
LEMMA FarewellIs ==
  ASSUME SessionInv, NEW s \in alive, NEW t \in alive, NEW E, E = Farewell(sv[s], s, t)
  PROVE  /\ E \in SUBSET Messages /\ IsFiniteSet(E)
         /\ \A m \in E : m.type = "error" /\ m.source = s
         /\ \A m \in E : m.session = 0 \/ \E k \in {"taken", "closure"} : <<k, s, t, m.session>> \in Places
<1>1. PICK x : x = sv[s]
  OBVIOUS
<1>2. s \in Services /\ t \in Services /\ Tidy(x, s, Live(s)) /\ alive \subseteq Services
  BY <1>1, ServiceIs DEF Shaped
<1>3. x.id \in [Cos -> Nat \cup {None}] /\ x.unresponse \subseteq [session : Nat, address : Services]
  BY <1>2 DEF Tidy, Typed
<1>4. \A m \in E : \E n \in Nat :
        /\ m = Err(n, s)
        /\ n = 0 \/ \E k \in {"taken", "closure"} : <<k, s, t, n>> \in Places
  <2> SUFFICES ASSUME NEW m \in E
               PROVE  \E n \in Nat : /\ m = Err(n, s)
                                     /\ n = 0 \/ \E k \in {"taken", "closure"} : <<k, s, t, n>> \in Places
    OBVIOUS
  <2>1. CASE m \in {Message("error", x.id[c], s) : c \in {d \in Cos : x.id[d] # None /\ x.address[d] = t}}
    <3>1. PICK c \in Cos : x.id[c] # None /\ x.address[c] = t /\ m = Message("error", x.id[c], s)
      BY <2>1
    <3>2. PICK n \in Nat : n = x.id[c]
      BY <1>3, <3>1
    <3>3. <<"taken", s, t, n>> \in Places
      BY <1>1, <1>2, <3>1, <3>2 DEF Places, Kinds, Place, Answers
    <3> QED BY <3>1, <3>2, <3>3 DEF Err
  <2>2. CASE m \in {Message("error", r.session, s) : r \in {q \in x.unresponse : q.address = t /\ t \notin x.dead}}
    <3>1. PICK r \in x.unresponse : r.address = t /\ m = Message("error", r.session, s)
      BY <2>2
    <3>2. PICK n \in Nat : n = r.session /\ r = [session |-> n, address |-> t]
      BY <1>3, <3>1
    <3>3. <<"closure", s, t, n>> \in Places
      BY <1>1, <1>2, <3>1, <3>2 DEF Places, Kinds, Place
    <3> QED BY <3>1, <3>2, <3>3 DEF Err
  <2>3. CASE m \in {Message("error", 0, s) : n \in {k \in Sessions(s) : x.watchSession[k] = t}}
    BY <2>3 DEF Err
  <2> QED BY <1>1, <2>1, <2>2, <2>3 DEF Farewell
<1>5. \A m \in E : m \in Messages /\ m.type = "error" /\ m.source = s
  <2> SUFFICES ASSUME NEW m \in E PROVE m \in Messages /\ m.type = "error" /\ m.source = s
    OBVIOUS
  <2>1. PICK n \in Nat : m = Err(n, s)
    BY <1>4
  <2> QED BY <1>2, <2>1, MessageIs
<1>6. \A m \in E : m.session = 0 \/ \E k \in {"taken", "closure"} : <<k, s, t, m.session>> \in Places
  <2> SUFFICES ASSUME NEW m \in E
               PROVE  m.session = 0 \/ \E k \in {"taken", "closure"} : <<k, s, t, m.session>> \in Places
    OBVIOUS
  <2>1. PICK n \in Nat : m = Err(n, s) /\ (n = 0 \/ \E k \in {"taken", "closure"} : <<k, s, t, n>> \in Places)
    BY <1>4
  <2>2. m.session = n
    BY <2>1, MessageIs
  <2> QED BY <2>1, <2>2
<1>7. PICK K \in Nat : K = sv[t].session
  <2>1. sv[t].session \in Nat
    BY ServiceIs DEF Tidy, Typed
  <2> QED BY <2>1
<1>8. \A k \in {"taken", "closure"}, n \in Nat : <<k, s, t, n>> \in Places => n \in 0 .. K
  <2> SUFFICES ASSUME NEW k \in {"taken", "closure"}, NEW n \in Nat, <<k, s, t, n>> \in Places PROVE n \in 0 .. K
    OBVIOUS
  <2>1. PICK p : p = <<k, s, t, n>>
    OBVIOUS
  <2>2. p \in Places /\ p[3] = t /\ p[4] = n
    BY <2>1
  <2>3. n \in 1 .. K
    BY <1>7, <2>2, LiveWithin
  <2> QED BY <2>3
<1>9. PICK T : T = {Err(n, s) : n \in 0 .. K}
  OBVIOUS
<1>10. E \subseteq T
  <2> SUFFICES ASSUME NEW m \in E PROVE m \in T
    OBVIOUS
  <2>1. PICK n \in Nat : m = Err(n, s) /\ (n = 0 \/ \E k \in {"taken", "closure"} : <<k, s, t, n>> \in Places)
    BY <1>4
  <2>2. n \in 0 .. K
    BY <1>8, <2>1
  <2> QED BY <1>9, <2>1, <2>2
<1>11. IsFiniteSet(T)
  <2>1. PICK f : f = [n \in 0 .. K |-> Err(n, s)]
    OBVIOUS
  <2>2. f \in Surjection(0 .. K, T)
    BY <1>9, <2>1 DEF Surjection
  <2>3. IsFiniteSet(0 .. K)
    <3>1. 0 \in Int /\ K \in Int
      OBVIOUS
    <3> QED BY <3>1, FS_Interval
  <2> QED BY <2>2, <2>3, FS_Surjection
<1>12. IsFiniteSet(E)
  BY <1>10, <1>11, FS_Subset
<1> QED BY <1>5, <1>6, <1>12

\* What goes on in a service that exits uses no unknown session.
LEMMA ExitedKnows ==
  ASSUME NEW s \in Services, NEW x, NEW L, Tidy(x, s, L), NEW c, Alone(x, c, s)
  PROVE  ~ Exited(x, c).unknown
<1>0. DOMAIN x = Fields /\ c \in Cos /\ x.pc \in [Cos -> States] /\ x.wakeups \in Seq(Tokens)
  BY DEF Tidy, Typed, Alone
<1>1. PICK w : w = [x EXCEPT !.pc[c] = "exited"]
  OBVIOUS
<1>2. /\ DOMAIN w = Fields /\ w.pc = [x.pc EXCEPT ![c] = "exited"]
      /\ w.run = x.run /\ w.pool = x.pool /\ w.id = x.id /\ w.address = x.address /\ w.waits = x.waits
      /\ w.watchSession = x.watchSession /\ w.sleeps = x.sleeps /\ w.wakeups = x.wakeups
      /\ w.errors = x.errors /\ w.forks = x.forks /\ w.unresponse = x.unresponse /\ w.session = x.session
      /\ w.ops = x.ops /\ w.threads = x.threads /\ w.unknown = x.unknown
  BY <1>0, <1>1 DEF Fields
<1>3. "exited" \in States /\ "exited" # "free"
  BY DEF States
<1>4. Typed(w, s)
  <2>1. w.pc \in [Cos -> States]
    BY <1>0, <1>2, <1>3
  <2> QED BY <1>2, <2>1 DEF Tidy, Typed
<1>5. Tidy(w, s, L)
  BY <1>2, <1>3, <1>4, PcTidy
<1>6. PICK y : y = [x EXCEPT !.forks = <<>>, !.unresponse = {}, !.pc[c] = "exited",
                !.watchService = [t \in Services |->
                    LET left == @[t] - Cardinality({r \in x.unresponse : r.address = t})
                    IN IF left > 0 THEN left ELSE 0]]
  OBVIOUS
<1>7. /\ DOMAIN y = Fields /\ y.pc = w.pc /\ y.pool = w.pool /\ y.id = w.id /\ y.address = w.address
      /\ y.waits = w.waits /\ y.watchSession = w.watchSession /\ y.sleeps = w.sleeps
      /\ y.wakeups = w.wakeups /\ y.errors = w.errors /\ y.forks = <<>> /\ y.unresponse = {}
      /\ y.session = w.session /\ y.ops = w.ops /\ y.threads = w.threads /\ y.unknown = w.unknown
  BY <1>0, <1>2, <1>6 DEF Fields
<1>8. Typed(y, s)
  <2>1. y.forks \in Seq(Cos) /\ y.unresponse \subseteq [session : Nat, address : Services]
    BY <1>7
  <2> QED BY <1>4, <1>7, <2>1 DEF Typed
<1>9. Tidy(y, s, L)
  <2>1. Pooled(y)
    <3>1. Len(y.forks) = 0
      BY <1>7
    <3> QED BY <1>5, <1>7, <3>1 DEF Tidy, Pooled
  <2>2. Waiting(y, s)
    <3>1. Len(y.forks) = 0
      BY <1>7
    <3> QED BY <1>5, <1>7, <3>1 DEF Tidy, Waiting
  <2>3. Sleeping(y, s, L) /\ Failing(y, L) /\ Expected(y, L)
    BY <1>5, <1>7 DEF Tidy, Sleeping, Failing, Expected
  <2> QED BY <1>8, <2>1, <2>2, <2>3 DEF Tidy
<1>10. Exited(x, c) = IF x.frames > 0 THEN Errors([y EXCEPT !.frames = @ - 1]) ELSE Forks(y)
  BY <1>6 DEF Exited
<1>11. CASE x.frames > 0
  <2>1. PICK z : z = [y EXCEPT !.frames = @ - 1]
    OBVIOUS
  <2>2. Typed(z, s) /\ Core(z) = Core(y)
    BY <1>7, <1>8, <2>1 DEF Fields, Typed, Core
  <2>3. Tidy(z, s, L)
    BY <1>9, <2>2, CoreTidy
  <2>4. Tidy(Errors(z), s, L)
    BY <2>3, ErrorsTidy DEF Follows
  <2> QED BY <1>10, <1>11, <2>1, <2>4 DEF Tidy, Expected
<1>12. CASE ~ (x.frames > 0)
  <2>1. Exited(x, c) = [y EXCEPT !.run = None, !.frames = 0]
    BY <1>7, <1>10, <1>12 DEF Forks
  <2>2. Exited(x, c).unknown = y.unknown
    BY <1>7, <2>1 DEF Fields
  <2> QED BY <1>9, <2>2 DEF Tidy, Expected
<1> QED BY <1>11, <1>12

\* skynet.exit: the sessions that s has are told to be errors, behind all that it has
\* answered.
LEMMA ExitKeeps ==
  ASSUME SessionInv, NEW s \in Services, s \in alive, NEW c \in Cos, Exit(s, c)
  PROVE  SessionInv'
<1>0. alive' = alive \ {s} /\ timers' = timers /\ Shaped /\ alive \subseteq Services
      /\ OnePlace /\ InPlaceOnce /\ Watches /\ ErrorsAreLast /\ DOMAIN sv = Services /\ sv[s].run = c
  BY DEF Exit, Does, SessionInv, Shaped
<1>13. PICK x : (x = sv[s] \/ x = [sv[s] EXCEPT !.rest = Len(box[s]) - 1]) /\ sv' = [sv EXCEPT ![s] = Exited(x, c)]
  BY DEF Exit
<1>14. DOMAIN sv' = Services /\ (\A t \in Services : t # s => sv'[t] = sv[t]) /\ sv'[s] = Exited(x, c)
  BY <1>0, <1>13
<1>1. PICK W : W = [t \in Services |-> Farewell(sv[s], s, t)]
  OBVIOUS
<1>2. \A t \in alive : Warned(box[t], box'[t], W[t])
  <2> SUFFICES ASSUME NEW t \in alive PROVE Warned(box[t], box'[t], W[t])
    OBVIOUS
  <2>1. PICK E : E = Farewell(sv[s], s, t)
    OBVIOUS
  <2>2. E \in SUBSET Messages /\ IsFiniteSet(E) /\ \A m \in E : m.type = "error"
    <3>1. E \in SUBSET Messages /\ IsFiniteSet(E)
      BY <1>0, <2>1, FarewellIs
    <3>2. \A m \in E : m.type = "error" /\ m.source = s
      BY <1>0, <2>1, FarewellIs
    <3> QED BY <3>1, <3>2
  <2>3. PICK e : e = SetToSeq(E)
    OBVIOUS
  <2>4. Listed(E, e)
    BY <2>2, <2>3, SetToSeqIs
  <2>5. t \in Services /\ box[t] \in Seq(Messages)
    BY <1>0 DEF Shaped
  <2>6. box'[t] = box[t] \o e
    BY <2>1, <2>3, <2>5 DEF Exit
  <2>7. Warned(box[t], box[t] \o e, E)
    BY <2>2, <2>4, <2>5, WarnedIs
  <2> QED BY <1>1, <2>1, <2>5, <2>6, <2>7
<1>3. Shaped'
  <2>1. \A t \in Services : box'[t] \in Seq(Messages)
    <3> SUFFICES ASSUME NEW t \in Services PROVE box'[t] \in Seq(Messages)
      OBVIOUS
    <3>1. CASE t \in alive
      BY <1>2, <3>1 DEF Warned
    <3>2. CASE t \notin alive
      BY <1>0, <3>2 DEF Exit, Shaped
    <3> QED BY <3>1, <3>2
  <2>2. box' = [t \in Services |-> box'[t]]
    BY DEF Exit
  <2>3. box' \in [Services -> Seq(Messages)]
    BY <2>1, <2>2
  <2> QED BY <1>0, <1>14, <2>3 DEF Shaped
<1>4. \A t \in alive : \A m : m.type # "error" =>
        (Has(box'[t], m) => Has(box[t], m)) /\ (Once(box[t], m) => Once(box'[t], m))
  <2> SUFFICES ASSUME NEW t \in alive, NEW m, m.type # "error"
               PROVE  (Has(box'[t], m) => Has(box[t], m)) /\ (Once(box[t], m) => Once(box'[t], m))
    OBVIOUS
  <2>1. box[t] \in Seq(Messages) /\ Warned(box[t], box'[t], W[t])
    BY <1>0, <1>2 DEF Shaped
  <2> QED BY <2>1, WarnedHas
<1>5. \A n, t : Req(n, t).type # "error" /\ Resp(n, t).type # "error"
  BY MessageIs
<1>6. Places' \subseteq Places
  <2> SUFFICES ASSUME NEW p \in Places' PROVE p \in Places
    OBVIOUS
  <2>1. PICK k \in Kinds, t \in Services, u \in Services, n \in Nat : p = <<k, t, u, n>>
    BY DEF Places
  <2>2. u \in alive /\ Place(k, t, u, n)'
    BY <1>0, <2>1 DEF Places
  <2>3. CASE k = "timer"
    BY <1>0, <2>1, <2>2, <2>3 DEF Places, Place
  <2>4. CASE k = "asked"
    <3>1. t \in alive /\ Has(box'[t], Req(n, u))
      BY <1>0, <2>2, <2>4 DEF Place, Has, Req, Message
    <3>2. Has(box[t], Req(n, u))
      BY <1>4, <1>5, <3>1
    <3> QED BY <2>1, <2>2, <2>4, <3>1, <3>2 DEF Places, Place
  <2>5. CASE k = "taken"
    <3>1. t \in alive /\ t # s
      BY <1>0, <2>2, <2>5 DEF Place
    <3>2. sv'[t] = sv[t]
      BY <1>14, <3>1
    <3> QED BY <2>1, <2>2, <2>5, <3>1, <3>2 DEF Places, Place, Answers
  <2>6. CASE k = "closure"
    <3>1. t \in alive /\ t # s
      BY <1>0, <2>2, <2>6 DEF Place
    <3>2. sv'[t] = sv[t]
      BY <1>14, <3>1
    <3> QED BY <2>1, <2>2, <2>6, <3>1, <3>2 DEF Places, Place
  <2>7. CASE k = "answer"
    <3>1. Has(box'[u], Resp(n, t))
      BY <2>2, <2>7 DEF Place, Has, Resp, Message
    <3>2. Has(box[u], Resp(n, t))
      BY <1>4, <1>5, <2>2, <3>1
    <3> QED BY <2>1, <2>2, <2>7, <3>2 DEF Places, Place
  <2> QED BY <2>3, <2>4, <2>5, <2>6, <2>7 DEF Kinds
<1>7. \A t \in Services : Live(t)' \subseteq Live(t)
  BY <1>6, LiveIs, LiveNext
<1>8. OnePlace' /\ Watches'
  <2>1. \A p \in Places' : p[3] \in alive /\ p[3] # s
    BY <1>0, <1>6 DEF Places
  <2>2. \A p \in Places' : sv'[p[3]] = sv[p[3]]
    BY <1>0, <1>14, <2>1
  <2> QED BY <1>0, <1>6, <2>2 DEF OnePlace, Watches
<1>9. InPlaceOnce'
  <2> SUFFICES ASSUME NEW u \in alive', NEW t \in Services, NEW n \in Nat
               PROVE  /\ Once(box'[u], Resp(n, t))
                      /\ t \in alive' =>
                           /\ Once(box'[t], Req(n, u))
                           /\ \A d, e \in Cos : Answers(sv'[t], d, n, u) /\ Answers(sv'[t], e, n, u) => d = e
    BY DEF InPlaceOnce, Once, Answers, Req, Resp, Message
  <2>1. u \in alive /\ (t \in alive' => t \in alive /\ sv'[t] = sv[t])
    BY <1>0, <1>14
  <2>2. Once(box[u], Resp(n, t)) /\ (t \in alive => Once(box[t], Req(n, u)))
    BY <1>0, <2>1 DEF InPlaceOnce
  <2>3. Once(box'[u], Resp(n, t)) /\ (t \in alive => Once(box'[t], Req(n, u)))
    BY <1>4, <1>5, <2>1, <2>2
  <2>4. t \in alive' => \A d, e \in Cos : Answers(sv'[t], d, n, u) /\ Answers(sv'[t], e, n, u) => d = e
    BY <1>0, <2>1 DEF InPlaceOnce
  <2> QED BY <2>1, <2>3, <2>4
<1>10. ErrorsAreLast'
  <2> SUFFICES ASSUME NEW u \in alive', NEW i \in 1 .. Len(box'[u]), box'[u][i].type = "error"
               PROVE  IF box'[u][i].session = 0
                      THEN /\ box'[u][i].source \notin alive'
                           /\ \A j \in i .. Len(box'[u]) :
                                box'[u][j].type = "response" => box'[u][j].source # box'[u][i].source
                      ELSE box'[u][i].session \in (1 .. sv'[u].session) \ Live(u)'
    BY DEF ErrorsAreLast
  <2>1. u \in alive /\ u \in Services /\ sv'[u] = sv[u]
    BY <1>0, <1>14
  <2>2. PICK q \in Seq(Messages) : q = box[u]
    BY <2>1, <1>0 DEF Shaped
  <2>3. PICK r : r = box'[u]
    OBVIOUS
  <2>4. PICK E : E = W[u]
    OBVIOUS
  <2>5. Warned(q, r, E)
    BY <1>2, <2>1, <2>2, <2>3, <2>4
  <2>6. \A k \in 1 .. Len(q) : q[k].type = "error" =>
          IF q[k].session = 0
          THEN /\ q[k].source \notin alive
               /\ \A j \in k .. Len(q) : q[j].type = "response" => q[j].source # q[k].source
          ELSE q[k].session \in (1 .. sv[u].session) \ Live(u)
    BY <1>0, <2>1, <2>2 DEF ErrorsAreLast
  <2>7. \A m \in E : /\ m.source = s
                     /\ m.session = 0 \/ \E k \in {"taken", "closure"} : <<k, s, u, m.session>> \in Places
    <3>1. E = Farewell(sv[s], s, u)
      BY <1>1, <2>1, <2>4
    <3> QED BY <1>0, <2>1, <3>1, FarewellIs
  <2> SUFFICES ASSUME i \in 1 .. Len(r), r[i].type = "error"
               PROVE  IF r[i].session = 0
                      THEN /\ r[i].source \notin alive'
                           /\ \A j \in i .. Len(r) : r[j].type = "response" => r[j].source # r[i].source
                      ELSE r[i].session \in (1 .. sv[u].session) \ Live(u)'
    BY <2>1, <2>3
  <2>8. \A j \in i .. Len(r) : j \in 1 .. Len(r) /\ (j <= Len(q) => j \in i .. Len(q) /\ i \in 1 .. Len(q))
    OBVIOUS
  <2>9. \A j \in 1 .. Len(r) : r[j].type = "response" => j <= Len(q) /\ r[j] = q[j]
    BY <2>5 DEF Warned
  <2>10. CASE i <= Len(q)
    <3>1. i \in 1 .. Len(q) /\ r[i] = q[i]
      BY <2>5, <2>10 DEF Warned
    <3>2. CASE r[i].session # 0
      BY <1>7, <2>1, <2>6, <3>1, <3>2
    <3>3. CASE r[i].session = 0
      <4>1. r[i].source \notin alive /\ \A j \in i .. Len(q) : q[j].type = "response" => q[j].source # r[i].source
        BY <2>6, <3>1, <3>3
      <4>2. \A j \in i .. Len(r) : r[j].type = "response" => r[j].source # r[i].source
        BY <2>8, <2>9, <4>1
      <4> QED BY <1>0, <3>3, <4>1, <4>2
    <3> QED BY <3>2, <3>3
  <2>11. CASE ~ (i <= Len(q))
    <3>1. r[i] \in E
      BY <2>5, <2>11 DEF Warned
    <3>2. \A j \in i .. Len(r) : r[j].type # "response"
      BY <2>8, <2>9, <2>11
    <3>3. CASE r[i].session = 0
      BY <1>0, <2>7, <3>1, <3>2, <3>3
    <3>4. CASE r[i].session # 0
      <4>1. PICK k \in {"taken", "closure"} : <<k, s, u, r[i].session>> \in Places
        BY <2>7, <3>1, <3>4
      <4>2. PICK p : p = <<k, s, u, r[i].session>>
        OBVIOUS
      <4>3. p \in Places /\ p[3] = u /\ p[4] = r[i].session /\ p[2] = s /\ p[1] \in {"taken", "closure"}
        BY <4>1, <4>2
      <4>4. p \notin Places'
        BY <1>0, <4>3 DEF Places, Place
      <4>5. r[i].session \notin Live(u)'
        BY <1>0, <1>6, <4>3, <4>4, WentAway
      <4>6. r[i].session \in 1 .. sv[u].session
        BY <4>3, LiveWithin
      <4> QED BY <3>4, <4>5, <4>6
    <3> QED BY <3>3, <3>4
  <2> QED BY <2>10, <2>11
<1>11. \A t \in alive' : Tidy(sv[t], t, Live(t))' /\ Busy(sv[t], t)' /\ sv'[t].pool # <<>>
  <2> SUFFICES ASSUME NEW t \in alive' PROVE Tidy(sv'[t], t, Live(t)') /\ Busy(sv'[t], t) /\ sv'[t].pool # <<>>
    OBVIOUS
  <2>1. t \in alive /\ t \in Services /\ sv'[t] = sv[t]
    BY <1>0, <1>14
  <2>2. PICK z : z = sv[t]
    OBVIOUS
  <2>3. Tidy(z, t, Live(t)) /\ Busy(z, t) /\ z.pool # <<>>
    BY <2>1, <2>2, ServiceIs
  <2>4. Tidy(z, t, Live(t)')
    BY <1>7, <2>1, <2>3, TidyLess
  <2> QED BY <2>1, <2>2, <2>3, <2>4
<1>12. \A t \in Services : ~ sv'[t].unknown
  <2>1. PICK v : v = sv[s]
    OBVIOUS
  <2>2. Tidy(v, s, Live(s)) /\ Alone(v, c, s) /\ DOMAIN v = Fields
    BY <1>0, <2>1, RunningIs
  <2>3. Tidy(x, s, Live(s)) /\ Alone(x, c, s)
    <3>1. CASE x = v
      BY <2>2, <3>1
    <3>2. CASE x = [v EXCEPT !.rest = Len(box[s]) - 1]
      <4>1. Typed(x, s) /\ Core(x) = Core(v)
        BY <2>2, <3>2 DEF Fields, Tidy, Typed, Core
      <4> QED BY <2>2, <4>1, CoreTidy, CoreAlone
    <3> QED BY <1>13, <2>1, <3>1, <3>2
  <2>4. ~ Exited(x, c).unknown
    BY <2>3, ExitedKnows
  <2> QED BY <1>14, <2>4 DEF SessionInv
<1> QED BY <1>3, <1>8, <1>9, <1>10, <1>11, <1>12 DEF SessionInv

-----------------------------------------------------------------------------
(* The invariant                                                               *)

\* A service before its first message.
LEMMA StartIs ==
  ASSUME NEW s \in Services, NEW x, NEW c \in Cos, NEW q, DOMAIN x = Fields,
         x.run = None, x.pc = [d \in Cos |-> IF d = c THEN "new" ELSE "free"],
         Listed(Cos \ {c}, q), x.pool = q,
         x.id = [d \in Cos |-> None], x.address = [d \in Cos |-> None],
         x.waits = [n \in Sessions(s) |-> IF n = 1 THEN c ELSE None],
         x.watchSession = [n \in Sessions(s) |-> None], x.sleeps = [d \in Cos |-> None],
         x.wakeups = <<>>, x.errors = <<>>, x.forks = <<>>, x.threads = <<>>, x.unresponse = {},
         x.session = 1, x.ops \in 0 .. MaxOps[s], x.unknown = FALSE,
         NEW L, L \subseteq {1}
  PROVE  Tidy(x, s, L) /\ Busy(x, s)
<1>1. q \in Seq(Cos) /\ (\A i \in 1 .. Len(q) : q[i] \in Cos \ {c})
      /\ (\A i, j \in 1 .. Len(q) : q[i] = q[j] => i = j)
  <2>1. q \in Seq(Cos \ {c})
    BY DEF Listed
  <2>2. \A i \in 1 .. Len(q) : q[i] \in Cos \ {c}
    BY <2>1
  <2>3. q \in Seq(Cos)
    BY <2>1
  <2> QED BY <2>2, <2>3 DEF Listed
<1>2. 1 \in Sessions(s) /\ Sessions(s) \subseteq Nat \ {0} /\ MaxOps[s] \in Nat
  <2>1. 1 \in Nat /\ 1 \in 1 .. MaxOps[s] + 1 /\ MaxOps[s] \in Nat
    BY MaxOpsAssumption
  <2> QED BY <2>1, SessionNumbers
<1>3. None \notin Cos
  BY NamesAssumption
<1>4. Typed(x, s)
  <2>1. x.pc \in [Cos -> States]
    BY DEF States
  <2>2. x.wakeups \in Seq(Tokens) /\ x.forks \in Seq(Cos) /\ x.threads \in Seq(Tokens) /\ x.errors \in Seq(Sessions(s))
    OBVIOUS
  <2>3. x.waits \in [Sessions(s) -> Cos \cup {None, Break}]
        /\ x.watchSession \in [Sessions(s) -> (Services \ {s}) \cup {None}]
    OBVIOUS
  <2>4. x.id \in [Cos -> Nat \cup {None}] /\ x.address \in [Cos -> Services \cup {None}]
        /\ x.sleeps \in [Cos -> Sessions(s) \cup {None}] /\ \A d \in Cos : x.id[d] = None
    OBVIOUS
  <2>5. x.session \in Nat /\ x.ops \in Nat /\ x.ops <= MaxOps[s] /\ 1 <= x.session /\ x.session <= x.ops + 1
    BY <1>2
  <2>6. x.pool \in Seq(Cos)
    BY <1>1
  <2> QED BY <2>1, <2>2, <2>3, <2>4, <2>5, <2>6 DEF Typed
<1>5. Pooled(x)
  BY <1>1 DEF Pooled
<1>6. Waiting(x, s)
  <2>1. \A n \in Sessions(s) : x.waits[n] \in Cos => n = 1 /\ x.waits[n] = c
    BY <1>3
  <2> QED BY <1>2, <1>3, <2>1 DEF Waiting
<1>7. Sleeping(x, s, L) /\ Failing(x, L)
  BY DEF Sleeping, Failing
<1>8. Expected(x, L)
  BY <1>2, <1>3 DEF Expected
<1> QED BY <1>4, <1>5, <1>6, <1>7, <1>8 DEF Tidy, Busy

\* Every service starts with the response that starts it.
LEMMA SessionStart == Init => SessionInv
<1> SUFFICES ASSUME Init PROVE SessionInv
  OBVIOUS
<1>1. PICK c : c = CHOOSE d \in Cos : TRUE
  OBVIOUS
<1>2. c \in Cos
  <2>1. Cos # {}
    BY CosAssumption, FS_EmptySet
  <2> QED BY <1>1, <2>1
<1>3. PICK q : q = SetToSeq(Cos \ {c})
  OBVIOUS
<1>4. Listed(Cos \ {c}, q) /\ q # <<>>
  <2>1. IsFiniteSet(Cos \ {c}) /\ Cardinality(Cos \ {c}) = Cardinality(Cos) - 1
    BY <1>2, CosAssumption, FS_RemoveElement
  <2>2. Listed(Cos \ {c}, q) /\ Len(q) = Cardinality(Cos \ {c})
    BY <1>3, <2>1, SetToSeqIs
  <2>3. Cardinality(Cos) \in Nat /\ Cardinality(Cos) > 1
    BY CosAssumption, FS_CardinalityType
  <2>4. Len(q) # 0
    BY <2>1, <2>2, <2>3
  <2> QED BY <2>2, <2>4
<1>5. alive = Services /\ timers = {} /\ DOMAIN sv = Services
      /\ box = [s \in Services |-> <<Resp(1, s)>>]
  BY DEF Init, Resp, Message
<1>6. \A s \in Services :
        /\ DOMAIN sv[s] = Fields
        /\ sv[s].run = None /\ sv[s].pc = [d \in Cos |-> IF d = c THEN "new" ELSE "free"] /\ sv[s].pool = q
        /\ sv[s].id = [d \in Cos |-> None] /\ sv[s].address = [d \in Cos |-> None]
        /\ sv[s].waits = [n \in Sessions(s) |-> IF n = 1 THEN c ELSE None]
        /\ sv[s].watchSession = [n \in Sessions(s) |-> None] /\ sv[s].sleeps = [d \in Cos |-> None]
        /\ sv[s].wakeups = <<>> /\ sv[s].errors = <<>> /\ sv[s].forks = <<>> /\ sv[s].threads = <<>>
        /\ sv[s].unresponse = {} /\ sv[s].session = 1 /\ sv[s].ops \in 0 .. MaxOps[s] /\ sv[s].unknown = FALSE
  <2> SUFFICES ASSUME NEW s \in Services
               PROVE  /\ DOMAIN sv[s] = Fields
                      /\ sv[s].run = None /\ sv[s].pc = [d \in Cos |-> IF d = c THEN "new" ELSE "free"]
                      /\ sv[s].pool = q
                      /\ sv[s].id = [d \in Cos |-> None] /\ sv[s].address = [d \in Cos |-> None]
                      /\ sv[s].waits = [n \in Sessions(s) |-> IF n = 1 THEN c ELSE None]
                      /\ sv[s].watchSession = [n \in Sessions(s) |-> None] /\ sv[s].sleeps = [d \in Cos |-> None]
                      /\ sv[s].wakeups = <<>> /\ sv[s].errors = <<>> /\ sv[s].forks = <<>> /\ sv[s].threads = <<>>
                      /\ sv[s].unresponse = {} /\ sv[s].session = 1 /\ sv[s].ops \in 0 .. MaxOps[s] /\ sv[s].unknown = FALSE
    OBVIOUS
  <2>3. PICK spent \in Spent : sv = [u \in Services |->
          [run |-> None, pc |-> [d \in Cos |-> IF d = (CHOOSE e \in Cos : TRUE) THEN "new" ELSE "free"], pool |-> SetToSeq(Cos \ {CHOOSE e \in Cos : TRUE}),
           id |-> [d \in Cos |-> None], address |-> [d \in Cos |-> None],
           waits |-> [n \in Sessions(u) |-> IF n = 1 THEN (CHOOSE e \in Cos : TRUE) ELSE None],
           watchSession |-> [n \in Sessions(u) |-> None], watchService |-> [t \in Services |-> 0],
           dead |-> {}, sleeps |-> [d \in Cos |-> None], wakeups |-> <<>>, errors |-> <<>>, forks |-> <<>>,
           frames |-> 0, rest |-> 0, unresponse |-> {}, session |-> 1, ops |-> spent[u].ops,
           calls |-> spent[u].calls, current |-> None, ref |-> 0, threads |-> <<>>,
           depth |-> [d \in Cos |-> 0], unknown |-> FALSE, stale |-> [t \in Services |-> 0],
           disturbed |-> FALSE]]
    BY DEF Init
  <2>1. sv[s] =
          [run |-> None, pc |-> [d \in Cos |-> IF d = c THEN "new" ELSE "free"], pool |-> q,
           id |-> [d \in Cos |-> None], address |-> [d \in Cos |-> None],
           waits |-> [n \in Sessions(s) |-> IF n = 1 THEN c ELSE None],
           watchSession |-> [n \in Sessions(s) |-> None], watchService |-> [t \in Services |-> 0],
           dead |-> {}, sleeps |-> [d \in Cos |-> None], wakeups |-> <<>>, errors |-> <<>>, forks |-> <<>>,
           frames |-> 0, rest |-> 0, unresponse |-> {}, session |-> 1, ops |-> spent[s].ops,
           calls |-> spent[s].calls, current |-> None, ref |-> 0, threads |-> <<>>,
           depth |-> [d \in Cos |-> 0], unknown |-> FALSE, stale |-> [t \in Services |-> 0],
           disturbed |-> FALSE]
    BY <1>1, <1>3, <2>3
  <2>2. spent[s].ops \in 0 .. MaxOps[s]
    BY SpentAssumption
  <2> QED BY <2>1, <2>2 DEF Fields
<1>7. Shaped
  <2>1. \A s \in Services : Resp(1, s) \in Messages
    BY MessageIs
  <2>2. \A s \in Services : box[s] \in Seq(Messages)
    BY <1>5, <2>1
  <2> QED BY <1>5, <2>2 DEF Shaped
<1>8. \A s \in Services : box[s] = <<Resp(1, s)>>
  BY <1>5
<1>9. ASSUME NEW p \in Places PROVE p = <<"answer", p[3], p[3], 1>>
  <2>1. PICK k \in Kinds, t \in Services, s \in Services, n \in Nat : p = <<k, t, s, n>> /\ Place(k, t, s, n)
    BY DEF Places
  <2>2. n # None
    BY NamesAssumption
  <2>3. k # "timer" /\ k # "taken" /\ k # "closure"
    <3>0. sv[t].id = [d \in Cos |-> None]
      BY <1>6
    <3>1. \A d \in Cos : sv[t].id[d] = None
      BY <3>0
    <3>2. sv[t].unresponse = {}
      BY <1>6
    <3> QED BY <1>5, <2>1, <2>2, <3>1, <3>2 DEF Place, Answers
  <2>4. k # "asked"
    <3>1. \A m : Has(box[t], m) => m = Resp(1, t)
      BY <1>8 DEF Has
    <3>2. Req(n, s) # Resp(1, t)
      BY MessageIs
    <3> QED BY <2>1, <3>1, <3>2 DEF Place
  <2>5. Has(box[s], Resp(n, t))
    BY <2>1, <2>3, <2>4 DEF Place, Kinds
  <2>6. Resp(n, t) = Resp(1, s)
    BY <1>8, <2>5 DEF Has
  <2>7. n = 1 /\ t = s
    BY <2>6, MessageIs
  <2> QED BY <2>1, <2>3, <2>4, <2>7 DEF Kinds
<1>10. \A s \in Services : Live(s) \subseteq {1}
  <2> SUFFICES ASSUME NEW s \in Services, NEW n \in Live(s) PROVE n = 1
    OBVIOUS
  <2>1. PICK p \in Places : p[3] = s /\ p[4] = n
    BY LiveIs
  <2> QED BY <1>9, <2>1
<1>11. \A s \in alive : Tidy(sv[s], s, Live(s)) /\ Busy(sv[s], s) /\ sv[s].pool # <<>>
  <2> SUFFICES ASSUME NEW s \in Services PROVE Tidy(sv[s], s, Live(s)) /\ Busy(sv[s], s) /\ sv[s].pool # <<>>
    BY <1>5
  <2>1. PICK x : x = sv[s]
    OBVIOUS
  <2>2. Tidy(x, s, Live(s)) /\ Busy(x, s)
    BY <1>2, <1>4, <1>6, <1>10, <2>1, StartIs
  <2> QED BY <1>4, <1>6, <2>1, <2>2
<1>12. OnePlace
  <2> SUFFICES ASSUME NEW p \in Places, NEW r \in Places, p[3] = r[3] PROVE p = r
    BY DEF OnePlace
  <2> QED BY <1>9
<1>13. InPlaceOnce
  <2> SUFFICES ASSUME NEW s \in alive, NEW t \in Services, NEW n \in Nat
               PROVE  /\ Once(box[s], Resp(n, t))
                      /\ t \in alive =>
                           /\ Once(box[t], Req(n, s))
                           /\ \A d, e \in Cos : Answers(sv[t], d, n, s) /\ Answers(sv[t], e, n, s) => d = e
    BY DEF InPlaceOnce
  <2>1. \A u \in Services : \A m : Once(box[u], m)
    BY <1>8 DEF Once
  <2>2. \A d \in Cos : ~ Answers(sv[t], d, n, s)
    <3>0. sv[t].id = [d \in Cos |-> None]
      BY <1>6
    <3>1. \A d \in Cos : sv[t].id[d] = None
      BY <3>0
    <3>2. n # None
      BY NamesAssumption
    <3> QED BY <3>1, <3>2 DEF Answers
  <2> QED BY <1>5, <2>1, <2>2
<1>14. Watches
  <2> SUFFICES ASSUME NEW p \in Places
               PROVE  sv[p[3]].watchSession[p[4]] = IF p[2] = p[3] THEN None ELSE p[2]
    BY DEF Watches
  <2>1. p[3] \in Services /\ p[2] = p[3] /\ p[4] = 1
    BY <1>9, PlaceOf
  <2>2. 1 \in Sessions(p[3])
    <3>1. 1 \in Nat /\ 1 \in 1 .. MaxOps[p[3]] + 1
      BY <2>1, MaxOpsAssumption
    <3> QED BY <2>1, <3>1, SessionNumbers
  <2> QED BY ZenonT(60), <1>6, <2>1, <2>2
<1>15. ErrorsAreLast
  <2>1. \A s \in Services : \A i \in 1 .. Len(box[s]) : box[s][i] = Resp(1, s)
    BY <1>8
  <2>2. \A s \in Services : \A i \in 1 .. Len(box[s]) : box[s][i].type # "error"
    BY <2>1, MessageIs
  <2> QED BY <1>5, <2>2 DEF ErrorsAreLast
<1>16. \A s \in Services : ~ sv[s].unknown
  BY <1>6
<1> QED BY <1>7, <1>11, <1>12, <1>13, <1>14, <1>15, <1>16 DEF SessionInv

\* A service that has exited goes on only as one that is late for ever.
LEMMA LateIs ==
  ASSUME [Next]_vars, late' = {}
  PROVE  late = {} /\ \A s \in Services : Service(s) => s \in alive \/ Drop(s)
<1>1. ASSUME UNCHANGED vars PROVE late = {}
  BY <1>1 DEF vars
<1>2. ASSUME NEW s \in Services, Service(s) PROVE late = {} /\ (s \in alive \/ Drop(s))
  <2>1. CASE Drop(s) /\ UNCHANGED late
    BY <2>1
  <2>2. CASE late' = IF s \in alive THEN late ELSE late \cup {s}
    BY <2>2
  <2> QED BY <1>2, <2>1, <2>2 DEF Service
<1>3. ASSUME NEW t \in timers, TimeOut(t) /\ UNCHANGED late PROVE late = {}
  BY <1>3
<1> QED BY <1>1, <1>2, <1>3 DEF Next

\* As long as no service goes on after its exit, every step keeps the invariant.
LEMMA SessionKept == SessionInv /\ [Next]_vars /\ late' = {} => SessionInv'
<1> SUFFICES ASSUME SessionInv, [Next]_vars, late' = {} PROVE SessionInv'
  OBVIOUS
<1>1. CASE UNCHANGED vars
  <2>1. sv' = sv /\ box' = box /\ alive' = alive /\ timers' = timers
    BY <1>1 DEF vars
  <2>2. Shaped'
    BY <2>1 DEF SessionInv, Shaped
  <2>3. Places' = Places
    BY <2>1 DEF Places, Place, Has, Answers, Req, Resp, Message
  <2>4. \A s : Live(s)' = Live(s)
    BY <2>3 DEF Live
  <2>5. OnePlace' /\ Watches'
    BY <2>1, <2>3 DEF SessionInv, OnePlace, Watches
  <2>6. InPlaceOnce'
    BY <2>1 DEF SessionInv, InPlaceOnce, Once, Answers, Req, Resp, Message
  <2>7. ErrorsAreLast'
    BY <2>1, <2>4 DEF SessionInv, ErrorsAreLast
  <2>8. \A s \in alive : Tidy(sv'[s], s, Live(s)') /\ Busy(sv'[s], s) /\ sv'[s].pool # <<>>
    BY <2>1, <2>4 DEF SessionInv
  <2>9. \A s \in Services : ~ sv'[s].unknown
    BY <2>1 DEF SessionInv
  <2>10. \A s \in alive' : Tidy(sv[s], s, Live(s))' /\ Busy(sv[s], s)' /\ sv'[s].pool # <<>>
    BY <2>1, <2>8
  <2> QED BY <2>2, <2>5, <2>6, <2>7, <2>9, <2>10 DEF SessionInv
<1>2. ASSUME NEW s \in Services, s \in alive, NEW c \in Cos, Running(s, c) PROVE SessionInv'
  BY <1>2, SleepKeeps, ForkKeeps, RetKeeps, ResponseKeeps, FailKeeps, EndKeeps, EnterKeeps, EnteredKeeps,
     LeaveKeeps, ExitKeeps, CallKeeps, WakeupKeeps, RespondKeeps DEF Running
<1>3. ASSUME NEW s \in Services, Service(s) PROVE SessionInv'
  <2>1. s \in alive \/ Drop(s)
    BY <1>3, LateIs
  <2>2. CASE Drop(s)
    BY <2>2, DropKeeps
  <2>3. CASE s \in alive /\ ~ Drop(s)
    BY <1>2, <1>3, <2>3, TakeResponseKeeps, TakeRequestKeeps, TakeErrorKeeps DEF Service
  <2> QED BY <2>1, <2>2, <2>3
<1>4. ASSUME NEW t \in timers, TimeOut(t) PROVE SessionInv'
  BY <1>4, TimeOutKeeps
<1> QED BY <1>1, <1>3, <1>4 DEF Next

\* The invariant of the sessions holds of every behaviour in which no service goes on after its
\* exit, in what is left of the batch or of the calls of suspend.
THEOREM SessionInductive == Spec => [](late = {} => SessionInv)
<1>1. Init => (late = {} => SessionInv)
  BY SessionStart
<1>2. (late = {} => SessionInv) /\ [Next]_vars => (late = {} => SessionInv)'
  <2> SUFFICES ASSUME late = {} => SessionInv, [Next]_vars, late' = {} PROVE SessionInv'
    OBVIOUS
  <2>1. late = {}
    BY LateIs
  <2> QED BY <2>1, SessionKept
<1> QED BY <1>1, <1>2, PTL DEF Spec

\* A session is used by the one coroutine that waits for it, and once: "Unknown session" is
\* never raised, however services call, answer, wake, time out, fail and exit, before a service
\* goes on after its exit.
THEOREM SessionsKnown == Spec => [](late = {} => SessionsAreKnown)
<1>1. SessionInv => SessionsAreKnown
  BY DEF SessionInv, SessionsAreKnown
<1> QED BY <1>1, SessionInductive, PTL

-----------------------------------------------------------------------------
(* The section is handed on                                                    *)

\* The coroutines that are to be woken sleep, and are to be woken once.
Woke(x) ==
  /\ \A i \in 1 .. Len(x.wakeups) : x.sleeps[x.wakeups[i]] # None
  /\ \A i, j \in 1 .. Len(x.wakeups) : x.wakeups[i] = x.wakeups[j] => i = j
  /\ \A c \in Cos : x.pc[c] \in {"sleep", "queue"} => x.sleeps[c] # None

\* The section was given to c, which has not entered it yet.
OnItsWay(x, c) == x.pc[c] = "entering" \/ (x.pc[c] = "queue" /\ Has(x.wakeups, c))

\* The section was left for who is on its way, it has an owner while coroutines wait for
\* it, and who waits is in its queue, once, or is the one that is woken.
Handed(x) ==
  /\ \A c \in Cos : OnItsWay(x, c) => x.current = c /\ x.ref = 0
  /\ x.current # None => x.current \in Cos /\ (x.ref > 0 \/ OnItsWay(x, x.current))
  /\ x.threads # <<>> => x.current # None
  /\ \A i \in 1 .. Len(x.threads) : x.pc[x.threads[i]] = "queue" /\ x.threads[i] # x.current
  /\ \A i, j \in 1 .. Len(x.threads) : x.threads[i] = x.threads[j] => i = j
  /\ \A c \in Cos : x.pc[c] = "queue" => Has(x.threads, c) \/ Has(x.wakeups, c)

Steady(x) == Woke(x) /\ Handed(x) /\ x.wakeups \in Seq(Cos) /\ x.threads \in Seq(Cos)

\* A coroutine that does not wait for the section goes where it does not either.
LEMMA PcSteady ==
  ASSUME NEW x, Steady(x), NEW y, Turns(y) = Turns(x),
         \A d \in Cos : \/ y.pc[d] = x.pc[d]
                        \/ x.pc[d] \notin {"queue", "entering"} /\ y.pc[d] \notin {"sleep", "queue", "entering"}
  PROVE  Steady(y)
<1>1. y.sleeps = x.sleeps /\ y.wakeups = x.wakeups /\ y.threads = x.threads
      /\ y.current = x.current /\ y.ref = x.ref
  BY DEF Turns
<1>2. Woke(y)
  BY <1>1 DEF Steady, Woke
<1>3. \A c \in Cos : OnItsWay(y, c) <=> OnItsWay(x, c)
  BY <1>1 DEF OnItsWay
<1>4. \A c \in Cos : y.pc[c] = "queue" <=> x.pc[c] = "queue"
  OBVIOUS
<1>5. \A i \in 1 .. Len(x.threads) : x.threads[i] \in Cos
  BY DEF Steady
<1>6. Handed(y)
  BY <1>1, <1>3, <1>4, <1>5 DEF Steady, Handed
<1> QED BY <1>1, <1>2, <1>6 DEF Steady

\* r is x when the coroutine c has left the wakeup_queue and goes on.
Goes(x, r, c) ==
  /\ \E p \in {"run", "noop"} : r.pc = [x.pc EXCEPT ![c] = IF @ = "queue" THEN "entering" ELSE p]
  /\ r.sleeps = [x.sleeps EXCEPT ![c] = None]
  /\ r.threads = x.threads /\ r.current = x.current /\ r.ref = x.ref
  /\ r.wakeups \in Seq(Cos)
  /\ \A i \in 1 .. Len(r.wakeups) : r.wakeups[i] # c /\ Has(x.wakeups, r.wakeups[i])
  /\ \A i, j \in 1 .. Len(r.wakeups) : r.wakeups[i] = r.wakeups[j] => i = j
  /\ \A d \in Cos : Has(x.wakeups, d) => d = c \/ Has(r.wakeups, d)

\* Who waits for the section goes on only when it was given to it.
LEMMA GoesSteady ==
  ASSUME NEW x, Steady(x), NEW s, Typed(x, s), NEW c \in Cos,
         x.pc[c] # "entering", x.pc[c] = "queue" => Has(x.wakeups, c),
         NEW r, Goes(x, r, c)
  PROVE  Steady(r)
<1>1. PICK p \in {"run", "noop"} : r.pc = [x.pc EXCEPT ![c] = IF @ = "queue" THEN "entering" ELSE p]
  BY DEF Goes
<1>2. x.pc \in [Cos -> States] /\ x.sleeps \in [Cos -> Sessions(s) \cup {None}]
      /\ x.wakeups \in Seq(Cos) /\ x.threads \in Seq(Cos) /\ None \notin Cos
  BY NamesAssumption DEF Typed, Steady
<1>3. \A d \in Cos : r.pc[d] = IF d = c THEN (IF x.pc[c] = "queue" THEN "entering" ELSE p) ELSE x.pc[d]
  BY <1>1, <1>2
<1>4. \A d \in Cos : r.sleeps[d] = IF d = c THEN None ELSE x.sleeps[d]
  BY <1>2 DEF Goes
<1>5. /\ r.threads = x.threads /\ r.current = x.current /\ r.ref = x.ref /\ r.wakeups \in Seq(Cos)
      /\ \A i \in 1 .. Len(r.wakeups) : r.wakeups[i] \in Cos /\ r.wakeups[i] # c /\ Has(x.wakeups, r.wakeups[i])
      /\ \A i, j \in 1 .. Len(r.wakeups) : r.wakeups[i] = r.wakeups[j] => i = j
  BY DEF Goes
<1>6. \A d \in Cos : d # c => (Has(r.wakeups, d) <=> Has(x.wakeups, d))
  <2>1. \A d \in Cos : Has(r.wakeups, d) => Has(x.wakeups, d)
    BY <1>5 DEF Has
  <2>2. \A d \in Cos : d # c /\ Has(x.wakeups, d) => Has(r.wakeups, d)
    BY DEF Goes
  <2> QED BY <2>1, <2>2
<1>7. Woke(r)
  <2>1. \A i \in 1 .. Len(r.wakeups) : x.sleeps[r.wakeups[i]] # None
    BY <1>5 DEF Has, Steady, Woke
  <2>2. \A i \in 1 .. Len(r.wakeups) : r.sleeps[r.wakeups[i]] # None
    BY <1>4, <1>5, <2>1
  <2>3. \A d \in Cos : r.pc[d] \in {"sleep", "queue"} => r.sleeps[d] # None
    BY <1>3, <1>4 DEF Steady, Woke
  <2> QED BY <1>5, <2>2, <2>3 DEF Woke
<1>8. \A d \in Cos : OnItsWay(r, d) <=> OnItsWay(x, d)
  <2>1. ASSUME NEW d \in Cos, d # c PROVE OnItsWay(r, d) <=> OnItsWay(x, d)
    BY <1>3, <1>6, <2>1 DEF OnItsWay
  <2>2. OnItsWay(r, c) <=> OnItsWay(x, c)
    BY <1>3 DEF OnItsWay
  <2> QED BY <2>1, <2>2
<1>9. \A i \in 1 .. Len(x.threads) : x.threads[i] \in Cos /\ x.threads[i] # c
  <2>1. \A i \in 1 .. Len(x.threads) : x.threads[i] \in Cos /\ x.pc[x.threads[i]] = "queue" /\ x.threads[i] # x.current
    BY <1>2 DEF Steady, Handed
  <2>2. x.pc[c] = "queue" => x.current = c
    BY DEF Steady, Handed, OnItsWay
  <2> QED BY <2>1, <2>2
<1>10. \A i \in 1 .. Len(r.threads) : r.pc[r.threads[i]] = "queue" /\ r.threads[i] # r.current
  BY <1>3, <1>5, <1>9 DEF Steady, Handed
<1>11. \A d \in Cos : r.pc[d] = "queue" => Has(r.threads, d) \/ Has(r.wakeups, d)
  BY <1>3, <1>5, <1>6 DEF Steady, Handed
<1>12. Handed(r)
  BY <1>5, <1>8, <1>10, <1>11 DEF Steady, Handed
<1> QED BY <1>2, <1>5, <1>7, <1>12 DEF Steady

\* Resume changes nothing of the section.
LEMMA ResumeGoes ==
  ASSUME NEW x, DOMAIN x = Fields, x.wakeups \in Seq(Cos), NEW c \in Cos,
         \A i \in 1 .. Len(x.wakeups) : x.wakeups[i] # c,
         \A i, j \in 1 .. Len(x.wakeups) : x.wakeups[i] = x.wakeups[j] => i = j
  PROVE  Goes(x, Resume(x, c), c) /\ Resume(x, c).wakeups = x.wakeups /\ Resume(x, c).run = c
<1> SUFFICES ASSUME NEW r, r = Resume(x, c) PROVE Goes(x, r, c) /\ r.wakeups = x.wakeups /\ r.run = c
  OBVIOUS
<1>1. PICK p : p = IF x.pc[c] = "noop" THEN "noop" ELSE "run"
  OBVIOUS
<1>2. r.pc = [x.pc EXCEPT ![c] = CASE @ = "queue" -> "entering" [] @ = "noop" -> "noop" [] OTHER -> "run"]
  BY DEF Resume, Fields
<1>3. (CASE x.pc[c] = "queue" -> "entering" [] x.pc[c] = "noop" -> "noop" [] OTHER -> "run")
        = IF x.pc[c] = "queue" THEN "entering" ELSE p
  BY <1>1
<1>4. r.pc = [x.pc EXCEPT ![c] = IF @ = "queue" THEN "entering" ELSE p]
  BY <1>2, <1>3
<1>5. /\ r.run = c /\ r.sleeps = [x.sleeps EXCEPT ![c] = None] /\ r.wakeups = x.wakeups
      /\ r.threads = x.threads /\ r.current = x.current /\ r.ref = x.ref
  BY DEF Resume, Fields
<1>6. \A i \in 1 .. Len(r.wakeups) : r.wakeups[i] # c /\ Has(x.wakeups, r.wakeups[i])
  BY <1>5 DEF Has
<1> QED BY <1>1, <1>4, <1>5, <1>6 DEF Goes

\* A coroutine that does not sleep is not to be woken.
LEMMA AwakeIs ==
  ASSUME NEW x, Steady(x), NEW c \in Cos, x.sleeps[c] = None
  PROVE  x.pc[c] \notin {"sleep", "queue"} /\ \A i \in 1 .. Len(x.wakeups) : x.wakeups[i] # c
BY DEF Steady, Woke

\* A coroutine that is awake goes on.
LEMMA ResumeSteady ==
  ASSUME NEW x, Steady(x), NEW s, Typed(x, s), NEW c \in Cos, x.sleeps[c] = None, x.pc[c] # "entering"
  PROVE  /\ Steady(Resume(x, c)) /\ Resume(x, c).wakeups = x.wakeups /\ Resume(x, c).run = c
<1>1. DOMAIN x = Fields /\ x.wakeups \in Seq(Cos)
      /\ \A i, j \in 1 .. Len(x.wakeups) : x.wakeups[i] = x.wakeups[j] => i = j
  BY DEF Typed, Steady, Woke
<1>2. x.pc[c] # "queue" /\ \A i \in 1 .. Len(x.wakeups) : x.wakeups[i] # c
  BY AwakeIs
<1>3. PICK r : r = Resume(x, c)
  OBVIOUS
<1>4. Goes(x, r, c) /\ r.wakeups = x.wakeups /\ r.run = c
  BY <1>1, <1>2, <1>3, ResumeGoes
<1>5. Steady(r)
  BY <1>2, <1>4, GoesSteady
<1> QED BY <1>3, <1>4, <1>5

\* The loop over fork_queue wakes nobody.
LEMMA ForksSteady ==
  ASSUME NEW s \in Services, NEW x, NEW L, Tidy(x, s, L), Steady(x)
  PROVE  /\ Steady(Forks(x)) /\ Forks(x).wakeups = x.wakeups
         /\ x.forks # <<>> => Forks(x).run \in Cos
<1>0. DOMAIN x = Fields /\ Typed(x, s) /\ x.wakeups \in Seq(Cos) /\ x.threads \in Seq(Cos)
  BY DEF Tidy, Typed, Steady
<1>1. CASE x.forks = <<>>
  <2> SUFFICES ASSUME NEW r, r = [x EXCEPT !.run = None, !.frames = 0] PROVE Steady(r) /\ r.wakeups = x.wakeups
    BY <1>1 DEF Forks
  <2>1. r.pc = x.pc /\ Turns(r) = Turns(x) /\ r.wakeups = x.wakeups
    BY <1>0 DEF Turns, Fields
  <2> QED BY <1>0, <2>1, PcSteady
<1>2. CASE x.forks # <<>>
  <2>1. Rest(Cos, x.forks)
    BY <1>2, RestIs DEF Tidy, Typed
  <2>2. PICK c \in Cos : c = Head(x.forks)
    BY <2>1 DEF Rest
  <2>3. x.pc[c] \in {"new", "noop"}
    BY <2>1, <2>2 DEF Rest, Tidy, Pooled
  <2>4. x.sleeps[c] = None
    BY <2>3 DEF Tidy, Sleeping
  <2>5. PICK y : y = [x EXCEPT !.forks = Tail(@), !.frames = 0]
    OBVIOUS
  <2>6. /\ DOMAIN y = Fields /\ y.pc = x.pc /\ Turns(y) = Turns(x) /\ y.wakeups = x.wakeups /\ y.sleeps = x.sleeps
        /\ y.forks = Tail(x.forks)
        /\ y.pool = x.pool /\ y.id = x.id /\ y.address = x.address /\ y.waits = x.waits
        /\ y.watchSession = x.watchSession /\ y.threads = x.threads
        /\ y.errors = x.errors /\ y.unresponse = x.unresponse /\ y.session = x.session /\ y.ops = x.ops
    BY <1>0, <2>5 DEF Turns, Fields
  <2>7. Typed(y, s)
    BY <1>0, <2>1, <2>6 DEF Typed, Rest
  <2>8. Steady(y)
    BY <1>0, <2>6, PcSteady
  <2>9. y.sleeps[c] = None /\ y.pc[c] # "entering"
    BY <2>3, <2>4, <2>6
  <2>10. Steady(Resume(y, c)) /\ Resume(y, c).wakeups = y.wakeups /\ Resume(y, c).run = c
    BY <2>7, <2>8, <2>9, ResumeSteady
  <2>11. Forks(x) = Resume(y, c)
    BY <1>2, <2>2, <2>5 DEF Forks
  <2> QED BY <2>6, <2>10, <2>11
<1> QED BY <1>1, <1>2

\* A coroutine that waits for a call does not sleep.
LEMMA CallerIsAwake ==
  ASSUME NEW s \in Services, NEW x, NEW L, Tidy(x, s, L), NEW n \in Sessions(s), NEW c \in Cos, x.waits[n] = c,
         x.watchSession[n] # None
  PROVE  x.sleeps[c] = None /\ x.pc[c] # "entering"
<1>1. ASSUME x.sleeps[c] # None PROVE FALSE
  <2>1. x.sleeps[c] \in Sessions(s) /\ x.waits[x.sleeps[c]] = c /\ x.watchSession[x.sleeps[c]] = None
    BY <1>1 DEF Tidy, Typed, Sleeping
  <2>2. x.sleeps[c] = n
    BY <2>1 DEF Tidy, Waiting
  <2> QED BY <2>1, <2>2
<1>2. x.pc[c] \in {"new", "call", "sleep", "queue"}
  BY DEF Tidy, Waiting
<1> QED BY <1>1, <1>2

\* dispatch_error_queue wakes nobody.
LEMMA ErrorsSteady ==
  ASSUME NEW s \in Services, NEW x, NEW L, Tidy(x, s, L), Steady(x)
  PROVE  Steady(Errors(x)) /\ Errors(x).wakeups = x.wakeups
<1>0. DOMAIN x = Fields /\ Typed(x, s) /\ x.wakeups \in Seq(Cos) /\ x.threads \in Seq(Cos)
  BY DEF Tidy, Typed, Steady
<1>1. CASE x.errors = <<>>
  BY <1>1, ForksSteady DEF Errors
<1>2. CASE x.errors # <<>>
  <2>1. Rest(Sessions(s), x.errors)
    BY <1>2, RestIs DEF Tidy, Typed
  <2>2. PICK n \in Sessions(s) : n = Head(x.errors)
    BY <2>1 DEF Rest
  <2>3. x.watchSession[n] # None
    BY <2>1, <2>2 DEF Rest, Tidy, Failing
  <2>4. PICK c \in Cos : c = x.waits[n]
    BY <2>2, <2>3 DEF Tidy, Waiting
  <2>5. x.sleeps[c] = None /\ x.pc[c] # "entering"
    BY <2>3, <2>4, CallerIsAwake
  <2>6. PICK y : y = [x EXCEPT !.errors = Tail(@), !.waits[n] = None, !.watchSession[n] = None]
    OBVIOUS
  <2>7. /\ DOMAIN y = Fields /\ y.pc = x.pc /\ Turns(y) = Turns(x) /\ y.wakeups = x.wakeups /\ y.sleeps = x.sleeps
        /\ y.errors = Tail(x.errors)
        /\ y.pool = x.pool /\ y.id = x.id /\ y.address = x.address /\ y.waits = [x.waits EXCEPT ![n] = None]
        /\ y.watchSession = [x.watchSession EXCEPT ![n] = None] /\ y.threads = x.threads
        /\ y.forks = x.forks /\ y.unresponse = x.unresponse /\ y.session = x.session /\ y.ops = x.ops
    BY <1>0, <2>6 DEF Turns, Fields
  <2>8. Typed(y, s)
    BY <1>0, <2>1, <2>7 DEF Typed, Rest
  <2>9. Steady(y)
    BY <1>0, <2>7, PcSteady
  <2>10. y.sleeps[c] = None /\ y.pc[c] # "entering"
    BY <2>5, <2>7
  <2>11. Steady(Resume(y, c)) /\ Resume(y, c).wakeups = y.wakeups
    BY <2>8, <2>9, <2>10, ResumeSteady
  <2>12. Errors(x) = Resume(y, c)
    BY <1>2, <2>2, <2>4, <2>6 DEF Errors
  <2> QED BY <2>7, <2>11, <2>12
<1> QED BY <1>1, <1>2

\* suspend wakes the coroutines one after the other, and the service is idle when there
\* are no more to be woken.
LEMMA SuspendSteady ==
  ASSUME NEW s \in Services, NEW x, NEW L, Tidy(x, s, L), Steady(x)
  PROVE  Steady(Suspend(x)) /\ (Suspend(x).run = None => Suspend(x).wakeups = <<>>)
<1>0. DOMAIN x = Fields /\ Typed(x, s) /\ x.wakeups \in Seq(Cos) /\ x.threads \in Seq(Cos) /\ None \notin Cos
  BY NamesAssumption DEF Tidy, Typed, Steady
<1>1. CASE x.wakeups = <<>>
  BY <1>1, ErrorsSteady DEF Suspend
<1>2. CASE x.wakeups # <<>>
  <2>1. Rest(Cos, x.wakeups)
    BY <1>0, <1>2, RestIs
  <2>2. PICK c \in Cos : c = Head(x.wakeups)
    BY <2>1 DEF Rest
  <2>3. x.sleeps[c] # None
    BY <2>1, <2>2 DEF Rest, Steady, Woke
  <2>4. PICK z : z = [[x EXCEPT !.wakeups = Tail(@)] EXCEPT !.waits[x.sleeps[c]] = Woken(x, c), !.frames = @ + 1]
    OBVIOUS
  <2>5. Suspend(x) = Resume(z, c)
    BY <1>2, <2>2, <2>3, <2>4 DEF Suspend, Asleep
  <2>6. DOMAIN z = Fields /\ z.wakeups = Tail(x.wakeups) /\ z.pc = x.pc /\ z.sleeps = x.sleeps
        /\ z.threads = x.threads /\ z.current = x.current /\ z.ref = x.ref
    BY <1>0, <2>4 DEF Fields
  <2>7. \A i \in 1 .. Len(z.wakeups) : i + 1 \in 1 .. Len(x.wakeups) /\ i + 1 # 1 /\ z.wakeups[i] = x.wakeups[i + 1]
    BY <2>1, <2>6 DEF Rest
  <2>8. 1 \in 1 .. Len(x.wakeups) /\ x.wakeups[1] = c /\ z.wakeups \in Seq(Cos)
    BY <2>1, <2>2, <2>6 DEF Rest
  <2>9. \A i, j \in 1 .. Len(x.wakeups) : x.wakeups[i] = x.wakeups[j] => i = j
    BY DEF Steady, Woke
  <2>10. \A i \in 1 .. Len(z.wakeups) : z.wakeups[i] # c /\ Has(x.wakeups, z.wakeups[i])
    BY <2>7, <2>8, <2>9 DEF Has
  <2>11. \A i, j \in 1 .. Len(z.wakeups) : z.wakeups[i] = z.wakeups[j] => i = j
    <3> SUFFICES ASSUME NEW i \in 1 .. Len(z.wakeups), NEW j \in 1 .. Len(z.wakeups), z.wakeups[i] = z.wakeups[j]
                 PROVE  i = j
      OBVIOUS
    <3>1. /\ i + 1 \in 1 .. Len(x.wakeups) /\ j + 1 \in 1 .. Len(x.wakeups)
          /\ x.wakeups[i + 1] = x.wakeups[j + 1]
      BY <2>7
    <3>2. i + 1 = j + 1
      BY <2>9, <3>1
    <3>3. i \in Int /\ j \in Int
      OBVIOUS
    <3> QED BY <3>2, <3>3
  <2>12. \A d \in Cos : Has(x.wakeups, d) => d = c \/ Has(z.wakeups, d)
    <3> SUFFICES ASSUME NEW d \in Cos, NEW i \in 1 .. Len(x.wakeups), x.wakeups[i] = d, d # c
                 PROVE  \E j \in 1 .. Len(z.wakeups) : z.wakeups[j] = d
      BY DEF Has
    <3>1. i # 1
      BY <2>8
    <3>2. Len(z.wakeups) = Len(x.wakeups) - 1
      BY <1>0, <1>2, <2>6
    <3>3. i - 1 \in 1 .. Len(z.wakeups)
      BY <1>0, <3>1, <3>2
    <3>4. z.wakeups[i - 1] = x.wakeups[(i - 1) + 1]
      BY <2>7, <3>3
    <3> QED BY <3>3, <3>4
  <2>13. PICK r : r = Resume(z, c)
    OBVIOUS
  <2>14. Goes(z, r, c) /\ r.wakeups = z.wakeups /\ r.run = c
    BY <2>6, <2>8, <2>10, <2>11, <2>13, ResumeGoes
  <2>15. Goes(x, r, c)
    BY <2>6, <2>10, <2>11, <2>12, <2>14 DEF Goes
  <2>16. x.pc[c] # "entering" /\ Has(x.wakeups, c)
    <3>1. x.pc[c] \in {"sleep", "queue"}
      BY <2>3 DEF Tidy, Sleeping
    <3> QED BY <2>8, <3>1 DEF Has
  <2>17. Steady(r)
    BY <1>0, <2>15, <2>16, GoesSteady
  <2> QED BY <1>0, <2>5, <2>13, <2>14, <2>17
<1> QED BY <1>1, <1>2


\* r holds what q holds, and e at its end.
Longer(q, e, r) ==
  /\ \A i \in 1 .. Len(r) : (i \in 1 .. Len(q) /\ r[i] = q[i]) \/ (i = Len(q) + 1 /\ r[i] = e)
  /\ \A d : Has(r, d) <=> Has(q, d) \/ d = e

\* A sequence with an element at its end holds it and what it held.
LEMMA AppendHas ==
  ASSUME NEW S, NEW q \in Seq(S), NEW e \in S
  PROVE  Longer(q, e, Append(q, e))
<1> SUFFICES ASSUME NEW r, r = Append(q, e) PROVE Longer(q, e, r)
  OBVIOUS
<1>1. r \in Seq(S) /\ Len(r) = Len(q) + 1 /\ Len(q) \in Nat /\ r[Len(q) + 1] = e
      /\ \A i \in 1 .. Len(q) : r[i] = q[i]
  OBVIOUS
<1>2. \A i \in 1 .. Len(r) : (i \in 1 .. Len(q) /\ r[i] = q[i]) \/ (i = Len(q) + 1 /\ r[i] = e)
  <2> SUFFICES ASSUME NEW i \in 1 .. Len(r), i \notin 1 .. Len(q) PROVE i = Len(q) + 1
    BY <1>1
  <2> QED BY <1>1
<1>3. \A i \in 1 .. Len(q) : i \in 1 .. Len(r)
  BY <1>1
<1>4. Len(q) + 1 \in 1 .. Len(r)
  BY <1>1
<1>5. ASSUME NEW d, Has(r, d) PROVE Has(q, d) \/ d = e
  BY <1>2, <1>5 DEF Has
<1>6. ASSUME NEW d, Has(q, d) \/ d = e PROVE Has(r, d)
  BY <1>1, <1>3, <1>4, <1>6 DEF Has
<1>7. \A d : Has(r, d) <=> Has(q, d) \/ d = e
  BY <1>5, <1>6
<1> QED BY <1>2, <1>7 DEF Longer

\* The section was given to nobody while it is taken.
LEMMA NobodyOnItsWay ==
  ASSUME NEW x, Steady(x), x.ref \in Nat, x.ref > 0
  PROVE  \A d \in Cos : ~ OnItsWay(x, d)
BY DEF Steady, Handed

\* How deep its coroutine is in the section says nothing more.
LEMMA DeeperSteady ==
  ASSUME NEW x, Steady(x), x.ref \in Nat, x.ref > 0,
         NEW y, y.ref \in Nat, y.ref > 0, y.pc = x.pc, y.sleeps = x.sleeps, y.wakeups = x.wakeups,
         y.threads = x.threads, y.current = x.current
  PROVE  Steady(y)
<1>1. \A d \in Cos : ~ OnItsWay(y, d)
  BY NobodyOnItsWay DEF OnItsWay
<1>2. Woke(y)
  BY DEF Steady, Woke
<1>3. Handed(y)
  BY <1>1 DEF Steady, Handed
<1> QED BY <1>2, <1>3 DEF Steady

\* xpcall_ret: the next in the queue has the section and is to be woken.
LEMMA LeftSteady ==
  ASSUME NEW s, NEW x, Typed(x, s), Steady(x), NEW c \in Cos, x.current = c, x.ref \in Nat, x.ref > 0,
         NEW r, r = Left(x, c)
  PROVE  Steady(r) /\ r.pc = x.pc /\ r.sleeps = x.sleeps /\ (x.ref = 1 => r.ref = 0)
<1>0. DOMAIN x = Fields /\ x.wakeups \in Seq(Cos) /\ x.threads \in Seq(Cos) /\ None \notin Cos
      /\ x.sleeps \in [Cos -> Sessions(s) \cup {None}]
  BY NamesAssumption DEF Typed, Steady
<1>1. \A d \in Cos : ~ OnItsWay(x, d)
  BY NobodyOnItsWay
<1>2. PICK y : y = [x EXCEPT !.ref = @ - 1, !.depth[c] = @ - 1]
  OBVIOUS
<1>3. DOMAIN y = Fields /\ y.ref = x.ref - 1 /\ y.pc = x.pc /\ y.sleeps = x.sleeps /\ y.wakeups = x.wakeups
      /\ y.threads = x.threads /\ y.current = x.current
  BY <1>0, <1>2 DEF Fields
<1>4. CASE x.ref > 1
  <2>1. r = y
    BY <1>2, <1>4 DEF Left
  <2>2. y.ref \in Nat /\ y.ref > 0
    BY <1>3, <1>4
  <2> QED BY <1>3, <1>4, <2>1, <2>2, DeeperSteady
<1>5. CASE ~ (x.ref > 1)
  <2>1. PICK next : next = IF x.threads = <<>> THEN None ELSE Head(x.threads)
    OBVIOUS
  <2>2. r = [y EXCEPT !.current = next,
                      !.threads = IF @ = <<>> THEN @ ELSE Tail(@),
                      !.wakeups = IF Asleep(x, next) THEN Append(@, next) ELSE @]
    BY <1>2, <1>5, <2>1 DEF Left
  <2>3. /\ r.current = next /\ r.threads = (IF x.threads = <<>> THEN x.threads ELSE Tail(x.threads))
        /\ r.wakeups = (IF Asleep(x, next) THEN Append(x.wakeups, next) ELSE x.wakeups)
        /\ r.pc = x.pc /\ r.sleeps = x.sleeps /\ r.ref = x.ref - 1
    BY <1>3, <2>2 DEF Fields
  <2>4. r.ref = 0
    BY <1>5, <2>3
  <2>5. CASE x.threads = <<>>
    <3>1. r.current = None /\ r.threads = <<>> /\ r.wakeups = x.wakeups
      BY <1>0, <2>1, <2>3, <2>5 DEF Asleep
    <3>2. Woke(r)
      <4>1. Woke(x)
        BY DEF Steady
      <4>2. \A i \in 1 .. Len(r.wakeups) : r.sleeps[r.wakeups[i]] # None
        BY ZenonT(60), <2>3, <3>1, <4>1 DEF Woke
      <4>3. \A i, j \in 1 .. Len(r.wakeups) : r.wakeups[i] = r.wakeups[j] => i = j
        BY <3>1, <4>1 DEF Woke
      <4>4. \A d \in Cos : r.pc[d] \in {"sleep", "queue"} => r.sleeps[d] # None
        <5> HIDE <2>2
        <5> QED BY <2>3, <4>1 DEF Woke
      <4> QED BY <4>2, <4>3, <4>4 DEF Woke
    <3>3. \A d \in Cos : ~ OnItsWay(r, d)
      BY <1>1, <2>3, <3>1 DEF OnItsWay
    <3>4. \A d \in Cos : r.pc[d] = "queue" => Has(r.threads, d) \/ Has(r.wakeups, d)
      BY <2>3, <2>5, <3>1 DEF Steady, Handed
    <3>5. Len(r.threads) = 0
      BY <3>1
    <3>6. Handed(r)
      BY <3>1, <3>3, <3>4, <3>5 DEF Handed
    <3> QED BY <1>0, <2>3, <2>4, <2>5, <3>1, <3>2, <3>6 DEF Steady
  <2>6. CASE x.threads # <<>>
    <3>1. Rest(Cos, x.threads)
      BY <1>0, <2>6, RestIs
    <3>2. next \in Cos /\ next = x.threads[1] /\ 1 \in 1 .. Len(x.threads)
      BY <2>1, <2>6, <3>1 DEF Rest
    <3>3. x.pc[next] = "queue" /\ x.sleeps[next] # None
      BY <3>2 DEF Steady, Handed, Woke
    <3>4. ~ Has(x.wakeups, next)
      BY <1>1, <3>2, <3>3 DEF OnItsWay
    <3>5. r.wakeups = Append(x.wakeups, next) /\ r.threads = Tail(x.threads) /\ r.current = next
      BY <1>0, <2>3, <2>6, <3>2, <3>3 DEF Asleep
    <3>6. /\ \A i \in 1 .. Len(r.wakeups) : \/ i \in 1 .. Len(x.wakeups) /\ r.wakeups[i] = x.wakeups[i]
                                            \/ i = Len(x.wakeups) + 1 /\ r.wakeups[i] = next
          /\ \A d : Has(r.wakeups, d) <=> Has(x.wakeups, d) \/ d = next
      <4>1. Longer(x.wakeups, next, Append(x.wakeups, next))
        BY <1>0, <3>2, AppendHas
      <4>2. Longer(x.wakeups, next, r.wakeups)
        BY <3>5, <4>1
      <4> QED BY <4>2 DEF Longer
    <3>7. \A i \in 1 .. Len(x.wakeups) : x.wakeups[i] # next
      BY <3>4 DEF Has
    <3>8. Woke(r)
      <4>1. \A i \in 1 .. Len(r.wakeups) : r.sleeps[r.wakeups[i]] # None
        BY <2>3, <3>3, <3>6 DEF Steady, Woke
      <4>2. \A i, j \in 1 .. Len(r.wakeups) : r.wakeups[i] = r.wakeups[j] => i = j
        BY <3>6, <3>7 DEF Steady, Woke
      <4>3. \A d \in Cos : r.pc[d] \in {"sleep", "queue"} => r.sleeps[d] # None
        BY <2>3 DEF Steady, Woke
      <4> QED BY <4>1, <4>2, <4>3 DEF Woke
    <3>9. \A d \in Cos : OnItsWay(r, d) <=> d = next
      BY <1>1, <2>3, <3>3, <3>6 DEF OnItsWay
    <3>10. \A i \in 1 .. Len(r.threads) : i + 1 \in 1 .. Len(x.threads) /\ i + 1 # 1 /\ r.threads[i] = x.threads[i + 1]
      BY <3>1, <3>5 DEF Rest
    <3>11. \A i, j \in 1 .. Len(x.threads) : x.threads[i] = x.threads[j] => i = j
      BY DEF Steady, Handed
    <3>12. \A i \in 1 .. Len(r.threads) : r.pc[r.threads[i]] = "queue" /\ r.threads[i] # r.current
      <4>1. \A i \in 1 .. Len(x.threads) : x.pc[x.threads[i]] = "queue"
        BY DEF Steady, Handed
      <4>2. \A i \in 1 .. Len(r.threads) : r.pc[r.threads[i]] = "queue"
        BY <2>3, <3>10, <4>1
      <4>3. \A i \in 1 .. Len(r.threads) : r.threads[i] # next
        BY <3>2, <3>10, <3>11
      <4> QED BY <3>5, <4>2, <4>3
    <3>13. \A i, j \in 1 .. Len(r.threads) : r.threads[i] = r.threads[j] => i = j
      <4> SUFFICES ASSUME NEW i \in 1 .. Len(r.threads), NEW j \in 1 .. Len(r.threads), r.threads[i] = r.threads[j]
                   PROVE  i = j
        OBVIOUS
      <4>1. /\ i + 1 \in 1 .. Len(x.threads) /\ j + 1 \in 1 .. Len(x.threads)
            /\ x.threads[i + 1] = x.threads[j + 1]
        BY <3>10
      <4>2. i + 1 = j + 1
        BY <3>11, <4>1
      <4>3. i \in Int /\ j \in Int
        OBVIOUS
      <4> QED BY <4>2, <4>3
    <3>14. \A d \in Cos : r.pc[d] = "queue" => Has(r.threads, d) \/ Has(r.wakeups, d)
      <4> SUFFICES ASSUME NEW d \in Cos, x.pc[d] = "queue", d # next, ~ Has(x.wakeups, d) PROVE Has(r.threads, d)
        BY <2>3, <3>6
      <4>1. PICK i \in 1 .. Len(x.threads) : x.threads[i] = d
        BY DEF Steady, Handed, Has
      <4>2. i # 1
        BY <3>2, <4>1
      <4>3. Len(r.threads) = Len(x.threads) - 1
        BY <1>0, <2>6, <3>5
      <4>4. i - 1 \in 1 .. Len(r.threads)
        BY <1>0, <4>2, <4>3
      <4>5. r.threads[i - 1] = x.threads[(i - 1) + 1]
        BY <3>10, <4>4
      <4>6. r.threads[i - 1] = d
        BY <4>1, <4>5
      <4> QED BY <4>4, <4>6 DEF Has
    <3>15. Handed(r)
      <4>1. \A d \in Cos : OnItsWay(r, d) => r.current = d /\ r.ref = 0
        BY <2>4, <3>5, <3>9
      <4>2. r.current \in Cos /\ OnItsWay(r, r.current) /\ r.current # None
        BY <1>0, <3>2, <3>5, <3>9
      <4> QED BY <3>12, <3>13, <3>14, <4>1, <4>2 DEF Handed
    <3>16. r.wakeups \in Seq(Cos) /\ r.threads \in Seq(Cos)
      BY <1>0, <3>1, <3>2, <3>5, AppendIs DEF Rest
    <3> QED BY <2>3, <2>4, <3>8, <3>15, <3>16 DEF Steady
  <2> QED BY <2>5, <2>6
<1> QED BY <1>4, <1>5

\* A coroutine begins to sleep, or to wait for the section that another one has.
LEMMA DozingSteady ==
  ASSUME NEW s, NEW x, Typed(x, s), Steady(x), NEW c \in Cos, x.pc[c] = "run", x.sleeps[c] = None,
         NEW n, n # None, NEW y, y.sleeps = [x.sleeps EXCEPT ![c] = n], y.wakeups = x.wakeups,
         y.current = x.current, y.ref = x.ref,
         \/ y.threads = x.threads /\ y.pc = [x.pc EXCEPT ![c] = "sleep"]
         \/ y.threads = Append(x.threads, c) /\ y.pc = [x.pc EXCEPT ![c] = "queue"] /\ x.current \notin {None, c}
  PROVE  Steady(y)
<1>0. x.pc \in [Cos -> States] /\ x.sleeps \in [Cos -> Sessions(s) \cup {None}] /\ None \notin Cos
      /\ x.wakeups \in Seq(Cos) /\ x.threads \in Seq(Cos)
  BY NamesAssumption DEF Typed, Steady
<1>1. PICK p \in {"sleep", "queue"} : \A d \in Cos : y.pc[d] = IF d = c THEN p ELSE x.pc[d]
  BY <1>0
<1>2. \A d \in Cos : y.sleeps[d] = IF d = c THEN n ELSE x.sleeps[d]
  BY <1>0
<1>3. \A i \in 1 .. Len(x.wakeups) : x.wakeups[i] # c
  BY AwakeIs
<1>4. ~ Has(x.wakeups, c)
  BY <1>3 DEF Has
<1>5. Woke(y)
  <2>1. \A i \in 1 .. Len(x.wakeups) : x.wakeups[i] \in Cos
    BY <1>0
  <2>2. \A i \in 1 .. Len(x.wakeups) : y.sleeps[x.wakeups[i]] # None
    BY <1>2, <1>3, <2>1 DEF Steady, Woke
  <2>3. \A d \in Cos : y.pc[d] \in {"sleep", "queue"} => y.sleeps[d] # None
    BY <1>1, <1>2 DEF Steady, Woke
  <2> QED BY <2>2, <2>3 DEF Steady, Woke
<1>6. \A d \in Cos : OnItsWay(y, d) <=> OnItsWay(x, d)
  BY <1>1, <1>4 DEF OnItsWay
<1>7. CASE y.threads = x.threads /\ y.pc = [x.pc EXCEPT ![c] = "sleep"]
  <2>1. \A d \in Cos : y.pc[d] = IF d = c THEN "sleep" ELSE x.pc[d]
    BY <1>0, <1>7
  <2>2. \A d \in Cos : y.pc[d] = "queue" <=> x.pc[d] = "queue"
    BY <2>1
  <2>3. \A i \in 1 .. Len(x.threads) : x.threads[i] \in Cos
    BY <1>0
  <2>4. Handed(y)
    BY <1>6, <1>7, <2>2, <2>3 DEF Steady, Handed
  <2> QED BY <1>0, <1>5, <1>7, <2>4 DEF Steady
<1>8. CASE y.threads = Append(x.threads, c) /\ y.pc = [x.pc EXCEPT ![c] = "queue"] /\ x.current \notin {None, c}
  <2>1. \A d \in Cos : y.pc[d] = IF d = c THEN "queue" ELSE x.pc[d]
    BY <1>0, <1>8
  <2>2. /\ \A i \in 1 .. Len(y.threads) : \/ i \in 1 .. Len(x.threads) /\ y.threads[i] = x.threads[i]
                                          \/ i = Len(x.threads) + 1 /\ y.threads[i] = c
        /\ \A d : Has(y.threads, d) <=> Has(x.threads, d) \/ d = c
    <3>1. Longer(x.threads, c, Append(x.threads, c))
      BY <1>0, AppendHas
    <3>2. Longer(x.threads, c, y.threads)
      BY <1>8, <3>1
    <3> QED BY <3>2 DEF Longer
  <2>3. \A i \in 1 .. Len(x.threads) : /\ x.threads[i] \in Cos /\ x.pc[x.threads[i]] = "queue"
                                       /\ x.threads[i] # x.current /\ x.threads[i] # c
    BY <1>0 DEF Steady, Handed
  <2>4. \A i \in 1 .. Len(y.threads) : y.pc[y.threads[i]] = "queue" /\ y.threads[i] # y.current
    BY <1>8, <2>1, <2>2, <2>3
  <2>5. \A i, j \in 1 .. Len(y.threads) : y.threads[i] = y.threads[j] => i = j
    BY <2>2, <2>3 DEF Steady, Handed
  <2>6. \A d \in Cos : y.pc[d] = "queue" => Has(y.threads, d) \/ Has(y.wakeups, d)
    BY <2>1, <2>2 DEF Steady, Handed
  <2>7. y.current # None /\ y.current \in Cos /\ (y.ref > 0 \/ OnItsWay(y, y.current))
    BY <1>6, <1>8 DEF Steady, Handed
  <2>8. Handed(y)
    BY <1>6, <2>4, <2>5, <2>6, <2>7 DEF Steady, Handed
  <2>9. y.threads \in Seq(Cos)
    BY <1>0, <1>8, AppendIs
  <2> QED BY <1>0, <1>5, <2>8, <2>9 DEF Steady
<1> QED BY <1>7, <1>8

\* A coroutine takes the section that is free, is its own, or was given to it.
LEMMA TakenSteady ==
  ASSUME NEW s, NEW x, Typed(x, s), Steady(x), NEW c \in Cos, x.pc[c] \in {"run", "entering"},
         x.current \in {None, c},
         NEW y, y.pc = [x.pc EXCEPT ![c] = "run"], y.sleeps = x.sleeps, y.wakeups = x.wakeups,
         y.threads = x.threads, y.current = c, y.ref \in Nat, y.ref > 0
  PROVE  Steady(y)
<1>0. x.pc \in [Cos -> States] /\ None \notin Cos /\ x.wakeups \in Seq(Cos) /\ x.threads \in Seq(Cos)
  BY NamesAssumption DEF Typed, Steady
<1>1. \A d \in Cos : y.pc[d] = IF d = c THEN "run" ELSE x.pc[d]
  BY <1>0
<1>2. Woke(y)
  BY <1>1 DEF Steady, Woke
<1>3. \A d \in Cos : ~ OnItsWay(y, d)
  <2>1. \A d \in Cos : OnItsWay(x, d) => d = c
    BY <1>0 DEF Steady, Handed
  <2>2. \A d \in Cos : OnItsWay(y, d) => OnItsWay(x, d) /\ d # c
    BY <1>1 DEF OnItsWay
  <2> QED BY <2>1, <2>2
<1>4. \A i \in 1 .. Len(x.threads) : x.threads[i] \in Cos /\ x.pc[x.threads[i]] = "queue" /\ x.threads[i] # c
  BY <1>0 DEF Steady, Handed
<1>5. \A i \in 1 .. Len(y.threads) : y.pc[y.threads[i]] = "queue" /\ y.threads[i] # y.current
  BY <1>1, <1>4
<1>6. \A d \in Cos : y.pc[d] = "queue" => Has(y.threads, d) \/ Has(y.wakeups, d)
  BY <1>1 DEF Steady, Handed
<1>7. Handed(y)
  BY <1>0, <1>3, <1>5, <1>6 DEF Steady, Handed
<1> QED BY <1>0, <1>2, <1>7 DEF Steady

\* skynet.wakeup: one that sleeps outside of the section is to be woken, once.
LEMMA WakeupSteady ==
  ASSUME NEW s, NEW x, Typed(x, s), Steady(x), NEW d \in Cos, x.pc[d] = "sleep", ~ Has(x.wakeups, d),
         NEW y, y.pc = x.pc, y.sleeps = x.sleeps, y.wakeups = Append(x.wakeups, d),
         y.threads = x.threads, y.current = x.current, y.ref = x.ref
  PROVE  Steady(y)
<1>0. x.wakeups \in Seq(Cos) /\ x.threads \in Seq(Cos) /\ y.wakeups \in Seq(Cos)
  BY AppendIs DEF Steady
<1>1. /\ \A i \in 1 .. Len(y.wakeups) : \/ i \in 1 .. Len(x.wakeups) /\ y.wakeups[i] = x.wakeups[i]
                                        \/ i = Len(x.wakeups) + 1 /\ y.wakeups[i] = d
      /\ \A e : Has(y.wakeups, e) <=> Has(x.wakeups, e) \/ e = d
  <2>1. Longer(x.wakeups, d, Append(x.wakeups, d))
    BY <1>0, AppendHas
  <2>2. Longer(x.wakeups, d, y.wakeups)
    BY <2>1
  <2> QED BY <2>2 DEF Longer
<1>2. \A i \in 1 .. Len(x.wakeups) : x.wakeups[i] # d
  BY DEF Has
<1>3. Woke(y)
  <2>1. x.sleeps[d] # None
    BY DEF Steady, Woke
  <2>2. \A i \in 1 .. Len(y.wakeups) : y.sleeps[y.wakeups[i]] # None
    BY <1>1, <2>1 DEF Steady, Woke
  <2>3. \A i, j \in 1 .. Len(y.wakeups) : y.wakeups[i] = y.wakeups[j] => i = j
    BY <1>1, <1>2 DEF Steady, Woke
  <2> QED BY <2>2, <2>3 DEF Steady, Woke
<1>4. \A e \in Cos : OnItsWay(y, e) <=> OnItsWay(x, e)
  BY <1>1 DEF OnItsWay
<1>5. \A e \in Cos : y.pc[e] = "queue" => Has(y.threads, e) \/ Has(y.wakeups, e)
  BY <1>1 DEF Steady, Handed
<1>6. Handed(y)
  BY <1>4, <1>5 DEF Steady, Handed
<1> QED BY <1>0, <1>3, <1>6 DEF Steady

\* All that are to be woken are woken before the service is idle.
Settled(x) == Steady(x) /\ (x.run = None => x.wakeups = <<>>)

\* No coroutine of s that queues, or is woken already, was woken.
Calm(s) == ~ sv[s].disturbed

SettledInv == \A s \in alive : Calm(s) => Settled(sv[s])

\* A step moves one service.
LEMMA SettledStep ==
  ASSUME SessionInv, SettledInv, NEW s \in alive, NEW y, sv' = [sv EXCEPT ![s] = y], alive' = alive,
         Settled(y)
  PROVE  SettledInv'
<1>1. OnlyMoves(s, y)
  BY ExceptMoves DEF SessionInv, Shaped
<1>2. \A u \in alive : ~ sv'[u].disturbed => Settled(sv'[u])
  <2> SUFFICES ASSUME NEW u \in alive, ~ sv'[u].disturbed PROVE Settled(sv'[u])
    OBVIOUS
  <2>1. CASE u = s
    BY <1>1, <2>1 DEF OnlyMoves
  <2>2. CASE u # s
    <3>1. u \in Services
      BY DEF SessionInv, Shaped
    <3>2. sv'[u] = sv[u]
      BY <1>1, <2>2, <3>1 DEF OnlyMoves, Stands
    <3> QED BY <3>2 DEF SettledInv, Calm
  <2> QED BY <2>1, <2>2
<1>3. \A u \in alive' : Calm(u)' => Settled(sv[u])'
  BY <1>2 DEF Calm, Settled, Steady, Woke, Handed, OnItsWay, Has
<1> QED BY <1>3 DEF SettledInv

\* What is known of the service of a running coroutine.
LEMMA MoverIs ==
  ASSUME SectionInv, SessionInv, SettledInv, NEW s \in alive, Calm(s), NEW c \in Cos,
         sv[s].run = c, NEW x, x = sv[s]
  PROVE  /\ s \in Services /\ Tidy(x, s, Live(s)) /\ Typed(x, s) /\ Alone(x, c, s) /\ DOMAIN x = Fields
         /\ InSection(x) /\ Steady(x) /\ x.wakeups \in Seq(Cos) /\ x.threads \in Seq(Cos) /\ c # None
<1>1. s \in Services /\ Tidy(x, s, Live(s)) /\ Alone(x, c, s) /\ DOMAIN x = Fields
  BY RunningIs
<1>2. InSection(x)
  BY <1>1 DEF SectionInv, Fine
<1>3. Steady(x)
  BY DEF SettledInv, Settled
<1> QED BY <1>1, <1>2, <1>3, NamesAssumption DEF Tidy, Typed, Steady

\* An operation that is counted begins like one that is not.
LEMMA CountedSteady ==
  ASSUME SectionInv, SessionInv, SettledInv, NEW s \in alive, Calm(s), NEW c \in Cos,
         sv[s].run = c, sv[s].ops < MaxOps[s], NEW w, Tallied(s, w)
  PROVE  /\ s \in Services /\ Tidy(w, s, Live(s)) /\ Typed(w, s) /\ Alone(w, c, s) /\ DOMAIN w = Fields
         /\ InSection(w) /\ Steady(w) /\ w.wakeups \in Seq(Cos) /\ w.threads \in Seq(Cos) /\ c # None
         /\ w.pc = sv[s].pc /\ w.run = c /\ w.session = sv[s].session /\ w.pool = sv[s].pool
         /\ w.depth = sv[s].depth /\ w.current = sv[s].current /\ w.ref = sv[s].ref /\ w.wakeups = sv[s].wakeups
         /\ w.session + 1 \in Sessions(s) /\ w.session + 1 <= w.ops + 1 /\ w.pool # <<>>
<1>1. PICK x : x = sv[s]
  OBVIOUS
<1>2. /\ s \in Services /\ DOMAIN x = Fields /\ InSection(x) /\ Steady(x) /\ c # None
      /\ x.wakeups \in Seq(Cos) /\ x.threads \in Seq(Cos)
  BY <1>1, MoverIs
<1>3. /\ Alike(x, w) /\ Tidy(w, s, Live(s)) /\ Alone(w, c, s) /\ w.pool # <<>>
      /\ w.session + 1 \in Sessions(s) /\ w.session + 1 <= w.ops + 1
  BY <1>1, CountedIs
<1>4. w = [x EXCEPT !.ops = @ + 1] \/ w = [[x EXCEPT !.ops = @ + 1] EXCEPT !.calls = @ + 1]
  BY <1>1 DEF Tallied, Counted
<1>5. /\ w.depth = x.depth /\ w.current = x.current /\ w.ref = x.ref /\ w.pc = x.pc
      /\ w.wakeups = x.wakeups /\ w.threads = x.threads /\ w.sleeps = x.sleeps
  BY <1>2, <1>4 DEF Fields
<1>6. InSection(w)
  BY <1>2, <1>5 DEF InSection
<1>7. Turns(w) = Turns(x)
  BY <1>5 DEF Turns
<1>8. Steady(w)
  BY <1>2, <1>5, <1>7, PcSteady
<1>9. w.run = c /\ w.session = x.session /\ w.pool = x.pool
  BY <1>1, <1>3 DEF Alike
<1> QED BY <1>1, <1>2, <1>3, <1>5, <1>6, <1>8, <1>9 DEF Tidy, Typed

\* An error that passes through the section leaves it.
LEMMA UnwoundSteady ==
  ASSUME NEW s, NEW x, Typed(x, s), InSection(x), Steady(x), NEW c \in Cos, NEW u, u = Unwound(x, c)
  PROVE  Steady(u) /\ u.pc = x.pc /\ u.sleeps = x.sleeps /\ (u.current = c => u.ref = 0)
<1>1. CASE x.depth[c] = 0
  BY <1>1 DEF Unwound, InSection
<1>2. CASE x.depth[c] # 0
  <2>1. DOMAIN x = Fields /\ x.current = c /\ x.ref \in Nat /\ x.ref > 0
    BY <1>2 DEF Typed, InSection
  <2>2. PICK v : v = [x EXCEPT !.ref = 1, !.depth[c] = 1]
    OBVIOUS
  <2>3. /\ DOMAIN v = Fields /\ v.run = x.run /\ v.pool = x.pool /\ v.pc = x.pc /\ v.id = x.id
        /\ v.waits = x.waits /\ v.watchSession = x.watchSession /\ v.sleeps = x.sleeps
        /\ v.errors = x.errors /\ v.forks = x.forks /\ v.session = x.session
        /\ v.address = x.address /\ v.wakeups = x.wakeups /\ v.threads = x.threads
        /\ v.unresponse = x.unresponse /\ v.ops = x.ops /\ v.current = c /\ v.ref = 1
    BY <2>1, <2>2 DEF Fields
  <2>4. Typed(v, s)
    BY <2>3 DEF Typed
  <2>5. v.ref = 1 /\ v.ref \in Nat /\ v.ref > 0
    BY <2>3
  <2>6. Steady(v)
    BY <2>1, <2>3, <2>5, DeeperSteady
  <2>7. u = Left(v, c)
    BY <1>2, <2>2 DEF Unwound
  <2>8. Steady(u) /\ u.pc = v.pc /\ u.sleeps = v.sleeps /\ u.ref = 0
    BY <2>3, <2>4, <2>5, <2>6, <2>7, LeftSteady
  <2> QED BY <2>3, <2>8
<1> QED BY <1>1, <1>2

\* An error hands the section on, if its coroutine has it.
LEMMA RaisedSettled ==
  ASSUME NEW s \in Services, NEW x, NEW L, Tidy(x, s, L), InSection(x), Steady(x),
         NEW c, Alone(x, c, s), x.pc[c] = "run"
  PROVE  Settled(Raised(x, c))
<1>1. c \in Cos /\ Typed(x, s) /\ None \notin Cos
  BY NamesAssumption DEF Alone, Tidy
<1>2. PICK u : u = Unwound(x, c)
  OBVIOUS
<1>3. Steady(u) /\ u.pc = x.pc /\ u.sleeps = x.sleeps /\ (u.current = c => u.ref = 0)
  BY <1>1, <1>2, UnwoundSteady
<1>4. PICK z : z = Fallen(x, c)
  OBVIOUS
<1>5. Tidy(z, s, L) /\ z.forks # <<>> /\ Fell(u, z, c)
  BY <1>2, <1>4, FallenTidy
<1>6. /\ \A i \in 1 .. Len(u.wakeups) : u.wakeups[i] # c
      /\ \A i \in 1 .. Len(u.threads) : u.threads[i] # c
      /\ u.current # c
  <2>1. u.sleeps[c] = None /\ u.pc[c] = "run"
    BY <1>3 DEF Alone
  <2>2. ~ OnItsWay(u, c)
    BY <2>1 DEF OnItsWay
  <2> QED BY <1>1, <1>3, <2>1, <2>2 DEF Steady, Woke, Handed
<1>7. Turns(z) = Turns(u)
  <2>1. ASSUME NEW q \in Seq(Cos), \A i \in 1 .. Len(q) : q[i] # c PROVE Marked(q, c) = q
    <3>1. DOMAIN q = 1 .. Len(q) /\ q = [i \in DOMAIN q |-> q[i]]
      OBVIOUS
    <3> QED BY <2>1, <3>1 DEF Marked
  <2>2. Marked(u.wakeups, c) = u.wakeups /\ Marked(u.threads, c) = u.threads
    BY <1>3, <1>6, <2>1 DEF Steady
  <2> QED BY <1>5, <1>6, <2>2 DEF Fell, Turns
<1>8. \A d \in Cos : \/ z.pc[d] = u.pc[d]
                     \/ u.pc[d] \notin {"queue", "entering"} /\ z.pc[d] \notin {"sleep", "queue", "entering"}
  BY <1>3, <1>5 DEF Fell
<1>9. Steady(z)
  BY <1>3, <1>7, <1>8, PcSteady
<1>10. Steady(Forks(z)) /\ Forks(z).run \in Cos
  BY <1>5, <1>9, ForksSteady
<1>11. Raised(x, c) = Forks(z)
  BY <1>4 DEF Raised, Fallen
<1>12. PICK r : r = Forks(z)
  OBVIOUS
<1>13. Steady(r) /\ r.run # None
  BY <1>1, <1>10, <1>12
<1>14. Settled(r)
  BY <1>13 DEF Settled
<1> QED BY <1>11, <1>12, <1>14

\* What suspend makes of a service is settled.
LEMMA SuspendSettled ==
  ASSUME NEW s \in Services, NEW x, NEW L, Tidy(x, s, L), Steady(x)
  PROVE  Settled(Suspend(x))
<1>1. PICK r : r = Suspend(x)
  OBVIOUS
<1>2. Steady(r) /\ (r.run = None => r.wakeups = <<>>)
  BY <1>1, SuspendSteady
<1> QED BY <1>1, <1>2 DEF Settled

\* A step that moves no service, or one that is disturbed, or over, says nothing of the
\* others.
LEMMA OthersSettle ==
  ASSUME SettledInv, SessionInv, alive' \subseteq alive,
         NEW s, s \in alive' => sv'[s].disturbed,
         \A u \in Services : u # s => sv'[u] = sv[u]
  PROVE  SettledInv'
<1>1. \A u \in alive' : u \in Services /\ u \in alive
  BY DEF SessionInv, Shaped
<1>2. \A u \in alive' : ~ sv'[u].disturbed => Settled(sv'[u])
  BY <1>1 DEF SettledInv, Calm
<1>3. \A u \in alive' : Calm(u)' => Settled(sv[u])'
  BY <1>2 DEF Calm, Settled, Steady, Woke, Handed, OnItsWay, Has
<1> QED BY <1>3 DEF SettledInv

\* A step of a service leaves the states of the others alone.
LEMMA ServiceMoves ==
  ASSUME SessionInv, NEW s \in Services, Service(s)
  PROVE  alive' \subseteq alive /\ \A u \in Services : u # s => sv'[u] = sv[u]
<1>1. DOMAIN sv = Services
  BY DEF SessionInv, Shaped
<1> SUFFICES alive' \subseteq alive /\ (sv' = sv \/ \E y : sv' = [sv EXCEPT ![s] = y])
  BY <1>1
<1>2. CASE TakeResponse(s)
  BY <1>2 DEF TakeResponse, Take
<1>3. CASE TakeRequest(s)
  BY <1>3 DEF TakeRequest, Take
<1>4. CASE TakeError(s)
  BY <1>4 DEF TakeError, Take
<1>5. CASE Drop(s)
  BY <1>5 DEF Drop
<1>6. ASSUME NEW c \in Cos, Running(s, c)
      PROVE  alive' \subseteq alive /\ (sv' = sv \/ \E y : sv' = [sv EXCEPT ![s] = y])
  <2>1. CASE Sleep(s, c)
    BY <2>1 DEF Sleep
  <2>2. CASE Fork(s, c)
    BY <2>2 DEF Fork
  <2>3. ASSUME NEW type, Ret(s, c, type)
        PROVE  alive' \subseteq alive /\ (sv' = sv \/ \E y : sv' = [sv EXCEPT ![s] = y])
    BY <2>3 DEF Ret
  <2>4. CASE Response(s, c)
    BY <2>4 DEF Response, Raise
  <2>5. CASE Fail(s, c)
    BY <2>5 DEF Fail, Raise
  <2>6. CASE End(s, c)
    BY <2>6 DEF End
  <2>7. CASE Enter(s, c)
    BY <2>7 DEF Enter
  <2>8. CASE Entered(s, c)
    BY <2>8 DEF Entered, Raise
  <2>9. CASE Leave(s, c)
    BY <2>9 DEF Leave
  <2>10. CASE Exit(s, c)
    BY <2>10 DEF Exit
  <2>11. ASSUME NEW t \in Services, Call(s, c, t)
         PROVE  alive' \subseteq alive /\ (sv' = sv \/ \E y : sv' = [sv EXCEPT ![s] = y])
    BY <2>11 DEF Call, Raise
  <2>12. ASSUME NEW d \in Cos, Wakeup(s, c, d)
         PROVE  alive' \subseteq alive /\ (sv' = sv \/ \E y : sv' = [sv EXCEPT ![s] = y])
    BY <2>12 DEF Wakeup
  <2>13. ASSUME NEW r \in sv[s].unresponse, NEW type \in {"response", "error"}, Respond(s, c, r, type)
         PROVE  alive' \subseteq alive /\ (sv' = sv \/ \E y : sv' = [sv EXCEPT ![s] = y])
    BY <2>13 DEF Respond
  <2> QED BY <1>6, <2>1, <2>2, <2>3, <2>4, <2>5, <2>6, <2>7, <2>8, <2>9, <2>10, <2>11, <2>12, <2>13 DEF Running
<1> QED BY <1>2, <1>3, <1>4, <1>5, <1>6 DEF Service

\* An operation that leaves the turns alone.
LEMMA TurnsSettle ==
  ASSUME SectionInv, SessionInv, SettledInv, NEW s \in alive, Calm(s), NEW c \in Cos,
         sv[s].run = c, NEW y, sv' = [sv EXCEPT ![s] = y], alive' = alive,
         Turns(y) = Turns(sv[s]), y.pc = sv[s].pc, y.run = c
  PROVE  SettledInv'
<1>1. Steady(sv[s]) /\ sv[s].wakeups \in Seq(Cos) /\ sv[s].threads \in Seq(Cos) /\ c # None
  BY MoverIs
<1>2. Steady(y)
  BY <1>1, PcSteady
<1> QED BY <1>1, <1>2, SettledStep DEF Settled

\* A coroutine that yields as y.
LEMMA YieldSettles ==
  ASSUME SessionInv, SettledInv, NEW s \in alive, NEW L, NEW y, Tidy(y, s, L), Steady(y),
         sv' = [sv EXCEPT ![s] = Suspend(y)], alive' = alive
  PROVE  SettledInv'
<1>1. s \in Services
  BY ServiceIs
<1>2. PICK r : r = Suspend(y)
  OBVIOUS
<1>3. Settled(r)
  BY <1>1, <1>2, SuspendSettled
<1> QED BY <1>2, <1>3, SettledStep

\* An error.
LEMMA RaiseSettles ==
  ASSUME SessionInv, SettledInv, NEW s \in alive, NEW x, NEW L, Tidy(x, s, L), InSection(x), Steady(x),
         NEW c, Alone(x, c, s), x.pc[c] = "run", Raise(s, c, x), alive' = alive
  PROVE  SettledInv'
<1>1. s \in Services
  BY ServiceIs
<1>2. PICK r : r = Raised(x, c)
  OBVIOUS
<1>3. Settled(r)
  BY <1>1, <1>2, RaisedSettled
<1>4. sv' = [sv EXCEPT ![s] = r]
  BY <1>2 DEF Raise
<1> QED BY <1>3, <1>4, SettledStep

LEMMA RetSettles ==
  ASSUME SectionInv, SessionInv, SettledInv, NEW s \in Services, s \in alive, Calm(s), NEW c \in Cos, NEW type, Ret(s, c, type)
  PROVE  SettledInv'
<1>1. s \in alive /\ sv[s].run = c /\ alive' = alive
  BY DEF Ret, Does
<1>2. PICK x : x = sv[s]
  OBVIOUS
<1>3. DOMAIN x = Fields
  BY <1>1, <1>2, MoverIs
<1>4. PICK y : y = [x EXCEPT !.id[c] = None]
  OBVIOUS
<1>5. Turns(y) = Turns(x) /\ y.pc = x.pc /\ y.run = x.run
  BY <1>3, <1>4 DEF Turns, Fields
<1>6. sv' = [sv EXCEPT ![s] = y]
  BY <1>2, <1>4 DEF Ret
<1> QED BY <1>1, <1>2, <1>5, <1>6, TurnsSettle

LEMMA RespondSettles ==
  ASSUME SectionInv, SessionInv, SettledInv, NEW s \in Services, s \in alive, Calm(s), NEW c \in Cos,
         NEW r \in sv[s].unresponse, NEW type \in {"response", "error"}, Respond(s, c, r, type)
  PROVE  SettledInv'
<1>1. s \in alive /\ sv[s].run = c /\ alive' = alive
  BY DEF Respond, Does
<1>2. PICK x : x = sv[s]
  OBVIOUS
<1>3. DOMAIN x = Fields
  BY <1>1, <1>2, MoverIs
<1>4. PICK v : v = [x EXCEPT !.unresponse = @ \ {r}]
  OBVIOUS
<1>5. DOMAIN v = Fields /\ Turns(v) = Turns(x) /\ v.pc = x.pc /\ v.run = x.run
  BY <1>3, <1>4 DEF Turns, Fields
<1>6. PICK y : y = Release(v, r.address)
  OBVIOUS
<1>7. Turns(y) = Turns(v) /\ y.pc = v.pc /\ y.run = v.run
  BY <1>5, <1>6 DEF Release, Turns, Fields
<1>8. sv' = [sv EXCEPT ![s] = y]
  BY <1>2, <1>4, <1>6 DEF Respond
<1> QED BY <1>1, <1>2, <1>5, <1>7, <1>8, TurnsSettle

LEMMA ResponseSettles ==
  ASSUME SectionInv, SessionInv, SettledInv, NEW s \in Services, s \in alive, Calm(s), NEW c \in Cos,
         Response(s, c)
  PROVE  SettledInv'
<1>1. s \in alive /\ sv[s].run = c /\ alive' = alive /\ sv[s].pc[c] = "run"
  BY DEF Response, Does
<1>2. PICK x : x = sv[s]
  OBVIOUS
<1>3. /\ DOMAIN x = Fields /\ Tidy(x, s, Live(s)) /\ Alone(x, c, s) /\ Steady(x) /\ InSection(x)
      /\ x.wakeups \in Seq(Cos) /\ x.threads \in Seq(Cos)
  BY <1>1, <1>2, MoverIs
<1>4. PICK z : z = [x EXCEPT !.id[c] = None]
  OBVIOUS
<1>5. Quits(x, z, c)
  BY <1>3, <1>4 DEF Quits, Core, Fields
<1>6. DOMAIN z = Fields /\ Turns(z) = Turns(x) /\ z.pc = x.pc /\ z.run = x.run /\ z.depth = x.depth
      /\ z.current = x.current /\ z.ref = x.ref /\ z.address = x.address
  BY <1>3, <1>4 DEF Turns, Fields
<1>7. PICK n, a : n = x.id[c] /\ a = x.address[c]
  OBVIOUS
<1>8. CASE z.watchService[a] = 0
  <2>1. Raise(s, c, z)
    BY <1>2, <1>4, <1>6, <1>7, <1>8 DEF Response
  <2>2. Typed(z, s)
    BY <1>3, <1>5, QuitsIs
  <2>3. Core(z) = Core(x)
    BY <1>5 DEF Quits
  <2>4. Tidy(z, s, Live(s)) /\ Alone(z, c, s)
    BY <1>3, <2>2, <2>3, CoreTidy, CoreAlone
  <2>5. Steady(z)
    BY <1>3, <1>6, PcSteady
  <2>6. InSection(z)
    BY <1>3, <1>6 DEF InSection
  <2> QED BY <1>1, <1>2, <1>6, <2>1, <2>4, <2>5, <2>6, RaiseSettles
<1>9. CASE z.watchService[a] # 0
  <2>1. PICK r : r = [session |-> n, address |-> a]
    OBVIOUS
  <2>2. PICK y : y = [z EXCEPT !.watchService[a] = @ + 1, !.unresponse = @ \cup {r}]
    OBVIOUS
  <2>3. sv' = [sv EXCEPT ![s] = y]
    <3>1. z.address = x.address
      BY <1>6
    <3> QED BY <1>2, <1>4, <1>7, <1>9, <2>1, <2>2, <3>1 DEF Response
  <2>4. Turns(y) = Turns(z) /\ y.pc = z.pc /\ y.run = z.run
    BY <1>6, <2>2 DEF Turns, Fields
  <2> QED BY <1>1, <1>2, <1>6, <2>3, <2>4, TurnsSettle
<1> QED BY <1>8, <1>9

LEMMA FailSettles ==
  ASSUME SectionInv, SessionInv, SettledInv, NEW s \in Services, s \in alive, Calm(s), NEW c \in Cos,
         Fail(s, c)
  PROVE  SettledInv'
<1>1. s \in alive /\ sv[s].run = c /\ alive' = alive /\ sv[s].pc[c] = "run" /\ Raise(s, c, sv[s])
  BY DEF Fail, Does
<1>2. Tidy(sv[s], s, Live(s)) /\ Alone(sv[s], c, s) /\ Steady(sv[s]) /\ InSection(sv[s])
  BY <1>1, MoverIs
<1> QED BY <1>1, <1>2, RaiseSettles

LEMMA ForkSettles ==
  ASSUME SectionInv, SessionInv, SettledInv, NEW s \in Services, s \in alive, Calm(s), NEW c \in Cos,
         Fork(s, c)
  PROVE  SettledInv'
<1>1. s \in alive /\ sv[s].run = c /\ sv[s].ops < MaxOps[s] /\ alive' = alive
  BY DEF Fork, Counts, Does
<1>2. PICK w : w = Counted(s)
  OBVIOUS
<1>3. /\ Tidy(w, s, Live(s)) /\ Steady(w) /\ w.pool = sv[s].pool /\ w.pool # <<>> /\ w.run = c /\ c # None
      /\ w.wakeups \in Seq(Cos) /\ w.threads \in Seq(Cos)
  BY <1>1, <1>2, CountedSteady DEF Tallied
<1>4. PICK y : y = Forking(w, "new")
  OBVIOUS
<1>5. /\ Turns(y) = Turns(w) /\ y.run = w.run
      /\ \A d \in Cos : y.pc[d] = w.pc[d] \/ (y.pc[d] = "new" /\ w.pc[d] = "free")
  <2>1. Tidy(w, s, Live(s)) /\ w.pool # <<>> /\ "new" \in {"new", "noop"}
    BY <1>3
  <2>2. /\ Tidy(y, s, Live(s)) /\ Serving(w, y) /\ Turns(y) = Turns(w) /\ y.run = w.run
        /\ \A d \in Cos : y.pc[d] = w.pc[d] \/ (y.pc[d] = "new" /\ w.pc[d] = "free")
    BY <1>4, <2>1, ForkTidy
  <2> QED BY <2>2
<1>6. Steady(y)
  <2>1. \A d \in Cos : \/ y.pc[d] = w.pc[d]
                       \/ w.pc[d] \notin {"queue", "entering"} /\ y.pc[d] \notin {"sleep", "queue", "entering"}
    BY <1>5
  <2> QED BY <1>3, <1>5, <2>1, PcSteady
<1>7. sv' = [sv EXCEPT ![s] = y]
  BY <1>2, <1>4 DEF Fork
<1> QED BY <1>1, <1>3, <1>5, <1>6, <1>7, SettledStep DEF Settled

LEMMA LeaveSettles ==
  ASSUME SectionInv, SessionInv, SettledInv, NEW s \in Services, s \in alive, Calm(s), NEW c \in Cos,
         Leave(s, c)
  PROVE  SettledInv'
<1>1. s \in alive /\ sv[s].run = c /\ alive' = alive /\ sv[s].depth[c] > 0
  BY DEF Leave, Does
<1>2. PICK x : x = sv[s]
  OBVIOUS
<1>3. Tidy(x, s, Live(s)) /\ Typed(x, s) /\ Steady(x) /\ InSection(x) /\ c # None
  BY <1>1, <1>2, MoverIs
<1>4. x.current = c /\ x.ref \in Nat /\ x.ref > 0
  <2>1. x.depth[c] > 0
    BY <1>1, <1>2
  <2>2. InSection(x)
    BY <1>3
  <2> QED BY <2>1, <2>2 DEF InSection
<1>5. PICK y : y = Left(x, c)
  OBVIOUS
<1>6. Steady(y)
  BY <1>3, <1>4, <1>5, LeftSteady
<1>7. y.run = x.run
  BY <1>3, <1>5, LeftTidy
<1>8. sv' = [sv EXCEPT ![s] = y]
  BY <1>2, <1>5 DEF Leave
<1> QED BY <1>1, <1>2, <1>3, <1>6, <1>7, <1>8, SettledStep DEF Settled

LEMMA WakeupSettles ==
  ASSUME SectionInv, SessionInv, SettledInv, NEW s \in Services, s \in alive, Calm(s), NEW c \in Cos, NEW d \in Cos,
         Wakeup(s, c, d), ~ sv'[s].disturbed
  PROVE  SettledInv'
<1>1. /\ s \in alive /\ sv[s].run = c /\ sv[s].ops < MaxOps[s] /\ alive' = alive /\ sv[s].sleeps[d] # None
  BY DEF Wakeup, Counts, Does, Asleep
<1>2. PICK w : w = Counted(s)
  OBVIOUS
<1>3. /\ Typed(w, s) /\ DOMAIN w = Fields /\ Steady(w) /\ w.run = c /\ c # None /\ w.wakeups \in Seq(Cos)
      /\ w.pc = sv[s].pc /\ w.wakeups = sv[s].wakeups
  BY <1>1, <1>2, CountedSteady DEF Tallied
<1>5. PICK y : y = [w EXCEPT !.wakeups = Append(@, d),
                            !.disturbed = @ \/ sv[s].pc[d] = "queue" \/ Contains(sv[s].wakeups, d)]
  OBVIOUS
<1>6. /\ y.pc = w.pc /\ y.sleeps = w.sleeps /\ y.wakeups = Append(w.wakeups, d) /\ y.run = w.run
      /\ y.threads = w.threads /\ y.current = w.current /\ y.ref = w.ref
  BY <1>3, <1>5 DEF Fields
<1>9. sv' = [sv EXCEPT ![s] = y]
  BY <1>2, <1>5 DEF Wakeup
<1>10. sv[s].pc[d] # "queue" /\ ~ Contains(sv[s].wakeups, d)
  <2>1. y.disturbed = (w.disturbed \/ sv[s].pc[d] = "queue" \/ Contains(sv[s].wakeups, d))
    BY <1>3, <1>5 DEF Fields
  <2>2. ~ y.disturbed
    BY <1>9 DEF SessionInv, Shaped
  <2> QED BY <2>1, <2>2
<1>4. ~ Has(w.wakeups, d)
  BY <1>3, <1>10 DEF Contains, Has
<1>7. w.pc[d] = "sleep"
  <2>1. sv[s].pc[d] \in {"sleep", "queue"}
    BY <1>1, MoverIs DEF Tidy, Sleeping
  <2> QED BY <1>3, <1>10, <2>1
<1>8. Steady(y)
  BY <1>3, <1>4, <1>6, <1>7, WakeupSteady
<1> QED BY <1>1, <1>3, <1>6, <1>8, <1>9, SettledStep DEF Settled

LEMMA SleepSettles ==
  ASSUME SectionInv, SessionInv, SettledInv, NEW s \in Services, s \in alive, Calm(s), NEW c \in Cos, Sleep(s, c)
  PROVE  SettledInv'
<1>1. s \in alive /\ sv[s].run = c /\ sv[s].ops < MaxOps[s] /\ alive' = alive /\ sv[s].pc[c] = "run"
  BY DEF Sleep, Counts, Does
<1>2. PICK w : w = Counted(s)
  OBVIOUS
<1>3. /\ Tidy(w, s, Live(s)) /\ Typed(w, s) /\ Alone(w, c, s) /\ DOMAIN w = Fields /\ Steady(w)
      /\ w.pc = sv[s].pc /\ w.session = sv[s].session
      /\ w.session + 1 \in Sessions(s) /\ w.session + 1 <= w.ops + 1
  BY <1>1, <1>2, CountedSteady DEF Tallied
<1>4. PICK n : n = w.session + 1
  OBVIOUS
<1>5. n \in Sessions(s) /\ n # None /\ n <= w.ops + 1 /\ w.sleeps[c] = None /\ w.pc[c] = "run"
  BY <1>1, <1>3, <1>4, SessionNumbers DEF Alone
<1>6. PICK y : y = Dozing(w, c, n)
  OBVIOUS
<1>7. Begins(w, y, s, c, "sleep", s, n)
  <2>1. Waiting(w, s) /\ Typed(w, s) /\ Alone(w, c, s)
    BY <1>3 DEF Tidy
  <2>2. n \in Sessions(s) /\ n <= w.ops + 1
    BY <1>5
  <2> QED BY <1>4, <1>6, <2>1, <2>2, SleepBegins
<1>8. n # None => "sleep" # "call"
  OBVIOUS
<1>9. Tidy(y, s, {})
  BY <1>3, <1>7, <1>8, BegunTidy
<1>10. /\ y.sleeps = [w.sleeps EXCEPT ![c] = n] /\ y.wakeups = w.wakeups /\ y.current = w.current
       /\ y.ref = w.ref /\ y.threads = w.threads /\ y.pc = [w.pc EXCEPT ![c] = "sleep"]
  BY <1>3, <1>6 DEF Dozing, Fields
<1>11. Steady(y)
  <2>1. Typed(w, s) /\ Steady(w) /\ w.pc[c] = "run" /\ w.sleeps[c] = None /\ n # None
    BY <1>3, <1>5
  <2>2. y.sleeps = [w.sleeps EXCEPT ![c] = n] /\ y.wakeups = w.wakeups /\ y.current = w.current /\ y.ref = w.ref
    BY <1>10
  <2>3. \/ y.threads = w.threads /\ y.pc = [w.pc EXCEPT ![c] = "sleep"]
        \/ y.threads = Append(w.threads, c) /\ y.pc = [w.pc EXCEPT ![c] = "queue"] /\ w.current \notin {None, c}
    BY <1>10
  <2> QED BY SMTT(60), <2>1, <2>2, <2>3, DozingSteady
<1>12. sv' = [sv EXCEPT ![s] = Suspend(y)]
  BY <1>2, <1>3, <1>4, <1>6 DEF Sleep, Dozing
<1> QED BY <1>1, <1>9, <1>11, <1>12, YieldSettles

LEMMA CallSettles ==
  ASSUME SectionInv, SessionInv, SettledInv, NEW s \in Services, s \in alive, Calm(s), NEW c \in Cos, NEW t \in Services,
         Call(s, c, t)
  PROVE  SettledInv'
<1>1. s \in alive /\ sv[s].run = c /\ sv[s].ops < MaxOps[s] /\ alive' = alive /\ sv[s].pc[c] = "run" /\ t # s
  BY CallsAssumption DEF Call, Counts, Does
<1>2. PICK w : w = [Counted(s) EXCEPT !.calls = @ + 1]
  OBVIOUS
<1>3. /\ Tidy(w, s, Live(s)) /\ Typed(w, s) /\ Alone(w, c, s) /\ DOMAIN w = Fields /\ Steady(w) /\ InSection(w)
      /\ w.pc = sv[s].pc /\ w.session = sv[s].session /\ w.wakeups \in Seq(Cos) /\ w.threads \in Seq(Cos)
      /\ w.session + 1 \in Sessions(s) /\ w.session + 1 <= w.ops + 1
  BY <1>1, <1>2, CountedSteady DEF Tallied
<1>4. w.pc[c] = "run"
  BY <1>1, <1>3
<1>5. CASE t \notin alive
  <2>1. Raise(s, c, w)
    BY <1>2, <1>5 DEF Call
  <2> QED BY <1>1, <1>3, <1>4, <2>1, RaiseSettles
<1>6. CASE t \in alive
  <2>1. PICK n : n = w.session + 1
    OBVIOUS
  <2>2. n \in Sessions(s) /\ n <= w.ops + 1
    BY <1>3, <2>1
  <2>3. PICK y : y = Calling(w, c, n, t)
    OBVIOUS
  <2>4. Begins(w, y, s, c, "call", t, None)
    BY <1>1, <1>3, <2>1, <2>2, <2>3, CallBegins
  <2>5. Tidy(y, s, {})
    BY <1>3, <2>4, BegunTidy
  <2>6. /\ y.sleeps = w.sleeps /\ y.wakeups = w.wakeups /\ y.current = w.current
        /\ y.ref = w.ref /\ y.threads = w.threads /\ y.pc = [w.pc EXCEPT ![c] = "call"]
    BY <1>3, <2>3 DEF Calling, Fields
  <2>7. Turns(y) = Turns(w)
    BY <2>6 DEF Turns
  <2>8. \A d \in Cos : y.pc[d] = IF d = c THEN "call" ELSE w.pc[d]
    BY <1>3, <2>6 DEF Typed
  <2>9. Steady(y)
    BY <1>3, <1>4, <2>7, <2>8, PcSteady
  <2>10. sv' = [sv EXCEPT ![s] = Suspend(y)]
    BY <1>2, <1>3, <1>6, <2>1, <2>3 DEF Call, Calling
  <2> QED BY <1>1, <2>5, <2>9, <2>10, YieldSettles
<1> QED BY <1>5, <1>6

LEMMA EnterSettles ==
  ASSUME SectionInv, SessionInv, SettledInv, NEW s \in Services, s \in alive, Calm(s), NEW c \in Cos, Enter(s, c)
  PROVE  SettledInv'
<1>1. s \in alive /\ sv[s].run = c /\ sv[s].ops < MaxOps[s] /\ alive' = alive /\ sv[s].pc[c] = "run"
  BY DEF Enter, Counts, Does
<1>2. PICK w : w = Counted(s)
  OBVIOUS
<1>3. /\ Tidy(w, s, Live(s)) /\ Typed(w, s) /\ Alone(w, c, s) /\ DOMAIN w = Fields /\ Steady(w) /\ InSection(w)
      /\ w.pc = sv[s].pc /\ w.run = c /\ w.session = sv[s].session /\ c # None
      /\ w.session + 1 \in Sessions(s) /\ w.session + 1 <= w.ops + 1
  BY <1>1, <1>2, CountedSteady DEF Tallied
<1>4. w.pc[c] = "run" /\ w.sleeps[c] = None
  BY <1>1, <1>3 DEF Alone
<1>5. CASE w.current \in {None, c}
  <2>1. PICK y : y = [w EXCEPT !.current = c, !.ref = @ + 1, !.depth[c] = @ + 1]
    OBVIOUS
  <2>2. /\ y.sleeps = w.sleeps /\ y.wakeups = w.wakeups /\ y.current = c /\ y.run = w.run
        /\ y.ref = w.ref + 1 /\ y.threads = w.threads /\ y.pc = w.pc
    BY <1>3, <2>1 DEF Fields
  <2>3. y.ref \in Nat /\ y.ref > 0
    BY <1>3, <2>2 DEF InSection
  <2>4. y.pc = [w.pc EXCEPT ![c] = "run"]
    BY <1>3, <1>4, <2>2 DEF Typed
  <2>5. Steady(y)
    BY <1>3, <1>4, <1>5, <2>2, <2>3, <2>4, TakenSteady
  <2>6. sv' = [sv EXCEPT ![s] = y]
    BY <1>2, <1>5, <2>1 DEF Enter
  <2> QED BY <1>1, <1>3, <2>2, <2>5, <2>6, SettledStep DEF Settled
<1>6. CASE w.current \notin {None, c}
  <2>1. PICK n : n = w.session + 1
    OBVIOUS
  <2>2. n \in Sessions(s) /\ n # None /\ n <= w.ops + 1
    BY <1>3, <2>1, SessionNumbers
  <2>3. PICK y : y = Lining(w, c, n)
    OBVIOUS
  <2>4. Begins(w, y, s, c, "queue", s, n)
    <3>1. Waiting(w, s) /\ Typed(w, s) /\ Alone(w, c, s)
      BY <1>3 DEF Tidy
    <3>2. n \in Sessions(s) /\ n <= w.ops + 1
      BY <2>2
    <3> QED BY <2>1, <2>3, <3>1, <3>2, QueueBegins
  <2>5. n # None => "queue" # "call"
    OBVIOUS
  <2>6. Tidy(y, s, {})
    BY <1>3, <2>4, <2>5, BegunTidy
  <2>7. /\ y.sleeps = [w.sleeps EXCEPT ![c] = n] /\ y.wakeups = w.wakeups /\ y.current = w.current
        /\ y.ref = w.ref /\ y.threads = Append(w.threads, c) /\ y.pc = [w.pc EXCEPT ![c] = "queue"]
    BY <1>3, <2>3 DEF Lining, Fields
  <2>8. Steady(y)
    <3>1. Typed(w, s) /\ Steady(w) /\ w.pc[c] = "run" /\ w.sleeps[c] = None /\ n # None
      BY <1>3, <1>4, <2>2
    <3>2. y.sleeps = [w.sleeps EXCEPT ![c] = n] /\ y.wakeups = w.wakeups /\ y.current = w.current /\ y.ref = w.ref
      BY <2>7
    <3>3. \/ y.threads = w.threads /\ y.pc = [w.pc EXCEPT ![c] = "sleep"]
          \/ y.threads = Append(w.threads, c) /\ y.pc = [w.pc EXCEPT ![c] = "queue"] /\ w.current \notin {None, c}
      BY <1>6, <2>7
    <3> QED BY SMTT(60), <3>1, <3>2, <3>3, DozingSteady
  <2>9. sv' = [sv EXCEPT ![s] = Suspend(y)]
    BY <1>2, <1>3, <1>6, <2>1, <2>3 DEF Enter, Lining
  <2> QED BY <1>1, <2>6, <2>8, <2>9, YieldSettles
<1> QED BY <1>5, <1>6

\* A coroutine that was woken to enter the section finds it left for it.
LEMMA EnteredSettles ==
  ASSUME SectionInv, SessionInv, SettledInv, NEW s \in Services, s \in alive, Calm(s), NEW c \in Cos, Entered(s, c)
  PROVE  SettledInv'
<1>1. s \in alive /\ sv[s].run = c /\ alive' = alive /\ sv[s].pc[c] = "entering"
  BY DEF Entered
<1>2. PICK x : x = sv[s]
  OBVIOUS
<1>3. Typed(x, s) /\ DOMAIN x = Fields /\ Steady(x) /\ c # None
  BY <1>1, <1>2, MoverIs
<1>4. x.current = c /\ x.ref = 0
  <2>1. OnItsWay(x, c)
    BY <1>1, <1>2 DEF OnItsWay
  <2> QED BY <1>3, <2>1 DEF Steady, Handed
<1>5. PICK z : z = [x EXCEPT !.pc[c] = "run"]
  OBVIOUS
<1>6. /\ DOMAIN z = Fields /\ z.pc = [x.pc EXCEPT ![c] = "run"] /\ z.ref = 0 /\ z.sleeps = x.sleeps
      /\ z.wakeups = x.wakeups /\ z.threads = x.threads /\ z.run = x.run
  BY <1>3, <1>4, <1>5 DEF Fields
<1>7. PICK y : y = [z EXCEPT !.current = c, !.ref = 1, !.depth[c] = 1]
  OBVIOUS
<1>8. /\ y.pc = z.pc /\ y.ref = 1 /\ y.sleeps = z.sleeps
      /\ y.wakeups = z.wakeups /\ y.threads = z.threads /\ y.run = z.run /\ y.current = c
  BY <1>6, <1>7 DEF Fields
<1>9. x.pc[c] \in {"run", "entering"} /\ x.current \in {None, c} /\ y.ref \in Nat /\ y.ref > 0
  BY <1>1, <1>2, <1>4, <1>8
<1>10. Steady(y)
  BY <1>3, <1>6, <1>8, <1>9, TakenSteady
<1>11. sv' = [sv EXCEPT ![s] = y]
  BY <1>2, <1>5, <1>6, <1>7 DEF Entered
<1>12. y.run # None
  BY <1>1, <1>2, <1>3, <1>6, <1>8
<1> QED BY <1>1, <1>10, <1>11, <1>12, SettledStep DEF Settled

LEMMA EndSettles ==
  ASSUME SectionInv, SessionInv, SettledInv, NEW s \in Services, s \in alive, Calm(s), NEW c \in Cos, End(s, c)
  PROVE  SettledInv'
<1>1. s \in alive /\ sv[s].run = c /\ alive' = alive /\ sv[s].pc[c] \in {"run", "noop"}
  BY DEF End
<1>2. PICK x : x = sv[s]
  OBVIOUS
<1>3. /\ Tidy(x, s, Live(s)) /\ Typed(x, s) /\ Alone(x, c, s) /\ Steady(x)
      /\ x.wakeups \in Seq(Cos) /\ x.threads \in Seq(Cos)
  BY <1>1, <1>2, MoverIs
<1>4. PICK y : y = Recycled(x, c)
  OBVIOUS
<1>5. Tidy(y, s, Live(s)) /\ Turns(y) = Turns(x) /\ y.pc = [x.pc EXCEPT ![c] = "free"]
  BY <1>3, <1>4, RecycledTidy
<1>6. \A d \in Cos : y.pc[d] = IF d = c THEN "free" ELSE x.pc[d]
  BY <1>3, <1>5 DEF Typed
<1>7. x.pc[c] \in {"run", "noop"}
  BY <1>1, <1>2
<1>8. Steady(y)
  BY <1>3, <1>5, <1>6, <1>7, PcSteady
<1>9. sv' = [sv EXCEPT ![s] = Suspend(y)]
  BY <1>2, <1>4 DEF End
<1> QED BY <1>1, <1>5, <1>8, <1>9, YieldSettles

\* A response resumes who waits for it, not who waits for the section.
LEMMA ReturnedSettled ==
  ASSUME NEW s \in Services, NEW x, NEW L, Tidy(x, s, L), Steady(x), x.wakeups = <<>>, NEW n \in L
  PROVE  Settled(Returned(x, n))
<1>0. /\ DOMAIN x = Fields /\ Typed(x, s) /\ n \in Sessions(s) /\ x.wakeups \in Seq(Cos) /\ x.threads \in Seq(Cos)
      /\ None \notin Cos
  BY LiveIsSession, NamesAssumption DEF Tidy, Typed, Steady
<1>1. CASE x.waits[n] \in Cos
  <2>1. PICK c \in Cos : c = x.waits[n]
    BY <1>1
  <2>2. x.pc[c] \notin {"queue", "entering"}
    <3>1. x.pc[c] \in {"new", "call", "sleep", "queue"}
      BY <1>0, <1>1, <2>1 DEF Tidy, Waiting
    <3>2. ASSUME x.pc[c] = "queue" PROVE FALSE
      <4>1. x.sleeps[c] # None
        BY <3>2 DEF Steady, Woke
      <4>2. x.sleeps[c] \in Sessions(s) /\ x.waits[x.sleeps[c]] = c /\ x.sleeps[c] \notin L
        BY <1>0, <3>2, <4>1 DEF Tidy, Typed, Sleeping
      <4>3. x.sleeps[c] = n
        BY <1>0, <2>1, <4>2 DEF Tidy, Waiting
      <4> QED BY <4>2, <4>3
    <3> QED BY <3>1, <3>2
  <2>3. PICK y : y = [x EXCEPT !.waits[n] = None, !.watchSession[n] = None]
    OBVIOUS
  <2>4. /\ DOMAIN y = Fields /\ y.pc = x.pc /\ y.sleeps = x.sleeps /\ y.wakeups = x.wakeups
        /\ y.threads = x.threads /\ y.current = x.current /\ y.ref = x.ref
    BY <1>0, <2>3 DEF Fields
  <2>5. PICK r : r = Resume(y, c)
    OBVIOUS
  <2>6. /\ y.wakeups \in Seq(Cos) /\ (\A i \in 1 .. Len(y.wakeups) : y.wakeups[i] # c)
        /\ \A i, j \in 1 .. Len(y.wakeups) : y.wakeups[i] = y.wakeups[j] => i = j
    <3>1. Len(y.wakeups) = 0
      BY <2>4
    <3> QED BY <1>0, <2>4, <3>1
  <2>7. Goes(y, r, c) /\ r.wakeups = y.wakeups /\ r.run = c
    BY <2>4, <2>5, <2>6, ResumeGoes
  <2>8. Goes(x, r, c)
    BY <2>4, <2>7 DEF Goes
  <2>9. Steady(r)
    BY <1>0, <2>2, <2>8, GoesSteady
  <2>10. Returned(x, n) = r
    BY <1>1, <2>1, <2>3, <2>5 DEF Returned
  <2>11. Settled(r)
    BY <1>0, <2>7, <2>9 DEF Settled
  <2> QED BY <2>10, <2>11
<1>2. CASE x.waits[n] \notin Cos
  <2>1. PICK z : z = Missed(x, n)
    OBVIOUS
  <2>2. {} \subseteq L /\ n \notin {}
    OBVIOUS
  <2>3. Tidy(z, s, {}) /\ z.pc = x.pc /\ Turns(z) = Turns(x)
    BY <1>2, <2>1, <2>2, MissedTidy
  <2>4. Steady(z)
    BY <1>0, <2>3, PcSteady
  <2>5. PICK r : r = Forks(z)
    OBVIOUS
  <2>6. Steady(r) /\ r.wakeups = z.wakeups
    BY <2>3, <2>4, <2>5, ForksSteady
  <2>7. z.wakeups = <<>>
    BY <2>3 DEF Turns
  <2>8. Returned(x, n) = r
    BY <1>2, <2>1, <2>5 DEF Returned, Missed
  <2>9. Settled(r)
    BY <2>6, <2>7 DEF Settled
  <2> QED BY <2>8, <2>9
<1> QED BY <1>1, <1>2

\* What is left of the batch says nothing of the section.
LEMMA TakenSettled ==
  ASSUME SessionInv, SettledInv, NEW s \in alive, Calm(s), NEW x, x = Taken(sv[s])
  PROVE  Settled(x) /\ Steady(x) /\ x.run = sv[s].run
<1>1. DOMAIN sv[s] = Fields /\ Settled(sv[s])
  BY ServiceIs DEF Tidy, Typed, SettledInv
<1>2. Turns(x) = Turns(sv[s]) /\ x.pc = sv[s].pc /\ x.run = sv[s].run
  BY <1>1 DEF Taken, Turns, Fields
<1>3. Steady(x)
  BY <1>1, <1>2, PcSteady DEF Settled
<1> QED BY <1>1, <1>2, <1>3 DEF Settled, Turns

LEMMA TakeResponseSettles ==
  ASSUME SessionInv, SettledInv, NEW s \in Services, s \in alive, Calm(s), TakeResponse(s)
  PROVE  SettledInv'
<1>0. Take(s, "response")
  BY DEF TakeResponse
<1>1. s \in alive /\ sv[s].run = None /\ alive' = alive /\ box[s] \in Seq(Messages) /\ box[s] # <<>>
      /\ Head(box[s]).type = "response"
  BY <1>0, TakeIs
<1>2. PICK x : x = Taken(sv[s])
  OBVIOUS
<1>3. Tidy(x, s, Live(s)) /\ Steady(x) /\ x.wakeups = <<>>
  <2>1. Tidy(x, s, Live(s))
    BY <1>0, <1>2, TakeIs
  <2>2. Settled(x) /\ x.run = None
    BY <1>1, <1>2, TakenSettled
  <2> QED BY <2>1, <2>2 DEF Settled
<1>4. PICK m \in Messages : m = Head(box[s])
  BY <1>1, HeadIs
<1>5. PICK n \in Nat, t \in Services : n = m.session /\ t = m.source /\ m = Resp(n, t)
  BY <1>1, <1>4 DEF Messages, Resp, Message
<1>6. Has(box[s], m)
  BY <1>1, <1>4, HeadIs
<1>7. PICK p : p = <<"answer", t, s, n>>
  OBVIOUS
<1>8. p \in Places /\ p[3] = s /\ p[4] = n
  BY <1>1, <1>5, <1>6, <1>7 DEF Places, Kinds, Place
<1>9. n \in Live(s)
  BY <1>8, LiveIs
<1>10. PICK y : y = Returned(x, n)
  OBVIOUS
<1>11. sv' = [sv EXCEPT ![s] = y]
  BY <1>2, <1>4, <1>5, <1>10 DEF TakeResponse, Returned
<1>12. Settled(y)
  BY <1>3, <1>9, <1>10, ReturnedSettled
<1> QED BY <1>1, <1>11, <1>12, SettledStep

LEMMA TakeRequestSettles ==
  ASSUME SessionInv, SettledInv, NEW s \in Services, s \in alive, Calm(s), TakeRequest(s)
  PROVE  SettledInv'
<1>0. Take(s, "request")
  BY DEF TakeRequest
<1>1. s \in alive /\ alive' = alive /\ box[s] \in Seq(Messages) /\ box[s] # <<>>
  BY <1>0, TakeIs
<1>2. PICK x : x = Taken(sv[s])
  OBVIOUS
<1>3. /\ Tidy(x, s, Live(s)) /\ Typed(x, s) /\ x.pool # <<>> /\ Steady(x)
      /\ x.wakeups \in Seq(Cos) /\ x.threads \in Seq(Cos) /\ None \notin Cos
  <2>1. Tidy(x, s, Live(s)) /\ x.pool # <<>>
    BY <1>0, <1>2, TakeIs
  <2>2. Steady(x)
    BY <1>2, TakenSettled
  <2> QED BY <2>1, <2>2, NamesAssumption DEF Tidy, Steady
<1>4. PICK m \in Messages : m = Head(box[s])
  BY <1>1, HeadIs
<1>5. m.session \in Nat /\ m.source \in Services
  BY <1>4 DEF Messages
<1>6. PICK y : y = Given(x, m.session, m.source)
  OBVIOUS
<1>7. PICK d \in Cos : d = Last(x.pool) /\ Tidy(y, s, Live(s)) /\ Alone(y, d, s) /\ Hired(x, y, d, "new", m.source)
  BY <1>3, <1>5, <1>6, GivenTidy
<1>8. Turns(y) = Turns(x) /\ y.pc = [x.pc EXCEPT ![d] = "new"] /\ x.pc[d] = "free"
  BY <1>7 DEF Hired
<1>9. \A c \in Cos : y.pc[c] = IF c = d THEN "new" ELSE x.pc[c]
  BY <1>3, <1>8 DEF Typed
<1>10. Steady(y)
  BY <1>3, <1>8, <1>9, PcSteady
<1>11. Typed(y, s) /\ y.sleeps[d] = None /\ y.pc[d] # "entering"
  BY <1>7, <1>9 DEF Tidy, Alone
<1>12. PICK r : r = Resume(y, d)
  OBVIOUS
<1>13. Steady(r) /\ r.run = d
  BY <1>10, <1>11, <1>12, ResumeSteady
<1>14. sv' = [sv EXCEPT ![s] = r]
  BY <1>2, <1>4, <1>6, <1>7, <1>12 DEF TakeRequest, Given
<1> QED BY <1>1, <1>3, <1>13, <1>14, SettledStep DEF Settled

LEMMA TakeErrorSettles ==
  ASSUME SessionInv, SettledInv, NEW s \in Services, s \in alive, Calm(s), TakeError(s)
  PROVE  SettledInv'
<1>0. Take(s, "error")
  BY DEF TakeError
<1>1. s \in alive /\ alive' = alive
  BY <1>0, TakeIs
<1>2. PICK x : x = Taken(sv[s])
  OBVIOUS
<1>3. /\ Tidy(x, s, Live(s)) /\ x.errors = <<>> /\ x.pool # <<>> /\ Steady(x)
      /\ x.wakeups \in Seq(Cos) /\ x.threads \in Seq(Cos)
  <2>1. Tidy(x, s, Live(s)) /\ x.errors = <<>> /\ x.pool # <<>>
    BY <1>0, <1>2, TakeIs
  <2>2. Steady(x)
    BY <1>2, TakenSettled
  <2> QED BY <2>1, <2>2 DEF Steady
<1>4. PICK m : m = Head(box[s])
  OBVIOUS
<1>5. /\ m \in Messages
      /\ IF m.session = 0 THEN \A n \in Live(s) : x.watchSession[n] # m.source
         ELSE m.session \in (1 .. x.session) \ Live(s)
  <2>1. x.watchSession = sv[s].watchSession /\ x.session = sv[s].session
    BY <1>0, <1>2, TakeIs
  <2> QED BY <1>0, <1>4, <2>1, ErrorIs
<1>6. PICK e : e = Accused(x, m)
  OBVIOUS
<1>7. Tidy(e, s, Live(s)) /\ Turns(e) = Turns(x) /\ e.pc = x.pc
  BY <1>3, <1>5, <1>6, AccusedTidy
<1>8. Steady(e)
  BY <1>3, <1>7, PcSteady
<1>9. sv' = [sv EXCEPT ![s] = Suspend(e)]
  BY <1>2, <1>4, <1>6 DEF TakeError, Accused
<1> QED BY <1>1, <1>7, <1>8, <1>9, YieldSettles

\* Every service starts settled.
LEMMA SettledStart == Init => SettledInv
<1> SUFFICES ASSUME Init, NEW s \in Services PROVE Settled(sv[s])
  BY DEF Init, SettledInv
<1>1. /\ sv[s].wakeups = <<>> /\ sv[s].threads = <<>> /\ sv[s].current = None
      /\ \A c \in Cos : sv[s].pc[c] \in {"new", "free"}
  BY DEF Init
<1>2. /\ Len(sv[s].wakeups) = 0 /\ Len(sv[s].threads) = 0
      /\ sv[s].wakeups \in Seq(Cos) /\ sv[s].threads \in Seq(Cos)
  BY <1>1
<1>3. Woke(sv[s])
  BY <1>1, <1>2 DEF Woke
<1>4. \A c \in Cos : ~ OnItsWay(sv[s], c)
  BY <1>1 DEF OnItsWay
<1>5. Handed(sv[s])
  BY <1>1, <1>2, <1>4 DEF Handed
<1> QED BY <1>1, <1>2, <1>3, <1>5 DEF Settled, Steady

\* Every step keeps the services settled.
LEMMA SettledKept ==
  SectionInv /\ SessionInv /\ SettledInv /\ [Next]_vars /\ late' = {} => SettledInv'
<1> SUFFICES ASSUME SectionInv, SessionInv, SettledInv, [Next]_vars, late' = {} PROVE SettledInv'
  OBVIOUS
<1>1. CASE sv' = sv /\ alive' = alive
  <2>1. None \notin alive'
    BY <1>1, NamesAssumption DEF SessionInv, Shaped
  <2> QED BY <1>1, <2>1, OthersSettle
<1>2. ASSUME NEW s \in Services, Service(s) PROVE SettledInv'
  <2>1. CASE s \in alive' => sv'[s].disturbed
    BY <1>2, <2>1, ServiceMoves, OthersSettle
  <2>2. CASE s \in alive' /\ ~ sv'[s].disturbed
    <3>1. s \in alive /\ Calm(s) /\ ~ sv'[s].disturbed
      <4>1. alive' \subseteq alive
        BY <1>2, ServiceMoves
      <4> QED BY <2>2, <4>1, StepKeeps DEF SectionStays, Calm
    <3>2. ASSUME NEW c \in Cos, Running(s, c) PROVE SettledInv'
      <4>1. ~ Exit(s, c)
        BY <2>2 DEF Exit
      <4>2. ASSUME NEW type, Ret(s, c, type) PROVE SettledInv'
        BY <3>1, <4>2, RetSettles
      <4>3. ASSUME NEW t \in Services, Call(s, c, t) PROVE SettledInv'
        BY <3>1, <4>3, CallSettles
      <4>4. ASSUME NEW d \in Cos, Wakeup(s, c, d) PROVE SettledInv'
        BY <3>1, <4>4, WakeupSettles
      <4> QED BY <3>1, <3>2, <4>1, <4>2, <4>3, <4>4, SleepSettles, ForkSettles, ResponseSettles, FailSettles,
                 EndSettles, EnterSettles, EnteredSettles, LeaveSettles, RespondSettles DEF Running
    <3>3. ~ Drop(s)
      BY <3>1 DEF Drop
    <3> QED BY <1>2, <3>1, <3>2, <3>3, TakeResponseSettles, TakeRequestSettles, TakeErrorSettles DEF Service
  <2> QED BY <2>1, <2>2
<1>3. ASSUME NEW t \in timers, TimeOut(t) PROVE SettledInv'
  BY <1>1, <1>3 DEF TimeOut
<1>4. CASE UNCHANGED vars
  BY <1>1, <1>4 DEF vars
<1> QED BY <1>2, <1>3, <1>4 DEF Next

\* As long as no service goes on after its exit, the wakeups and the section of every
\* service that was not disturbed are settled.
THEOREM SettledInductive == Spec => [](late = {} => SettledInv)
<1> DEFINE Ok == late = {} => SettledInv
<1>1. Init => Ok
  BY SettledStart
<1>2. SectionInv /\ (late = {} => SessionInv) /\ Ok /\ [Next]_vars => Ok'
  <2> SUFFICES ASSUME SectionInv, late = {} => SessionInv, Ok, [Next]_vars, late' = {} PROVE SettledInv'
    OBVIOUS
  <2>1. late = {}
    BY LateIs
  <2> QED BY <2>1, SettledKept
<1> HIDE DEF Ok
<1>3. Spec => []Ok
  BY <1>1, <1>2, SectionCounts, SessionInductive, PTL DEF Spec
<1> QED BY <1>3 DEF Ok

\* In a service that woke no coroutine that queues, and none twice, one that skynet.queue woke
\* finds the section left for it, and a coroutine waits for it only while another has it or
\* is on its way to it.
HandedOn ==
  \A s \in alive, c \in Cos : Calm(s) =>
    /\ sv[s].pc[c] = "entering" => sv[s].current = c /\ sv[s].ref = 0
    /\ sv[s].pc[c] = "queue" =>
         /\ sv[s].current \in Cos
         /\ \/ sv[s].depth[sv[s].current] > 0
            \/ sv[s].pc[sv[s].current] = "entering"
            \/ sv[s].pc[sv[s].current] = "queue" /\ Has(sv[s].wakeups, sv[s].current)

\* As long as no service goes on after its exit, a coroutine that was woken to enter the
\* section finds it left for it, so that the assertion of skynet.queue after skynet.wait
\* holds, unless the program woke one that queues, or one twice; and while a coroutine waits for the
\* section, another one is in it, or it was given to one that is to be woken.
THEOREM SectionIsHandedOn == Spec => [](late = {} => HandedOn)
<1>1. SectionInv /\ SessionInv /\ SettledInv => HandedOn
  <2> SUFFICES ASSUME SectionInv, SessionInv, SettledInv, NEW s \in alive, NEW c \in Cos, Calm(s), NEW x, x = sv[s]
               PROVE  /\ x.pc[c] = "entering" => x.current = c /\ x.ref = 0
                      /\ x.pc[c] = "queue" =>
                           /\ x.current \in Cos
                           /\ \/ x.depth[x.current] > 0
                              \/ x.pc[x.current] = "entering"
                              \/ x.pc[x.current] = "queue" /\ Has(x.wakeups, x.current)
    BY DEF HandedOn
  <2>1. Handed(x) /\ InSection(x) /\ x.threads \in Seq(Cos) /\ None \notin Cos
    <3>1. s \in Services /\ Tidy(x, s, Live(s))
      BY ServiceIs
    <3>2. Handed(x)
      BY DEF SettledInv, Settled, Steady
    <3>3. x.threads \in Seq(Cos)
      BY DEF SettledInv, Settled, Steady
    <3> QED BY <3>1, <3>2, <3>3, NamesAssumption DEF SectionInv, Fine
  <2>2. x.pc[c] = "entering" => x.current = c /\ x.ref = 0
    BY <2>1 DEF Handed, OnItsWay
  <2>3. ASSUME x.pc[c] = "queue"
        PROVE  x.current \in Cos /\ (x.ref > 0 \/ OnItsWay(x, x.current))
    <3>1. CASE Has(x.threads, c)
      <4>1. x.threads # <<>>
        BY <2>1, <3>1 DEF Has
      <4> QED BY <2>1, <4>1 DEF Handed
    <3>2. CASE Has(x.wakeups, c)
      <4>1. OnItsWay(x, c)
        BY <2>3, <3>2 DEF OnItsWay
      <4> QED BY <2>1, <4>1 DEF Handed
    <3> QED BY <2>1, <2>3, <3>1, <3>2 DEF Handed
  <2>4. x.current \in Cos /\ x.ref > 0 => x.depth[x.current] > 0
    BY <2>1 DEF InSection
  <2> QED BY <2>2, <2>3, <2>4 DEF OnItsWay
<1> DEFINE Calmly == late = {}
<1>2. SectionInv /\ (Calmly => SessionInv) /\ (Calmly => SettledInv) => (Calmly => HandedOn)
  BY <1>1
<1>3. (Spec => [](Calmly => SessionInv)) /\ (Spec => [](Calmly => SettledInv))
  BY SessionInductive, SettledInductive
<1> HIDE DEF Calmly
<1>4. Spec => [](Calmly => HandedOn)
  BY <1>2, <1>3, SectionCounts, PTL
<1> QED BY <1>4 DEF Calmly

-----------------------------------------------------------------------------
(* watching_service covers what is counted                                     *)

\* The coroutines of x that have the service t as their address, and the closures for it.
Using(x, t) == {c \in Cos : x.pc[c] # "free" /\ x.address[c] = t}
Closures(x, t) == {r \in x.unresponse : r.address = t}

\* watching_service counts them, the coroutines that have answered included, but for those
\* that a fork began with an old address.
Covers(x) ==
  /\ x.watchService \in [Services -> Nat] /\ x.stale \in [Services -> Nat]
  /\ IsFiniteSet(x.unresponse)
  /\ \A t \in Services :
       x.watchService[t] + x.stale[t] >= Cardinality(Using(x, t)) + Cardinality(Closures(x, t))

\* What is counted is finite.
LEMMA CoversIs ==
  ASSUME NEW x, Covers(x), NEW t \in Services
  PROVE  /\ IsFiniteSet(Using(x, t)) /\ Cardinality(Using(x, t)) \in Nat
         /\ IsFiniteSet(Closures(x, t)) /\ Cardinality(Closures(x, t)) \in Nat
         /\ x.watchService[t] \in Nat /\ x.stale[t] \in Nat
         /\ x.watchService[t] + x.stale[t] >= Cardinality(Using(x, t)) + Cardinality(Closures(x, t))
<1>1. Using(x, t) \subseteq Cos /\ Closures(x, t) \subseteq x.unresponse /\ IsFiniteSet(x.unresponse)
  BY DEF Using, Closures, Covers
<1>2. IsFiniteSet(Using(x, t)) /\ IsFiniteSet(Closures(x, t))
  BY <1>1, CosAssumption, FS_Subset
<1>3. Cardinality(Using(x, t)) \in Nat /\ Cardinality(Closures(x, t)) \in Nat
  BY <1>2, FS_CardinalityType
<1>4. /\ x.watchService[t] \in Nat /\ x.stale[t] \in Nat
      /\ x.watchService[t] + x.stale[t] >= Cardinality(Using(x, t)) + Cardinality(Closures(x, t))
  BY DEF Covers
<1> QED BY <1>2, <1>3, <1>4

\* y has the counts of x, and the coroutines that have an address are some of those of x.
Eases(x, y) ==
  /\ y.watchService = x.watchService /\ y.stale = x.stale /\ y.unresponse = x.unresponse
  /\ \A c \in Cos : y.pc[c] # "free" /\ y.address[c] # None => x.pc[c] # "free" /\ x.address[c] = y.address[c]

\* The count covers what asks for less.
LEMMA EasesCovers ==
  ASSUME NEW x, Covers(x), NEW y, Eases(x, y)
  PROVE  Covers(y)
<1>1. y.watchService = x.watchService /\ y.stale = x.stale /\ y.unresponse = x.unresponse
  BY DEF Eases
<1>2. ASSUME NEW t \in Services
      PROVE  y.watchService[t] + y.stale[t] >= Cardinality(Using(y, t)) + Cardinality(Closures(y, t))
  <2>1. Using(y, t) \subseteq Using(x, t)
    BY NamesAssumption DEF Using, Eases
  <2>2. Closures(y, t) = Closures(x, t)
    BY <1>1 DEF Closures
  <2>3. /\ IsFiniteSet(Using(x, t)) /\ Cardinality(Using(x, t)) \in Nat /\ Cardinality(Closures(x, t)) \in Nat
        /\ x.watchService[t] \in Nat /\ x.stale[t] \in Nat
        /\ x.watchService[t] + x.stale[t] >= Cardinality(Using(x, t)) + Cardinality(Closures(x, t))
    BY CoversIs
  <2>4. Cardinality(Using(y, t)) <= Cardinality(Using(x, t)) /\ Cardinality(Using(y, t)) \in Nat
    BY <2>1, <2>3, FS_Subset, FS_CardinalityType
  <2> QED BY <1>1, <2>2, <2>3, <2>4
<1> QED BY <1>1, <1>2 DEF Covers

\* What asks for less than what asks for less.
LEMMA EasesTwice ==
  ASSUME NEW x, NEW y, NEW z, Eases(x, y), Eases(y, z)
  PROVE  Eases(x, z)
BY DEF Eases

\* The same coroutines are used, with the same addresses.
LEMMA LikeEases ==
  ASSUME NEW x, NEW y, y.watchService = x.watchService, y.stale = x.stale, y.unresponse = x.unresponse,
         y.address = x.address, \A c \in Cos : y.pc[c] = "free" <=> x.pc[c] = "free"
  PROVE  Eases(x, y)
BY DEF Eases

\* Release gives one count back, if there is one.
LEMMA ReleasedIs ==
  ASSUME NEW f \in [Services -> Nat], NEW a \in Services, NEW g,
         g = [f EXCEPT ![a] = IF @ > 0 THEN @ - 1 ELSE 0]
  PROVE  g \in [Services -> Nat] /\ \A t \in Services : g[t] >= f[t] - (IF t = a THEN 1 ELSE 0)
<1>1. f[a] \in Nat
  OBVIOUS
<1>2. PICK b \in Nat : b = (IF f[a] > 0 THEN f[a] - 1 ELSE 0) /\ b >= f[a] - 1
  BY <1>1
<1>3. g = [f EXCEPT ![a] = b]
  BY <1>2
<1>4. \A t \in Services : g[t] = (IF t = a THEN b ELSE f[t]) /\ f[t] \in Nat
  BY <1>3
<1>5. \A t \in Services : g[t] >= f[t] - (IF t = a THEN 1 ELSE 0)
  BY <1>2, <1>4
<1> QED BY <1>3, <1>5

\* A coroutine that ends gives its count back.
LEMMA EndedCovers ==
  ASSUME NEW x, Covers(x), x.pc \in [Cos -> States],
         x.address \in [Cos -> Services \cup {None}], NEW c \in Cos, x.pc[c] # "free",
         NEW y, y.pc = [x.pc EXCEPT ![c] = "free"], y.stale = x.stale,
         y.address = x.address, y.unresponse = x.unresponse,
         y.watchService = IF x.address[c] = None THEN x.watchService
                          ELSE [x.watchService EXCEPT ![x.address[c]] = IF @ > 0 THEN @ - 1 ELSE 0]
  PROVE  Covers(y)
<1>1. \A d \in Cos : y.pc[d] = IF d = c THEN "free" ELSE x.pc[d]
  OBVIOUS
<1>2. PICK a \in Services \cup {None} : a = x.address[c]
  OBVIOUS
<1>3. /\ y.watchService \in [Services -> Nat]
      /\ \A t \in Services : y.watchService[t] >= x.watchService[t] - (IF t = a THEN 1 ELSE 0)
  <2>1. x.watchService \in [Services -> Nat] /\ None \notin Services
    BY NamesAssumption DEF Covers
  <2>2. CASE a = None
    <3>1. y.watchService = x.watchService
      BY <1>2, <2>2
    <3>2. \A t \in Services : t # a /\ x.watchService[t] \in Nat
      BY <2>1, <2>2
    <3> QED BY <2>1, <3>1, <3>2
  <2>3. CASE a # None
    <3>1. a \in Services /\ y.watchService = [x.watchService EXCEPT ![a] = IF @ > 0 THEN @ - 1 ELSE 0]
      BY <1>2, <2>3
    <3> QED BY <2>1, <3>1, ReleasedIs
  <2> QED BY <2>2, <2>3
<1>4. ASSUME NEW t \in Services
      PROVE  y.watchService[t] + y.stale[t] >= Cardinality(Using(y, t)) + Cardinality(Closures(y, t))
  <2>1. /\ IsFiniteSet(Using(x, t)) /\ Cardinality(Using(x, t)) \in Nat /\ Cardinality(Closures(x, t)) \in Nat
        /\ x.watchService[t] \in Nat /\ x.stale[t] \in Nat
        /\ x.watchService[t] + x.stale[t] >= Cardinality(Using(x, t)) + Cardinality(Closures(x, t))
    BY CoversIs
  <2>2. Closures(y, t) = Closures(x, t)
    BY DEF Closures
  <2>3. y.watchService[t] \in Nat /\ y.watchService[t] >= x.watchService[t] - (IF t = a THEN 1 ELSE 0)
    BY <1>3
  <2>4. CASE t = a
    <3>1. Using(y, t) = Using(x, t) \ {c} /\ c \in Using(x, t)
      BY <1>1, <1>2, <2>4 DEF Using
    <3>2. Cardinality(Using(y, t)) = Cardinality(Using(x, t)) - 1
      BY <2>1, <3>1, FS_RemoveElement
    <3> QED BY <2>1, <2>2, <2>3, <2>4, <3>2
  <2>5. CASE t # a
    <3>1. Using(y, t) = Using(x, t)
      BY <1>1, <1>2, <2>5 DEF Using
    <3> QED BY <2>1, <2>2, <2>3, <2>5, <3>1
  <2> QED BY <2>4, <2>5
<1> QED BY <1>3, <1>4 DEF Covers

\* y is x with the coroutine c at p out of the pool, its address a, and one count more for a.
Adds(x, y, c, p, a) ==
  /\ x.pc \in [Cos -> States] /\ c \in Cos /\ x.pc[c] = "free" /\ p # "free"
  /\ y.pc = [x.pc EXCEPT ![c] = p] /\ y.unresponse = x.unresponse
  /\ \A d \in Cos : y.address[d] = IF d = c THEN a ELSE x.address[d]
  /\ y.watchService \in [Services -> Nat] /\ y.stale \in [Services -> Nat]
  /\ \A t \in Services : y.watchService[t] + y.stale[t]
                            = x.watchService[t] + x.stale[t] + (IF t = a THEN 1 ELSE 0)

\* A coroutine that leaves the pool with an address counts one, as a request or as stale.
LEMMA AddedCovers ==
  ASSUME NEW x, Covers(x), NEW y, NEW c, NEW p, NEW a, Adds(x, y, c, p, a)
  PROVE  Covers(y)
<1>1. /\ \A d \in Cos : y.pc[d] = IF d = c THEN p ELSE x.pc[d]
      /\ \A d \in Cos : y.address[d] = IF d = c THEN a ELSE x.address[d]
      /\ c \in Cos /\ x.pc[c] = "free" /\ p # "free" /\ y.unresponse = x.unresponse
      /\ y.watchService \in [Services -> Nat] /\ y.stale \in [Services -> Nat] /\ IsFiniteSet(y.unresponse)
  BY DEF Adds, Covers
<1>2. ASSUME NEW t \in Services
      PROVE  y.watchService[t] + y.stale[t] >= Cardinality(Using(y, t)) + Cardinality(Closures(y, t))
  <2>1. /\ IsFiniteSet(Using(x, t)) /\ Cardinality(Using(x, t)) \in Nat /\ Cardinality(Closures(x, t)) \in Nat
        /\ x.watchService[t] \in Nat /\ x.stale[t] \in Nat
        /\ x.watchService[t] + x.stale[t] >= Cardinality(Using(x, t)) + Cardinality(Closures(x, t))
    BY CoversIs
  <2>2. Closures(y, t) = Closures(x, t)
    BY <1>1 DEF Closures
  <2>0. y.watchService[t] + y.stale[t] = x.watchService[t] + x.stale[t] + (IF t = a THEN 1 ELSE 0)
    BY DEF Adds
  <2>3. CASE t = a
    <3>1. Using(y, t) = Using(x, t) \cup {c} /\ c \notin Using(x, t)
      BY <1>1, <2>3 DEF Using
    <3>2. Cardinality(Using(y, t)) = Cardinality(Using(x, t)) + 1
      BY <2>1, <3>1, FS_AddElement
    <3>3. y.watchService[t] + y.stale[t] = x.watchService[t] + x.stale[t] + 1
      BY <2>0, <2>3
    <3> QED BY <2>1, <2>2, <3>2, <3>3
  <2>4. CASE t # a
    <3>1. Using(y, t) = Using(x, t)
      BY <1>1, <2>4 DEF Using
    <3>2. y.watchService[t] + y.stale[t] = x.watchService[t] + x.stale[t] + 0
      BY <2>0, <2>4
    <3> QED BY <2>1, <2>2, <3>1, <3>2
  <2> QED BY <2>3, <2>4
<1> QED BY <1>1, <1>2 DEF Covers

\* For a message of t the count is that of watching_service.
LEMMA HiredCovers ==
  ASSUME NEW x, Covers(x), NEW s, Typed(x, s), NEW c \in Cos, NEW p \in States \ {"free"}, NEW t \in Services,
         NEW y, Hired(x, y, c, p, t), y.stale = x.stale
  PROVE  Covers(y)
<1>1. /\ x.pc \in [Cos -> States] /\ x.address \in [Cos -> Services \cup {None}]
      /\ x.watchService \in [Services -> Nat] /\ x.stale \in [Services -> Nat]
  BY DEF Typed, Covers
<1>2. /\ x.pc[c] = "free" /\ y.pc = [x.pc EXCEPT ![c] = p] /\ y.address = [x.address EXCEPT ![c] = t]
      /\ y.watchService = [x.watchService EXCEPT ![t] = @ + 1] /\ y.unresponse = x.unresponse
  BY DEF Hired
<1>3. \A d \in Cos : y.address[d] = IF d = c THEN t ELSE x.address[d]
  BY <1>1, <1>2
<1>4. \A u \in Services : y.watchService[u] = x.watchService[u] + (IF u = t THEN 1 ELSE 0)
                          /\ x.watchService[u] \in Nat /\ x.stale[u] \in Nat
  BY <1>1, <1>2
<1>5. y.watchService \in [Services -> Nat]
  <2>1. x.watchService[t] + 1 \in Nat
    BY <1>4
  <2> QED BY <1>1, <1>2, <2>1
<1>6. \A u \in Services : y.watchService[u] + y.stale[u]
                            = x.watchService[u] + x.stale[u] + (IF u = t THEN 1 ELSE 0)
  BY <1>4
<1>7. p # "free" /\ x.pc[c] = "free"
  BY <1>2
<1>8. Adds(x, y, c, p, t)
  BY <1>1, <1>2, <1>3, <1>5, <1>6, <1>7 DEF Adds
<1> QED BY <1>8, AddedCovers

\* A fork with the address of an old request is counted as stale.
LEMMA ForkCovers ==
  ASSUME NEW s \in Services, NEW x, NEW L, Tidy(x, s, L), x.pool # <<>>, Covers(x), NEW p \in {"new", "noop"},
         NEW z, z = Forking(x, p)
  PROVE  Covers(z)
<1>1. PICK d \in Cos : d = Last(x.pool) /\ x.pc[d] = "free"
  BY LastIsFree
<1>2. /\ DOMAIN x = Fields /\ x.pc \in [Cos -> States] /\ x.address \in [Cos -> Services \cup {None}]
      /\ x.watchService \in [Services -> Nat] /\ x.stale \in [Services -> Nat] /\ None \notin Services
  BY NamesAssumption DEF Tidy, Typed, Covers
<1>3. PICK y : y = [Created(x, p) EXCEPT !.forks = Append(@, d)]
  OBVIOUS
<1>4. /\ DOMAIN y = Fields /\ y.pc = [x.pc EXCEPT ![d] = p] /\ y.address = x.address
      /\ y.unresponse = x.unresponse /\ y.watchService = x.watchService /\ y.stale = x.stale
  BY <1>1, <1>2, <1>3 DEF Created, Fields
<1>5. PICK a \in Services \cup {None} : a = x.address[d]
  BY <1>2
<1>6. z = IF a = None THEN y ELSE [y EXCEPT !.stale[a] = @ + 1]
  BY <1>1, <1>3, <1>5 DEF Forking
<1>7. /\ z.pc = y.pc /\ z.address = y.address /\ z.unresponse = y.unresponse /\ z.watchService = y.watchService
      /\ z.stale = IF a = None THEN x.stale ELSE [x.stale EXCEPT ![a] = @ + 1]
  BY <1>4, <1>6 DEF Fields
<1>8. \A t \in Services : z.stale[t] = x.stale[t] + (IF t = a THEN 1 ELSE 0)
                          /\ x.watchService[t] \in Nat /\ x.stale[t] \in Nat
  <2>1. CASE a = None
    BY <1>2, <1>7, <2>1
  <2>2. CASE a # None
    BY <1>2, <1>7, <2>2
  <2> QED BY <2>1, <2>2
<1>9. z.stale \in [Services -> Nat]
  <2>1. CASE a = None
    BY <1>2, <1>7, <2>1
  <2>2. CASE a # None
    <3>1. x.stale[a] + 1 \in Nat /\ z.stale = [x.stale EXCEPT ![a] = x.stale[a] + 1]
      BY <1>2, <1>7, <2>2
    <3> QED BY <1>2, <3>1
  <2> QED BY <2>1, <2>2
<1>10. \A e \in Cos : z.address[e] = IF e = d THEN a ELSE x.address[e]
  BY <1>4, <1>5, <1>7
<1>11. \A t \in Services : z.watchService[t] + z.stale[t]
                             = x.watchService[t] + x.stale[t] + (IF t = a THEN 1 ELSE 0)
  BY SMTT(60), <1>4, <1>7, <1>8
<1>12. p # "free" /\ z.pc = [x.pc EXCEPT ![d] = p] /\ z.unresponse = x.unresponse
       /\ z.watchService \in [Services -> Nat] /\ x.pc \in [Cos -> States] /\ x.pc[d] = "free"
  BY <1>1, <1>2, <1>4, <1>7
<1>13. Adds(x, z, d, p, a)
  BY <1>9, <1>10, <1>11, <1>12 DEF Adds
<1> QED BY <1>13, AddedCovers

\* skynet.response counts one for its closure.
LEMMA ClosureCovers ==
  ASSUME NEW x, Covers(x), NEW t \in Services, NEW r, r.address = t,
         NEW y, y.pc = x.pc, y.address = x.address, y.stale = x.stale,
         y.unresponse = x.unresponse \cup {r}, y.watchService = [x.watchService EXCEPT ![t] = @ + 1]
  PROVE  Covers(y)
<1>1. x.watchService \in [Services -> Nat] /\ IsFiniteSet(x.unresponse) /\ y.stale \in [Services -> Nat]
  BY DEF Covers
<1>2. y.watchService \in [Services -> Nat] /\ IsFiniteSet(y.unresponse)
  <2>1. x.watchService[t] + 1 \in Nat
    BY <1>1
  <2> QED BY <1>1, <2>1, FS_AddElement
<1>3. ASSUME NEW u \in Services
      PROVE  y.watchService[u] + y.stale[u] >= Cardinality(Using(y, u)) + Cardinality(Closures(y, u))
  <2>1. /\ Cardinality(Using(x, u)) \in Nat
        /\ IsFiniteSet(Closures(x, u)) /\ Cardinality(Closures(x, u)) \in Nat
        /\ x.watchService[u] \in Nat /\ x.stale[u] \in Nat
        /\ x.watchService[u] + x.stale[u] >= Cardinality(Using(x, u)) + Cardinality(Closures(x, u))
    BY CoversIs
  <2>2. Using(y, u) = Using(x, u)
    BY DEF Using
  <2>3. CASE u = t
    <3>1. Closures(y, u) = Closures(x, u) \cup {r}
      BY <2>3 DEF Closures
    <3>2. Cardinality(Closures(y, u)) \in {Cardinality(Closures(x, u)), Cardinality(Closures(x, u)) + 1}
      BY <2>1, <3>1, FS_AddElement
    <3>3. y.watchService[u] = x.watchService[u] + 1
      BY <1>1, <2>3
    <3> QED BY <2>1, <2>2, <3>2, <3>3
  <2>4. CASE u # t
    <3>1. Closures(y, u) = Closures(x, u)
      BY <2>4 DEF Closures
    <3>2. y.watchService[u] = x.watchService[u]
      BY <1>1, <2>4
    <3> QED BY <2>1, <2>2, <3>1, <3>2
  <2> QED BY <2>3, <2>4
<1> QED BY <1>1, <1>2, <1>3 DEF Covers

\* A closure that is called gives its count back.
LEMMA CalledCovers ==
  ASSUME NEW x, Covers(x), NEW r \in x.unresponse, r.address \in Services,
         NEW y, y.pc = x.pc, y.address = x.address, y.stale = x.stale, y.unresponse = x.unresponse \ {r},
         y.watchService = [x.watchService EXCEPT ![r.address] = IF @ > 0 THEN @ - 1 ELSE 0]
  PROVE  Covers(y)
<1>1. PICK t \in Services : t = r.address
  OBVIOUS
<1>2. x.watchService \in [Services -> Nat] /\ IsFiniteSet(y.unresponse) /\ y.stale \in [Services -> Nat]
  BY FS_RemoveElement DEF Covers
<1>3. /\ y.watchService \in [Services -> Nat]
      /\ \A u \in Services : y.watchService[u] >= x.watchService[u] - (IF u = t THEN 1 ELSE 0)
  BY <1>1, <1>2, ReleasedIs
<1>4. ASSUME NEW u \in Services
      PROVE  y.watchService[u] + y.stale[u] >= Cardinality(Using(y, u)) + Cardinality(Closures(y, u))
  <2>1. /\ Cardinality(Using(x, u)) \in Nat
        /\ IsFiniteSet(Closures(x, u)) /\ Cardinality(Closures(x, u)) \in Nat
        /\ x.watchService[u] \in Nat /\ x.stale[u] \in Nat
        /\ x.watchService[u] + x.stale[u] >= Cardinality(Using(x, u)) + Cardinality(Closures(x, u))
    BY CoversIs
  <2>2. Using(y, u) = Using(x, u)
    BY DEF Using
  <2>3. y.watchService[u] \in Nat /\ y.watchService[u] >= x.watchService[u] - (IF u = t THEN 1 ELSE 0)
    BY <1>3
  <2>4. CASE u = t
    <3>1. Closures(y, u) = Closures(x, u) \ {r} /\ r \in Closures(x, u)
      BY <1>1, <2>4 DEF Closures
    <3>2. Cardinality(Closures(y, u)) = Cardinality(Closures(x, u)) - 1
      BY <2>1, <3>1, FS_RemoveElement
    <3> QED BY <2>1, <2>2, <2>3, <2>4, <3>2
  <2>5. CASE u # t
    <3>1. Closures(y, u) = Closures(x, u)
      BY <1>1, <2>5 DEF Closures
    <3> QED BY <2>1, <2>2, <2>3, <2>5, <3>1
  <2> QED BY <2>4, <2>5
<1> QED BY <1>2, <1>3, <1>4 DEF Covers

-----------------------------------------------------------------------------
(* What goes on asks for no more counts                                        *)

\* A coroutine that is used goes on.
LEMMA ResumeEases ==
  ASSUME NEW x, DOMAIN x = Fields, x.pc \in [Cos -> States], NEW c \in Cos, x.pc[c] # "free"
  PROVE  Eases(x, Resume(x, c))
<1>1. PICK r : r = Resume(x, c)
  OBVIOUS
<1>2. Resumed(x, c, r)
  BY <1>1, ResumeIs
<1>3. r.watchService = x.watchService /\ r.stale = x.stale
  BY <1>1 DEF Resume, Fields
<1>4. PICK p \in {"run", "entering", "noop"} : r.pc = [x.pc EXCEPT ![c] = p]
  BY <1>2 DEF Resumed
<1>5. \A d \in Cos : r.pc[d] = "free" <=> x.pc[d] = "free"
  BY <1>4
<1>6. r.unresponse = x.unresponse /\ r.address = x.address
  BY <1>2 DEF Resumed
<1> QED BY <1>1, <1>3, <1>5, <1>6, LikeEases

\* The forks go on.
LEMMA ForksEases ==
  ASSUME NEW s, NEW x, NEW L, Tidy(x, s, L)
  PROVE  Eases(x, Forks(x))
<1>0. DOMAIN x = Fields /\ x.pc \in [Cos -> States]
  BY DEF Tidy, Typed
<1>1. CASE x.forks = <<>>
  <2>1. PICK r : r = Forks(x)
    OBVIOUS
  <2>2. r.watchService = x.watchService /\ r.stale = x.stale /\ r.unresponse = x.unresponse
        /\ r.address = x.address /\ r.pc = x.pc
    BY <1>0, <1>1, <2>1 DEF Forks, Fields
  <2> QED BY <2>1, <2>2, LikeEases
<1>2. CASE x.forks # <<>>
  <2>1. Rest(Cos, x.forks)
    BY <1>2, RestIs DEF Tidy, Typed
  <2>2. PICK c \in Cos : c = Head(x.forks)
    BY <2>1 DEF Rest
  <2>3. x.pc[c] # "free"
    BY <2>1, <2>2 DEF Rest, Tidy, Pooled
  <2>4. PICK y : y = [x EXCEPT !.forks = Tail(@), !.frames = 0]
    OBVIOUS
  <2>5. /\ DOMAIN y = Fields /\ y.pc = x.pc /\ y.address = x.address
        /\ y.unresponse = x.unresponse /\ y.watchService = x.watchService /\ y.stale = x.stale
    BY <1>0, <2>4 DEF Fields
  <2>6. Eases(x, y)
    BY <2>5, LikeEases
  <2>7. Eases(y, Resume(y, c))
    BY <1>0, <2>3, <2>5, ResumeEases
  <2>8. Forks(x) = Resume(y, c)
    BY <1>2, <2>2, <2>4 DEF Forks
  <2> QED BY <2>6, <2>7, <2>8, EasesTwice
<1> QED BY <1>1, <1>2

\* A coroutine that waited goes on.
LEMMA WaiterEases ==
  ASSUME NEW s, NEW x, NEW L, Tidy(x, s, L), NEW n \in Sessions(s), NEW c \in Cos, x.waits[n] = c,
         NEW y, DOMAIN y = Fields, y.pc = x.pc, y.address = x.address,
         y.unresponse = x.unresponse, y.watchService = x.watchService, y.stale = x.stale
  PROVE  Eases(x, Resume(y, c))
<1>1. x.pc[c] # "free" /\ x.pc \in [Cos -> States]
  BY DEF Tidy, Typed, Waiting
<1>2. Eases(x, y)
  BY LikeEases
<1>3. Eases(y, Resume(y, c))
  BY <1>1, ResumeEases
<1> QED BY <1>2, <1>3, EasesTwice

\* A call that failed goes on.
LEMMA ErrorsEases ==
  ASSUME NEW s, NEW x, NEW L, Tidy(x, s, L)
  PROVE  Eases(x, Errors(x))
<1>0. DOMAIN x = Fields
  BY DEF Tidy, Typed
<1>1. CASE x.errors = <<>>
  BY <1>1, ForksEases DEF Errors
<1>2. CASE x.errors # <<>>
  <2>1. PICK n \in Sessions(s) : n = Head(x.errors) /\ n = x.errors[1] /\ 1 \in 1 .. Len(x.errors)
    <3>1. Rest(Sessions(s), x.errors)
      BY <1>2, RestIs DEF Tidy, Typed
    <3> QED BY <3>1 DEF Rest
  <2>2. PICK c \in Cos : x.waits[n] = c
    BY <2>1 DEF Tidy, Failing, Waiting
  <2>3. PICK y : y = [x EXCEPT !.errors = Tail(@), !.waits[n] = None, !.watchSession[n] = None]
    OBVIOUS
  <2>4. /\ DOMAIN y = Fields /\ y.pc = x.pc /\ y.address = x.address
        /\ y.unresponse = x.unresponse /\ y.watchService = x.watchService /\ y.stale = x.stale
    BY <1>0, <2>3 DEF Fields
  <2>5. Eases(x, Resume(y, c))
    BY <2>2, <2>4, WaiterEases
  <2>6. Errors(x) = Resume(y, c)
    BY <1>2, <2>1, <2>2, <2>3 DEF Errors
  <2> QED BY <2>5, <2>6
<1> QED BY <1>1, <1>2

\* suspend leaves the counts alone.
LEMMA SuspendEases ==
  ASSUME NEW s, NEW x, NEW L, Tidy(x, s, L)
  PROVE  Eases(x, Suspend(x))
<1>0. DOMAIN x = Fields
  BY DEF Tidy, Typed
<1>1. CASE x.wakeups = <<>>
  BY <1>1, ErrorsEases DEF Suspend
<1>2. CASE x.wakeups # <<>>
  <2>1. Rest(Tokens, x.wakeups)
    BY <1>2, RestIs DEF Tidy, Typed
  <2>2. PICK c : c = Head(x.wakeups)
    OBVIOUS
  <2>3. PICK y : y = [x EXCEPT !.wakeups = Tail(@)]
    OBVIOUS
  <2>4. /\ DOMAIN y = Fields /\ y.wakeups = Tail(x.wakeups)
        /\ y.pc = x.pc /\ y.pool = x.pool /\ y.id = x.id /\ y.address = x.address /\ y.waits = x.waits
        /\ y.watchSession = x.watchSession /\ y.sleeps = x.sleeps /\ y.forks = x.forks
        /\ y.errors = x.errors /\ y.unresponse = x.unresponse /\ y.watchService = x.watchService
        /\ y.session = x.session /\ y.ops = x.ops /\ y.threads = x.threads /\ y.unknown = x.unknown
        /\ y.stale = x.stale
    BY <1>0, <2>3 DEF Fields
  <2>5. CASE ~ Asleep(x, c)
    <3>1. y.wakeups \in Seq(Tokens)
      BY <2>1, <2>4 DEF Rest
    <3>2. Typed(y, s)
      BY <2>4, <3>1 DEF Tidy, Typed
    <3>3. Core(y) = Core(x)
      BY <2>4 DEF Core
    <3>4. Tidy(y, s, L)
      BY <3>2, <3>3, CoreTidy
    <3>5. Eases(x, y)
      BY <2>4, LikeEases
    <3>6. Eases(y, Errors(y))
      BY <3>4, ErrorsEases
    <3>7. Suspend(x) = Errors(y)
      BY <1>2, <2>2, <2>3, <2>5 DEF Suspend
    <3> QED BY <3>5, <3>6, <3>7, EasesTwice
  <2>6. CASE Asleep(x, c)
    <3>0. c \in Cos /\ x.sleeps[c] # None
      BY <2>6 DEF Asleep
    <3>1. PICK n \in Sessions(s) : n = x.sleeps[c]
      BY <3>0 DEF Tidy, Typed
    <3>2. x.waits[n] = c
      BY <3>0, <3>1 DEF Tidy, Sleeping
    <3>3. PICK z : z = [y EXCEPT !.waits[n] = Woken(x, c), !.frames = @ + 1]
      OBVIOUS
    <3>4. /\ DOMAIN z = Fields /\ z.pc = x.pc /\ z.address = x.address
          /\ z.unresponse = x.unresponse /\ z.watchService = x.watchService /\ z.stale = x.stale
      BY <2>4, <3>3 DEF Fields
    <3>5. Eases(x, Resume(z, c))
      BY <3>0, <3>2, <3>4, WaiterEases
    <3>6. Suspend(x) = Resume(z, c)
      BY <1>2, <2>2, <2>3, <2>6, <3>1, <3>3 DEF Suspend
    <3> QED BY <3>5, <3>6
  <2> QED BY <2>5, <2>6
<1> QED BY <1>1, <1>2

\* A service whose coroutines are used with the same addresses is covered.
LEMMA LikeCovers ==
  ASSUME NEW x, Covers(x), NEW y, y.watchService = x.watchService, y.stale = x.stale,
         y.unresponse = x.unresponse, y.address = x.address, y.pc = x.pc
  PROVE  Covers(y)
<1>1. Eases(x, y)
  BY LikeEases
<1> QED BY <1>1, EasesCovers

\* And one where a coroutine goes on, or waits.
LEMMA PcCovers ==
  ASSUME NEW x, Covers(x), NEW u, Typed(x, u), NEW c \in Cos, x.pc[c] # "free", NEW p, p # "free",
         NEW y, y.watchService = x.watchService, y.stale = x.stale, y.unresponse = x.unresponse,
         y.address = x.address, y.pc = [x.pc EXCEPT ![c] = p]
  PROVE  Covers(y)
<1>1. \A d \in Cos : y.pc[d] = IF d = c THEN p ELSE x.pc[d]
  BY DEF Typed
<1>2. \A d \in Cos : y.pc[d] = "free" <=> x.pc[d] = "free"
  BY <1>1
<1>3. Eases(x, y)
  BY ZenonT(60), <1>2, LikeEases
<1> QED BY <1>3, EasesCovers

\* The end of a coroutine.
LEMMA RecycledCovers ==
  ASSUME NEW x, Covers(x), DOMAIN x = Fields, x.pc \in [Cos -> States],
         x.address \in [Cos -> Services \cup {None}], NEW c \in Cos, x.pc[c] # "free",
         NEW y, y = Recycled(x, c)
  PROVE  Covers(y)
<1>1. PICK z : z = [x EXCEPT !.pool = Append(@, c), !.pc[c] = "free", !.id[c] = None]
  OBVIOUS
<1>2. DOMAIN z = Fields /\ z.pc = [x.pc EXCEPT ![c] = "free"] /\ z.stale = x.stale
      /\ z.address = x.address /\ z.unresponse = x.unresponse /\ z.watchService = x.watchService
  BY <1>1 DEF Fields
<1>3. y = IF x.address[c] = None THEN z ELSE Release(z, x.address[c])
  BY <1>1 DEF Recycled
<1>4. y.pc = z.pc /\ y.stale = z.stale /\ y.address = z.address /\ y.unresponse = z.unresponse
  BY <1>2, <1>3 DEF Release, Fields
<1>5. y.watchService = IF x.address[c] = None THEN x.watchService
                       ELSE [x.watchService EXCEPT ![x.address[c]] = IF @ > 0 THEN @ - 1 ELSE 0]
  BY <1>2, <1>3 DEF Release, Fields
<1>6. y.pc = [x.pc EXCEPT ![c] = "free"] /\ y.stale = x.stale /\ y.address = x.address
      /\ y.unresponse = x.unresponse
  BY <1>2, <1>4
<1> QED BY <1>5, <1>6, EndedCovers

\* The section is left without a count.
LEMMA UnwoundCounts ==
  ASSUME NEW x, DOMAIN x = Fields, NEW c
  PROVE  /\ Unwound(x, c).watchService = x.watchService /\ Unwound(x, c).stale = x.stale
         /\ Unwound(x, c).pc = x.pc /\ Unwound(x, c).address = x.address
         /\ Unwound(x, c).unresponse = x.unresponse /\ DOMAIN Unwound(x, c) = Fields
<1>1. PICK u : u = Unwound(x, c)
  OBVIOUS
<1>2. CASE x.depth[c] = 0
  BY <1>2 DEF Unwound
<1>3. CASE x.depth[c] # 0
  <2>1. PICK v : v = [x EXCEPT !.ref = 1, !.depth[c] = 1]
    OBVIOUS
  <2>2. DOMAIN v = Fields /\ v.watchService = x.watchService /\ v.pc = x.pc /\ v.stale = x.stale
        /\ v.address = x.address /\ v.unresponse = x.unresponse
    BY <2>1 DEF Fields
  <2>3. u = Left(v, c)
    BY <1>1, <1>3, <2>1 DEF Unwound
  <2>4. u.watchService = v.watchService /\ u.pc = v.pc /\ u.stale = v.stale
        /\ u.address = v.address /\ u.unresponse = v.unresponse /\ DOMAIN u = Fields
    BY <2>2, <2>3 DEF Left, Fields
  <2> QED BY <1>1, <2>2, <2>4
<1> QED BY <1>2, <1>3

\* An error: its coroutine forgets the address, and the one that suspend runs is counted as
\* stale when it has one.
LEMMA RaisedCovers ==
  ASSUME NEW s \in Services, NEW x, NEW L, Tidy(x, s, L), NEW c, Alone(x, c, s), Covers(x),
         NEW r, r = Raised(x, c)
  PROVE  Covers(r)
<1>1. DOMAIN x = Fields /\ c \in Cos /\ x.address \in [Cos -> Services \cup {None}] /\ x.pc \in [Cos -> States]
  BY DEF Tidy, Typed, Alone
<1>2. PICK u : u = Unwound(x, c)
  OBVIOUS
<1>3. /\ u.watchService = x.watchService /\ u.stale = x.stale /\ u.pc = x.pc /\ u.address = x.address
      /\ u.unresponse = x.unresponse /\ DOMAIN u = Fields
  BY <1>1, <1>2, UnwoundCounts
<1>4. PICK y : y = Dead(u, c)
  OBVIOUS
<1>5. /\ y.watchService = x.watchService /\ y.stale = x.stale /\ y.unresponse = x.unresponse
      /\ y.pc = [x.pc EXCEPT ![c] = "free"] /\ y.address = [x.address EXCEPT ![c] = None]
  BY <1>3, <1>4 DEF Dead, Fields
<1>6. \A d \in Cos : y.pc[d] = (IF d = c THEN "free" ELSE x.pc[d])
                     /\ y.address[d] = (IF d = c THEN None ELSE x.address[d])
  BY <1>1, <1>5
<1>7. Eases(x, y)
  BY <1>5, <1>6 DEF Eases
<1>8. Covers(y)
  BY <1>7, EasesCovers
<1>9. PICK z : z = Fallen(x, c)
  OBVIOUS
<1>10. z = Forking(y, "noop")
  BY <1>2, <1>4, <1>9 DEF Fallen
<1>11. Tidy(z, s, L) /\ Tidy(y, s, L) /\ y.pool # <<>>
  BY <1>2, <1>4, <1>9, FallenTidy
<1>12. Covers(z)
  BY <1>8, <1>10, <1>11, ForkCovers
<1>13. r = Forks(z)
  BY <1>9 DEF Raised, Fallen
<1> QED BY <1>11, <1>12, <1>13, ForksEases, EasesCovers

-----------------------------------------------------------------------------
(* Every step of a living service keeps the counts                             *)

CoverInv == \A s \in alive : Covers(sv[s])

\* A step that leaves the living services alone.
LEMMA OthersCover ==
  ASSUME CoverInv, alive' \subseteq alive, \A u \in alive' : sv'[u] = sv[u]
  PROVE  CoverInv'
<1>1. \A u \in alive' : Covers(sv'[u])
  BY DEF CoverInv
<1>2. \A u \in alive' : Covers(sv[u])'
  BY <1>1 DEF Covers, Using, Closures
<1> QED BY <1>2 DEF CoverInv

\* A step that moves one.
LEMMA CoverStep ==
  ASSUME SessionInv, CoverInv, NEW s \in alive, NEW y, sv' = [sv EXCEPT ![s] = y], alive' = alive,
         Covers(y)
  PROVE  CoverInv'
<1>1. DOMAIN sv = Services /\ alive \subseteq Services
  BY DEF SessionInv, Shaped
<1>2. \A u \in alive : sv'[u] = IF u = s THEN y ELSE sv[u]
  BY <1>1
<1>3. \A u \in alive' : Covers(sv'[u])
  BY <1>2 DEF CoverInv
<1>4. \A u \in alive' : Covers(sv[u])'
  BY <1>3 DEF Covers, Using, Closures
<1> QED BY <1>4 DEF CoverInv

\* What is known of a service whose coroutine runs.
LEMMA CoveredIs ==
  ASSUME SessionInv, CoverInv, NEW s \in alive, NEW c \in Cos, sv[s].run = c, NEW x, x = sv[s]
  PROVE  /\ s \in Services /\ Tidy(x, s, Live(s)) /\ Typed(x, s) /\ Alone(x, c, s) /\ DOMAIN x = Fields
         /\ Covers(x) /\ x.pc[c] # "free"
<1>1. s \in Services /\ Tidy(x, s, Live(s)) /\ Alone(x, c, s) /\ DOMAIN x = Fields
  BY RunningIs
<1>2. Covers(x)
  BY DEF CoverInv
<1> QED BY <1>1, <1>2 DEF Tidy, Alone

\* A counted operation begins with the same counts.
LEMMA CountedCovers ==
  ASSUME SessionInv, CoverInv, NEW s \in alive, NEW c \in Cos, sv[s].run = c, sv[s].ops < MaxOps[s],
         NEW w, Tallied(s, w)
  PROVE  /\ s \in Services /\ Tidy(w, s, Live(s)) /\ Typed(w, s) /\ Alone(w, c, s) /\ DOMAIN w = Fields
         /\ Covers(w) /\ w.pc[c] # "free" /\ w.session = sv[s].session /\ w.pool # <<>> /\ Waiting(w, s)
         /\ w.session + 1 \in Sessions(s) /\ w.session + 1 <= w.ops + 1 /\ w.session + 1 \in Nat
<1>1. PICK x : x = sv[s]
  OBVIOUS
<1>2. s \in Services /\ DOMAIN x = Fields /\ Covers(x)
  BY <1>1, CoveredIs
<1>3. /\ Alike(x, w) /\ Tidy(w, s, Live(s)) /\ Alone(w, c, s) /\ w.pool # <<>>
      /\ w.session + 1 \in Sessions(s) /\ w.session + 1 <= w.ops + 1 /\ w.session \in Nat
  BY <1>1, CountedIs
<1>4. w.watchService = x.watchService /\ w.stale = x.stale
  BY <1>1, <1>2 DEF Tallied, Counted, Fields
<1>5. Covers(w)
  BY <1>2, <1>3, <1>4, LikeCovers DEF Alike
<1> QED BY <1>1, <1>2, <1>3, <1>5 DEF Tidy, Alone, Alike

\* A coroutine that yields as y.
LEMMA YieldCovers ==
  ASSUME SessionInv, CoverInv, NEW s \in alive, NEW y, NEW L, Tidy(y, s, L), Covers(y),
         sv' = [sv EXCEPT ![s] = Suspend(y)], alive' = alive
  PROVE  CoverInv'
<1>1. PICK r : r = Suspend(y)
  OBVIOUS
<1>2. Covers(r)
  BY <1>1, SuspendEases, EasesCovers
<1> QED BY <1>1, <1>2, CoverStep

\* An error.
LEMMA RaiseCovers ==
  ASSUME SessionInv, CoverInv, NEW s \in alive, NEW x, NEW L, Tidy(x, s, L), NEW c, Alone(x, c, s),
         Covers(x), Raise(s, c, x), alive' = alive
  PROVE  CoverInv'
<1>1. PICK r : r = Raised(x, c)
  OBVIOUS
<1>2. sv' = [sv EXCEPT ![s] = r] /\ s \in Services
  BY <1>1, ServiceIs DEF Raise
<1>3. Covers(r)
  BY <1>1, <1>2, RaisedCovers
<1> QED BY <1>2, <1>3, CoverStep

\* skynet.call keeps the address of its coroutine.
LEMMA CallCovers ==
  ASSUME SessionInv, CoverInv, NEW s \in Services, s \in alive, NEW c \in Cos, NEW t \in Services, Call(s, c, t)
  PROVE  CoverInv'
<1>1. sv[s].run = c /\ sv[s].ops < MaxOps[s] /\ alive' = alive /\ t # s
  BY CallsAssumption DEF Call, Counts, Does
<1>2. PICK w : w = [Counted(s) EXCEPT !.calls = @ + 1]
  OBVIOUS
<1>3. /\ Tidy(w, s, Live(s)) /\ Typed(w, s) /\ Alone(w, c, s) /\ DOMAIN w = Fields /\ Covers(w)
      /\ w.pc[c] # "free" /\ w.session = sv[s].session
      /\ w.session + 1 \in Sessions(s) /\ w.session + 1 <= w.ops + 1
  BY <1>1, <1>2, CountedCovers DEF Tallied
<1>4. CASE t \notin alive
  <2>1. Raise(s, c, w)
    BY <1>2, <1>4 DEF Call
  <2> QED BY <1>1, <1>3, <2>1, RaiseCovers
<1>5. CASE t \in alive
  <2>1. PICK n : n = w.session + 1
    OBVIOUS
  <2>2. n \in Sessions(s) /\ n <= w.ops + 1
    BY <1>3, <2>1
  <2>3. PICK y : y = Calling(w, c, n, t)
    OBVIOUS
  <2>4. Begins(w, y, s, c, "call", t, None)
    BY <1>1, <1>3, <2>1, <2>2, <2>3, CallBegins
  <2>5. Tidy(y, s, {})
    BY <1>3, <2>4, BegunTidy
  <2>6. /\ y.pc = [w.pc EXCEPT ![c] = "call"] /\ y.watchService = w.watchService
        /\ y.unresponse = w.unresponse /\ y.stale = w.stale /\ y.address = w.address
    BY <1>3, <2>3 DEF Calling, Fields
  <2>7. Covers(y)
    BY <1>3, <2>6, PcCovers
  <2>8. sv' = [sv EXCEPT ![s] = Suspend(y)]
    BY <1>2, <1>3, <1>5, <2>1, <2>3 DEF Call, Calling
  <2> QED BY <1>1, <2>5, <2>7, <2>8, YieldCovers
<1> QED BY <1>4, <1>5

\* So does skynet.sleep.
LEMMA SleepCovers ==
  ASSUME SessionInv, CoverInv, NEW s \in Services, s \in alive, NEW c \in Cos, Sleep(s, c)
  PROVE  CoverInv'
<1>1. sv[s].run = c /\ sv[s].ops < MaxOps[s] /\ alive' = alive
  BY DEF Sleep, Counts, Does
<1>2. PICK w : w = Counted(s)
  OBVIOUS
<1>3. /\ Tidy(w, s, Live(s)) /\ Typed(w, s) /\ Alone(w, c, s) /\ DOMAIN w = Fields /\ Covers(w)
      /\ w.pc[c] # "free" /\ w.session = sv[s].session /\ Waiting(w, s)
      /\ w.session + 1 \in Sessions(s) /\ w.session + 1 <= w.ops + 1
  BY <1>1, <1>2, CountedCovers DEF Tallied
<1>4. PICK n : n = w.session + 1
  OBVIOUS
<1>5. n \in Sessions(s) /\ n <= w.ops + 1
  BY <1>3, <1>4
<1>6. PICK y : y = Dozing(w, c, n)
  OBVIOUS
<1>7. Begins(w, y, s, c, "sleep", s, n) /\ (n # None => "sleep" # "call")
  BY <1>3, <1>4, <1>5, <1>6, SleepBegins
<1>8. Tidy(y, s, {})
  BY <1>3, <1>7, BegunTidy
<1>9. /\ y.pc = [w.pc EXCEPT ![c] = "sleep"] /\ y.watchService = w.watchService
      /\ y.unresponse = w.unresponse /\ y.stale = w.stale /\ y.address = w.address
  BY <1>3, <1>6 DEF Dozing, Fields
<1>10. Covers(y)
  BY <1>3, <1>9, PcCovers
<1>11. sv' = [sv EXCEPT ![s] = Suspend(y)]
  BY <1>2, <1>3, <1>4, <1>6 DEF Sleep, Dozing
<1> QED BY <1>1, <1>8, <1>10, <1>11, YieldCovers

\* skynet.queue keeps it too, whether the section is free or waited for.
LEMMA EnterCovers ==
  ASSUME SessionInv, CoverInv, NEW s \in Services, s \in alive, NEW c \in Cos, Enter(s, c)
  PROVE  CoverInv'
<1>1. sv[s].run = c /\ sv[s].ops < MaxOps[s] /\ alive' = alive
  BY DEF Enter, Counts, Does
<1>2. PICK w : w = Counted(s)
  OBVIOUS
<1>3. /\ Tidy(w, s, Live(s)) /\ Typed(w, s) /\ Alone(w, c, s) /\ DOMAIN w = Fields /\ Covers(w)
      /\ w.pc[c] # "free" /\ w.session = sv[s].session /\ Waiting(w, s)
      /\ w.session + 1 \in Sessions(s) /\ w.session + 1 <= w.ops + 1
  BY <1>1, <1>2, CountedCovers DEF Tallied
<1>4. CASE w.current \in {None, c}
  <2>1. PICK y : y = [w EXCEPT !.current = c, !.ref = @ + 1, !.depth[c] = @ + 1]
    OBVIOUS
  <2>2. y.pc = w.pc /\ y.watchService = w.watchService /\ y.unresponse = w.unresponse /\ y.stale = w.stale
        /\ y.address = w.address
    BY <1>3, <2>1 DEF Fields
  <2>3. Covers(y)
    BY <1>3, <2>2, LikeCovers
  <2>4. sv' = [sv EXCEPT ![s] = y]
    BY <1>2, <1>4, <2>1 DEF Enter
  <2> QED BY <1>1, <2>3, <2>4, CoverStep
<1>5. CASE w.current \notin {None, c}
  <2>1. PICK n : n = w.session + 1
    OBVIOUS
  <2>2. n \in Sessions(s) /\ n <= w.ops + 1
    BY <1>3, <2>1
  <2>3. PICK y : y = Lining(w, c, n)
    OBVIOUS
  <2>4. Begins(w, y, s, c, "queue", s, n) /\ (n # None => "queue" # "call")
    BY <1>3, <2>1, <2>2, <2>3, QueueBegins
  <2>5. Tidy(y, s, {})
    BY <1>3, <2>4, BegunTidy
  <2>6. /\ y.pc = [w.pc EXCEPT ![c] = "queue"] /\ y.watchService = w.watchService
        /\ y.unresponse = w.unresponse /\ y.stale = w.stale /\ y.address = w.address
    BY <1>3, <2>3 DEF Lining, Fields
  <2>7. Covers(y)
    BY <1>3, <2>6, PcCovers
  <2>8. sv' = [sv EXCEPT ![s] = Suspend(y)]
    BY <1>2, <1>3, <1>5, <2>1, <2>3 DEF Enter, Lining
  <2> QED BY <1>1, <2>5, <2>7, <2>8, YieldCovers
<1> QED BY <1>4, <1>5

\* The coroutine that was woken for the section goes on, or ends with its assertion.
LEMMA EnteredCovers ==
  ASSUME SessionInv, CoverInv, NEW s \in Services, s \in alive, NEW c \in Cos, Entered(s, c)
  PROVE  CoverInv'
<1>1. sv[s].run = c /\ alive' = alive
  BY DEF Entered
<1>2. PICK x : x = sv[s]
  OBVIOUS
<1>3. /\ Tidy(x, s, Live(s)) /\ Typed(x, s) /\ Alone(x, c, s) /\ DOMAIN x = Fields
      /\ Covers(x) /\ x.pc[c] # "free"
  BY <1>1, <1>2, CoveredIs
<1>4. PICK z : z = [x EXCEPT !.pc[c] = "run"]
  OBVIOUS
<1>5. /\ DOMAIN z = Fields /\ z.pc = [x.pc EXCEPT ![c] = "run"] /\ z.run = x.run /\ z.pool = x.pool
      /\ z.id = x.id /\ z.address = x.address /\ z.waits = x.waits /\ z.watchSession = x.watchSession
      /\ z.sleeps = x.sleeps /\ z.errors = x.errors /\ z.forks = x.forks
      /\ z.unresponse = x.unresponse /\ z.session = x.session /\ z.unknown = x.unknown /\ z.stale = x.stale
      /\ z.wakeups = x.wakeups /\ z.threads = x.threads /\ z.ops = x.ops /\ z.watchService = x.watchService
  BY <1>3, <1>4 DEF Fields
<1>6. Covers(z)
  BY <1>3, <1>5, PcCovers
<1>7. CASE z.ref # 0
  <2>1. Raise(s, c, z)
    BY <1>2, <1>4, <1>7 DEF Entered
  <2>2. "run" \in States /\ "run" # "free"
    BY DEF States
  <2>3. Typed(z, s)
    <3>1. z.pc \in [Cos -> States]
      BY <1>3, <1>5, <2>2 DEF Typed
    <3> QED BY <1>3, <1>5, <3>1 DEF Typed
  <2>4. Tidy(z, s, Live(s)) /\ Alone(z, c, s)
    BY <1>3, <1>5, <2>2, <2>3, PcTidy
  <2> QED BY <1>1, <1>6, <2>1, <2>4, RaiseCovers
<1>8. CASE z.ref = 0
  <2>1. PICK y : y = [z EXCEPT !.current = c, !.ref = 1, !.depth[c] = 1]
    OBVIOUS
  <2>2. sv' = [sv EXCEPT ![s] = y]
    BY <1>2, <1>4, <1>8, <2>1 DEF Entered
  <2>3. y.pc = z.pc /\ y.watchService = z.watchService /\ y.unresponse = z.unresponse /\ y.stale = z.stale
        /\ y.address = z.address
    BY <1>5, <2>1 DEF Fields
  <2>4. Covers(y)
    BY <1>6, <2>3, LikeCovers
  <2> QED BY <1>1, <2>2, <2>4, CoverStep
<1> QED BY <1>7, <1>8

\* skynet.wakeup moves nothing that is counted.
LEMMA WakeupCovers ==
  ASSUME SessionInv, CoverInv, NEW s \in Services, s \in alive, NEW c \in Cos, NEW d \in Cos, Wakeup(s, c, d)
  PROVE  CoverInv'
<1>1. sv[s].run = c /\ sv[s].ops < MaxOps[s] /\ alive' = alive
  BY DEF Wakeup, Counts, Does
<1>2. PICK w : w = Counted(s)
  OBVIOUS
<1>3. DOMAIN w = Fields /\ Covers(w)
  BY <1>1, <1>2, CountedCovers DEF Tallied
<1>4. PICK b : b = (w.disturbed \/ sv[s].pc[d] = "queue" \/ Contains(sv[s].wakeups, d))
  OBVIOUS
<1>5. PICK y : y = [w EXCEPT !.wakeups = Append(@, d), !.disturbed = b]
  OBVIOUS
<1>6. y.pc = w.pc /\ y.watchService = w.watchService /\ y.unresponse = w.unresponse /\ y.stale = w.stale
      /\ y.address = w.address
  BY <1>3, <1>5 DEF Fields
<1>7. Covers(y)
  BY <1>3, <1>6, LikeCovers
<1>8. sv' = [sv EXCEPT ![s] = y]
  BY <1>2, <1>4, <1>5 DEF Wakeup
<1> QED BY <1>1, <1>7, <1>8, CoverStep

\* Nor does the end of a turn in the section.
LEMMA LeaveCovers ==
  ASSUME SessionInv, CoverInv, NEW s \in Services, s \in alive, NEW c \in Cos, Leave(s, c)
  PROVE  CoverInv'
<1>1. sv[s].run = c /\ alive' = alive
  BY DEF Leave, Does
<1>2. PICK x : x = sv[s]
  OBVIOUS
<1>3. DOMAIN x = Fields /\ Covers(x)
  BY <1>1, <1>2, CoveredIs
<1>4. PICK y : y = Left(x, c)
  OBVIOUS
<1>5. y.pc = x.pc /\ y.watchService = x.watchService /\ y.unresponse = x.unresponse /\ y.stale = x.stale
      /\ y.address = x.address
  BY <1>3, <1>4 DEF Left, Fields
<1>6. Covers(y)
  BY <1>3, <1>5, LikeCovers
<1>7. sv' = [sv EXCEPT ![s] = y]
  BY <1>2, <1>4 DEF Leave
<1> QED BY <1>1, <1>6, <1>7, CoverStep

\* The coroutine of a fork.
LEMMA ForksCovers ==
  ASSUME SessionInv, CoverInv, NEW s \in Services, s \in alive, NEW c \in Cos, Fork(s, c)
  PROVE  CoverInv'
<1>1. sv[s].run = c /\ sv[s].ops < MaxOps[s] /\ alive' = alive
  BY DEF Fork, Counts, Does
<1>2. PICK w : w = Counted(s)
  OBVIOUS
<1>3. Tidy(w, s, Live(s)) /\ Covers(w) /\ w.pool # <<>>
  BY <1>1, <1>2, CountedCovers DEF Tallied
<1>4. PICK y : y = Forking(w, "new")
  OBVIOUS
<1>5. Covers(y)
  BY <1>3, <1>4, ForkCovers
<1>6. sv' = [sv EXCEPT ![s] = y]
  BY <1>2, <1>4 DEF Fork
<1> QED BY <1>1, <1>5, <1>6, CoverStep

\* The session of an answer is not counted, its address is.
LEMMA RetCovers ==
  ASSUME SessionInv, CoverInv, NEW s \in Services, s \in alive, NEW c \in Cos, NEW type, Ret(s, c, type)
  PROVE  CoverInv'
<1>1. sv[s].run = c /\ alive' = alive
  BY DEF Ret, Does
<1>2. PICK x : x = sv[s]
  OBVIOUS
<1>3. DOMAIN x = Fields /\ Covers(x)
  BY <1>1, <1>2, CoveredIs
<1>4. PICK y : y = [x EXCEPT !.id[c] = None]
  OBVIOUS
<1>5. y.pc = x.pc /\ y.watchService = x.watchService /\ y.unresponse = x.unresponse /\ y.stale = x.stale
      /\ y.address = x.address
  BY <1>3, <1>4 DEF Fields
<1>6. Covers(y)
  BY <1>3, <1>5, LikeCovers
<1>7. sv' = [sv EXCEPT ![s] = y]
  BY <1>2, <1>4 DEF Ret
<1> QED BY <1>1, <1>6, <1>7, CoverStep

\* skynet.response is used in an answer, and counts its closure besides the coroutine.
LEMMA ResponseCovers ==
  ASSUME SessionInv, CoverInv, NEW s \in Services, s \in alive, NEW c \in Cos, Response(s, c)
  PROVE  CoverInv'
<1>1. sv[s].run = c /\ alive' = alive /\ sv[s].id[c] # None
  BY DEF Response, Does
<1>2. PICK x : x = sv[s]
  OBVIOUS
<1>3. Tidy(x, s, Live(s)) /\ Typed(x, s) /\ Alone(x, c, s) /\ DOMAIN x = Fields /\ Covers(x)
  BY <1>1, <1>2, CoveredIs
<1>4. PICK n \in Nat, a \in Services : n = x.id[c] /\ a = x.address[c]
  BY <1>1, <1>2, <1>3, AnsweringIs
<1>5. PICK z : z = [x EXCEPT !.id[c] = None]
  OBVIOUS
<1>6. Quits(x, z, c) /\ z.watchService = x.watchService /\ z.stale = x.stale
  BY <1>3, <1>5 DEF Quits, Core, Fields
<1>7. z.address = x.address /\ Core(z) = Core(x) /\ Typed(z, s) /\ DOMAIN z = Fields /\ z.pc = x.pc
      /\ z.unresponse = x.unresponse
  BY <1>3, <1>6, QuitsIs DEF Quits, Core
<1>8. Covers(z)
  BY <1>3, <1>6, <1>7, LikeCovers
<1>9. CASE z.watchService[a] = 0
  <2>1. Raise(s, c, z)
    BY <1>2, <1>4, <1>5, <1>7, <1>9 DEF Response
  <2>2. Tidy(z, s, Live(s)) /\ Alone(z, c, s)
    BY <1>3, <1>7, CoreTidy, CoreAlone
  <2> QED BY <1>1, <1>8, <2>1, <2>2, RaiseCovers
<1>10. CASE z.watchService[a] # 0
  <2>1. PICK r : r = [session |-> n, address |-> a]
    OBVIOUS
  <2>2. PICK y : y = [z EXCEPT !.watchService[a] = @ + 1, !.unresponse = @ \cup {r}]
    OBVIOUS
  <2>3. sv' = [sv EXCEPT ![s] = y]
    BY <1>2, <1>4, <1>5, <1>7, <1>10, <2>1, <2>2 DEF Response
  <2>4. y.pc = z.pc /\ y.stale = z.stale /\ y.address = z.address /\ y.unresponse = z.unresponse \cup {r}
        /\ y.watchService = [z.watchService EXCEPT ![a] = @ + 1]
    BY <1>7, <2>2 DEF Fields
  <2>5. r.address = a
    BY <2>1
  <2>6. Covers(y)
    BY <1>8, <2>4, <2>5, ClosureCovers
  <2> QED BY <1>1, <2>3, <2>6, CoverStep
<1> QED BY <1>9, <1>10

\* A closure that answers gives its count back.
LEMMA RespondCovers ==
  ASSUME SessionInv, CoverInv, NEW s \in Services, s \in alive, NEW c \in Cos, NEW r \in sv[s].unresponse,
         NEW type, Respond(s, c, r, type)
  PROVE  CoverInv'
<1>1. sv[s].run = c /\ alive' = alive
  BY DEF Respond, Does
<1>2. PICK x : x = sv[s]
  OBVIOUS
<1>3. Typed(x, s) /\ DOMAIN x = Fields /\ Covers(x)
  BY <1>1, <1>2, CoveredIs
<1>4. r \in x.unresponse /\ r.address \in Services
  <2>1. r \in x.unresponse /\ r \in [session : Nat, address : Services]
    BY <1>2, <1>3 DEF Typed
  <2> QED BY <2>1
<1>5. PICK z : z = [x EXCEPT !.unresponse = @ \ {r}]
  OBVIOUS
<1>6. DOMAIN z = Fields /\ z.pc = x.pc /\ z.stale = x.stale /\ z.address = x.address
      /\ z.unresponse = x.unresponse \ {r} /\ z.watchService = x.watchService
  BY <1>3, <1>5 DEF Fields
<1>7. PICK y : y = Release(z, r.address)
  OBVIOUS
<1>8. /\ y.pc = z.pc /\ y.stale = z.stale /\ y.address = z.address /\ y.unresponse = z.unresponse
      /\ y.watchService = [z.watchService EXCEPT ![r.address] = IF @ > 0 THEN @ - 1 ELSE 0]
  BY <1>6, <1>7 DEF Release, Fields
<1>9. Covers(y)
  BY <1>3, <1>4, <1>6, <1>8, CalledCovers
<1>10. sv' = [sv EXCEPT ![s] = y]
  BY <1>2, <1>5, <1>7 DEF Respond
<1> QED BY <1>1, <1>9, <1>10, CoverStep

\* A program raises an error: its coroutine goes, and the count of its request stays.
LEMMA FailCovers ==
  ASSUME SessionInv, CoverInv, NEW s \in Services, s \in alive, NEW c \in Cos, Fail(s, c)
  PROVE  CoverInv'
<1>1. sv[s].run = c /\ alive' = alive /\ Raise(s, c, sv[s])
  BY DEF Fail, Does
<1>2. Tidy(sv[s], s, Live(s)) /\ Alone(sv[s], c, s) /\ Covers(sv[s])
  BY <1>1, CoveredIs
<1> QED BY <1>1, <1>2, RaiseCovers

\* A coroutine that ends gives back the count of its address.
LEMMA EndCovers ==
  ASSUME SessionInv, CoverInv, NEW s \in Services, s \in alive, NEW c \in Cos, End(s, c)
  PROVE  CoverInv'
<1>1. sv[s].run = c /\ alive' = alive
  BY DEF End
<1>2. PICK x : x = sv[s]
  OBVIOUS
<1>3. Tidy(x, s, Live(s)) /\ Typed(x, s) /\ Alone(x, c, s) /\ DOMAIN x = Fields /\ Covers(x) /\ x.pc[c] # "free"
  BY <1>1, <1>2, CoveredIs
<1>4. PICK y : y = Recycled(x, c)
  OBVIOUS
<1>5. Tidy(y, s, Live(s))
  BY <1>3, <1>4, RecycledTidy
<1>6. Covers(y)
  BY <1>3, <1>4, RecycledCovers DEF Typed
<1>7. sv' = [sv EXCEPT ![s] = Suspend(y)]
  BY <1>2, <1>4 DEF End
<1> QED BY <1>1, <1>5, <1>6, <1>7, YieldCovers

-----------------------------------------------------------------------------
(* The counts when a message is taken                                          *)

\* The message that is taken leaves the counts alone.
LEMMA TakenCovers ==
  ASSUME SessionInv, CoverInv, NEW s \in Services, s \in alive, NEW type, Take(s, type),
         NEW x, x = Taken(sv[s]), NEW m, m = Head(box[s])
  PROVE  /\ alive' = alive /\ Tidy(x, s, Live(s)) /\ Typed(x, s) /\ DOMAIN x = Fields /\ Covers(x)
         /\ x.errors = <<>> /\ x.pool # <<>> /\ m \in Messages /\ Has(box[s], m) /\ m.type = type
         /\ x.watchSession = sv[s].watchSession /\ x.session = sv[s].session
<1>1. /\ alive' = alive /\ Tidy(x, s, Live(s)) /\ x.errors = <<>> /\ x.pool # <<>>
      /\ box[s] \in Seq(Messages) /\ box[s] # <<>> /\ m.type = type
      /\ x.watchSession = sv[s].watchSession /\ x.session = sv[s].session
  BY TakeIs
<1>2. m \in Messages /\ Has(box[s], m)
  BY <1>1, HeadIs
<1>3. DOMAIN sv[s] = Fields /\ Covers(sv[s])
  BY ServiceIs DEF Tidy, Typed, CoverInv
<1>4. /\ x.pc = sv[s].pc /\ x.address = sv[s].address /\ x.unresponse = sv[s].unresponse
      /\ x.watchService = sv[s].watchService /\ x.stale = sv[s].stale
  BY <1>3 DEF Taken, Fields
<1>5. Covers(x)
  BY <1>3, <1>4, LikeCovers
<1> QED BY <1>1, <1>2, <1>5 DEF Tidy, Typed

\* An answer wakes the coroutine that waits for it.
LEMMA TakeResponseCovers ==
  ASSUME SessionInv, CoverInv, NEW s \in Services, s \in alive, TakeResponse(s)
  PROVE  CoverInv'
<1>0. Take(s, "response")
  BY DEF TakeResponse
<1>1. PICK x : x = Taken(sv[s])
  OBVIOUS
<1>2. PICK m : m = Head(box[s])
  OBVIOUS
<1>3. /\ alive' = alive /\ Tidy(x, s, Live(s)) /\ Covers(x) /\ DOMAIN x = Fields
      /\ m \in Messages /\ Has(box[s], m) /\ m.type = "response"
  BY <1>0, <1>1, <1>2, TakenCovers
<1>4. PICK n \in Nat, t \in Services : n = m.session /\ t = m.source /\ m = Resp(n, t)
  BY <1>3 DEF Messages, Resp, Message
<1>5. PICK p : p = <<"answer", t, s, n>>
  OBVIOUS
<1>6. p \in Places /\ p[3] = s /\ p[4] = n
  BY <1>3, <1>4, <1>5 DEF Places, Kinds, Place
<1>7. n \in Live(s) /\ n \in Sessions(s)
  <2>1. n \in Live(s)
    BY <1>6, LiveIs
  <2> QED BY <1>3, <2>1, LiveIsSession
<1>8. PICK y : y = Returned(x, n)
  OBVIOUS
<1>9. sv' = [sv EXCEPT ![s] = y]
  BY <1>1, <1>2, <1>4, <1>8 DEF TakeResponse, Returned
<1>10. Eases(x, y)
  <2>1. CASE x.waits[n] \in Cos
    <3>1. PICK c \in Cos : x.waits[n] = c
      BY <2>1
    <3>2. PICK z : z = [x EXCEPT !.waits[n] = None, !.watchSession[n] = None]
      OBVIOUS
    <3>3. DOMAIN z = Fields /\ z.pc = x.pc /\ z.stale = x.stale /\ z.address = x.address
          /\ z.unresponse = x.unresponse /\ z.watchService = x.watchService
      BY <1>3, <3>2 DEF Fields
    <3>4. y = Resume(z, c)
      BY <1>8, <2>1, <3>1, <3>2 DEF Returned
    <3> QED BY <1>3, <1>7, <3>1, <3>3, <3>4, WaiterEases
  <2>2. CASE x.waits[n] \notin Cos
    <3>1. PICK z : z = Missed(x, n)
      OBVIOUS
    <3>2. {} \subseteq Live(s) /\ n \notin {}
      OBVIOUS
    <3>3. Tidy(z, s, {})
      BY <1>3, <1>7, <2>2, <3>1, <3>2, MissedTidy
    <3>4. z.pc = x.pc /\ z.stale = x.stale /\ z.address = x.address
          /\ z.unresponse = x.unresponse /\ z.watchService = x.watchService
      BY <1>3, <3>1 DEF Missed, Fields
    <3>5. y = Forks(z)
      BY <1>8, <2>2, <3>1 DEF Returned, Missed
    <3>6. Eases(x, z)
      BY <3>4, LikeEases
    <3>7. Eases(z, y)
      BY <3>3, <3>5, ForksEases
    <3> QED BY <3>6, <3>7, EasesTwice
  <2> QED BY <2>1, <2>2
<1>11. Covers(y)
  BY <1>3, <1>10, EasesCovers
<1> QED BY <1>3, <1>9, <1>11, CoverStep

\* The coroutine that answers a request counts.
LEMMA TakeRequestCovers ==
  ASSUME SessionInv, CoverInv, NEW s \in Services, s \in alive, TakeRequest(s)
  PROVE  CoverInv'
<1>0. Take(s, "request")
  BY DEF TakeRequest
<1>1. PICK x : x = Taken(sv[s])
  OBVIOUS
<1>2. PICK m : m = Head(box[s])
  OBVIOUS
<1>3. /\ alive' = alive /\ Tidy(x, s, Live(s)) /\ Typed(x, s) /\ DOMAIN x = Fields /\ Covers(x) /\ x.pool # <<>>
      /\ m \in Messages
  BY <1>0, <1>1, <1>2, TakenCovers
<1>4. m.session \in Nat /\ m.source \in Services
  BY <1>3 DEF Messages
<1>5. PICK y : y = Given(x, m.session, m.source)
  OBVIOUS
<1>6. PICK d \in Cos : d = Last(x.pool) /\ Tidy(y, s, Live(s)) /\ Alone(y, d, s) /\ Hired(x, y, d, "new", m.source)
  BY <1>3, <1>4, <1>5, GivenTidy
<1>7. "new" \in States \ {"free"} /\ y.stale = x.stale
  BY <1>3, <1>5 DEF States, Given, Watched, Created, Fields
<1>8. Covers(y)
  BY <1>3, <1>4, <1>6, <1>7, HiredCovers
<1>9. PICK r : r = Resume(y, d)
  OBVIOUS
<1>10. DOMAIN y = Fields /\ y.pc \in [Cos -> States] /\ y.pc[d] # "free"
  BY <1>6 DEF Tidy, Typed, Alone
<1>11. Covers(r)
  BY <1>8, <1>9, <1>10, ResumeEases, EasesCovers
<1>12. sv' = [sv EXCEPT ![s] = r]
  BY <1>1, <1>2, <1>5, <1>6, <1>9 DEF TakeRequest, Given
<1> QED BY <1>3, <1>11, <1>12, CoverStep

\* The coroutine of an error counts for the service that sent it, until it ends.
LEMMA TakeErrorCovers ==
  ASSUME SessionInv, CoverInv, NEW s \in Services, s \in alive, TakeError(s)
  PROVE  CoverInv'
<1>0. Take(s, "error")
  BY DEF TakeError
<1>1. PICK x : x = Taken(sv[s])
  OBVIOUS
<1>2. PICK m : m = Head(box[s])
  OBVIOUS
<1>3. /\ alive' = alive /\ Tidy(x, s, Live(s)) /\ Typed(x, s) /\ DOMAIN x = Fields /\ Covers(x)
      /\ x.pool # <<>> /\ x.errors = <<>> /\ m \in Messages
      /\ x.watchSession = sv[s].watchSession /\ x.session = sv[s].session
  BY <1>0, <1>1, <1>2, TakenCovers
<1>4. m.source \in Services
  BY <1>3 DEF Messages
<1>5. IF m.session = 0 THEN \A n \in Live(s) : x.watchSession[n] # m.source
      ELSE m.session \in (1 .. x.session) \ Live(s)
  BY <1>0, <1>2, <1>3, ErrorIs
<1>6. PICK e : e = Accused(x, m)
  OBVIOUS
<1>7. /\ Tidy(e, s, Live(s))
      /\ \E c \in Cos : \E b : /\ Hired(x, b, c, "run", m.source) /\ Ended(b, e, c) /\ e = Recycled(b, c)
                            /\ b.id = x.id /\ b.session = x.session /\ b.watchSession = x.watchSession
                            /\ DOMAIN b = Fields /\ Turns(e) = Turns(x) /\ e.pc = x.pc /\ b.pool \in Seq(Cos)
                            /\ b.stale = x.stale
  BY <1>3, <1>5, <1>6, AccusedTidy
<1>8. PICK c \in Cos : \E b : /\ Hired(x, b, c, "run", m.source) /\ e = Recycled(b, c)
                              /\ DOMAIN b = Fields /\ b.stale = x.stale
  BY <1>7
<1>9. PICK b : Hired(x, b, c, "run", m.source) /\ e = Recycled(b, c) /\ DOMAIN b = Fields /\ b.stale = x.stale
  BY <1>8
<1>10. "run" \in States \ {"free"}
  BY DEF States
<1>11. /\ b.pc \in [Cos -> States] /\ b.pc[c] # "free" /\ b.address \in [Cos -> Services \cup {None}]
  BY <1>3, <1>4, <1>9, <1>10 DEF Hired, Typed
<1>12. Covers(b)
  BY <1>3, <1>4, <1>9, <1>10, HiredCovers
<1>13. Covers(e)
  BY <1>9, <1>11, <1>12, RecycledCovers
<1>14. sv' = [sv EXCEPT ![s] = Suspend(e)]
  BY <1>1, <1>2, <1>6 DEF TakeError, Accused
<1> QED BY <1>3, <1>7, <1>13, <1>14, YieldCovers

-----------------------------------------------------------------------------
\* At the start nothing is counted.
LEMMA CoverStart == Init => CoverInv
<1> SUFFICES ASSUME Init, NEW s \in alive PROVE Covers(sv[s])
  BY DEF CoverInv
<1>1. s \in Services /\ None \notin Services
  BY NamesAssumption DEF Init
<1>2. PICK x : x = sv[s]
  OBVIOUS
<1>3. x.address = [c \in Cos |-> None] /\ x.unresponse = {}
      /\ x.watchService = [t \in Services |-> 0] /\ x.stale = [t \in Services |-> 0]
  BY <1>1, <1>2 DEF Init
<1>4. ASSUME NEW t \in Services
      PROVE  x.watchService[t] + x.stale[t] >= Cardinality(Using(x, t)) + Cardinality(Closures(x, t))
  <2>1. \A c \in Cos : x.address[c] = None
    BY <1>3
  <2>2. Using(x, t) = {} /\ Closures(x, t) = {} /\ x.watchService[t] = 0 /\ x.stale[t] = 0
    BY <1>1, <1>3, <2>1 DEF Using, Closures
  <2>3. Cardinality({}) = 0
    BY FS_EmptySet
  <2> QED BY <2>2, <2>3
<1>5. IsFiniteSet({})
  BY FS_EmptySet
<1> QED BY <1>2, <1>3, <1>4, <1>5 DEF Covers

LEMMA CoverKept == SessionInv /\ CoverInv /\ [Next]_vars /\ late' = {} => CoverInv'
<1> SUFFICES ASSUME SessionInv, CoverInv, [Next]_vars, late' = {} PROVE CoverInv'
  OBVIOUS
<1>1. alive \subseteq Services
  BY DEF SessionInv, Shaped
<1>2. ASSUME NEW s \in Services, Service(s) PROVE CoverInv'
  <2>1. CASE s \notin alive'
    BY <1>1, <1>2, <2>1, ServiceMoves, OthersCover
  <2>2. CASE s \in alive'
    <3>1. s \in alive
      BY <1>2, <2>2, ServiceMoves
    <3>2. ASSUME NEW c \in Cos, Running(s, c) PROVE CoverInv'
      <4>1. ~ Exit(s, c)
        BY <2>2 DEF Exit
      <4>2. ASSUME NEW type, Ret(s, c, type) PROVE CoverInv'
        BY <3>1, <4>2, RetCovers
      <4>3. ASSUME NEW type, NEW r \in sv[s].unresponse, Respond(s, c, r, type) PROVE CoverInv'
        BY <3>1, <4>3, RespondCovers
      <4>4. ASSUME NEW t \in Services, Call(s, c, t) PROVE CoverInv'
        BY <3>1, <4>4, CallCovers
      <4>5. ASSUME NEW d \in Cos, Wakeup(s, c, d) PROVE CoverInv'
        BY <3>1, <4>5, WakeupCovers
      <4> QED BY <3>1, <3>2, <4>1, <4>2, <4>3, <4>4, <4>5, SleepCovers, ForksCovers, ResponseCovers,
                 FailCovers, EndCovers, EnterCovers, EnteredCovers, LeaveCovers DEF Running
    <3>3. ~ Drop(s)
      BY <3>1 DEF Drop
    <3> QED BY <1>2, <3>1, <3>2, <3>3, TakeResponseCovers, TakeRequestCovers, TakeErrorCovers DEF Service
  <2> QED BY <2>1, <2>2
<1>3. ASSUME NEW t \in timers, TimeOut(t) PROVE CoverInv'
  BY <1>3, OthersCover DEF TimeOut
<1>4. CASE UNCHANGED vars
  BY <1>4, OthersCover DEF vars
<1> QED BY <1>2, <1>3, <1>4 DEF Next

\* As long as no service goes on after its exit, the counts of every service cover what
\* they count, whatever its coroutines and those of the others do.
THEOREM CoverInductive == Spec => [](late = {} => CoverInv)
<1> DEFINE Ok == late = {} => CoverInv
<1>1. Init => Ok
  BY CoverStart
<1>2. (late = {} => SessionInv) /\ Ok /\ [Next]_vars => Ok'
  <2> SUFFICES ASSUME late = {} => SessionInv, Ok, [Next]_vars, late' = {} PROVE CoverInv'
    OBVIOUS
  <2>1. late = {}
    BY LateIs
  <2> QED BY <2>1, CoverKept
<1> HIDE DEF Ok
<1>3. Spec => []Ok
  BY <1>1, <1>2, SessionInductive, PTL DEF Spec
<1> QED BY <1>3 DEF Ok

\* So watching_service and the forks that were begun with the address of an old request
\* together cover the coroutines that have the address of a service, and the closures for
\* it: skynet.response fails a request for want of a count only in a service that has
\* begun such a fork, by skynet.fork or for an error.
THEOREM WatchingIsCovered == Spec => [](late = {} => WatchingCovers)
<1>1. CoverInv => WatchingCovers
  BY DEF CoverInv, Covers, Using, Closures, WatchingCovers
<1> DEFINE Ok == late = {} => CoverInv
           Cov == late = {} => WatchingCovers
<1>2. Ok => Cov
  BY <1>1
<1>3. Spec => []Ok
  BY CoverInductive
<1> HIDE DEF Ok, Cov
<1>4. Spec => []Cov
  BY <1>2, <1>3, PTL
<1> QED BY <1>4 DEF Cov
=============================================================================
