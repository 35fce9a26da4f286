------------------------ MODULE SkynetDispatchProofs ------------------------
(***************************************************************************)
(* The safety of the scheduler for any number of services, workers and     *)
(* outside threads, any boot sequence and any number of messages.          *)
(***************************************************************************)
EXTENDS SkynetDispatch, FiniteSetTheorems, TLAPS

(***************************************************************************)
(* The inductive invariant.  Reference counts alone are not inductive: why *)
(* a push finds a live queue depends on who may delete a context, that on  *)
(* the flags of its queue, and those on who holds it.                      *)
(***************************************************************************)
Elements(q) == {q[i] : i \in DOMAIN q}
Injective(q) == \A i, j \in DOMAIN q : q[i] = q[j] => i = j

\* Where a thread is says which queues it holds.
Shape ==
  \A t \in Thread :
    /\ pc[t] = "outside" <=> t \in Outside
    /\ pc[t] \in {"pop", "outside"} => cur[t] = NoService
    /\ pc[t] \notin {"pop", "outside", "mqrelease", "drop"} => cur[t] # NoService
    /\ new[t] = NoService <=>
         pc[t] \in {"pop", "outside", "grab", "first", "loop", "length", "callback", "tail"}
    /\ call[t].op # "idle" => call[t].ctx # NoService

\* A queue is held by one thread or waits once in the global queue.
Single ==
  /\ \A t, u \in Thread : t # u =>
       /\ cur[t] # NoService => cur[t] # cur[u] /\ cur[t] # new[u]
       /\ new[t] # NoService => new[t] # new[u]
  /\ \A t \in Thread : cur[t] # NoService => cur[t] # new[t]
  /\ \A t \in Thread : cur[t] \notin Listed /\ new[t] \notin Listed
  /\ Injective(globalmq)

Held(s) == \E t \in Thread : cur[t] = s \/ new[t] = s

\* The flags of a queue say whether it is held or listed.
Flags ==
  \A s \in Service :
    /\ mqueue[s] = "live" /\ (in_global[s] \/ release[s]) => s \in Listed \/ Held(s)
    /\ s \in Listed => mqueue[s] = "live" /\ (in_global[s] \/ release[s])
    /\ \A t \in Thread :
         /\ cur[t] = s => mqueue[s] = "live" /\ (in_global[s] \/ release[s])
         /\ new[t] = s /\ pc[t] # "create" => mqueue[s] = "live" /\ (in_global[s] \/ release[s])
         /\ new[t] = s /\ pc[t] = "create" => mqueue[s] = "none"
         /\ new[t] = s /\ pc[t] = "drop" => release[s]
    /\ queue[s] # <<>> => in_global[s]
    /\ mqueue[s] # "live" => ~ in_global[s]
    /\ mqueue[s] = "none" => ~ release[s]
    /\ mqueue[s] = "freed" => release[s]

\* The life of a context: referenced, then deleted by one thread, then freed.
Alive(s) ==
  /\ context[s] = "none" => s \notin slot /\ ref[s] = 0 /\ mqueue[s] = "none"
  /\ ref[s] > 0 => context[s] = "live" /\ ~ release[s]
  /\ context[s] # "none" /\ mqueue[s] = "none" =>
       \E t \in Thread : new[t] = s /\ pc[t] = "create"
  /\ context[s] = "freed" => release[s]
  /\ s = remote => mqueue[s] # "none"

\* What a call finds, and that the one that deletes is alone.
Ending(s, t) ==
  call[t].ctx = s =>
    /\ call[t].op \in {"grab", "push"} => mqueue[s] # "none"
    /\ call[t].op \in {"mark", "free"} =>
         /\ ref[s] = 0
         /\ context[s] = "live"
         /\ mqueue[s] # "none"
         /\ release[s] <=> call[t].op = "free"
         /\ \A u \in Thread : call[u].ctx = s /\ call[u].op \in {"mark", "free"} => t = u

Life == \A s \in Service : Alive(s) /\ \A t \in Thread : Ending(s, t)

\* Only services that exist are sources of messages.
Sources ==
  /\ \A s \in Service : \A i \in DOMAIN queue[s] :
       queue[s][i] # NoService => mqueue[queue[s][i]] # "none"
  /\ \A t \in Thread : call[t].source # NoService => mqueue[call[t].source] # "none"

\* A registered context is initialised, or somebody is still launching it.
Inits ==
  /\ \A s \in slot : init[s] \/
       \E t \in Thread : new[t] = s /\ pc[t] \in {"create", "init", "publish", "retire"}
  /\ \A t \in Thread :
       /\ cur[t] # NoService /\ pc[t] # "grab" => init[cur[t]]
       /\ pc[t] = "publishdead" => new[t] \notin slot

\* What is left of a turn fits the queue.
Turns ==
  \A t \in Thread :
    /\ cur[t] # NoService /\ pc[t] \notin {"grab", "first", "length"} =>
         left[t] <= Len(queue[cur[t]])
    /\ pc[t] = "loop" => left[t] > 0
    /\ pc[t] = "length" => Share[t] # 0

\* The contexts that count: between context_inc and context_dec, which the reserved one
\* has had early.
Counted == {s \in Service : context[s] = "live" /\ mqueue[s] # "none" /\ s # remote}
TotalExact == ~ exited => total = Cardinality(Counted)

\* No thread does anything once the main thread has passed skynet_harbor_exit.
ExitLast ==
  exited =>
    /\ quit = "set"
    /\ \A t \in Thread : call[t].op = "idle"
    /\ \A t \in Worker : pc[t] \in {"pop", "grab"} /\ t \notin late

\* What every step of a running thread keeps.
Core ==
  /\ TypeOK /\ Shape /\ Single /\ Flags /\ Life /\ Sources /\ Inits /\ Turns
  /\ RefCountExact /\ TotalExact

IInv == Core /\ ExitLast

(***************************************************************************)
(* Sequences: what the global queue holds after a push and after a pop.    *)
(***************************************************************************)
\* skynet_globalmq_push
LEMMA AppendElements ==
  ASSUME NEW S, NEW q \in Seq(S), NEW x \in S
  PROVE  /\ Append(q, x) \in Seq(S)
         /\ Elements(Append(q, x)) = Elements(q) \cup {x}
         /\ Injective(q) /\ x \notin Elements(q) => Injective(Append(q, x))
<1>1. Append(q, x) \in Seq(S) /\ Len(Append(q, x)) = Len(q) + 1
  OBVIOUS
<1>2. \A i \in 1 .. Len(q) : Append(q, x)[i] = q[i]
  OBVIOUS
<1>3. Append(q, x)[Len(q) + 1] = x
  OBVIOUS
<1>4. DOMAIN Append(q, x) = 1 .. Len(q) + 1 /\ DOMAIN q = 1 .. Len(q) /\ Len(q) \in Nat
  BY <1>1
<1>5. ASSUME NEW i \in 1 .. Len(q) + 1
      PROVE  i \in 1 .. Len(q) \/ i = Len(q) + 1
  BY <1>4
<1>6. Elements(Append(q, x)) = Elements(q) \cup {x}
  BY <1>2, <1>3, <1>4, <1>5 DEF Elements
<1>7. Injective(q) /\ x \notin Elements(q) => Injective(Append(q, x))
  BY <1>2, <1>3, <1>4, <1>5 DEF Elements, Injective
<1> QED
  BY <1>1, <1>6, <1>7

\* skynet_globalmq_pop
LEMMA TailElements ==
  ASSUME NEW S, NEW q \in Seq(S), q # <<>>, Injective(q)
  PROVE  /\ Head(q) \in S
         /\ Tail(q) \in Seq(S)
         /\ Head(q) \in Elements(q)
         /\ Elements(Tail(q)) = Elements(q) \ {Head(q)}
         /\ Injective(Tail(q))
<1>1. Tail(q) \in Seq(S) /\ Len(Tail(q)) = Len(q) - 1 /\ Len(q) \in Nat \ {0}
  OBVIOUS
<1>2. \A i \in 1 .. Len(q) - 1 : Tail(q)[i] = q[i + 1]
  OBVIOUS
<1>3. Head(q) = q[1] /\ 1 \in DOMAIN q
  BY <1>1
<1>4. DOMAIN Tail(q) = 1 .. Len(q) - 1 /\ DOMAIN q = 1 .. Len(q)
  BY <1>1
<1>5. \A i \in 1 .. Len(q) : i # 1 => i - 1 \in 1 .. Len(q) - 1 /\ Tail(q)[i - 1] = q[i]
  BY <1>1, <1>2
<1>6. \A j \in 1 .. Len(q) - 1 : j + 1 \in 1 .. Len(q) /\ j + 1 # 1
  BY <1>1
<1>7. Elements(Tail(q)) \subseteq Elements(q) \ {Head(q)}
  BY <1>1, <1>2, <1>3, <1>4, <1>6 DEF Elements, Injective
<1>8. Elements(q) \ {Head(q)} \subseteq Elements(Tail(q))
  <2> SUFFICES ASSUME NEW x \in Elements(q), x # Head(q)
               PROVE  x \in Elements(Tail(q))
    OBVIOUS
  <2>1. PICK i \in 1 .. Len(q) : x = q[i]
    BY <1>4 DEF Elements
  <2>2. i - 1 \in DOMAIN Tail(q) /\ x = Tail(q)[i - 1]
    BY <1>3, <1>4, <1>5, <2>1
  <2> QED
    BY <2>2 DEF Elements
<1>9. Injective(Tail(q))
  <2>1. \A i, j \in 1 .. Len(q) - 1 : i + 1 = j + 1 => i = j
    BY <1>1
  <2>2. \A i, j \in 1 .. Len(q) - 1 : q[i + 1] = q[j + 1] => i + 1 = j + 1
    BY <1>4, <1>6 DEF Injective
  <2> QED
    BY <1>2, <1>4, <2>1, <2>2 DEF Injective
<1>10. Head(q) \in S /\ Head(q) \in Elements(q)
  BY <1>1, <1>3 DEF Elements
<1> QED
  BY <1>1, <1>7, <1>8, <1>9, <1>10

\* The messages after a push and after a pop.
LEMMA AppendMembers ==
  ASSUME NEW S, NEW q \in Seq(S), NEW x \in S
  PROVE  /\ Len(Append(q, x)) = Len(q) + 1 /\ Len(q) \in Nat
         /\ \A i \in DOMAIN Append(q, x) :
              (\E j \in DOMAIN q : Append(q, x)[i] = q[j]) \/ Append(q, x)[i] = x
<1>1. Len(Append(q, x)) = Len(q) + 1 /\ Len(q) \in Nat
  OBVIOUS
<1>2. DOMAIN Append(q, x) = 1 .. Len(q) + 1 /\ DOMAIN q = 1 .. Len(q)
  OBVIOUS
<1>3. \A i \in 1 .. Len(q) : Append(q, x)[i] = q[i]
  OBVIOUS
<1>4. Append(q, x)[Len(q) + 1] = x
  OBVIOUS
<1>5. \A i \in 1 .. Len(q) + 1 : i \in 1 .. Len(q) \/ i = Len(q) + 1
  BY <1>1
<1> QED
  BY <1>1, <1>2, <1>3, <1>4, <1>5

LEMMA TailMembers ==
  ASSUME NEW S, NEW q \in Seq(S), q # <<>>
  PROVE  /\ Len(Tail(q)) = Len(q) - 1 /\ Len(Tail(q)) \in Nat
         /\ \A i \in DOMAIN Tail(q) : \E j \in DOMAIN q : Tail(q)[i] = q[j]
<1>1. Len(Tail(q)) = Len(q) - 1 /\ Len(Tail(q)) \in Nat /\ Len(q) \in Nat \ {0}
  OBVIOUS
<1>2. DOMAIN Tail(q) = 1 .. Len(q) - 1 /\ DOMAIN q = 1 .. Len(q)
  OBVIOUS
<1>3. \A i \in 1 .. Len(q) - 1 : Tail(q)[i] = q[i + 1]
  OBVIOUS
<1>4. \A i \in 1 .. Len(q) - 1 : i + 1 \in 1 .. Len(q)
  BY <1>1
<1> QED
  BY <1>1, <1>2, <1>3, <1>4

(***************************************************************************)
(* Counting references: a step of thread t changes the sets by t alone.    *)
(***************************************************************************)
One(b) == IF b THEN 1 ELSE 0

\* Sets that differ in one member only differ in size by that member.
LEMMA CardinalityByOne ==
  ASSUME NEW T, IsFiniteSet(T), NEW A \in SUBSET T, NEW B \in SUBSET T,
         NEW t, A \ {t} = B \ {t}
  PROVE  /\ Cardinality(A) \in Nat
         /\ Cardinality(B) = Cardinality(A) - One(t \in A) + One(t \in B)
<1>1. IsFiniteSet(A) /\ IsFiniteSet(B) /\ IsFiniteSet(A \ {t})
  BY FS_Subset
<1>2. Cardinality(A) \in Nat /\ Cardinality(B) \in Nat /\ Cardinality(A \ {t}) \in Nat
  BY <1>1, FS_CardinalityType
<1>3. ASSUME NEW C \in SUBSET T
      PROVE  Cardinality(C \ {t}) = Cardinality(C) - One(t \in C)
  <2>1. IsFiniteSet(C) /\ Cardinality(C) \in Nat
    BY FS_Subset, FS_CardinalityType
  <2>2. CASE t \in C
    BY <2>1, <2>2, FS_RemoveElement DEF One
  <2>3. CASE t \notin C
    <3>1. C \ {t} = C
      BY <2>3
    <3> QED
      BY <2>1, <2>3, <3>1 DEF One
  <2> QED
    BY <2>2, <2>3
<1>4. Cardinality(A \ {t}) = Cardinality(A) - One(t \in A)
  BY <1>3
<1>5. Cardinality(B \ {t}) = Cardinality(B) - One(t \in B)
  BY <1>3
<1> QED
  BY <1>2, <1>4, <1>5 DEF One

\* The references thread t holds to s.
Tokens(t, s) ==
  One(call[t].ctx = s /\ call[t].op \in {"push", "release"})
    + One(cur[t] = s /\ pc[t] # "grab")
    + One(new[t] = s /\ pc[t] \in {"create", "init"})

\* Only thread t moves, ...
OthersStay(t) ==
  \A u \in Thread : u # t =>
    call'[u] = call[u] /\ cur'[u] = cur[u] /\ new'[u] = new[u] /\ pc'[u] = pc[u]

\* ... and what it adds to a count is what it adds to the references.
CountsMatch(t) ==
  \A s \in Service :
    ref'[s] = ref[s] + One(s \in slot') - One(s \in slot)
                + One(Reserved(s)') - One(Reserved(s)) + Tokens(t, s)' - Tokens(t, s)

\* A step that has nothing to do with REMOTE.
CountsFit(t) ==
  /\ remote' = remote /\ exited' = exited
  /\ \A s \in Service :
       ref'[s] = ref[s] + One(s \in slot') - One(s \in slot) + Tokens(t, s)' - Tokens(t, s)

\* A step of thread t keeps the counts exact if it changes the count of every
\* context by what it changes in the table and in its own references.
LEMMA CountsKept ==
  ASSUME RefCountExact, TypeOK, NEW t \in Thread, OthersStay(t), CountsMatch(t)
  PROVE  RefCountExact'
<1> USE DEF OthersStay, CountsMatch
<1> SUFFICES ASSUME NEW s \in Service
             PROVE  ref'[s] = One(s \in slot') + One(Reserved(s)') + Cardinality(Callers(s)')
                                + Cardinality(Dispatchers(s)') + Cardinality(Launchers(s)')
  BY DEF RefCountExact, One
<1>1. IsFiniteSet(Thread)
  BY ThreadAssumption
<1>2. /\ Callers(s) \in SUBSET Thread /\ Callers(s)' \in SUBSET Thread
      /\ Callers(s) \ {t} = Callers(s)' \ {t}
  BY DEF Callers
<1>3. /\ Dispatchers(s) \in SUBSET Thread /\ Dispatchers(s)' \in SUBSET Thread
      /\ Dispatchers(s) \ {t} = Dispatchers(s)' \ {t}
  BY DEF Dispatchers
<1>4. /\ Launchers(s) \in SUBSET Thread /\ Launchers(s)' \in SUBSET Thread
      /\ Launchers(s) \ {t} = Launchers(s)' \ {t}
  BY DEF Launchers
<1>5. /\ Cardinality(Callers(s)) \in Nat
      /\ Cardinality(Callers(s)') =
           Cardinality(Callers(s)) - One(t \in Callers(s)) + One(t \in Callers(s)')
  BY <1>1, <1>2, CardinalityByOne
<1>6. /\ Cardinality(Dispatchers(s)) \in Nat
      /\ Cardinality(Dispatchers(s)') =
           Cardinality(Dispatchers(s)) - One(t \in Dispatchers(s)) + One(t \in Dispatchers(s)')
  BY <1>1, <1>3, CardinalityByOne
<1>7. /\ Cardinality(Launchers(s)) \in Nat
      /\ Cardinality(Launchers(s)') =
           Cardinality(Launchers(s)) - One(t \in Launchers(s)) + One(t \in Launchers(s)')
  BY <1>1, <1>4, CardinalityByOne
<1>8. ref[s] = One(s \in slot) + One(Reserved(s)) + Cardinality(Callers(s))
                 + Cardinality(Dispatchers(s)) + Cardinality(Launchers(s))
  BY DEF RefCountExact, One
<1>9. /\ Tokens(t, s) = One(t \in Callers(s)) + One(t \in Dispatchers(s)) + One(t \in Launchers(s))
      /\ Tokens(t, s)' = One(t \in Callers(s)') + One(t \in Dispatchers(s)') + One(t \in Launchers(s)')
  BY DEF Tokens, Callers, Dispatchers, Launchers
<1> QED
  BY <1>5, <1>6, <1>7, <1>8, <1>9 DEF One

LEMMA CountsKeptFit ==
  ASSUME RefCountExact, TypeOK, NEW t \in Thread, OthersStay(t), CountsFit(t)
  PROVE  RefCountExact'
<1>1. ASSUME NEW s \in Service
      PROVE  ref[s] \in Nat /\ (Reserved(s)' <=> Reserved(s)) /\ One(Reserved(s)) \in Nat
  BY DEF CountsFit, Reserved, TypeOK, One
<1>2. ASSUME NEW s \in Service
      PROVE  /\ One(s \in slot) \in Nat /\ One(s \in slot') \in Nat
             /\ Tokens(t, s) \in Nat /\ Tokens(t, s)' \in Nat
  BY DEF One, Tokens
<1>3. CountsMatch(t)
  BY <1>1, <1>2 DEF CountsFit, CountsMatch, One
<1> QED
  BY <1>3, CountsKept

\* References that somebody holds are counted.
LEMMA HoldersCounted ==
  RefCountExact => \A s \in Service :
    /\ ref[s] \in Nat
    /\ \A t, u, v \in Thread :
         ref[s] >= One(s \in slot) + One(Reserved(s)) + One(t \in Callers(s))
                     + One(u \in Dispatchers(s)) + One(v \in Launchers(s))
<1> SUFFICES ASSUME RefCountExact, NEW s \in Service
             PROVE  /\ ref[s] \in Nat
                    /\ \A t, u, v \in Thread :
                         ref[s] >= One(s \in slot) + One(Reserved(s)) + One(t \in Callers(s))
                                     + One(u \in Dispatchers(s)) + One(v \in Launchers(s))
  OBVIOUS
<1>1. IsFiniteSet(Thread)
  BY ThreadAssumption
<1>2. Callers(s) \in SUBSET Thread /\ Dispatchers(s) \in SUBSET Thread /\ Launchers(s) \in SUBSET Thread
  BY DEF Callers, Dispatchers, Launchers
<1>3. ref[s] = One(s \in slot) + One(Reserved(s)) + Cardinality(Callers(s))
                 + Cardinality(Dispatchers(s)) + Cardinality(Launchers(s))
  BY DEF RefCountExact, One
<1>4. ASSUME NEW A \in SUBSET Thread
      PROVE  Cardinality(A) \in Nat /\ \A t \in Thread : Cardinality(A) >= One(t \in A)
  <2>1. IsFiniteSet(A)
    BY <1>1, FS_Subset
  <2>2. Cardinality(A) \in Nat /\ (Cardinality(A) = 0 <=> A = {})
    BY <2>1, FS_CardinalityType, FS_EmptySet
  <2> QED
    BY <2>2 DEF One
<1>5. /\ Cardinality(Callers(s)) \in Nat
      /\ \A t \in Thread : Cardinality(Callers(s)) >= One(t \in Callers(s))
  BY <1>2, <1>4
<1>6. /\ Cardinality(Dispatchers(s)) \in Nat
      /\ \A t \in Thread : Cardinality(Dispatchers(s)) >= One(t \in Dispatchers(s))
  BY <1>2, <1>4
<1>7. /\ Cardinality(Launchers(s)) \in Nat
      /\ \A t \in Thread : Cardinality(Launchers(s)) >= One(t \in Launchers(s))
  BY <1>2, <1>4
<1>8. One(s \in slot) \in Nat /\ One(Reserved(s)) \in Nat
  BY DEF One
<1>9. ASSUME NEW t \in Thread, NEW u \in Thread, NEW v \in Thread
      PROVE  ref[s] >= One(s \in slot) + One(Reserved(s)) + One(t \in Callers(s))
                         + One(u \in Dispatchers(s)) + One(v \in Launchers(s))
  <2>1. /\ Cardinality(Callers(s)) >= One(t \in Callers(s))
        /\ Cardinality(Dispatchers(s)) >= One(u \in Dispatchers(s))
        /\ Cardinality(Launchers(s)) >= One(v \in Launchers(s))
    BY <1>5, <1>6, <1>7
  <2>2. One(t \in Callers(s)) \in Nat /\ One(u \in Dispatchers(s)) \in Nat /\ One(v \in Launchers(s)) \in Nat
    BY DEF One
  <2> QED
    BY <1>3, <1>5, <1>6, <1>7, <1>8, <2>1, <2>2
<1> QED
  BY <1>3, <1>5, <1>6, <1>7, <1>8, <1>9

\* What holds of a context while somebody refers to it.
LEMMA Referenced ==
  RefCountExact => \A s \in Service, t, u \in Thread :
    /\ s \in slot => ref[s] > 0
    /\ call[t].ctx = s /\ call[t].op \in {"push", "release"} => ref[s] > 0
    /\ cur[t] = s /\ pc[t] # "grab" => ref[s] > 0
    /\ new[t] = s /\ pc[t] \in {"create", "init"} => ref[s] > 0
    /\ new[t] = s /\ pc[t] \in {"create", "init"} /\ s \in slot => ref[s] > 1
    /\ new[t] = s /\ pc[t] \in {"create", "init"}
         /\ call[u].ctx = s /\ call[u].op \in {"push", "release"} => ref[s] > 1
<1> SUFFICES ASSUME RefCountExact, NEW s \in Service, NEW t \in Thread, NEW u \in Thread
             PROVE  /\ s \in slot => ref[s] > 0
                    /\ t \in Callers(s) => ref[s] > 0
                    /\ t \in Dispatchers(s) => ref[s] > 0
                    /\ t \in Launchers(s) => ref[s] > 0
                    /\ t \in Launchers(s) /\ s \in slot => ref[s] > 1
                    /\ t \in Launchers(s) /\ u \in Callers(s) => ref[s] > 1
  BY DEF Callers, Dispatchers, Launchers
<1>1. ref[s] \in Nat
  BY HoldersCounted
<1>2. /\ ref[s] >= (IF s \in slot THEN 1 ELSE 0) + (IF Reserved(s) THEN 1 ELSE 0)
                      + (IF u \in Callers(s) THEN 1 ELSE 0)
                      + (IF t \in Dispatchers(s) THEN 1 ELSE 0) + (IF t \in Launchers(s) THEN 1 ELSE 0)
      /\ ref[s] >= (IF s \in slot THEN 1 ELSE 0) + (IF Reserved(s) THEN 1 ELSE 0)
                      + (IF t \in Callers(s) THEN 1 ELSE 0)
                      + (IF t \in Dispatchers(s) THEN 1 ELSE 0) + (IF t \in Launchers(s) THEN 1 ELSE 0)
  BY HoldersCounted DEF One
<1> QED
  BY <1>1, <1>2

\* REMOTE keeps a reference until skynet_harbor_exit, whoever else does.
LEMMA ReservedCounted ==
  ASSUME RefCountExact, NEW s \in Service, Reserved(s)
  PROVE  ref[s] \in Nat /\ ref[s] > 0
<1>1. IsFiniteSet(Callers(s)) /\ IsFiniteSet(Dispatchers(s)) /\ IsFiniteSet(Launchers(s))
  <2>1. IsFiniteSet(Thread)
    BY ThreadAssumption
  <2> QED
    BY <2>1, FS_Subset DEF Callers, Dispatchers, Launchers
<1>2. /\ Cardinality(Callers(s)) \in Nat /\ Cardinality(Dispatchers(s)) \in Nat
      /\ Cardinality(Launchers(s)) \in Nat
  BY <1>1, FS_CardinalityType
<1>3. ref[s] = (IF s \in slot THEN 1 ELSE 0) + 1 + Cardinality(Callers(s))
                 + Cardinality(Dispatchers(s)) + Cardinality(Launchers(s))
  BY DEF RefCountExact
<1> QED
  BY <1>2, <1>3

(***************************************************************************)
(* The global queue after a step.                                          *)
(***************************************************************************)
\* A queue that is not listed is added once.
LEMMA PushedGlobal ==
  ASSUME TypeOK, Single, NEW s \in Service, s \notin Listed, globalmq' = Append(globalmq, s)
  PROVE  /\ globalmq' \in Seq(Service)
         /\ Injective(globalmq')
         /\ Listed' = Listed \cup {s}
<1>1. globalmq \in Seq(Service) /\ Injective(globalmq)
  BY DEF TypeOK, Single
<1>2. Listed = Elements(globalmq) /\ Listed' = Elements(globalmq')
  BY DEF Listed, Elements
<1> QED
  BY <1>1, <1>2, AppendElements

\* The queue that is popped is listed no more.
LEMMA PoppedGlobal ==
  ASSUME TypeOK, Single, globalmq # <<>>, globalmq' = Tail(globalmq)
  PROVE  /\ Head(globalmq) \in Service
         /\ Head(globalmq) \in Listed
         /\ globalmq' \in Seq(Service)
         /\ Injective(globalmq')
         /\ Listed' = Listed \ {Head(globalmq)}
<1>1. globalmq \in Seq(Service) /\ Injective(globalmq)
  BY DEF TypeOK, Single
<1>2. Listed = Elements(globalmq) /\ Listed' = Elements(globalmq')
  BY DEF Listed, Elements
<1> QED
  BY <1>1, <1>2, TailElements

\* A live queue that is not in_global is nobody's, so that a push lists it.
LEMMA Enlisted ==
  ASSUME TypeOK, Single, Flags, NEW s \in Service, mqueue[s] = "live", ~ release[s],
         globalmq' = Enlist(s)
  PROVE  /\ globalmq' \in Seq(Service)
         /\ Injective(globalmq')
         /\ in_global[s] => Listed' = Listed
         /\ ~ in_global[s] => Listed' = Listed \cup {s} /\ s \notin Listed /\ ~ Held(s)
<1>1. CASE in_global[s]
  BY <1>1 DEF Enlist, TypeOK, Single, Listed
<1>2. CASE ~ in_global[s]
  <2>1. s \notin Listed /\ ~ Held(s)
    BY <1>2 DEF Flags, Held
  <2> QED
    BY <1>2, <2>1, PushedGlobal DEF Enlist
<1> QED
  BY <1>1, <1>2

\* A step of t that lists, swaps or lets go queues of its own keeps them single.
LEMMA SingleKept ==
  ASSUME Single, NEW t \in Thread, NoService \notin Service,
         \A u \in Thread : u # t => cur'[u] = cur[u] /\ new'[u] = new[u],
         cur'[t] \in {NoService, cur[t], new[t]}, new'[t] \in {NoService, new[t]},
         cur'[t] = NoService \/ cur'[t] # new'[t],
         globalmq' \in Seq(Service), Injective(globalmq'),
         Listed' \subseteq Listed \cup {cur[t], new[t]},
         cur'[t] \notin Listed', new'[t] \notin Listed'
  PROVE  Single'
<1>1. NoService \notin Listed'
  BY DEF Listed
<1>2. ASSUME NEW u \in Thread, u # t
      PROVE  /\ cur[u] # NoService => cur[u] \notin {cur[t], new[t]}
             /\ new[u] # NoService => new[u] \notin {cur[t], new[t]}
             /\ cur[u] \notin Listed /\ new[u] \notin Listed
  BY <1>2 DEF Single
<1>3. ASSUME NEW u \in Thread
      PROVE  cur'[u] \notin Listed' /\ new'[u] \notin Listed'
  BY <1>1, <1>2
<1>4. ASSUME NEW u \in Thread, NEW v \in Thread, u # v
      PROVE  /\ cur'[u] # NoService => cur'[u] # cur'[v] /\ cur'[u] # new'[v]
             /\ new'[u] # NoService => new'[u] # new'[v]
  <2>1. CASE u = t
    BY <1>2, <1>4, <2>1
  <2>2. CASE v = t
    BY <1>2, <1>4, <2>2
  <2>3. CASE u # t /\ v # t
    BY <1>4, <2>3 DEF Single
  <2> QED
    BY <2>1, <2>2, <2>3
<1>5. ASSUME NEW u \in Thread, cur'[u] # NoService
      PROVE  cur'[u] # new'[u]
  BY <1>5 DEF Single
<1> QED
  BY <1>3, <1>4, <1>5 DEF Single

(***************************************************************************)
(* One lemma per action: what it does to each part of the invariant.       *)
(***************************************************************************)
\* skynet_handle_grab: the reference is taken under the lock of the table, while the
\* entry of the context still holds its own.
LEMMA GrabKeeps ==
  ASSUME Core, ~ exited, NEW t \in Thread, Grab(t)
  PROVE  Core'
<1> DEFINE s == call[t].ctx
<1>1. /\ s \in Service
      /\ call[t].op = "grab" /\ call[t].source \in Handle
      /\ TypeOK /\ Shape /\ Single /\ Flags /\ Life /\ Sources /\ Inits /\ Turns
      /\ RefCountExact /\ TotalExact
  BY DEF Core, TypeOK, Shape, Handle, Grab
<1>2. UNCHANGED <<slot, context, init, total, mqVars, pc, cur, new, left, sends, remote, quit, late, exited>>
  BY DEF Grab, hostVars
<1>3. \A u \in Thread : u # t => call'[u] = call[u]
  BY <1>1 DEF Grab, Calls, TypeOK
<1>4. /\ call' \in [Thread -> [op : CallOp, ctx : Handle, source : Handle]]
      /\ ref' \in [Service -> Nat]
      /\ \A c \in Service : c # s => ref'[c] = ref[c]
  <2>1. CASE s \in slot
    <3>1. call' = [call EXCEPT ![t] = [call[t] EXCEPT !.op = "push"]]
      BY <2>1 DEF Grab, Calls, Registered
    <3>2. ref' = [ref EXCEPT ![s] = ref[s] + 1]
      BY <2>1 DEF Grab, Registered, RefAfterGrab
    <3>3. call[t] \in [op : CallOp, ctx : Handle, source : Handle]
      BY <1>1 DEF TypeOK
    <3>4. [call[t] EXCEPT !.op = "push"] \in [op : CallOp, ctx : Handle, source : Handle]
      BY <3>3 DEF CallOp
    <3> QED
      BY <1>1, <3>1, <3>2, <3>4 DEF TypeOK
  <2>2. CASE s \notin slot
    <3>1. call' = [call EXCEPT ![t] = Idle] /\ ref' = ref
      BY <2>2 DEF Grab, Calls, Registered
    <3>2. Idle \in [op : CallOp, ctx : Handle, source : Handle]
      BY DEF Idle, CallOp, Handle
    <3> QED
      BY <1>1, <3>1, <3>2 DEF TypeOK
  <2> QED
    BY <2>1, <2>2
<1>5. \/ /\ s \in slot
         /\ ref'[s] = ref[s] + 1
         /\ call'[t].op = "push" /\ call'[t].ctx = s /\ call'[t].source = call[t].source
      \/ /\ s \notin slot
         /\ ref'[s] = ref[s]
         /\ call'[t].op = "idle" /\ call'[t].ctx = NoService /\ call'[t].source = NoService
  BY <1>1 DEF Grab, Calls, Idle, Registered, RefAfterGrab, TypeOK
<1>6. TypeOK'
  BY <1>1, <1>2, <1>4 DEF TypeOK, mqVars
<1>7. Shape'
  BY <1>1, <1>2, <1>3, <1>5 DEF Shape
<1>8. Single' /\ Flags'
  BY <1>1, <1>2 DEF Single, Flags, Held, Listed, mqVars
<1>9. Life'
  <2>1. \A c \in Service :
          ref'[c] = ref[c] \/ (c = s /\ c \in slot /\ ref[c] > 0 /\ ref[c] \in Nat /\ ref'[c] = ref[c] + 1)
    BY <1>1, <1>4, <1>5, Referenced DEF TypeOK
  <2>2. ASSUME NEW c \in Service PROVE Alive(c)'
    BY <1>1, <1>2, <2>1 DEF Life, Alive, mqVars
  <2>3. ASSUME NEW c \in Service, NEW u \in Thread PROVE Ending(c, u)'
    <3>1. CASE u = t
      BY <1>1, <1>2, <1>5, <3>1 DEF Life, Ending, mqVars
    <3>2. CASE u # t
      BY <1>1, <1>2, <1>3, <1>5, <2>1, <3>2 DEF Life, Ending, mqVars
    <3> QED
      BY <3>1, <3>2
  <2> QED
    BY <2>2, <2>3 DEF Life
<1>10. Sources' /\ Inits' /\ Turns'
  BY <1>1, <1>2, <1>3, <1>5 DEF Sources, Inits, Turns, mqVars
<1>11. RefCountExact'
  <2>1. OthersStay(t)
    BY <1>2, <1>3 DEF OthersStay
  <2>2. CountsFit(t)
    BY <1>1, <1>2, <1>4, <1>5, ServiceAssumption DEF CountsFit, Tokens, One, TypeOK
  <2> QED
    BY <1>1, <2>1, <2>2, CountsKeptFit
<1>12. TotalExact'
  BY <1>1, <1>2 DEF TotalExact, Counted, mqVars
<1> QED
  BY <1>6, <1>7, <1>8, <1>9, <1>10, <1>11, <1>12 DEF Core

\* skynet_mq_push: the reference of the caller keeps the queue from being marked, so a
\* queue it lists was nobody's.
LEMMA PushKeeps ==
  ASSUME Core, ~ exited, NEW t \in Thread, Push(t)
  PROVE  Core'
<1> DEFINE s == call[t].ctx
<1>1. /\ s \in Service
      /\ call[t].op = "push" /\ call[t].source \in Handle
      /\ TypeOK /\ Shape /\ Single /\ Flags /\ Life /\ Sources /\ Inits /\ Turns
      /\ RefCountExact /\ TotalExact
  BY DEF Core, TypeOK, Shape, Handle, Push
<1>2. ref[s] > 0 /\ mqueue[s] = "live" /\ ~ release[s]
  BY <1>1, Referenced DEF Life, Alive, Ending, Flags, TypeOK, Memory
<1>3. UNCHANGED <<ctxVars, mqueue, release, pc, cur, new, left, sends, remote, quit, late, exited>>
  BY DEF Push, hostVars
<1>4. /\ call' \in [Thread -> [op : CallOp, ctx : Handle, source : Handle]]
      /\ \A u \in Thread : u # t => call'[u] = call[u]
      /\ call'[t].op = "release" /\ call'[t].ctx = s /\ call'[t].source = NoService
  BY <1>1 DEF Push, Calls, CallTo, CallOp, TypeOK, Handle
<1>5. /\ queue' \in [Service -> Seq(Handle)]
      /\ \A c \in Service : c # s => queue'[c] = queue[c]
      /\ queue'[s] = Append(queue[s], call[t].source)
  BY <1>1 DEF Push, TypeOK
<1>6. /\ in_global' \in [Service -> BOOLEAN]
      /\ \A c \in Service : c # s => in_global'[c] = in_global[c]
      /\ in_global'[s]
  BY <1>1 DEF Push, TypeOK
<1>7. /\ globalmq' \in Seq(Service)
      /\ Injective(globalmq')
      /\ in_global[s] => Listed' = Listed
      /\ ~ in_global[s] => Listed' = Listed \cup {s} /\ s \notin Listed /\ ~ Held(s)
  BY <1>1, <1>2, Enlisted DEF Push
<1>8. TypeOK'
  BY <1>1, <1>3, <1>4, <1>5, <1>6, <1>7 DEF TypeOK, ctxVars
<1>9. Shape'
  BY <1>1, <1>3, <1>4 DEF Shape
<1>10. Single'
  BY <1>1, <1>3, <1>7 DEF Single, Held
<1>11. Flags'
  BY <1>1, <1>2, <1>3, <1>5, <1>6, <1>7 DEF Flags, Held
<1>12. Life'
  BY <1>1, <1>2, <1>3, <1>4 DEF Life, Alive, Ending, ctxVars
<1>13. Sources'
  <2>1. \A i \in DOMAIN queue'[s] :
          (\E j \in DOMAIN queue[s] : queue'[s][i] = queue[s][j]) \/ queue'[s][i] = call[t].source
    BY <1>1, <1>5, AppendMembers DEF TypeOK
  <2>2. \A c \in Service : \A i \in DOMAIN queue'[c] :
          (\E j \in DOMAIN queue[c] : queue'[c][i] = queue[c][j]) \/ queue'[c][i] = call[t].source
    BY <1>5, <2>1
  <2>3. ASSUME NEW c \in Service, NEW i \in DOMAIN queue'[c], queue'[c][i] # NoService
        PROVE  mqueue[queue'[c][i]] # "none"
    BY <1>1, <2>2, <2>3 DEF Sources
  <2>4. ASSUME NEW u \in Thread, call'[u].source # NoService
        PROVE  mqueue[call'[u].source] # "none"
    BY <1>1, <1>4, <2>4 DEF Sources
  <2> QED
    BY <1>3, <2>3, <2>4 DEF Sources
<1>14. Inits'
  BY <1>1, <1>3 DEF Inits, ctxVars
<1>15. Turns'
  <2>1. \A c \in Service : Len(queue[c]) \in Nat /\ Len(queue'[c]) \in Nat /\ Len(queue[c]) <= Len(queue'[c])
    <3>1. \A c \in Service : queue[c] \in Seq(Handle) /\ Len(queue[c]) \in Nat
      BY <1>1 DEF TypeOK
    <3>2. Len(queue'[s]) = Len(queue[s]) + 1
      BY <1>1, <1>5, <3>1, AppendMembers
    <3> QED
      BY <1>1, <1>5, <3>1, <3>2
  <2>2. \A u \in Thread : cur[u] # NoService => cur[u] \in Service
    BY <1>1 DEF TypeOK, Handle
  <2> QED
    BY <1>1, <1>3, <2>1, <2>2 DEF Turns, TypeOK
<1>16. RefCountExact'
  <2>1. OthersStay(t)
    BY <1>3, <1>4 DEF OthersStay
  <2>2. CountsFit(t)
    BY <1>1, <1>3, <1>4 DEF CountsFit, Tokens, One, TypeOK, ctxVars
  <2> QED
    BY <1>1, <2>1, <2>2, CountsKeptFit
<1>17. TotalExact'
  BY <1>1, <1>3 DEF TotalExact, Counted, ctxVars
<1> QED
  BY <1>8, <1>9, <1>10, <1>11, <1>12, <1>13, <1>14, <1>15, <1>16, <1>17 DEF Core

\* skynet_context_release: the one who takes the last reference away becomes the one
\* who deletes.
LEMMA ReleaseKeeps ==
  ASSUME Core, ~ exited, NEW t \in Thread, Release(t)
  PROVE  Core'
<1> DEFINE s == call[t].ctx
<1>1. /\ s \in Service
      /\ call[t].op = "release"
      /\ TypeOK /\ Shape /\ Single /\ Flags /\ Life /\ Sources /\ Inits /\ Turns
      /\ RefCountExact /\ TotalExact
  BY DEF Core, TypeOK, Shape, Handle, Release
<1>2. ref[s] \in Nat /\ ref[s] > 0 /\ context[s] = "live" /\ ~ release[s]
  BY <1>1, Referenced DEF Life, Alive, Ending, TypeOK
<1>3. UNCHANGED <<slot, context, init, total, mqVars, pc, cur, new, left, sends, remote, quit, late, exited>>
  BY DEF Release, hostVars
<1>4. /\ call' \in [Thread -> [op : CallOp, ctx : Handle, source : Handle]]
      /\ \A u \in Thread : u # t => call'[u] = call[u]
      /\ call'[t].source = NoService
      /\ IF ref[s] = 1 THEN call'[t].op = "mark" /\ call'[t].ctx = s
                       ELSE call'[t].op = "idle" /\ call'[t].ctx = NoService
  BY <1>1 DEF Release, Calls, DropRef, CallTo, Idle, CallOp, TypeOK, Handle
<1>5. /\ ref' \in [Service -> Nat]
      /\ \A c \in Service : c # s => ref'[c] = ref[c]
      /\ ref'[s] = ref[s] - 1
  BY <1>1, <1>2 DEF Release, TypeOK
<1>6. TypeOK'
  BY <1>1, <1>3, <1>4, <1>5 DEF TypeOK, mqVars
<1>7. Shape'
  BY <1>1, <1>3, <1>4, ServiceAssumption DEF Shape
<1>8. Single' /\ Flags'
  BY <1>1, <1>3 DEF Single, Flags, Held, Listed, mqVars
<1>9. Life'
  <2>1. ref[s] = 1 => mqueue[s] # "none"
    BY <1>1, <1>2, Referenced DEF Life, Alive, Ending
  <2>2. ASSUME NEW c \in Service PROVE Alive(c)'
    BY <1>1, <1>2, <1>3, <1>5 DEF Life, Alive, mqVars
  <2>3. ASSUME NEW u \in Thread, call[u].ctx = s PROVE call[u].op \notin {"mark", "free"}
    BY <1>1, <1>2, <2>3 DEF Life, Ending
  <2>4. ASSUME NEW c \in Service, NEW u \in Thread PROVE Ending(c, u)'
    <3>1. CASE u = t
      BY <1>1, <1>2, <1>3, <1>4, <1>5, <2>1, <2>3, <3>1, ServiceAssumption DEF Ending, mqVars
    <3>2. CASE u # t /\ c = s
      BY <1>1, <1>3, <1>4, <2>3, <3>2 DEF Life, Ending, mqVars
    <3>3. CASE u # t /\ c # s
      BY <1>1, <1>3, <1>4, <1>5, <3>3, ServiceAssumption DEF Life, Ending, mqVars
    <3> QED
      BY <3>1, <3>2, <3>3
  <2> QED
    BY <2>2, <2>4 DEF Life
<1>10. Sources' /\ Inits' /\ Turns'
  BY <1>1, <1>3, <1>4 DEF Sources, Inits, Turns, mqVars
<1>11. RefCountExact'
  <2>1. OthersStay(t)
    BY <1>3, <1>4 DEF OthersStay
  <2>2. CountsFit(t)
    BY <1>1, <1>3, <1>4, <1>5, ServiceAssumption DEF CountsFit, Tokens, One, TypeOK
  <2> QED
    BY <1>1, <2>1, <2>2, CountsKeptFit
<1>12. TotalExact'
  BY <1>1, <1>3 DEF TotalExact, Counted, mqVars
<1> QED
  BY <1>6, <1>7, <1>8, <1>9, <1>10, <1>11, <1>12 DEF Core

\* skynet_mq_mark_release: from here on somebody must find the queue to free it.
LEMMA MarkReleaseKeeps ==
  ASSUME Core, ~ exited, NEW t \in Thread, MarkRelease(t)
  PROVE  Core'
<1> DEFINE s == call[t].ctx
<1>1. /\ s \in Service
      /\ call[t].op = "mark"
      /\ TypeOK /\ Shape /\ Single /\ Flags /\ Life /\ Sources /\ Inits /\ Turns
      /\ RefCountExact /\ TotalExact
  BY DEF Core, TypeOK, Shape, Handle, MarkRelease
<1>2. ref[s] = 0 /\ context[s] = "live" /\ mqueue[s] = "live" /\ ~ release[s]
  BY <1>1 DEF Life, Alive, Ending, Flags, TypeOK, Memory
<1>3. UNCHANGED <<ctxVars, mqueue, queue, in_global, pc, cur, new, left, sends, remote, quit, late, exited>>
  BY DEF MarkRelease, hostVars
<1>4. /\ call' \in [Thread -> [op : CallOp, ctx : Handle, source : Handle]]
      /\ \A u \in Thread : u # t => call'[u] = call[u]
      /\ call'[t].op = "free" /\ call'[t].ctx = s /\ call'[t].source = NoService
  BY <1>1 DEF MarkRelease, Calls, CallTo, CallOp, TypeOK, Handle
<1>5. /\ release' \in [Service -> BOOLEAN]
      /\ \A c \in Service : c # s => release'[c] = release[c]
      /\ release'[s]
  BY <1>1 DEF MarkRelease, TypeOK
<1>6. /\ globalmq' \in Seq(Service)
      /\ Injective(globalmq')
      /\ in_global[s] => Listed' = Listed
      /\ ~ in_global[s] => Listed' = Listed \cup {s} /\ s \notin Listed /\ ~ Held(s)
  BY <1>1, <1>2, Enlisted DEF MarkRelease
<1>7. TypeOK'
  BY <1>1, <1>3, <1>4, <1>5, <1>6 DEF TypeOK, ctxVars
<1>8. Shape'
  BY <1>1, <1>3, <1>4 DEF Shape
<1>9. Single'
  BY <1>1, <1>3, <1>6 DEF Single, Held
<1>10. Flags'
  BY <1>1, <1>2, <1>3, <1>5, <1>6 DEF Flags, Held
<1>11. Life'
  BY <1>1, <1>2, <1>3, <1>4, <1>5 DEF Life, Alive, Ending, ctxVars
<1>12. Sources' /\ Inits' /\ Turns'
  BY <1>1, <1>3, <1>4 DEF Sources, Inits, Turns, ctxVars
<1>13. RefCountExact'
  <2>1. OthersStay(t)
    BY <1>3, <1>4 DEF OthersStay
  <2>2. CountsFit(t)
    BY <1>1, <1>3, <1>4 DEF CountsFit, Tokens, One, TypeOK, ctxVars
  <2> QED
    BY <1>1, <2>1, <2>2, CountsKeptFit
<1>14. TotalExact'
  BY <1>1, <1>3 DEF TotalExact, Counted, ctxVars
<1> QED
  BY <1>7, <1>8, <1>9, <1>10, <1>11, <1>12, <1>13, <1>14 DEF Core

\* delete_context: no reference is left, and the queue outlives the context.
LEMMA FreeKeeps ==
  ASSUME Core, ~ exited, NEW t \in Thread, Free(t)
  PROVE  Core'
<1> DEFINE s == call[t].ctx
<1>1. /\ s \in Service
      /\ call[t].op = "free"
      /\ TypeOK /\ Shape /\ Single /\ Flags /\ Life /\ Sources /\ Inits /\ Turns
      /\ RefCountExact /\ TotalExact
  BY DEF Core, TypeOK, Shape, Handle, Free
<1>2. ref[s] = 0 /\ context[s] = "live" /\ mqueue[s] # "none" /\ release[s] /\ s # remote
  BY <1>1, ReservedCounted DEF Life, Alive, Ending, Reserved
<1>3. UNCHANGED <<slot, ref, init, mqVars, pc, cur, new, left, sends, remote, quit, late, exited>>
  BY DEF Free, hostVars
<1>4. /\ call' \in [Thread -> [op : CallOp, ctx : Handle, source : Handle]]
      /\ \A u \in Thread : u # t => call'[u] = call[u]
      /\ call'[t].op = "idle" /\ call'[t].ctx = NoService /\ call'[t].source = NoService
  BY <1>1 DEF Free, Calls, Idle, CallOp, TypeOK, Handle
<1>5. /\ context' \in [Service -> Memory]
      /\ \A c \in Service : c # s => context'[c] = context[c]
      /\ context'[s] = "freed"
      /\ total' = total - 1
  BY <1>1 DEF Free, TypeOK, Memory
<1>6. total' \in Nat /\ TotalExact'
  <2>1. IsFiniteSet(Counted) /\ s \in Counted
    BY <1>1, <1>2, ServiceAssumption, FS_Subset DEF Counted
  <2>2. Counted' = Counted \ {s}
    BY <1>1, <1>3, <1>5 DEF Counted, mqVars
  <2>3. Cardinality(Counted \ {s}) = Cardinality(Counted) - 1 /\ IsFiniteSet(Counted \ {s})
    BY <2>1, FS_RemoveElement
  <2>4. Cardinality(Counted \ {s}) \in Nat
    BY <2>3, FS_CardinalityType
  <2> QED
    BY <1>1, <1>5, <2>2, <2>3, <2>4 DEF TotalExact
<1>7. TypeOK'
  BY <1>1, <1>3, <1>4, <1>5, <1>6 DEF TypeOK, mqVars
<1>8. Shape'
  BY <1>1, <1>3, <1>4 DEF Shape
<1>9. Single' /\ Flags'
  BY <1>1, <1>3 DEF Single, Flags, Held, Listed, mqVars
<1>10. Life'
  BY <1>1, <1>2, <1>3, <1>4, <1>5, ServiceAssumption DEF Life, Alive, Ending, mqVars
<1>11. Sources' /\ Inits' /\ Turns'
  BY <1>1, <1>3, <1>4 DEF Sources, Inits, Turns, mqVars
<1>12. RefCountExact'
  <2>1. OthersStay(t)
    BY <1>3, <1>4 DEF OthersStay
  <2>2. CountsFit(t)
    BY <1>1, <1>3, <1>4, ServiceAssumption DEF CountsFit, Tokens, One, TypeOK
  <2> QED
    BY <1>1, <2>1, <2>2, CountsKeptFit
<1> QED
  BY <1>6, <1>7, <1>8, <1>9, <1>10, <1>11, <1>12 DEF Core

\* skynet_globalmq_pop: the worker owns what it took off the list.
LEMMA PopKeeps ==
  ASSUME Core, ~ exited, NEW t \in Worker, Pop(t)
  PROVE  Core'
<1> DEFINE q == Head(globalmq)
<1>1. /\ t \in Thread
      /\ pc[t] = "pop" /\ cur[t] = NoService /\ new[t] = NoService
      /\ TypeOK /\ Shape /\ Single /\ Flags /\ Life /\ Sources /\ Inits /\ Turns
      /\ RefCountExact /\ TotalExact
  BY DEF Core, Thread, Shape, Pop, At
<1>2. UNCHANGED <<ctxVars, mqueue, queue, in_global, release, new, left, call, sends, remote, quit, late, exited>>
  BY DEF Pop, hostVars
<1>3. /\ q \in Service /\ q \in Listed
      /\ globalmq' \in Seq(Service)
      /\ Injective(globalmq')
      /\ Listed' = Listed \ {q}
  BY <1>1, PoppedGlobal DEF Pop
<1>4. /\ cur' \in [Thread -> Handle] /\ pc' \in [Thread -> Point]
      /\ \A u \in Thread : u # t => cur'[u] = cur[u] /\ pc'[u] = pc[u]
      /\ cur'[t] = q /\ pc'[t] = "grab"
  BY <1>1, <1>3 DEF Pop, Goto, TypeOK, Point, Handle
<1>5. TypeOK'
  BY <1>1, <1>2, <1>3, <1>4 DEF TypeOK, ctxVars
<1>6. Shape'
  BY <1>1, <1>2, <1>3, <1>4, ServiceAssumption, ThreadAssumption DEF Shape
<1>7. Single'
  BY <1>1, <1>2, <1>3, <1>4 DEF Single
<1>8. Flags'
  BY <1>1, <1>2, <1>3, <1>4, ServiceAssumption DEF Flags, Held
<1>9. Life' /\ Sources'
  BY <1>1, <1>2, <1>4 DEF Life, Alive, Ending, Sources, ctxVars
<1>10. Inits'
  BY <1>1, <1>2, <1>4 DEF Inits, ctxVars
<1>11. Turns'
  BY <1>1, <1>2, <1>4 DEF Turns
<1>12. RefCountExact'
  <2>1. OthersStay(t)
    BY <1>2, <1>4 DEF OthersStay
  <2>2. CountsFit(t)
    BY <1>1, <1>2, <1>4, ServiceAssumption DEF CountsFit, Tokens, One, TypeOK, ctxVars
  <2> QED
    BY <1>1, <2>1, <2>2, CountsKeptFit
<1>13. TotalExact'
  BY <1>1, <1>2 DEF TotalExact, Counted, ctxVars
<1> QED
  BY <1>5, <1>6, <1>7, <1>8, <1>9, <1>10, <1>11, <1>12, <1>13 DEF Core

\* The grab of a dispatch: without a context the queue is to be released.
LEMMA DispatchGrabKeeps ==
  ASSUME Core, ~ exited, NEW t \in Worker, DispatchGrab(t)
  PROVE  Core'
<1> DEFINE q == cur[t]
<1>1. /\ t \in Thread
      /\ q \in Service
      /\ pc[t] = "grab" /\ new[t] = NoService
      /\ TypeOK /\ Shape /\ Single /\ Flags /\ Life /\ Sources /\ Inits /\ Turns
      /\ RefCountExact /\ TotalExact
  BY DEF Core, Thread, TypeOK, Handle, Shape, DispatchGrab, At
<1>2. /\ UNCHANGED <<slot, context, init, total, mqVars, left, call, sends, remote, quit, exited>>
      /\ late' \subseteq Worker
  BY <1>1 DEF DispatchGrab, TypeOK
<1>3. /\ cur' \in [Thread -> Handle] /\ new' \in [Thread -> Handle] /\ pc' \in [Thread -> Point]
      /\ \A u \in Thread : u # t => cur'[u] = cur[u] /\ new'[u] = new[u] /\ pc'[u] = pc[u]
      /\ ref' \in [Service -> Nat]
      /\ \A c \in Service : c # q => ref'[c] = ref[c]
  <2>1. CASE q \in slot
    <3>1. /\ ref' = [ref EXCEPT ![q] = ref[q] + 1] /\ pc' = [pc EXCEPT ![t] = "first"]
          /\ UNCHANGED <<cur, new>>
      BY <2>1 DEF DispatchGrab, Goto, Registered, RefAfterGrab
    <3> QED
      BY <1>1, <3>1 DEF TypeOK, Point
  <2>2. CASE q \notin slot
    <3>1. /\ new' = [new EXCEPT ![t] = q] /\ cur' = [cur EXCEPT ![t] = NoService]
          /\ pc' = [pc EXCEPT ![t] = "mqrelease"] /\ ref' = ref
      BY <2>2 DEF DispatchGrab, Goto, Registered
    <3> QED
      BY <1>1, <3>1 DEF TypeOK, Point, Handle
  <2> QED
    BY <2>1, <2>2
<1>4. \/ /\ q \in slot
         /\ ref'[q] = ref[q] + 1
         /\ cur'[t] = q /\ new'[t] = NoService /\ pc'[t] = "first"
      \/ /\ q \notin slot
         /\ ref'[q] = ref[q]
         /\ cur'[t] = NoService /\ new'[t] = q /\ pc'[t] = "mqrelease"
  BY <1>1 DEF DispatchGrab, Goto, Registered, RefAfterGrab, TypeOK
<1>5. TypeOK'
  BY <1>1, <1>2, <1>3 DEF TypeOK, mqVars
<1>6. Shape'
  BY <1>1, <1>2, <1>3, <1>4, ServiceAssumption, ThreadAssumption DEF Shape
<1>7. Single'
  BY <1>1, <1>2, <1>3, <1>4, ServiceAssumption DEF Single, Listed, mqVars
<1>8. Flags'
  <2>1. Listed' = Listed
    BY <1>2 DEF Listed, mqVars
  <2> QED
    BY <1>1, <1>2, <1>3, <1>4, <2>1, ServiceAssumption DEF Flags, Held, mqVars
<1>9. Life'
  <2>1. \A c \in Service :
          ref'[c] = ref[c] \/ (c \in slot /\ ref[c] > 0 /\ ref[c] \in Nat /\ ref'[c] = ref[c] + 1)
    BY <1>1, <1>3, <1>4, Referenced DEF TypeOK
  <2>2. ASSUME NEW c \in Service, \E u \in Thread : new[u] = c /\ pc[u] = "create"
        PROVE  \E u \in Thread : new'[u] = c /\ pc'[u] = "create"
    BY <1>1, <1>3, <2>2
  <2>3. ASSUME NEW c \in Service PROVE Alive(c)'
    BY <1>1, <1>2, <2>1, <2>2 DEF Life, Alive, mqVars
  <2>4. ASSUME NEW c \in Service, NEW u \in Thread PROVE Ending(c, u)'
    BY <1>1, <1>2, <2>1 DEF Life, Ending, mqVars
  <2> QED
    BY <2>3, <2>4 DEF Life
<1>10. Sources'
  BY <1>1, <1>2 DEF Sources, mqVars
<1>11. Inits'
  BY <1>1, <1>2, <1>3, <1>4 DEF Inits, Single
<1>12. Turns'
  BY <1>1, <1>2, <1>3, <1>4 DEF Turns, mqVars
<1>13. RefCountExact'
  <2>1. OthersStay(t)
    BY <1>2, <1>3 DEF OthersStay
  <2>2. CountsFit(t)
    <3>1. /\ call' = call /\ slot' = slot /\ remote' = remote /\ exited' = exited
          /\ \A c \in Service : ref[c] \in Nat
      BY <1>1, <1>2 DEF TypeOK
    <3>2. ASSUME NEW c \in Service
          PROVE  Tokens(t, c)' - Tokens(t, c) = ref'[c] - ref[c]
      <4>1. CASE c = q
        BY <1>1, <1>4, <3>1, <4>1, ServiceAssumption DEF Tokens, One
      <4>2. CASE c # q
        BY <1>1, <1>3, <1>4, <3>1, <4>2, ServiceAssumption DEF Tokens, One
      <4> QED
        BY <4>1, <4>2
    <3>3. \A c \in Service : /\ Tokens(t, c)' \in Nat /\ Tokens(t, c) \in Nat
                             /\ One(c \in slot) \in Nat /\ ref'[c] \in Nat
      BY <1>3 DEF Tokens, One
    <3> QED
      BY <3>1, <3>2, <3>3 DEF CountsFit
  <2> QED
    BY <1>1, <2>1, <2>2, CountsKeptFit
<1>14. TotalExact'
  BY <1>1, <1>2 DEF TotalExact, Counted, mqVars
<1> QED
  BY <1>5, <1>6, <1>7, <1>8, <1>9, <1>10, <1>11, <1>12, <1>13, <1>14 DEF Core

\* skynet_mq_pop of a message: the queue stays in_global while the worker owns it.
LEMMA PopMessageKeeps ==
  ASSUME Core, ~ exited, NEW t \in Worker, PopMessage(t)
  PROVE  Core'
<1> DEFINE q == cur[t]
<1>1. /\ t \in Thread
      /\ q \in Service
      /\ pc[t] \in {"first", "loop"} /\ new[t] = NoService
      /\ queue[q] # <<>>
      /\ TypeOK /\ Shape /\ Single /\ Flags /\ Life /\ Sources /\ Inits /\ Turns
      /\ RefCountExact /\ TotalExact
  BY DEF Core, Thread, TypeOK, Handle, Shape, PopMessage, At
<1>2. UNCHANGED <<ctxVars, mqueue, release, globalmq, cur, new, call, sends, remote, quit, late, exited>>
  BY DEF PopMessage, hostVars
<1>3. /\ queue' \in [Service -> Seq(Handle)]
      /\ \A c \in Service : c # q => queue'[c] = queue[c]
      /\ queue'[q] = Tail(queue[q])
  BY <1>1 DEF PopMessage, TypeOK
<1>4. in_global' = in_global
  BY <1>1 DEF PopMessage, FlagAfterPop, Flags, TypeOK
<1>5. /\ pc' \in [Thread -> Point] /\ left' \in [Thread -> Nat]
      /\ \A u \in Thread : u # t => pc'[u] = pc[u] /\ left'[u] = left[u]
      /\ pc'[t] \in {"length", "callback"}
      /\ pc'[t] = "length" => Share[t] # 0
      /\ pc[t] = "first" => left'[t] = 0
      /\ pc[t] = "loop" => left'[t] = left[t] - 1
  BY <1>1 DEF PopMessage, Goto, TypeOK, Point, Turns
<1>6. TypeOK'
  BY <1>1, <1>2, <1>3, <1>4, <1>5 DEF TypeOK, ctxVars
<1>7. Shape'
  BY <1>1, <1>2, <1>5, ThreadAssumption DEF Shape
<1>8. Single'
  BY <1>1, <1>2 DEF Single, Listed
<1>9. Flags'
  <2>1. Listed' = Listed
    BY <1>2 DEF Listed
  <2>2. \A c \in Service : queue'[c] # <<>> => queue[c] # <<>>
    BY <1>1, <1>3
  <2>3. \A u \in Thread : pc'[u] = pc[u] \/ (u = t /\ new[u] = NoService)
    BY <1>1, <1>5
  <2> QED
    BY <1>1, <1>2, <1>4, <2>1, <2>2, <2>3, ServiceAssumption DEF Flags, Held
<1>10. Life'
  BY <1>1, <1>2, <1>5 DEF Life, Alive, Ending, ctxVars
<1>11. Sources'
  <2>1. \A i \in DOMAIN queue'[q] : \E j \in DOMAIN queue[q] : queue'[q][i] = queue[q][j]
    BY <1>1, <1>3, TailMembers DEF TypeOK
  <2>2. \A c \in Service : \A i \in DOMAIN queue'[c] : \E j \in DOMAIN queue[c] : queue'[c][i] = queue[c][j]
    BY <1>3, <2>1
  <2>3. ASSUME NEW c \in Service, NEW i \in DOMAIN queue'[c], queue'[c][i] # NoService
        PROVE  mqueue[queue'[c][i]] # "none"
    BY <1>1, <2>2, <2>3 DEF Sources
  <2>4. ASSUME NEW u \in Thread, call'[u].source # NoService
        PROVE  mqueue[call'[u].source] # "none"
    BY <1>1, <1>2, <2>4 DEF Sources
  <2> QED
    BY <1>2, <2>3, <2>4 DEF Sources
<1>12. Inits'
  BY <1>1, <1>2, <1>5 DEF Inits, ctxVars
<1>13. Turns'
  <2>1. Len(queue[q]) \in Nat /\ Len(queue'[q]) = Len(queue[q]) - 1 /\ Len(queue'[q]) \in Nat
    BY <1>1, <1>3 DEF TypeOK
  <2>2. \A u \in Thread : u # t /\ cur[u] # NoService => cur[u] \in Service /\ cur[u] # q
    BY <1>1, ServiceAssumption DEF TypeOK, Handle, Single
  <2> QED
    BY <1>1, <1>2, <1>3, <1>5, <2>1, <2>2, ServiceAssumption DEF Turns, TypeOK
<1>14. RefCountExact'
  <2>1. OthersStay(t)
    BY <1>2, <1>5 DEF OthersStay
  <2>2. CountsFit(t)
    BY <1>1, <1>2, <1>5, ServiceAssumption DEF CountsFit, Tokens, One, TypeOK, ctxVars
  <2> QED
    BY <1>1, <2>1, <2>2, CountsKeptFit
<1>15. TotalExact'
  BY <1>1, <1>2 DEF TotalExact, Counted, ctxVars
<1> QED
  BY <1>6, <1>7, <1>8, <1>9, <1>10, <1>11, <1>12, <1>13, <1>14, <1>15 DEF Core

\* skynet_mq_pop of an empty queue: the worker lets the queue go as it clears the flag.
LEMMA PopEmptyKeeps ==
  ASSUME Core, ~ exited, NEW t \in Worker, PopEmpty(t)
  PROVE  Core'
<1> DEFINE q == cur[t]
<1>1. /\ t \in Thread
      /\ q \in Service
      /\ pc[t] \in {"first", "loop"} /\ new[t] = NoService
      /\ queue[q] = <<>>
      /\ call[t].op = "idle"
      /\ TypeOK /\ Shape /\ Single /\ Flags /\ Life /\ Sources /\ Inits /\ Turns
      /\ RefCountExact /\ TotalExact
  BY DEF Core, Thread, TypeOK, Handle, Shape, PopEmpty, At
<1>2. ~ release[q] /\ q \notin Listed
  BY <1>1, Referenced DEF Life, Alive, Ending, Single
<1>3. UNCHANGED <<ctxVars, mqueue, queue, release, globalmq, new, left, sends, remote, quit, late, exited>>
  BY DEF PopEmpty, hostVars
<1>4. /\ in_global' \in [Service -> BOOLEAN]
      /\ \A c \in Service : c # q => in_global'[c] = in_global[c]
      /\ ~ in_global'[q]
  BY <1>1 DEF PopEmpty, FlagAfterPop, TypeOK
<1>5. /\ pc' \in [Thread -> Point] /\ cur' \in [Thread -> Handle]
      /\ call' \in [Thread -> [op : CallOp, ctx : Handle, source : Handle]]
      /\ \A u \in Thread : u # t => pc'[u] = pc[u] /\ cur'[u] = cur[u] /\ call'[u] = call[u]
      /\ pc'[t] = "pop" /\ cur'[t] = NoService
      /\ call'[t].op = "release" /\ call'[t].ctx = q /\ call'[t].source = NoService
  BY <1>1 DEF PopEmpty, Goto, Calls, TurnEnd, CallTo, CallOp, TypeOK, Point, Handle
<1>6. TypeOK'
  BY <1>1, <1>3, <1>4, <1>5 DEF TypeOK, ctxVars
<1>7. Shape'
  BY <1>1, <1>3, <1>5, ServiceAssumption, ThreadAssumption DEF Shape
<1>8. Single'
  <2>1. Listed' = Listed /\ globalmq' \in Seq(Service) /\ Injective(globalmq') /\ NoService \notin Listed
    BY <1>1, <1>3, ServiceAssumption DEF Listed, Single, TypeOK
  <2> QED
    BY <1>1, <1>3, <1>5, <2>1, SingleKept, ServiceAssumption
<1>9. Flags'
  <2>1. Listed' = Listed
    BY <1>3 DEF Listed
  <2>2. \A u \in Thread : u # t => cur[u] # q /\ new[u] # q
    BY <1>1, ServiceAssumption DEF Single
  <2> QED
    BY SMTT(60), <1>1, <1>2, <1>3, <1>4, <1>5, <2>1, <2>2, ServiceAssumption DEF Flags, Held
<1>10. Life'
  <2>1. ASSUME NEW c \in Service, \E u \in Thread : new[u] = c /\ pc[u] = "create"
        PROVE  \E u \in Thread : new'[u] = c /\ pc'[u] = "create"
    BY <1>1, <1>3, <1>5, <2>1
  <2>2. ASSUME NEW c \in Service PROVE Alive(c)'
    BY <1>1, <1>3, <2>1 DEF Life, Alive, ctxVars
  <2>3. ASSUME NEW c \in Service, NEW u \in Thread PROVE Ending(c, u)'
    BY <1>1, <1>3, <1>5 DEF Life, Ending, ctxVars
  <2> QED
    BY <2>2, <2>3 DEF Life
<1>11. Sources' /\ Inits' /\ Turns'
  BY SMTT(60), <1>1, <1>3, <1>5 DEF Sources, Inits, Turns, ctxVars
<1>12. RefCountExact'
  <2>1. OthersStay(t)
    BY <1>3, <1>5 DEF OthersStay
  <2>2. CountsFit(t)
    BY <1>1, <1>3, <1>5, ServiceAssumption DEF CountsFit, Tokens, One, TypeOK, ctxVars
  <2> QED
    BY <1>1, <2>1, <2>2, CountsKeptFit
<1>13. TotalExact'
  BY <1>1, <1>3 DEF TotalExact, Counted, ctxVars
<1> QED
  BY <1>6, <1>7, <1>8, <1>9, <1>10, <1>11, <1>12, <1>13 DEF Core

\* skynet_mq_length: only the owner pops, so what it counted is there for the turn.
LEMMA ReadLengthKeeps ==
  ASSUME Core, ~ exited, NEW t \in Worker, ReadLength(t)
  PROVE  Core'
<1> DEFINE q == cur[t]
<1>1. /\ t \in Thread
      /\ q \in Service
      /\ pc[t] = "length" /\ new[t] = NoService
      /\ TypeOK /\ Shape /\ Single /\ Flags /\ Life /\ Sources /\ Inits /\ Turns
      /\ RefCountExact /\ TotalExact
  BY DEF Core, Thread, TypeOK, Handle, Shape, ReadLength, At
<1>2. UNCHANGED <<ctxVars, mqVars, cur, new, call, sends, remote, quit, late, exited>>
  BY DEF ReadLength, hostVars
<1>3. MessagesLeft(t) \in Nat /\ MessagesLeft(t) <= Len(queue[q])
  <2>1. Share[t] \in {1, 2, 4, 8}
    BY <1>1, ShareAssumption DEF Turns
  <2>2. Len(queue[q]) \in Nat
    BY <1>1 DEF TypeOK
  <2>3. \A n \in Nat : n \div Share[t] \in Nat /\ n \div Share[t] <= n
    BY <2>1
  <2> QED
    BY <2>2, <2>3 DEF MessagesLeft
<1>4. /\ pc' \in [Thread -> Point] /\ left' \in [Thread -> Nat]
      /\ \A u \in Thread : u # t => pc'[u] = pc[u] /\ left'[u] = left[u]
      /\ pc'[t] = "callback" /\ left'[t] = MessagesLeft(t)
  BY <1>1, <1>3 DEF ReadLength, Goto, TypeOK, Point
<1>5. TypeOK'
  BY <1>1, <1>2, <1>4 DEF TypeOK, ctxVars, mqVars
<1>6. Shape'
  BY <1>1, <1>2, <1>4, ThreadAssumption DEF Shape
<1>7. Single' /\ Flags'
  BY <1>1, <1>2, <1>4 DEF Single, Flags, Held, Listed, mqVars
<1>8. Life' /\ Sources'
  BY <1>1, <1>2, <1>4 DEF Life, Alive, Ending, Sources, ctxVars, mqVars
<1>9. Inits'
  BY <1>1, <1>2, <1>4 DEF Inits, ctxVars
<1>10. Turns'
  BY <1>1, <1>2, <1>3, <1>4 DEF Turns, mqVars
<1>11. RefCountExact'
  <2>1. OthersStay(t)
    BY <1>2, <1>4 DEF OthersStay
  <2>2. CountsFit(t)
    BY <1>1, <1>2, <1>4, ServiceAssumption DEF CountsFit, Tokens, One, TypeOK, ctxVars
  <2> QED
    BY <1>1, <2>1, <2>2, CountsKeptFit
<1>12. TotalExact'
  BY <1>1, <1>2 DEF TotalExact, Counted, ctxVars, mqVars
<1> QED
  BY <1>5, <1>6, <1>7, <1>8, <1>9, <1>10, <1>11, <1>12 DEF Core

\* The callback returns; the reference of the dispatch is still held.
LEMMA CallbackReturnKeeps ==
  ASSUME Core, ~ exited, NEW t \in Worker, CallbackReturn(t)
  PROVE  Core'
<1>1. /\ t \in Thread
      /\ cur[t] # NoService /\ new[t] = NoService
      /\ pc[t] = "callback"
      /\ TypeOK /\ Shape /\ Single /\ Flags /\ Life /\ Sources /\ Inits /\ Turns
      /\ RefCountExact /\ TotalExact
  BY DEF Core, Thread, Shape, CallbackReturn, At
<1>2. UNCHANGED <<ctxVars, mqVars, cur, new, left, call, sends, remote, quit, late, exited>>
  BY DEF CallbackReturn, hostVars
<1>3. /\ pc' \in [Thread -> Point]
      /\ \A u \in Thread : u # t => pc'[u] = pc[u]
      /\ pc'[t] \in {"loop", "tail"} /\ (pc'[t] = "loop" => left[t] > 0)
  BY <1>1 DEF CallbackReturn, Goto, TypeOK, Point
<1>4. TypeOK'
  BY <1>1, <1>2, <1>3 DEF TypeOK, ctxVars, mqVars
<1>5. Shape'
  BY <1>1, <1>2, <1>3, ThreadAssumption DEF Shape
<1>6. Single' /\ Flags'
  BY <1>1, <1>2, <1>3, ServiceAssumption DEF Single, Flags, Held, Listed, mqVars
<1>7. Life' /\ Sources'
  BY <1>1, <1>2, <1>3 DEF Life, Alive, Ending, Sources, ctxVars, mqVars
<1>8. Inits' /\ Turns'
  BY <1>1, <1>2, <1>3 DEF Inits, Turns, ctxVars, mqVars
<1>9. RefCountExact'
  <2>1. OthersStay(t)
    BY <1>2, <1>3 DEF OthersStay
  <2>2. CountsFit(t)
    BY <1>1, <1>2, <1>3, ServiceAssumption DEF CountsFit, Tokens, One, TypeOK, ctxVars
  <2> QED
    BY <1>1, <2>1, <2>2, CountsKeptFit
<1>10. TotalExact'
  BY <1>1, <1>2 DEF TotalExact, Counted, ctxVars, mqVars
<1> QED
  BY <1>4, <1>5, <1>6, <1>7, <1>8, <1>9, <1>10 DEF Core

\* A worker takes its next queue while it still owns the one it dispatched.
LEMMA TakeNextKeeps ==
  ASSUME Core, ~ exited, NEW t \in Worker, TakeNext(t)
  PROVE  Core'
<1> DEFINE q == cur[t]
<1>1. /\ t \in Thread
      /\ q \in Service
      /\ pc[t] = "tail" /\ new[t] = NoService /\ call[t].op = "idle"
      /\ TypeOK /\ Shape /\ Single /\ Flags /\ Life /\ Sources /\ Inits /\ Turns
      /\ RefCountExact /\ TotalExact
  BY DEF Core, Thread, TypeOK, Handle, Shape, TakeNext, At
<1>2. UNCHANGED <<ctxVars, mqueue, queue, in_global, release, cur, left, sends, remote, quit, late, exited>>
  BY DEF TakeNext, hostVars
<1>3. CASE globalmq = <<>>
  <2>1. UNCHANGED <<globalmq, new>>
    BY <1>3 DEF TakeNext
  <2>2. /\ pc' \in [Thread -> Point]
        /\ call' \in [Thread -> [op : CallOp, ctx : Handle, source : Handle]]
        /\ \A u \in Thread : u # t => pc'[u] = pc[u] /\ call'[u] = call[u]
        /\ pc'[t] = "grab"
        /\ call'[t].op = "release" /\ call'[t].ctx = q /\ call'[t].source = NoService
    <3>1. pc' = [pc EXCEPT ![t] = "grab"] /\ call' = [call EXCEPT ![t] = CallTo("release", q)]
      BY <1>3 DEF TakeNext, Goto, Calls, TurnEnd
    <3>2. CallTo("release", q) \in [op : CallOp, ctx : Handle, source : Handle]
      BY <1>1 DEF CallTo, CallOp, Handle
    <3> QED
      BY <1>1, <3>1, <3>2 DEF CallTo, TypeOK, Point
  <2>3. TypeOK'
    BY <1>1, <1>2, <2>1, <2>2 DEF TypeOK, ctxVars
  <2>4. Shape'
    BY <1>1, <1>2, <2>1, <2>2, ServiceAssumption, ThreadAssumption DEF Shape
  <2>5. Single' /\ Flags'
    BY <1>1, <1>2, <2>1, <2>2, ServiceAssumption DEF Single, Flags, Held, Listed
  <2>6. Life'
    BY <1>1, <1>2, <2>1, <2>2 DEF Life, Alive, Ending, ctxVars
  <2>7. Sources' /\ Inits' /\ Turns'
    BY <1>1, <1>2, <2>1, <2>2 DEF Sources, Inits, Turns, ctxVars
  <2>8. OthersStay(t)
    BY <1>2, <2>1, <2>2 DEF OthersStay
  <2>9. CountsFit(t)
    BY <1>1, <1>2, <2>1, <2>2, ServiceAssumption DEF CountsFit, Tokens, One, TypeOK, ctxVars
  <2>10. RefCountExact' /\ TotalExact'
    BY <1>1, <1>2, <2>8, <2>9, CountsKeptFit DEF TotalExact, Counted, ctxVars
  <2> QED
    BY <2>3, <2>4, <2>5, <2>6, <2>7, <2>10 DEF Core
<1>4. CASE globalmq # <<>>
  <2> DEFINE n == Head(globalmq)
  <2>1. call' = call
    BY <1>4 DEF TakeNext
  <2>2. /\ n \in Service /\ n \in Listed
        /\ globalmq' \in Seq(Service)
        /\ Injective(globalmq')
        /\ Listed' = Listed \ {n}
    BY <1>1, <1>4, PoppedGlobal DEF TakeNext
  <2>3. /\ pc' \in [Thread -> Point] /\ new' \in [Thread -> Handle]
        /\ \A u \in Thread : u # t => pc'[u] = pc[u] /\ new'[u] = new[u]
        /\ pc'[t] = "requeue" /\ new'[t] = n
    BY <1>1, <1>4, <2>2 DEF TakeNext, Goto, TypeOK, Point, Handle
  <2>4. TypeOK'
    BY <1>1, <1>2, <2>1, <2>2, <2>3 DEF TypeOK, ctxVars
  <2>5. Shape'
    BY <1>1, <1>2, <2>1, <2>2, <2>3, ServiceAssumption, ThreadAssumption DEF Shape
  <2>6. Single'
    BY <1>1, <1>2, <2>2, <2>3 DEF Single
  <2>7. Flags'
    BY <1>1, <1>2, <2>2, <2>3, ServiceAssumption DEF Flags, Held
  <2>8. Life' /\ Sources'
    BY <1>1, <1>2, <2>1, <2>3 DEF Life, Alive, Ending, Sources, ctxVars
  <2>9. Inits' /\ Turns'
    BY <1>1, <1>2, <2>3 DEF Inits, Turns, ctxVars
  <2>10. OthersStay(t)
    BY <1>2, <2>1, <2>3 DEF OthersStay
  <2>11. CountsFit(t)
    BY <1>1, <1>2, <2>1, <2>3, ServiceAssumption DEF CountsFit, Tokens, One, TypeOK, ctxVars
  <2>12. RefCountExact' /\ TotalExact'
    BY <1>1, <1>2, <2>10, <2>11, CountsKeptFit DEF TotalExact, Counted, ctxVars
  <2> QED
    BY <2>4, <2>5, <2>6, <2>7, <2>8, <2>9, <2>12 DEF Core
<1> QED
  BY <1>3, <1>4

\* The worker gives one queue back, once, and goes on with the other.
LEMMA RequeueKeeps ==
  ASSUME Core, ~ exited, NEW t \in Worker, Requeue(t)
  PROVE  Core'
<1> DEFINE q == cur[t]
           n == new[t]
<1>1. /\ t \in Thread
      /\ q \in Service /\ n \in Service /\ q # n
      /\ pc[t] = "requeue" /\ call[t].op = "idle"
      /\ TypeOK /\ Shape /\ Single /\ Flags /\ Life /\ Sources /\ Inits /\ Turns
      /\ RefCountExact /\ TotalExact
  BY DEF Core, Thread, TypeOK, Handle, Shape, Single, Requeue, At
<1>2. UNCHANGED <<ctxVars, mqueue, queue, in_global, release, left, sends, remote, quit, late, exited>>
  BY DEF Requeue, hostVars
<1>3. /\ globalmq' \in Seq(Service)
      /\ Injective(globalmq')
      /\ Listed' = Listed \cup {q}
      /\ q \notin Listed
  BY <1>1, PushedGlobal DEF Requeue, PutBack, Single
<1>4. /\ pc' \in [Thread -> Point] /\ cur' \in [Thread -> Handle] /\ new' \in [Thread -> Handle]
      /\ call' \in [Thread -> [op : CallOp, ctx : Handle, source : Handle]]
      /\ \A u \in Thread : u # t =>
           pc'[u] = pc[u] /\ cur'[u] = cur[u] /\ new'[u] = new[u] /\ call'[u] = call[u]
      /\ pc'[t] = "grab" /\ cur'[t] = n /\ new'[t] = NoService
      /\ call'[t].op = "release" /\ call'[t].ctx = q /\ call'[t].source = NoService
  BY <1>1 DEF Requeue, Goto, Calls, TurnEnd, CallTo, CallOp, TypeOK, Point, Handle
<1>5. TypeOK'
  BY <1>1, <1>2, <1>3, <1>4 DEF TypeOK, ctxVars
<1>6. Shape'
  BY <1>1, <1>2, <1>4, ServiceAssumption, ThreadAssumption DEF Shape
<1>7. Single'
  <2>1. n \notin Listed' /\ NoService \notin Listed'
    <3>1. n \notin Listed
      BY <1>1 DEF Single
    <3>2. Listed' \subseteq Service
      BY <1>3 DEF Listed
    <3> QED
      BY <1>1, <1>3, <3>1, <3>2, ServiceAssumption
  <2> QED
    BY <1>1, <1>3, <1>4, <2>1, SingleKept, ServiceAssumption
<1>8. Flags'
  <2>1. \A c \in Service : Held(c) => Held(c)' \/ c = q
    BY <1>1, <1>4 DEF Held
  <2>2. ASSUME NEW c \in Service, NEW u \in Thread
        PROVE  /\ cur'[u] = c => cur[u] = c \/ (u = t /\ c = n)
               /\ new'[u] = c => new[u] = c /\ pc'[u] = pc[u]
    BY <1>1, <1>4, <2>2, ServiceAssumption
  <2>3. /\ mqueue[q] = "live" /\ (in_global[q] \/ release[q])
        /\ mqueue[n] = "live" /\ (in_global[n] \/ release[n])
    BY <1>1 DEF Flags
  <2> QED
    BY <1>1, <1>2, <1>3, <2>1, <2>2, <2>3 DEF Flags
<1>9. Life'
  <2>1. ASSUME NEW c \in Service, \E u \in Thread : new[u] = c /\ pc[u] = "create"
        PROVE  \E u \in Thread : new'[u] = c /\ pc'[u] = "create"
    BY <1>1, <1>4, <2>1
  <2>2. ASSUME NEW c \in Service PROVE Alive(c)'
    BY <1>1, <1>2, <2>1 DEF Life, Alive, ctxVars
  <2>3. ASSUME NEW c \in Service, NEW u \in Thread PROVE Ending(c, u)'
    <3>1. \A v \in Thread : call'[v].op \in {"grab", "push", "mark", "free"} =>
            v # t /\ call'[v] = call[v]
      BY <1>4
    <3>2. Ending(c, u)
      BY <1>1 DEF Life
    <3>3. /\ mqueue'[c] = mqueue[c] /\ ref'[c] = ref[c]
          /\ context'[c] = context[c] /\ release'[c] = release[c]
      BY <1>2 DEF ctxVars
    <3> QED
      BY <3>1, <3>2, <3>3 DEF Ending
  <2> QED
    BY <2>2, <2>3 DEF Life
<1>10. Sources' /\ Inits' /\ Turns'
  <2>1. Sources'
    BY <1>1, <1>2, <1>4 DEF Sources
  <2>2. Inits'
    BY <1>1, <1>2, <1>4 DEF Inits, ctxVars
  <2>3. Turns'
    BY <1>1, <1>2, <1>4 DEF Turns
  <2> QED
    BY <2>1, <2>2, <2>3
<1>11. RefCountExact'
  <2>1. OthersStay(t)
    BY <1>4 DEF OthersStay
  <2>2. CountsFit(t)
    BY <1>1, <1>2, <1>4, ServiceAssumption DEF CountsFit, Tokens, One, TypeOK, ctxVars
  <2> QED
    BY <1>1, <2>1, <2>2, CountsKeptFit
<1>12. TotalExact'
  BY <1>1, <1>2 DEF TotalExact, Counted, ctxVars
<1> QED
  BY <1>5, <1>6, <1>7, <1>8, <1>9, <1>10, <1>11, <1>12 DEF Core

\* skynet_mq_release: a queue that is marked is dropped by its owner, any other one is
\* listed again.
LEMMA MqReleaseKeeps ==
  ASSUME Core, ~ exited, NEW t \in Worker, MqRelease(t)
  PROVE  Core'
<1> DEFINE q == new[t]
<1>1. /\ t \in Thread
      /\ q \in Service
      /\ pc[t] = "mqrelease" /\ call[t].op = "idle"
      /\ TypeOK /\ Shape /\ Single /\ Flags /\ Life /\ Sources /\ Inits /\ Turns
      /\ RefCountExact /\ TotalExact
  BY DEF Core, Thread, TypeOK, Handle, Shape, MqRelease, At
<1>2. UNCHANGED <<ctxVars, mqueue, queue, in_global, release, cur, left, call, sends, remote, quit, late, exited>>
  BY DEF MqRelease, hostVars
<1>3. CASE release[q]
  <2>1. UNCHANGED <<globalmq, new>>
    BY <1>3 DEF MqRelease, MayRelease
  <2>2. /\ pc' \in [Thread -> Point]
        /\ \A u \in Thread : u # t => pc'[u] = pc[u]
        /\ pc'[t] = "drop"
    BY <1>1, <1>3 DEF MqRelease, MayRelease, Goto, TypeOK, Point
  <2>3. TypeOK'
    BY <1>1, <1>2, <2>1, <2>2 DEF TypeOK, ctxVars
  <2>4. Shape'
    BY <1>1, <1>2, <2>1, <2>2, ThreadAssumption DEF Shape
  <2>5. Single'
    BY <1>1, <1>2, <2>1 DEF Single, Listed
  <2>6. Flags'
    <3>1. Listed' = Listed
      BY <2>1 DEF Listed
    <3> QED
      BY <1>1, <1>2, <1>3, <2>1, <2>2, <3>1, ServiceAssumption DEF Flags, Held
  <2>7. Life' /\ Sources'
    BY <1>1, <1>2, <2>1, <2>2 DEF Life, Alive, Ending, Sources, ctxVars
  <2>8. Inits' /\ Turns'
    BY <1>1, <1>2, <2>1, <2>2 DEF Inits, Turns, ctxVars
  <2>9. OthersStay(t)
    BY <1>2, <2>1, <2>2 DEF OthersStay
  <2>10. CountsFit(t)
    BY <1>1, <1>2, <2>1, <2>2, ServiceAssumption DEF CountsFit, Tokens, One, TypeOK, ctxVars
  <2>11. RefCountExact' /\ TotalExact'
    BY <1>1, <1>2, <2>9, <2>10, CountsKeptFit DEF TotalExact, Counted, ctxVars
  <2> QED
    BY <2>3, <2>4, <2>5, <2>6, <2>7, <2>8, <2>11 DEF Core
<1>4. CASE ~ release[q]
  <2>1. /\ globalmq' \in Seq(Service)
        /\ Injective(globalmq')
        /\ Listed' = Listed \cup {q}
        /\ q \notin Listed
    BY <1>1, <1>4, PushedGlobal DEF MqRelease, MayRelease, Single
  <2>2. /\ pc' \in [Thread -> Point] /\ new' \in [Thread -> Handle]
        /\ \A u \in Thread : u # t => pc'[u] = pc[u] /\ new'[u] = new[u]
        /\ pc'[t] = IF cur[t] = NoService THEN "pop" ELSE "callback"
        /\ new'[t] = NoService
    BY <1>1, <1>4 DEF MqRelease, MayRelease, Resume, Goto, TypeOK, Point, Handle
  <2>3. TypeOK'
    BY <1>1, <1>2, <2>1, <2>2 DEF TypeOK, ctxVars
  <2>4. Shape'
    BY <1>1, <1>2, <2>2, ThreadAssumption DEF Shape
  <2>5. Single'
    <3>1. /\ cur[t] # q /\ cur[t] \notin Listed /\ NoService \notin Listed'
          /\ cur'[t] = cur[t]
      BY <1>1, <1>2, <2>1, ServiceAssumption DEF Single, Listed
    <3> QED
      BY <1>1, <1>2, <2>1, <2>2, <3>1, SingleKept, ServiceAssumption
  <2>6. Flags'
    BY <1>1, <1>2, <2>1, <2>2, ServiceAssumption DEF Flags, Held
  <2>7. Life' /\ Sources'
    BY <1>1, <1>2, <2>2 DEF Life, Alive, Ending, Sources, ctxVars
  <2>8. Inits' /\ Turns'
    BY <1>1, <1>2, <2>2 DEF Inits, Turns, ctxVars
  <2>9. OthersStay(t)
    BY <1>2, <2>2 DEF OthersStay
  <2>10. CountsFit(t)
    BY <1>1, <1>2, <2>2, ServiceAssumption DEF CountsFit, Tokens, One, TypeOK, ctxVars
  <2>11. RefCountExact' /\ TotalExact'
    BY <1>1, <1>2, <2>9, <2>10, CountsKeptFit DEF TotalExact, Counted, ctxVars
  <2> QED
    BY <2>3, <2>4, <2>5, <2>6, <2>7, <2>8, <2>11 DEF Core
<1> QED
  BY <1>3, <1>4

\* _drop_queue: the messages of a marked queue are answered with an error.
LEMMA DropMessageKeeps ==
  ASSUME Core, ~ exited, NEW t \in Worker, DropMessage(t)
  PROVE  Core'
<1> DEFINE q == new[t]
           m == Head(queue[q])
<1>1. /\ t \in Thread
      /\ q \in Service
      /\ pc[t] = "drop" /\ call[t].op = "idle"
      /\ queue[q] # <<>>
      /\ TypeOK /\ Shape /\ Single /\ Flags /\ Life /\ Sources /\ Inits /\ Turns
      /\ RefCountExact /\ TotalExact
  BY DEF Core, Thread, TypeOK, Handle, Shape, DropMessage, At
<1>2. UNCHANGED <<ctxVars, mqueue, release, globalmq, pc, cur, new, left, sends, remote, quit, late, exited>>
  BY DEF DropMessage, hostVars
<1>3. /\ queue' \in [Service -> Seq(Handle)]
      /\ \A c \in Service : c # q => queue'[c] = queue[c]
      /\ queue'[q] = Tail(queue[q])
  BY <1>1 DEF DropMessage, TypeOK
<1>4. in_global' = in_global
  BY <1>1 DEF DropMessage, FlagAfterPop, Flags, TypeOK
<1>5. m \in Handle /\ (m # NoService => mqueue[m] # "none") /\ mqueue[q] # "none"
  BY <1>1 DEF Sources, Flags, TypeOK
<1>6. /\ call' \in [Thread -> [op : CallOp, ctx : Handle, source : Handle]]
      /\ \A u \in Thread : u # t => call'[u] = call[u]
      /\ \/ /\ m = NoService
            /\ call'[t].op = "idle" /\ call'[t].ctx = NoService /\ call'[t].source = NoService
         \/ /\ m # NoService
            /\ call'[t].op = "grab" /\ call'[t].ctx = m /\ call'[t].source = q
  BY <1>1, <1>5 DEF DropMessage, Calls, Idle, PushTo, CallOp, TypeOK, Handle
<1>7. TypeOK'
  BY <1>1, <1>2, <1>3, <1>4, <1>6 DEF TypeOK, ctxVars
<1>8. Shape'
  BY <1>1, <1>2, <1>6 DEF Shape
<1>9. Single'
  BY <1>1, <1>2 DEF Single, Listed
<1>10. Flags'
  <2>1. Listed' = Listed
    BY <1>2 DEF Listed
  <2> QED
    BY <1>1, <1>2, <1>3, <1>4, <2>1 DEF Flags, Held
<1>11. Life'
  BY <1>1, <1>2, <1>5, <1>6, ServiceAssumption DEF Life, Alive, Ending, ctxVars
<1>12. Sources'
  <2>1. \A i \in DOMAIN queue'[q] : \E j \in DOMAIN queue[q] : queue'[q][i] = queue[q][j]
    BY <1>1, <1>3, TailMembers DEF TypeOK
  <2>2. \A c \in Service : \A i \in DOMAIN queue'[c] : \E j \in DOMAIN queue[c] : queue'[c][i] = queue[c][j]
    BY <1>3, <2>1
  <2>3. ASSUME NEW c \in Service, NEW i \in DOMAIN queue'[c], queue'[c][i] # NoService
        PROVE  mqueue[queue'[c][i]] # "none"
    BY <1>1, <2>2, <2>3 DEF Sources
  <2>4. ASSUME NEW u \in Thread, call'[u].source # NoService
        PROVE  mqueue[call'[u].source] # "none"
    BY <1>1, <1>5, <1>6, <2>4 DEF Sources
  <2> QED
    BY <1>2, <2>3, <2>4 DEF Sources
<1>13. Inits'
  BY <1>1, <1>2 DEF Inits, ctxVars
<1>14. Turns'
  <2>1. \A u \in Thread : cur[u] # NoService => cur[u] \in Service /\ cur[u] # q
    BY <1>1, ServiceAssumption DEF TypeOK, Handle, Single
  <2> QED
    BY <1>1, <1>2, <1>3, <2>1 DEF Turns
<1>15. RefCountExact'
  <2>1. OthersStay(t)
    BY <1>2, <1>6 DEF OthersStay
  <2>2. CountsFit(t)
    BY <1>1, <1>2, <1>6, ServiceAssumption DEF CountsFit, Tokens, One, TypeOK, ctxVars
  <2> QED
    BY <1>1, <2>1, <2>2, CountsKeptFit
<1>16. TotalExact'
  BY <1>1, <1>2 DEF TotalExact, Counted, ctxVars
<1> QED
  BY <1>7, <1>8, <1>9, <1>10, <1>11, <1>12, <1>13, <1>14, <1>15, <1>16 DEF Core

\* _release: the owner of a marked queue frees it, and nobody can reach it.
LEMMA DropQueueKeeps ==
  ASSUME Core, ~ exited, NEW t \in Worker, DropQueue(t)
  PROVE  Core'
<1> DEFINE q == new[t]
<1>1. /\ t \in Thread
      /\ q \in Service
      /\ pc[t] = "drop" /\ call[t].op = "idle"
      /\ queue[q] = <<>>
      /\ TypeOK /\ Shape /\ Single /\ Flags /\ Life /\ Sources /\ Inits /\ Turns
      /\ RefCountExact /\ TotalExact
  BY DEF Core, Thread, TypeOK, Handle, Shape, DropQueue, At
<1>2. /\ release[q] /\ mqueue[q] = "live" /\ q \notin Listed
      /\ \A u \in Thread : cur[u] # q /\ (u # t => new[u] # q)
  BY <1>1, ServiceAssumption DEF Flags, Single
<1>3. UNCHANGED <<ctxVars, queue, release, globalmq, cur, left, call, sends, remote, quit, late, exited>>
  BY DEF DropQueue, hostVars
<1>4. /\ in_global' \in [Service -> BOOLEAN] /\ mqueue' \in [Service -> Memory]
      /\ \A c \in Service : c # q => in_global'[c] = in_global[c] /\ mqueue'[c] = mqueue[c]
      /\ ~ in_global'[q] /\ mqueue'[q] = "freed"
  BY <1>1 DEF DropQueue, FlagAfterPop, TypeOK, Memory
<1>5. /\ pc' \in [Thread -> Point] /\ new' \in [Thread -> Handle]
      /\ \A u \in Thread : u # t => pc'[u] = pc[u] /\ new'[u] = new[u]
      /\ pc'[t] = IF cur[t] = NoService THEN "pop" ELSE "callback"
      /\ new'[t] = NoService
  BY <1>1 DEF DropQueue, Resume, Goto, TypeOK, Point, Handle
<1>6. TypeOK'
  BY <1>1, <1>3, <1>4, <1>5 DEF TypeOK, ctxVars
<1>7. Shape'
  BY <1>1, <1>3, <1>5, ThreadAssumption DEF Shape
<1>8. Single'
  <2>1. /\ Listed' = Listed /\ globalmq' \in Seq(Service) /\ Injective(globalmq')
        /\ NoService \notin Listed /\ cur[t] \notin Listed
    BY <1>1, <1>3, ServiceAssumption DEF Listed, Single, TypeOK
  <2> QED
    BY <1>1, <1>3, <1>5, <2>1, SingleKept, ServiceAssumption
<1>9. Flags'
  <2>1. Listed' = Listed
    BY <1>3 DEF Listed
  <2> QED
    BY <1>1, <1>2, <1>3, <1>4, <1>5, <2>1, ServiceAssumption DEF Flags, Held
<1>10. Life'
  BY <1>1, <1>2, <1>3, <1>4, <1>5, ServiceAssumption DEF Life, Alive, Ending, ctxVars
<1>11. Sources'
  <2>1. \A c \in Service : mqueue[c] # "none" => mqueue'[c] # "none"
    BY <1>1, <1>4
  <2> QED
    BY <1>1, <1>3, <2>1 DEF Sources, TypeOK, Handle
<1>12. Inits' /\ Turns'
  BY <1>1, <1>3, <1>5 DEF Inits, Turns, ctxVars
<1>13. RefCountExact'
  <2>1. OthersStay(t)
    BY <1>3, <1>5 DEF OthersStay
  <2>2. CountsFit(t)
    BY <1>1, <1>3, <1>5, ServiceAssumption DEF CountsFit, Tokens, One, TypeOK, ctxVars
  <2> QED
    BY <1>1, <2>1, <2>2, CountsKeptFit
<1>14. TotalExact'
  <2>1. Counted' = Counted
    BY <1>1, <1>2, <1>3, <1>4 DEF Counted, ctxVars
  <2> QED
    BY <1>1, <1>3, <2>1 DEF TotalExact, ctxVars
<1> QED
  BY <1>6, <1>7, <1>8, <1>9, <1>10, <1>11, <1>12, <1>13, <1>14 DEF Core

\* A callback starts a send: its own call begins, nothing else changes.
LEMMA SendKeeps ==
  ASSUME Core, ~ exited, NEW t \in Worker, NEW d \in Service, Send(t, d)
  PROVE  Core'
<1> DEFINE m == Self(t)
<1>1. /\ t \in Thread
      /\ pc[t] \in {"callback", "init"} /\ call[t].op = "idle"
      /\ mqueue[d] # "none"
      /\ TypeOK /\ Shape /\ Single /\ Flags /\ Life /\ Sources /\ Inits /\ Turns
      /\ RefCountExact /\ TotalExact
  BY DEF Core, Thread, Send, At
<1>2. UNCHANGED <<ctxVars, mqVars, pc, cur, new, left, remote, quit, late, exited>> /\ sends' \in 0 .. MaxSends
  BY <1>1, BoundAssumption DEF Send, hostVars, TypeOK
<1>3. m \in Service /\ mqueue[m] # "none"
  BY <1>1 DEF Self, TypeOK, Handle, Shape, Flags
<1>4. /\ call' \in [Thread -> [op : CallOp, ctx : Handle, source : Handle]]
      /\ \A u \in Thread : u # t => call'[u] = call[u]
      /\ call'[t].op = "grab" /\ call'[t].ctx = d /\ call'[t].source = m
  BY <1>1, <1>3 DEF Send, Calls, PushTo, CallOp, TypeOK, Handle
<1>5. TypeOK'
  BY <1>1, <1>2, <1>4 DEF TypeOK, ctxVars, mqVars
<1>6. Shape'
  BY <1>1, <1>2, <1>4, ServiceAssumption DEF Shape
<1>7. Single' /\ Flags'
  BY <1>1, <1>2 DEF Single, Flags, Held, Listed, mqVars
<1>8. Life'
  BY <1>1, <1>2, <1>4 DEF Life, Alive, Ending, ctxVars, mqVars
<1>9. Sources' /\ Inits' /\ Turns'
  BY <1>1, <1>2, <1>3, <1>4 DEF Sources, Inits, Turns, ctxVars, mqVars
<1>10. RefCountExact'
  <2>1. OthersStay(t)
    BY <1>2, <1>4 DEF OthersStay
  <2>2. CountsFit(t)
    BY <1>1, <1>2, <1>4 DEF CountsFit, Tokens, One, TypeOK, ctxVars
  <2> QED
    BY <1>1, <2>1, <2>2, CountsKeptFit
<1>11. TotalExact'
  BY <1>1, <1>2 DEF TotalExact, Counted, ctxVars, mqVars
<1> QED
  BY <1>5, <1>6, <1>7, <1>8, <1>9, <1>10, <1>11 DEF Core

\* handle_exit: the entry leaves the table and its reference becomes the caller's.
LEMMA KillKeeps ==
  ASSUME Core, ~ exited, NEW t \in Worker, NEW d \in Service, Kill(t, d)
  PROVE  Core'
<1>1. /\ t \in Thread
      /\ call[t].op = "idle"
      /\ d \in slot
      /\ TypeOK /\ Shape /\ Single /\ Flags /\ Life /\ Sources /\ Inits /\ Turns
      /\ RefCountExact /\ TotalExact
  BY DEF Core, Thread, Kill, Registered, At
<1>2. UNCHANGED <<context, ref, init, total, mqVars, pc, cur, new, left, sends, remote, quit, late, exited>> /\ slot' = slot \ {d}
  BY DEF Kill, hostVars
<1>3. /\ call' \in [Thread -> [op : CallOp, ctx : Handle, source : Handle]]
      /\ \A u \in Thread : u # t => call'[u] = call[u]
      /\ call'[t].op = "release" /\ call'[t].ctx = d /\ call'[t].source = NoService
  BY <1>1 DEF Kill, Calls, CallTo, CallOp, TypeOK, Handle
<1>4. TypeOK'
  BY <1>1, <1>2, <1>3 DEF TypeOK, mqVars
<1>5. Shape'
  BY <1>1, <1>2, <1>3, ServiceAssumption DEF Shape
<1>6. Single' /\ Flags'
  BY <1>1, <1>2 DEF Single, Flags, Held, Listed, mqVars
<1>7. Life'
  BY <1>1, <1>2, <1>3 DEF Life, Alive, Ending, mqVars
<1>8. Sources' /\ Inits' /\ Turns'
  BY <1>1, <1>2, <1>3 DEF Sources, Inits, Turns, mqVars
<1>9. RefCountExact'
  <2>1. OthersStay(t)
    BY <1>2, <1>3 DEF OthersStay
  <2>2. CountsFit(t)
    BY <1>1, <1>2, <1>3 DEF CountsFit, Tokens, One, TypeOK
  <2> QED
    BY <1>1, <2>1, <2>2, CountsKeptFit
<1>10. TotalExact'
  BY <1>1, <1>2 DEF TotalExact, Counted, mqVars
<1> QED
  BY <1>4, <1>5, <1>6, <1>7, <1>8, <1>9, <1>10 DEF Core

\* skynet_context_new: a fresh handle enters the table with two references.
LEMMA LaunchKeeps ==
  ASSUME Core, ~ exited, NEW t \in Worker, NEW s \in Service, Launch(t, s)
  PROVE  Core'
<1>1. /\ t \in Thread
      /\ pc[t] = "callback" /\ call[t].op = "idle" /\ new[t] = NoService
      /\ context[s] = "none"
      /\ TypeOK /\ Shape /\ Single /\ Flags /\ Life /\ Sources /\ Inits /\ Turns
      /\ RefCountExact /\ TotalExact
  BY DEF Core, Thread, Shape, Launch, At
<1>2. /\ s \notin slot /\ ref[s] = 0 /\ mqueue[s] = "none" /\ ~ release[s] /\ s \notin Listed
      /\ \A u \in Thread : cur[u] # s /\ new[u] # s
  BY <1>1, Referenced DEF Life, Alive, Ending, Flags
<1>3. UNCHANGED <<init, total, mqVars, cur, left, call, sends, remote, quit, late, exited>>
  BY DEF Launch, hostVars
<1>4. /\ context' \in [Service -> Memory] /\ ref' \in [Service -> Nat]
      /\ \A c \in Service : c # s => context'[c] = context[c] /\ ref'[c] = ref[c]
      /\ context'[s] = "live" /\ ref'[s] = 2
      /\ slot' = slot \cup {s}
  BY <1>1 DEF Launch, LaunchRefs, TypeOK, Memory
<1>5. /\ pc' \in [Thread -> Point] /\ new' \in [Thread -> Handle]
      /\ \A u \in Thread : u # t => pc'[u] = pc[u] /\ new'[u] = new[u]
      /\ pc'[t] = "create" /\ new'[t] = s
  BY <1>1 DEF Launch, Goto, TypeOK, Point, Handle
<1>6. TypeOK'
  BY <1>1, <1>3, <1>4, <1>5 DEF TypeOK, mqVars
<1>7. Shape'
  BY <1>1, <1>3, <1>5, ServiceAssumption, ThreadAssumption DEF Shape
<1>8. Single'
  BY <1>1, <1>2, <1>3, <1>5 DEF Single, Listed, mqVars
<1>9. Flags'
  <2>1. Listed' = Listed
    BY <1>3 DEF Listed, mqVars
  <2> QED
    BY <1>1, <1>2, <1>3, <1>5, <2>1, ServiceAssumption DEF Flags, Held, mqVars
<1>10. Life'
  <2>1. \A u \in Thread : call[u].ctx = s => call[u].op \notin {"grab", "push", "mark", "free"}
    BY <1>1, <1>2 DEF Life, Alive, Ending
  <2> QED
    BY <1>1, <1>2, <1>3, <1>4, <1>5, <2>1 DEF Life, Alive, Ending, mqVars
<1>11. Sources' /\ Inits' /\ Turns'
  BY SMTT(60), <1>1, <1>2, <1>3, <1>4, <1>5 DEF Sources, Inits, Turns, mqVars
<1>12. RefCountExact'
  <2>1. OthersStay(t)
    BY <1>3, <1>5 DEF OthersStay
  <2>2. CountsFit(t)
    BY <1>1, <1>2, <1>3, <1>4, <1>5, ServiceAssumption DEF CountsFit, Tokens, One, TypeOK
  <2> QED
    BY <1>1, <2>1, <2>2, CountsKeptFit
<1>13. TotalExact'
  <2>1. Counted' = Counted
    BY <1>1, <1>2, <1>3, <1>4 DEF Counted, mqVars
  <2> QED
    BY <1>1, <1>3, <2>1 DEF TotalExact
<1> QED
  BY <1>6, <1>7, <1>8, <1>9, <1>10, <1>11, <1>12, <1>13 DEF Core

\* skynet_mq_create: the queue is born in_global and held by the launcher.
LEMMA LaunchCreateKeeps ==
  ASSUME Core, ~ exited, NEW t \in Worker, LaunchCreate(t)
  PROVE  Core'
<1> DEFINE s == new[t]
<1>1. /\ t \in Thread
      /\ s \in Service
      /\ pc[t] = "create" /\ call[t].op = "idle"
      /\ TypeOK /\ Shape /\ Single /\ Flags /\ Life /\ Sources /\ Inits /\ Turns
      /\ RefCountExact /\ TotalExact
  BY DEF Core, Thread, TypeOK, Handle, Shape, LaunchCreate, At
<1>2. /\ mqueue[s] = "none" /\ ref[s] > 0 /\ context[s] = "live" /\ s \notin Listed /\ s # remote
      /\ \A u \in Thread : cur[u] # s /\ (u # t => new[u] # s)
  BY <1>1, Referenced, ServiceAssumption DEF Flags, Life, Alive, Ending, Single
<1>3. UNCHANGED <<slot, context, ref, init, queue, release, globalmq, cur, new, left, call, sends, remote, quit, late, exited>>
  BY DEF LaunchCreate, hostVars
<1>4. /\ in_global' \in [Service -> BOOLEAN] /\ mqueue' \in [Service -> Memory]
      /\ \A c \in Service : c # s => in_global'[c] = in_global[c] /\ mqueue'[c] = mqueue[c]
      /\ in_global'[s] /\ mqueue'[s] = "live"
      /\ total' = total + 1
  BY <1>1 DEF LaunchCreate, CreatedInGlobal, TotalAtCreate, TypeOK, Memory
<1>5. /\ pc' \in [Thread -> Point]
      /\ \A u \in Thread : u # t => pc'[u] = pc[u]
      /\ pc'[t] = "init"
  BY <1>1 DEF LaunchCreate, Goto, TypeOK, Point
<1>6. TypeOK'
  BY <1>1, <1>3, <1>4, <1>5 DEF TypeOK
<1>7. Shape'
  BY <1>1, <1>3, <1>5, ThreadAssumption DEF Shape
<1>8. Single'
  BY <1>1, <1>3 DEF Single, Listed
<1>9. Flags'
  <2>1. Listed' = Listed
    BY <1>3 DEF Listed
  <2> QED
    BY <1>1, <1>2, <1>3, <1>4, <1>5, <2>1, ServiceAssumption DEF Flags, Held
<1>10. Life'
  BY <1>1, <1>2, <1>3, <1>4, <1>5 DEF Life, Alive, Ending
<1>11. Sources'
  <2>1. \A c \in Service : mqueue[c] # "none" => mqueue'[c] # "none"
    BY <1>1, <1>2, <1>4
  <2> QED
    BY <1>1, <1>3, <2>1 DEF Sources, TypeOK, Handle
<1>12. Inits' /\ Turns'
  BY <1>1, <1>3, <1>5 DEF Inits, Turns
<1>13. RefCountExact'
  <2>1. OthersStay(t)
    BY <1>3, <1>5 DEF OthersStay
  <2>2. CountsFit(t)
    BY <1>1, <1>3, <1>5, ServiceAssumption DEF CountsFit, Tokens, One, TypeOK
  <2> QED
    BY <1>1, <2>1, <2>2, CountsKeptFit
<1>14. TotalExact'
  <2>1. IsFiniteSet(Counted) /\ s \notin Counted
    BY <1>1, <1>2, ServiceAssumption, FS_Subset DEF Counted
  <2>2. Counted' = Counted \cup {s}
    BY <1>1, <1>2, <1>3, <1>4 DEF Counted
  <2>3. Cardinality(Counted \cup {s}) = Cardinality(Counted) + 1
    BY <2>1, FS_AddElement
  <2> QED
    BY <1>1, <1>4, <2>2, <2>3 DEF TotalExact
<1> QED
  BY <1>6, <1>7, <1>8, <1>9, <1>10, <1>11, <1>12, <1>13, <1>14 DEF Core

\* A successful init: the launcher's reference is released, its queue is kept.
LEMMA LaunchSucceedKeeps ==
  ASSUME Core, ~ exited, NEW t \in Worker, LaunchSucceed(t)
  PROVE  Core'
<1> DEFINE s == new[t]
<1>1. /\ t \in Thread
      /\ s \in Service
      /\ pc[t] = "init" /\ call[t].op = "idle"
      /\ TypeOK /\ Shape /\ Single /\ Flags /\ Life /\ Sources /\ Inits /\ Turns
      /\ RefCountExact /\ TotalExact
  BY DEF Core, Thread, TypeOK, Handle, Shape, LaunchSucceed, At
<1>2. /\ ref[s] \in Nat /\ ref[s] > 0 /\ context[s] = "live" /\ ~ release[s] /\ mqueue[s] = "live"
      /\ ref[s] = 1 => s \notin slot
      /\ \A u \in Thread : cur[u] # s /\ (u # t => new[u] # s)
  BY <1>1, Referenced, ServiceAssumption DEF Flags, Life, Alive, Ending, Single, TypeOK
<1>3. UNCHANGED <<slot, context, init, total, mqVars, cur, new, left, sends, remote, quit, late, exited>>
  BY DEF LaunchSucceed, hostVars
<1>4. /\ ref' \in [Service -> Nat]
      /\ \A c \in Service : c # s => ref'[c] = ref[c]
      /\ ref'[s] = ref[s] - 1
  BY <1>1, <1>2 DEF LaunchSucceed, TypeOK
<1>5. /\ call' \in [Thread -> [op : CallOp, ctx : Handle, source : Handle]]
      /\ pc' \in [Thread -> Point]
      /\ \A u \in Thread : u # t => call'[u] = call[u] /\ pc'[u] = pc[u]
      /\ call'[t].source = NoService
      /\ \/ /\ ref[s] = 1
            /\ pc'[t] = "publishdead" /\ call'[t].op = "mark" /\ call'[t].ctx = s
         \/ /\ ref[s] # 1
            /\ pc'[t] = "publish" /\ call'[t].op = "idle" /\ call'[t].ctx = NoService
  BY <1>1 DEF LaunchSucceed, Goto, Calls, DropRef, CallTo, Idle, CallOp, Point, TypeOK, Handle
<1>6. TypeOK'
  BY <1>1, <1>3, <1>4, <1>5 DEF TypeOK, mqVars
<1>7. Shape'
  BY <1>1, <1>3, <1>5, ServiceAssumption, ThreadAssumption DEF Shape
<1>8. Single'
  BY <1>1, <1>3 DEF Single, Listed, mqVars
<1>9. Flags'
  <2>1. Listed' = Listed
    BY <1>3 DEF Listed, mqVars
  <2> QED
    BY <1>1, <1>2, <1>3, <1>5, <2>1, ServiceAssumption DEF Flags, Held, mqVars
<1>10. Life'
  <2>1. ASSUME NEW c \in Service, \E u \in Thread : new[u] = c /\ pc[u] = "create"
        PROVE  \E u \in Thread : new'[u] = c /\ pc'[u] = "create"
    BY <1>1, <1>3, <1>5, <2>1
  <2>2. ASSUME NEW c \in Service PROVE Alive(c)'
    BY <1>1, <1>2, <1>3, <1>4, <2>1 DEF Life, Alive, mqVars
  <2>3. ASSUME NEW u \in Thread, call[u].ctx = s PROVE call[u].op \notin {"mark", "free"}
    BY <1>1, <1>2, <2>3 DEF Life, Ending
  <2>4. ASSUME NEW c \in Service, NEW u \in Thread PROVE Ending(c, u)'
    <3>1. CASE u = t
      BY <1>1, <1>2, <1>3, <1>4, <1>5, <2>3, <3>1, ServiceAssumption DEF Ending, mqVars
    <3>2. CASE u # t /\ c = s
      BY <1>1, <1>3, <1>5, <2>3, <3>2 DEF Life, Ending, mqVars
    <3>3. CASE u # t /\ c # s
      BY <1>1, <1>3, <1>4, <1>5, <3>3, ServiceAssumption DEF Life, Ending, mqVars
    <3> QED
      BY <3>1, <3>2, <3>3
  <2> QED
    BY <2>2, <2>4 DEF Life
<1>11. Sources' /\ Turns'
  BY <1>1, <1>3, <1>5 DEF Sources, Turns, mqVars
<1>12. Inits'
  BY <1>1, <1>2, <1>3, <1>5 DEF Inits
<1>13. RefCountExact'
  <2>1. OthersStay(t)
    BY <1>3, <1>5 DEF OthersStay
  <2>2. CountsFit(t)
    <3> SUFFICES ASSUME NEW c \in Service
                 PROVE  ref'[c] = ref[c] + One(c \in slot') - One(c \in slot) + Tokens(t, c)' - Tokens(t, c)
      BY <1>3 DEF CountsFit
    <3>1. ref[c] \in Nat /\ slot' = slot /\ cur'[t] = cur[t] /\ new'[t] = s /\ cur[t] # s
      BY <1>1, <1>2, <1>3 DEF TypeOK
    <3>2. CASE c = s
      BY <1>1, <1>4, <1>5, <3>1, <3>2 DEF Tokens, One
    <3>3. CASE c # s
      BY <1>1, <1>4, <1>5, <3>1, <3>3, ServiceAssumption DEF Tokens, One
    <3> QED
      BY <3>2, <3>3
  <2> QED
    BY <1>1, <2>1, <2>2, CountsKeptFit
<1>14. TotalExact'
  BY <1>1, <1>3 DEF TotalExact, Counted, mqVars
<1> QED
  BY <1>6, <1>7, <1>8, <1>9, <1>10, <1>11, <1>12, <1>13, <1>14 DEF Core

\* skynet_globalmq_push: the queue of a launched service is listed for the first time.
LEMMA LaunchPublishKeeps ==
  ASSUME Core, ~ exited, NEW t \in Worker, LaunchPublish(t)
  PROVE  Core'
<1> DEFINE s == new[t]
<1>1. /\ t \in Thread
      /\ s \in Service
      /\ pc[t] \in {"publish", "publishdead"} /\ call[t].op = "idle" /\ cur[t] # NoService
      /\ TypeOK /\ Shape /\ Single /\ Flags /\ Life /\ Sources /\ Inits /\ Turns
      /\ RefCountExact /\ TotalExact
  BY DEF Core, Thread, TypeOK, Handle, Shape, LaunchPublish, At
<1>2. UNCHANGED <<slot, context, ref, total, mqueue, queue, in_global, release, cur, left, call, sends, remote, quit, late, exited>>
  BY DEF LaunchPublish, hostVars
<1>3. /\ globalmq' \in Seq(Service)
      /\ Injective(globalmq')
      /\ Listed' = Listed \cup {s}
      /\ s \notin Listed
  BY <1>1, PushedGlobal DEF LaunchPublish, Single
<1>4. /\ init' \in [Service -> BOOLEAN]
      /\ \A c \in Service : init[c] => init'[c]
      /\ pc[t] = "publish" => init'[s]
  BY <1>1 DEF LaunchPublish, TypeOK
<1>5. /\ pc' \in [Thread -> Point] /\ new' \in [Thread -> Handle]
      /\ \A u \in Thread : u # t => pc'[u] = pc[u] /\ new'[u] = new[u]
      /\ pc'[t] = "callback" /\ new'[t] = NoService
  BY <1>1 DEF LaunchPublish, Goto, TypeOK, Point, Handle
<1>6. TypeOK'
  BY <1>1, <1>2, <1>3, <1>4, <1>5 DEF TypeOK
<1>7. Shape'
  BY <1>1, <1>2, <1>5, ThreadAssumption DEF Shape
<1>8. Single'
  <2>1. cur[t] \notin Listed' /\ cur[t] # s
    BY <1>1, <1>3 DEF Single
  <2>2. NoService \notin Listed'
    BY <1>3, ServiceAssumption DEF Listed
  <2> QED
    BY <1>1, <1>2, <1>3, <1>5, <2>1, <2>2, SingleKept, ServiceAssumption
<1>9. Flags'
  BY <1>1, <1>2, <1>3, <1>5, ServiceAssumption DEF Flags, Held
<1>10. Life' /\ Sources'
  BY <1>1, <1>2, <1>5 DEF Life, Alive, Ending, Sources
<1>11. Inits'
  <2>1. \A u \in Thread : cur[u] # NoService => cur[u] \in Service
    BY <1>1 DEF TypeOK, Handle
  <2>2. \A c \in slot : c # s /\ ~ init[c] =>
          \E u \in Thread : u # t /\ new[u] = c /\ pc[u] \in {"create", "init", "publish", "retire"}
    BY <1>1 DEF Inits
  <2>3. s \in slot => init'[s]
    BY <1>1, <1>4 DEF Inits
  <2> QED
    <3>1. slot' = slot /\ slot \subseteq Service /\ cur' = cur
      BY <1>1, <1>2 DEF TypeOK
    <3>2. ASSUME NEW c \in slot
          PROVE  init'[c] \/ \E u \in Thread :
                   new'[u] = c /\ pc'[u] \in {"create", "init", "publish", "retire"}
      BY <1>4, <1>5, <2>2, <2>3, <3>1
    <3>3. ASSUME NEW u \in Thread, cur'[u] # NoService, pc'[u] # "grab"
          PROVE  init'[cur'[u]]
      BY <1>1, <1>4, <1>5, <2>1, <3>1, <3>3 DEF Inits
    <3>4. ASSUME NEW u \in Thread, pc'[u] = "publishdead"
          PROVE  new'[u] \notin slot
      BY <1>1, <1>5, <3>4 DEF Inits
    <3> QED
      BY <3>1, <3>2, <3>3, <3>4 DEF Inits
<1>12. Turns'
  BY <1>1, <1>2, <1>5 DEF Turns
<1>13. RefCountExact'
  <2>1. OthersStay(t)
    BY <1>2, <1>5 DEF OthersStay
  <2>2. CountsFit(t)
    BY <1>1, <1>2, <1>5, ServiceAssumption DEF CountsFit, Tokens, One, TypeOK
  <2> QED
    BY <1>1, <2>1, <2>2, CountsKeptFit
<1>14. TotalExact'
  BY <1>1, <1>2 DEF TotalExact, Counted
<1> QED
  BY <1>6, <1>7, <1>8, <1>9, <1>10, <1>11, <1>12, <1>13, <1>14 DEF Core

\* A failed init: the launcher's reference is released first ...
LEMMA LaunchFailKeeps ==
  ASSUME Core, ~ exited, NEW t \in Worker, LaunchFail(t)
  PROVE  Core'
<1> DEFINE s == new[t]
<1>1. /\ t \in Thread
      /\ s \in Service
      /\ pc[t] = "init" /\ call[t].op = "idle"
      /\ TypeOK /\ Shape /\ Single /\ Flags /\ Life /\ Sources /\ Inits /\ Turns
      /\ RefCountExact /\ TotalExact
  BY DEF Core, Thread, TypeOK, Handle, Shape, LaunchFail, At
<1>2. /\ ref[s] \in Nat /\ ref[s] > 0 /\ context[s] = "live" /\ ~ release[s] /\ mqueue[s] = "live"
      /\ ref[s] = 1 => s \notin slot
      /\ \A u \in Thread : cur[u] # s /\ (u # t => new[u] # s)
  BY <1>1, Referenced, ServiceAssumption DEF Flags, Life, Alive, Ending, Single, TypeOK
<1>3. UNCHANGED <<slot, context, init, total, mqVars, cur, new, left, sends, remote, quit, late, exited>>
  BY DEF LaunchFail, hostVars
<1>4. /\ ref' \in [Service -> Nat]
      /\ \A c \in Service : c # s => ref'[c] = ref[c]
      /\ ref'[s] = ref[s] - 1
  BY <1>1, <1>2 DEF LaunchFail, TypeOK
<1>5. /\ call' \in [Thread -> [op : CallOp, ctx : Handle, source : Handle]]
      /\ pc' \in [Thread -> Point]
      /\ \A u \in Thread : u # t => call'[u] = call[u] /\ pc'[u] = pc[u]
      /\ call'[t].source = NoService
      /\ pc'[t] = "retire"
      /\ IF ref[s] = 1 THEN call'[t].op = "mark" /\ call'[t].ctx = s
                       ELSE call'[t].op = "idle" /\ call'[t].ctx = NoService
  BY <1>1 DEF LaunchFail, Goto, Calls, DropRef, CallTo, Idle, CallOp, Point, TypeOK, Handle
<1>6. TypeOK'
  BY <1>1, <1>3, <1>4, <1>5 DEF TypeOK, mqVars
<1>7. Shape'
  BY <1>1, <1>3, <1>5, ServiceAssumption, ThreadAssumption DEF Shape
<1>8. Single'
  BY <1>1, <1>3 DEF Single, Listed, mqVars
<1>9. Flags'
  <2>1. Listed' = Listed
    BY <1>3 DEF Listed, mqVars
  <2> QED
    BY <1>1, <1>2, <1>3, <1>5, <2>1, ServiceAssumption DEF Flags, Held, mqVars
<1>10. Life'
  <2>1. ASSUME NEW c \in Service, \E u \in Thread : new[u] = c /\ pc[u] = "create"
        PROVE  \E u \in Thread : new'[u] = c /\ pc'[u] = "create"
    BY <1>1, <1>3, <1>5, <2>1
  <2>2. ASSUME NEW c \in Service PROVE Alive(c)'
    BY <1>1, <1>2, <1>3, <1>4, <2>1 DEF Life, Alive, mqVars
  <2>3. ASSUME NEW u \in Thread, call[u].ctx = s PROVE call[u].op \notin {"mark", "free"}
    BY <1>1, <1>2, <2>3 DEF Life, Ending
  <2>4. ASSUME NEW c \in Service, NEW u \in Thread PROVE Ending(c, u)'
    <3>1. CASE u = t
      BY <1>1, <1>2, <1>3, <1>4, <1>5, <2>3, <3>1, ServiceAssumption DEF Ending, mqVars
    <3>2. CASE u # t /\ c = s
      BY <1>1, <1>3, <1>5, <2>3, <3>2 DEF Life, Ending, mqVars
    <3>3. CASE u # t /\ c # s
      BY <1>1, <1>3, <1>4, <1>5, <3>3, ServiceAssumption DEF Life, Ending, mqVars
    <3> QED
      BY <3>1, <3>2, <3>3
  <2> QED
    BY <2>2, <2>4 DEF Life
<1>11. Sources' /\ Turns'
  BY <1>1, <1>3, <1>5 DEF Sources, Turns, mqVars
<1>12. Inits'
  BY <1>1, <1>2, <1>3, <1>5 DEF Inits
<1>13. RefCountExact'
  <2>1. OthersStay(t)
    BY <1>3, <1>5 DEF OthersStay
  <2>2. CountsFit(t)
    BY SMTT(60), <1>1, <1>2, <1>3, <1>4, <1>5, ServiceAssumption DEF CountsFit, Tokens, One, TypeOK
  <2> QED
    BY <1>1, <2>1, <2>2, CountsKeptFit
<1>14. TotalExact'
  BY <1>1, <1>3 DEF TotalExact, Counted, mqVars
<1> QED
  BY <1>6, <1>7, <1>8, <1>9, <1>10, <1>11, <1>12, <1>13, <1>14 DEF Core

\* ... and then that of the table, which leaves the queue marked for its launcher.
LEMMA LaunchRetireKeeps ==
  ASSUME Core, ~ exited, NEW t \in Worker, LaunchRetire(t)
  PROVE  Core'
<1> DEFINE s == new[t]
<1>1. /\ t \in Thread
      /\ s \in Service
      /\ pc[t] = "retire" /\ call[t].op = "idle"
      /\ TypeOK /\ Shape /\ Single /\ Flags /\ Life /\ Sources /\ Inits /\ Turns
      /\ RefCountExact /\ TotalExact
  BY DEF Core, Thread, TypeOK, Handle, Shape, LaunchRetire, At
<1>2. UNCHANGED <<context, ref, init, total, mqVars, cur, new, left, sends, remote, quit, late, exited>> /\ slot' = slot \ {s}
  BY DEF LaunchRetire, hostVars
<1>3. /\ call' \in [Thread -> [op : CallOp, ctx : Handle, source : Handle]]
      /\ pc' \in [Thread -> Point]
      /\ \A u \in Thread : u # t => call'[u] = call[u] /\ pc'[u] = pc[u]
      /\ pc'[t] = "mqrelease"
      /\ call'[t].source = NoService
      /\ IF s \in slot THEN call'[t].op = "release" /\ call'[t].ctx = s
                       ELSE call'[t].op = "idle" /\ call'[t].ctx = NoService
  BY <1>1 DEF LaunchRetire, Registered, Goto, Calls, CallTo, Idle, CallOp, Point, TypeOK, Handle
<1>4. TypeOK'
  BY <1>1, <1>2, <1>3 DEF TypeOK, mqVars
<1>5. Shape'
  BY <1>1, <1>2, <1>3, ServiceAssumption, ThreadAssumption DEF Shape
<1>6. Single'
  BY <1>1, <1>2 DEF Single, Listed, mqVars
<1>7. Flags'
  <2>1. Listed' = Listed
    BY <1>2 DEF Listed, mqVars
  <2> QED
    BY <1>1, <1>2, <1>3, <2>1, ServiceAssumption DEF Flags, Held, mqVars
<1>8. Life'
  BY <1>1, <1>2, <1>3, ServiceAssumption DEF Life, Alive, Ending, mqVars
<1>9. Sources' /\ Turns'
  BY <1>1, <1>2, <1>3 DEF Sources, Turns, mqVars
<1>10. Inits'
  BY <1>1, <1>2, <1>3 DEF Inits
<1>11. RefCountExact'
  <2>1. OthersStay(t)
    BY <1>2, <1>3 DEF OthersStay
  <2>2. CountsFit(t)
    BY <1>1, <1>2, <1>3, ServiceAssumption DEF CountsFit, Tokens, One, TypeOK
  <2> QED
    BY <1>1, <2>1, <2>2, CountsKeptFit
<1>12. TotalExact'
  BY <1>1, <1>2 DEF TotalExact, Counted, mqVars
<1> QED
  BY <1>4, <1>5, <1>6, <1>7, <1>8, <1>9, <1>10, <1>11, <1>12 DEF Core

\* A timer or a socket thread starts a send.
LEMMA PushFromOutsideKeeps ==
  ASSUME Core, ~ exited, NEW t \in Outside, NEW d \in Service, PushFromOutside(t, d)
  PROVE  Core'
<1>1. /\ t \in Thread
      /\ call[t].op = "idle"
      /\ mqueue[d] # "none"
      /\ TypeOK /\ Shape /\ Single /\ Flags /\ Life /\ Sources /\ Inits /\ Turns
      /\ RefCountExact /\ TotalExact
  BY DEF Core, Thread, PushFromOutside, At
<1>2. UNCHANGED <<ctxVars, mqVars, pc, cur, new, left, remote, quit, late, exited>> /\ sends' \in 0 .. MaxSends
  BY <1>1, BoundAssumption DEF PushFromOutside, hostVars, TypeOK
<1>3. /\ call' \in [Thread -> [op : CallOp, ctx : Handle, source : Handle]]
      /\ \A u \in Thread : u # t => call'[u] = call[u]
      /\ call'[t].op = "grab" /\ call'[t].ctx = d /\ call'[t].source = NoService
  BY <1>1 DEF PushFromOutside, Calls, PushTo, CallOp, TypeOK, Handle
<1>4. TypeOK'
  BY <1>1, <1>2, <1>3 DEF TypeOK, ctxVars, mqVars
<1>5. Shape'
  BY <1>1, <1>2, <1>3, ServiceAssumption DEF Shape
<1>6. Single' /\ Flags'
  BY <1>1, <1>2 DEF Single, Flags, Held, Listed, mqVars
<1>7. Life'
  BY <1>1, <1>2, <1>3 DEF Life, Alive, Ending, ctxVars, mqVars
<1>8. Sources' /\ Inits' /\ Turns'
  BY <1>1, <1>2, <1>3 DEF Sources, Inits, Turns, ctxVars, mqVars
<1>9. RefCountExact'
  <2>1. OthersStay(t)
    BY <1>2, <1>3 DEF OthersStay
  <2>2. CountsFit(t)
    BY <1>1, <1>2, <1>3 DEF CountsFit, Tokens, One, TypeOK, ctxVars
  <2> QED
    BY <1>1, <2>1, <2>2, CountsKeptFit
<1>10. TotalExact'
  BY <1>1, <1>2 DEF TotalExact, Counted, ctxVars, mqVars
<1> QED
  BY <1>4, <1>5, <1>6, <1>7, <1>8, <1>9, <1>10 DEF Core

\* skynet_context_reserve: REMOTE gets a reference of its own, and the context leaves the
\* total.
LEMMA ReserveKeeps ==
  ASSUME Core, ~ exited, NEW t \in Worker, Reserve(t)
  PROVE  Core'
<1> DEFINE s == new[t]
<1>1. /\ t \in Thread
      /\ s \in Service
      /\ pc[t] = "init" /\ remote = NoService
      /\ TypeOK /\ Shape /\ Single /\ Flags /\ Life /\ Sources /\ Inits /\ Turns
      /\ RefCountExact /\ TotalExact
  BY DEF Core, Thread, TypeOK, Handle, Shape, Reserve, At
<1>2. /\ ref[s] \in Nat /\ ref[s] > 0 /\ context[s] = "live" /\ ~ release[s] /\ mqueue[s] = "live"
  BY <1>1, Referenced DEF Flags, Life, Alive, TypeOK
<1>3. UNCHANGED <<slot, context, init, mqVars, pc, cur, new, left, call, sends, quit, late, exited>>
  BY DEF Reserve, threadVars
<1>4. /\ ref' \in [Service -> Nat]
      /\ \A c \in Service : c # s => ref'[c] = ref[c]
      /\ ref'[s] = ref[s] + 1
      /\ remote' = s /\ total' = total - 1
  BY <1>1, <1>2 DEF Reserve, RefAfterGrab, TypeOK
<1>5. TypeOK'
  BY <1>1, <1>3, <1>4 DEF TypeOK, Handle, mqVars
<1>6. Shape' /\ Single' /\ Flags'
  BY <1>1, <1>3 DEF Shape, Single, Flags, Held, Listed, mqVars
<1>7. Life'
  <2>1. ASSUME NEW c \in Service PROVE Alive(c)'
    BY <1>1, <1>2, <1>3, <1>4 DEF Life, Alive, mqVars
  <2>2. ASSUME NEW c \in Service, NEW u \in Thread PROVE Ending(c, u)'
    BY <1>1, <1>2, <1>3, <1>4 DEF Life, Ending, mqVars
  <2> QED
    BY <2>1, <2>2 DEF Life
<1>8. Sources' /\ Inits' /\ Turns'
  BY <1>1, <1>3 DEF Sources, Inits, Turns, mqVars
<1>9. RefCountExact'
  <2>1. OthersStay(t)
    BY <1>3 DEF OthersStay
  <2>2. ASSUME NEW c \in Service
        PROVE  /\ Tokens(t, c)' = Tokens(t, c) /\ Tokens(t, c) \in Nat
               /\ One(c \in slot') = One(c \in slot) /\ One(c \in slot) \in Nat
               /\ One(Reserved(c)) = 0 /\ One(Reserved(c)') = One(c = s)
    BY <1>1, <1>3, <1>4, ServiceAssumption DEF Tokens, One, Reserved
  <2>3. ASSUME NEW c \in Service
        PROVE  ref'[c] = ref[c] + One(c = s)
    BY <1>1, <1>2, <1>4 DEF One, TypeOK
  <2>4. CountsMatch(t)
    BY <1>1, <2>2, <2>3 DEF CountsMatch, One, TypeOK
  <2> QED
    BY <1>1, <2>1, <2>4, CountsKept
<1>10. TotalExact'
  <2>1. IsFiniteSet(Counted) /\ s \in Counted
    BY <1>1, <1>2, ServiceAssumption, FS_Subset DEF Counted
  <2>2. Counted' = Counted \ {s}
    BY <1>1, <1>3, <1>4, ServiceAssumption DEF Counted, mqVars
  <2>3. Cardinality(Counted \ {s}) = Cardinality(Counted) - 1
    BY <2>1, FS_RemoveElement
  <2> QED
    BY <1>1, <1>4, <2>2, <2>3 DEF TotalExact
<1> QED
  BY <1>5, <1>6, <1>7, <1>8, <1>9, <1>10 DEF Core

\* thread_timer sees a total of 0, sets quit, and a worker reads it.
LEMMA QuitKeeps ==
  ASSUME Core, Abort \/ Quit \/ \E t \in Worker : PopNone(t)
  PROVE  Core'
<1>1. /\ UNCHANGED <<ctxVars, mqVars, pc, cur, new, left, call, sends, remote, exited>>
      /\ quit' \in {quit, "due", "set"} /\ (late' \subseteq late \/ late' \subseteq Worker)
  BY DEF Abort, Quit, PopNone, threadVars
<1>2. /\ TypeOK /\ Shape /\ Single /\ Flags /\ Life /\ Sources /\ Inits /\ Turns
      /\ RefCountExact /\ TotalExact
  BY DEF Core
<1>3. TypeOK'
  BY <1>1, <1>2 DEF TypeOK, ctxVars, mqVars
<1>4. Shape' /\ Single' /\ Flags'
  BY <1>1, <1>2 DEF Shape, Single, Flags, Held, Listed, mqVars
<1>5. Life' /\ Sources'
  BY <1>1, <1>2 DEF Life, Alive, Ending, Sources, ctxVars, mqVars
<1>6. Inits' /\ Turns'
  BY <1>1, <1>2 DEF Inits, Turns, ctxVars, mqVars
<1>7. RefCountExact' /\ TotalExact'
  BY <1>1, <1>2 DEF RefCountExact, Reserved, Callers, Dispatchers, Launchers, TotalExact, Counted,
                    ctxVars, mqVars
<1> QED
  BY <1>3, <1>4, <1>5, <1>6, <1>7 DEF Core

\* skynet_harbor_exit: with no thread left, the reference of REMOTE is the last one or one
\* of the table.
LEMMA HarborExitKeeps ==
  ASSUME Core, HarborExit
  PROVE  Core'
<1> DEFINE s == remote
<1>1. /\ TypeOK /\ Shape /\ Single /\ Flags /\ Life /\ Sources /\ Inits /\ Turns
      /\ RefCountExact /\ TotalExact
  BY DEF Core
<1>2. /\ ~ exited /\ exited'
      /\ \A t \in Thread : call[t].op = "idle"
      /\ UNCHANGED <<slot, init, mqueue, queue, in_global, pc, cur, new, left, call, sends,
                     remote, quit, late>>
  BY DEF HarborExit, Ended, At, Thread, ctxVars, mqVars, threadVars
<1>3. TotalExact'
  BY <1>2 DEF TotalExact
<1>4. CASE s = NoService
  <2>1. UNCHANGED <<ref, context, total, release, globalmq>>
    BY <1>4 DEF HarborExit, ctxVars, mqVars
  <2>2. TypeOK' /\ Shape' /\ Single' /\ Flags'
    BY <1>1, <1>2, <2>1 DEF TypeOK, Shape, Single, Flags, Held, Listed
  <2>3. Life' /\ Sources' /\ Inits' /\ Turns'
    BY <1>1, <1>2, <2>1 DEF Life, Alive, Ending, Sources, Inits, Turns
  <2>4. \A c \in Service : ~ Reserved(c) /\ ~ Reserved(c)'
    BY <1>2, <1>4, ServiceAssumption DEF Reserved
  <2>5. RefCountExact'
    BY <1>1, <1>2, <2>1, <2>4 DEF RefCountExact, Callers, Dispatchers, Launchers
  <2> QED
    BY <1>3, <2>2, <2>3, <2>5 DEF Core
<1>5. CASE s # NoService
  <2>1. /\ s \in Service /\ Reserved(s) /\ ref[s] \in Nat /\ ref[s] > 0
        /\ context[s] = "live" /\ ~ release[s]
    <3>1. s \in Service /\ Reserved(s)
      BY <1>1, <1>2, <1>5 DEF TypeOK, Handle, Reserved
    <3> QED
      BY <1>1, <3>1, ReservedCounted DEF Life, Alive
  <2>2. /\ ref' \in [Service -> Nat]
        /\ \A c \in Service : c # s => ref'[c] = ref[c]
        /\ ref'[s] = ref[s] - 1
    <3>1. ref' = [ref EXCEPT ![s] = @ - 1]
      BY <1>5 DEF HarborExit
    <3> QED
      BY <1>1, <2>1, <3>1 DEF TypeOK
  <2>3. RefCountExact'
    <3> SUFFICES ASSUME NEW c \in Service
                 PROVE  ref'[c] = One(c \in slot') + One(Reserved(c)')
                          + Cardinality(Callers(c)') + Cardinality(Dispatchers(c)')
                          + Cardinality(Launchers(c)')
      BY DEF RefCountExact, One
    <3>1. ref[c] = One(c \in slot) + One(Reserved(c)) + Cardinality(Callers(c))
                     + Cardinality(Dispatchers(c)) + Cardinality(Launchers(c))
      BY <1>1 DEF RefCountExact, One
    <3>2. /\ Callers(c)' = Callers(c) /\ Dispatchers(c)' = Dispatchers(c)
          /\ Launchers(c)' = Launchers(c) /\ slot' = slot
      BY <1>2 DEF Callers, Dispatchers, Launchers
    <3>3. One(Reserved(c)) = One(c = s) /\ One(Reserved(c)') = 0
      BY <1>2 DEF Reserved, One
    <3>4. ref'[c] = ref[c] - One(c = s) /\ ref[c] \in Nat
      BY <1>1, <2>1, <2>2 DEF One, TypeOK
    <3>5. IsFiniteSet(Callers(c)) /\ IsFiniteSet(Dispatchers(c)) /\ IsFiniteSet(Launchers(c))
      <4>1. IsFiniteSet(Thread)
        BY ThreadAssumption
      <4> QED
        BY <4>1, FS_Subset DEF Callers, Dispatchers, Launchers
    <3>6. /\ Cardinality(Callers(c)) \in Nat /\ Cardinality(Dispatchers(c)) \in Nat
          /\ Cardinality(Launchers(c)) \in Nat
      BY <3>5, FS_CardinalityType
    <3> QED
      BY <3>1, <3>2, <3>3, <3>4, <3>6 DEF One
  <2>4. CASE ref[s] # 1
    <3>1. UNCHANGED <<release, globalmq, context, total>>
      BY <1>5, <2>4 DEF HarborExit
    <3>2. TypeOK' /\ Shape' /\ Single' /\ Flags'
      BY <1>1, <1>2, <2>2, <3>1 DEF TypeOK, Shape, Single, Flags, Held, Listed
    <3>3. Life'
      BY <1>1, <1>2, <2>1, <2>2, <2>4, <3>1 DEF Life, Alive, Ending
    <3>4. Sources' /\ Inits' /\ Turns'
      BY <1>1, <1>2, <3>1 DEF Sources, Inits, Turns
    <3> QED
      BY <1>3, <2>3, <3>2, <3>3, <3>4 DEF Core
  <2>5. CASE ref[s] = 1
    <3>1. /\ context' = [context EXCEPT ![s] = "freed"]
          /\ release' = [release EXCEPT ![s] = TRUE]
          /\ globalmq' = Enlist(s) /\ total' = total - 1
      BY <1>5, <2>5 DEF HarborExit
    <3>2. /\ \A c \in Service : c # s => context'[c] = context[c] /\ release'[c] = release[c]
          /\ context'[s] = "freed" /\ release'[s]
          /\ context' \in [Service -> Memory] /\ release' \in [Service -> BOOLEAN]
          /\ total' \in Int
      BY <1>1, <2>1, <3>1 DEF TypeOK, Memory
    <3>3. s \notin slot /\ ~ \E t \in Thread : new[t] = s /\ pc[t] \in {"create", "init"}
      <4>1. /\ One(s \in slot) \in Nat /\ One(Reserved(s)) = 1
            /\ \A t \in Thread : /\ One(t \in Callers(s)) \in Nat
                                 /\ One(t \in Dispatchers(s)) \in Nat
                                 /\ One(t \in Launchers(s)) \in Nat
        BY <2>1 DEF One
      <4>2. ref[s] = One(s \in slot) + One(Reserved(s)) + Cardinality(Callers(s))
                       + Cardinality(Dispatchers(s)) + Cardinality(Launchers(s))
        BY <1>1, <2>1 DEF RefCountExact, One
      <4>3. IsFiniteSet(Callers(s)) /\ IsFiniteSet(Dispatchers(s)) /\ IsFiniteSet(Launchers(s))
        <5>1. IsFiniteSet(Thread)
          BY ThreadAssumption
        <5> QED
          BY <5>1, FS_Subset DEF Callers, Dispatchers, Launchers
      <4>4. /\ Cardinality(Callers(s)) \in Nat /\ Cardinality(Dispatchers(s)) \in Nat
            /\ Cardinality(Launchers(s)) \in Nat
        BY <4>3, FS_CardinalityType
      <4>5. One(s \in slot) = 0 /\ Cardinality(Launchers(s)) = 0
        BY <2>5, <4>1, <4>2, <4>4
      <4>6. Launchers(s) = {}
        BY <4>3, <4>5, FS_EmptySet
      <4> QED
        BY <4>5, <4>6 DEF Launchers, One
    <3>4. mqueue[s] = "live"
      BY <1>1, <2>1, <3>3 DEF Life, Alive, Flags, TypeOK, Memory
    <3>5. /\ globalmq' \in Seq(Service)
          /\ Injective(globalmq')
          /\ in_global[s] => Listed' = Listed
          /\ ~ in_global[s] => Listed' = Listed \cup {s} /\ s \notin Listed /\ ~ Held(s)
      BY <1>1, <2>1, <3>1, <3>4, Enlisted
    <3>6. TypeOK'
      BY <1>1, <1>2, <2>2, <3>2, <3>5 DEF TypeOK
    <3>7. Shape'
      BY <1>1, <1>2 DEF Shape
    <3>8. Single'
      BY <1>1, <1>2, <3>5 DEF Single, Held
    <3>9. Flags'
      BY <1>1, <1>2, <2>1, <3>2, <3>4, <3>5 DEF Flags, Held
    <3>10. Life'
      <4>1. ASSUME NEW c \in Service PROVE Alive(c)'
        BY <1>1, <1>2, <2>1, <2>2, <2>5, <3>2, <3>3, <3>4, <4>1 DEF Life, Alive
      <4>2. ASSUME NEW c \in Service, NEW u \in Thread PROVE Ending(c, u)'
        BY <1>2, <4>2 DEF Ending
      <4> QED
        BY <4>1, <4>2 DEF Life
    <3>11. Sources' /\ Inits' /\ Turns'
      BY <1>1, <1>2 DEF Sources, Inits, Turns
    <3> QED
      BY <1>3, <2>3, <3>6, <3>7, <3>8, <3>9, <3>10, <3>11 DEF Core
  <2> QED
    BY <2>4, <2>5
<1> QED
  BY <1>4, <1>5

(***************************************************************************)
(* The invariant, and what follows from it.                                *)
(***************************************************************************)
\* What main() leaves behind satisfies the invariant.
LEMMA InitEstablishes == Init => IInv
<1> SUFFICES ASSUME Init
             PROVE  IInv
  OBVIOUS
<1>1. /\ Booted \subseteq Service /\ IsFiniteSet(Booted)
      /\ Boot \in Seq(Service) /\ Injective(Boot)
      /\ Listed = Booted
  <2>1. Booted \subseteq Service
    BY BootAssumption DEF Booted
  <2>2. IsFiniteSet(Booted)
    BY <2>1, ServiceAssumption, FS_Subset
  <2>3. Injective(Boot)
    BY BootAssumption DEF Injective
  <2> QED
    BY <2>1, <2>2, <2>3, BootAssumption DEF Init, Listed, Booted
<1>2. PICK lua \in SUBSET Booted : queue = [s \in Service |-> IF s \in lua THEN <<s>> ELSE <<>>]
  BY DEF Init
<1>3. \A s \in Service :
        /\ queue[s] \in Seq(Handle)
        /\ queue[s] # <<>> => s \in Booted
        /\ \A i \in DOMAIN queue[s] : queue[s][i] \in Booted
  <2> TAKE s \in Service
  <2>1. CASE s \in lua
    <3>1. queue[s] = <<s>> /\ s \in Booted
      BY <1>2, <2>1
    <3>2. <<s>> \in Seq(Handle) /\ \A i \in DOMAIN <<s>> : <<s>>[i] = s
      BY DEF Handle
    <3> QED
      BY <3>1, <3>2
  <2>2. CASE s \notin lua
    <3>1. queue[s] = <<>>
      BY <1>2, <2>2
    <3>2. <<>> \in Seq(Handle) /\ DOMAIN <<>> = {}
      OBVIOUS
    <3> QED
      BY <3>1, <3>2
  <2> QED
    BY <2>1, <2>2
<1>4. Cardinality(Booted) \in Nat
  BY <1>1, FS_CardinalityType
<1>5. TypeOK
  <2>1. /\ slot \subseteq Service /\ globalmq \in Seq(Service) /\ total \in Int
        /\ context \in [Service -> Memory] /\ ref \in [Service -> Nat]
        /\ init \in [Service -> BOOLEAN] /\ mqueue \in [Service -> Memory]
    BY <1>1, <1>4 DEF Init, Memory
  <2>2. queue \in [Service -> Seq(Handle)]
    BY <1>2, <1>3
  <2>3. /\ in_global \in [Service -> BOOLEAN] /\ release \in [Service -> BOOLEAN]
        /\ pc \in [Thread -> Point] /\ cur \in [Thread -> Handle] /\ new \in [Thread -> Handle]
        /\ left \in [Thread -> Nat]
    BY DEF Init, Point, Handle
  <2>4. call \in [Thread -> [op : CallOp, ctx : Handle, source : Handle]]
    BY DEF Init, Idle, CallOp, Handle
  <2>5. /\ sends \in 0..MaxSends /\ remote \in Handle
        /\ quit \in {"unset", "due", "set"} /\ late \subseteq Worker /\ exited \in BOOLEAN
    <3>1. sends = 0 /\ remote = NoService /\ quit = "unset" /\ late = {} /\ exited = FALSE
      BY DEF Init
    <3>2. 0 \in 0..MaxSends
      BY BoundAssumption
    <3> QED
      BY <3>1, <3>2 DEF Handle
  <2> QED
    BY <2>1, <2>2, <2>3, <2>4, <2>5 DEF TypeOK
<1>6. Shape
  BY ThreadAssumption DEF Init, Shape, Idle, Thread
<1>7. Single
  BY <1>1, ServiceAssumption DEF Init, Single
<1>8. Flags
  BY <1>1, <1>3, ServiceAssumption DEF Init, Flags
<1>9. Life
  BY <1>1, ServiceAssumption DEF Init, Life, Alive, Ending, Idle
<1>10. Sources
  BY <1>1, <1>3 DEF Init, Sources, Idle
<1>11. Inits /\ Turns
  BY <1>1 DEF Init, Inits, Turns
<1>12. RefCountExact
  <2> SUFFICES ASSUME NEW s \in Service
               PROVE  ref[s] = (IF s \in slot THEN 1 ELSE 0) + (IF Reserved(s) THEN 1 ELSE 0)
                                 + Cardinality(Callers(s)) + Cardinality(Dispatchers(s)) + Cardinality(Launchers(s))
    BY DEF RefCountExact
  <2>1. ~ Reserved(s) /\ Callers(s) = {} /\ Dispatchers(s) = {} /\ Launchers(s) = {}
    BY ServiceAssumption DEF Init, Reserved, Callers, Dispatchers, Launchers, Idle
  <2> QED
    BY <2>1, FS_EmptySet DEF Init
<1>13. TotalExact
  <2>1. Counted = Booted
    BY <1>1, ServiceAssumption DEF Init, Counted
  <2> QED
    BY <2>1 DEF Init, TotalExact
<1>14. ExitLast
  BY DEF Init, ExitLast
<1> QED
  BY <1>5, <1>6, <1>7, <1>8, <1>9, <1>10, <1>11, <1>12, <1>13, <1>14 DEF IInv, Core

\* After skynet_harbor_exit nothing moves.
LEMMA NothingAfterExit ==
  ASSUME IInv, exited, Next
  PROVE  UNCHANGED vars
<1>1. /\ Shape
      /\ quit = "set"
      /\ \A t \in Thread : call[t].op = "idle"
      /\ \A t \in Worker : pc[t] \in {"pop", "grab"} /\ t \notin late
  BY DEF IInv, Core, ExitLast
<1>2. ASSUME NEW t \in Thread, CallStep(t) PROVE FALSE
  BY <1>1, <1>2 DEF CallStep, Grab, Push, Release, MarkRelease, Free
<1>3. ASSUME NEW t \in Worker, DispatchStep(t) PROVE FALSE
  BY <1>1, <1>3 DEF DispatchStep, Pop, DispatchGrab, PopMessage, PopEmpty, ReadLength,
                    CallbackReturn, TakeNext, Requeue, MqRelease, DropMessage, DropQueue, At
<1>4. ASSUME NEW t \in Worker, LaunchStep(t) PROVE FALSE
  BY <1>1, <1>4 DEF LaunchStep, LaunchCreate, Reserve, LaunchSucceed, LaunchPublish, LaunchFail,
                    LaunchRetire, At
<1>5. ASSUME NEW t \in Worker, ServiceStep(t) PROVE FALSE
  BY <1>1, <1>5 DEF ServiceStep, Send, Kill, Launch, At
<1>6. ASSUME NEW t \in Outside, NEW d \in Service, PushFromOutside(t, d) PROVE FALSE
  BY <1>6 DEF PushFromOutside
<1>7. ASSUME Abort \/ Quit \/ (\E t \in Worker : PopNone(t)) \/ HarborExit PROVE FALSE
  BY <1>1, <1>7 DEF Abort, Quit, PopNone, HarborExit
<1> QED
  BY <1>2, <1>3, <1>4, <1>5, <1>6, <1>7 DEF Next, Sleeping

\* Every step of every thread keeps the invariant.
LEMMA StepKeeps == IInv /\ [Next]_vars => IInv'
<1> SUFFICES ASSUME IInv, [Next]_vars
             PROVE  IInv'
  OBVIOUS
<1>1. CASE UNCHANGED vars
  <2>1. UNCHANGED <<slot, context, ref, init, total, mqueue, queue, in_global, release, globalmq,
                    pc, cur, new, left, call, sends, remote, quit, late, exited>>
    BY <1>1 DEF vars, ctxVars, mqVars, threadVars, hostVars
  <2>2. TypeOK' /\ Shape' /\ Single' /\ Flags'
    BY <2>1 DEF IInv, Core, TypeOK, Shape, Single, Flags, Held, Listed
  <2>3. Life' /\ Sources' /\ Inits' /\ Turns'
    BY <2>1 DEF IInv, Core, Life, Alive, Ending, Sources, Inits, Turns
  <2>4. RefCountExact' /\ TotalExact'
    BY <2>1 DEF IInv, Core, RefCountExact, Reserved, Callers, Dispatchers, Launchers, TotalExact,
                Counted
  <2>5. ExitLast'
    BY <2>1 DEF IInv, ExitLast
  <2> QED
    BY <2>2, <2>3, <2>4, <2>5 DEF IInv, Core
<1>2. CASE Next /\ exited
  BY <1>1, <1>2, NothingAfterExit
<1>3. CASE Next /\ ~ exited
  <2> USE <1>3 DEF IInv
  <2>1. ASSUME NEW t \in Thread, CallStep(t)
        PROVE  Core' /\ exited' = exited
    <3>1. exited' = exited
      BY <2>1 DEF CallStep, Grab, Push, Release, MarkRelease, Free, hostVars
    <3> QED
      BY <2>1, <3>1, GrabKeeps, PushKeeps, ReleaseKeeps, MarkReleaseKeeps, FreeKeeps DEF CallStep
  <2>2. ASSUME NEW t \in Worker, DispatchStep(t)
        PROVE  Core' /\ exited' = exited
    <3>1. exited' = exited
      BY <2>2 DEF DispatchStep, Pop, DispatchGrab, PopMessage, PopEmpty, ReadLength,
                  CallbackReturn, TakeNext, Requeue, MqRelease, DropMessage, DropQueue, hostVars
    <3> QED
      BY <2>2, <3>1, PopKeeps, DispatchGrabKeeps, PopMessageKeeps, PopEmptyKeeps,
         ReadLengthKeeps, CallbackReturnKeeps, TakeNextKeeps, RequeueKeeps, MqReleaseKeeps,
         DropMessageKeeps, DropQueueKeeps DEF DispatchStep
  <2>3. ASSUME NEW t \in Worker, LaunchStep(t)
        PROVE  Core' /\ exited' = exited
    <3>1. exited' = exited
      BY <2>3 DEF LaunchStep, LaunchCreate, Reserve, LaunchSucceed, LaunchPublish, LaunchFail,
                  LaunchRetire, hostVars
    <3> QED
      BY <2>3, <3>1, LaunchCreateKeeps, ReserveKeeps, LaunchSucceedKeeps, LaunchPublishKeeps,
         LaunchFailKeeps, LaunchRetireKeeps DEF LaunchStep
  <2>4. ASSUME NEW t \in Worker, ServiceStep(t)
        PROVE  Core' /\ exited' = exited
    <3>1. exited' = exited
      BY <2>4 DEF ServiceStep, Send, Kill, Launch, hostVars
    <3> QED
      BY <2>4, <3>1, SendKeeps, KillKeeps, LaunchKeeps DEF ServiceStep
  <2>5. ASSUME NEW t \in Outside, NEW d \in Service, PushFromOutside(t, d)
        PROVE  Core' /\ exited' = exited
    <3>1. exited' = exited
      BY <2>5 DEF PushFromOutside, hostVars
    <3> QED
      BY <2>5, <3>1, PushFromOutsideKeeps
  <2>6. ASSUME Abort \/ Quit \/ \E t \in Worker : PopNone(t)
        PROVE  Core' /\ exited' = exited
    <3>1. exited' = exited
      BY <2>6 DEF Abort, Quit, PopNone
    <3> QED
      BY <2>6, <3>1, QuitKeeps
  <2>7. ASSUME exited' = exited PROVE ExitLast'
    BY <2>7 DEF ExitLast
  <2>8. CASE HarborExit
    <3>1. Core'
      BY <2>8, HarborExitKeeps
    <3>2. /\ UNCHANGED <<pc, call, quit, late>> /\ quit = "set"
          /\ \A t \in Worker : Ended(t)
          /\ \A t \in Thread : call[t].op = "idle"
      BY <2>8 DEF HarborExit, threadVars, Ended, At, Thread
    <3>3. ExitLast'
      BY <3>2 DEF ExitLast, Ended, At
    <3> QED
      BY <3>1, <3>3
  <2>9. CASE Sleeping
    BY <1>1, <2>9 DEF Sleeping
  <2> QED
    BY <2>1, <2>2, <2>3, <2>4, <2>5, <2>6, <2>7, <2>8, <2>9 DEF Next
<1> QED
  BY <1>1, <1>2, <1>3

\* The inductive invariant holds in every state the scheduler reaches.
THEOREM Inductive == Spec => []IInv
  BY InitEstablishes, StepKeeps, PTL DEF Spec

\* Every variable keeps its type; in particular no reference count goes below
\* zero (skynet_context_release).
THEOREM TypeCorrect == Spec => []TypeOK
<1>1. IInv => TypeOK
  BY DEF IInv, Core
<1> QED
  BY <1>1, Inductive, PTL

\* ctx->ref is the number of references, for any number of threads and
\* services (skynet_handle_grab, skynet_context_release).
THEOREM RefCountsAreExact == Spec => []RefCountExact
<1>1. IInv => RefCountExact
  BY DEF IInv, Core
<1> QED
  BY <1>1, Inductive, PTL

\* Nobody uses a context that delete_context has freed, and it is freed once.
THEOREM ContextsAreSafe == Spec => []NoUseAfterFree
<1>1. ASSUME IInv PROVE NoUseAfterFree
  <2> SUFFICES ASSUME NEW s \in Service
               PROVE  /\ s \in slot \/ Reserved(s) \/ Callers(s) \cup Dispatchers(s) \cup Launchers(s) # {}
                           => context[s] = "live"
                      /\ \A t, u \in Thread :
                           /\ call[t].op \in {"mark", "free"} /\ call[t].ctx = s
                           /\ call[u].op \in {"mark", "free"} /\ call[u].ctx = s
                           => t = u /\ ref[s] = 0 /\ context[s] = "live"
    BY DEF NoUseAfterFree
  <2>1. RefCountExact /\ Life
    BY <1>1 DEF IInv, Core
  <2>2. s \in slot \/ Reserved(s) => ref[s] > 0
    <3>1. ref[s] = (IF s \in slot THEN 1 ELSE 0) + (IF Reserved(s) THEN 1 ELSE 0)
                     + Cardinality(Callers(s)) + Cardinality(Dispatchers(s)) + Cardinality(Launchers(s))
      BY <2>1 DEF RefCountExact
    <3>2. IsFiniteSet(Thread)
      BY ThreadAssumption
    <3>3. IsFiniteSet(Callers(s)) /\ IsFiniteSet(Dispatchers(s)) /\ IsFiniteSet(Launchers(s))
      BY <3>2, FS_Subset DEF Callers, Dispatchers, Launchers
    <3>4. /\ Cardinality(Callers(s)) \in Nat /\ Cardinality(Dispatchers(s)) \in Nat
          /\ Cardinality(Launchers(s)) \in Nat
      BY <3>3, FS_CardinalityType
    <3> QED
      BY <3>1, <3>4
  <2>3. Callers(s) \cup Dispatchers(s) \cup Launchers(s) # {} => ref[s] > 0
    BY <2>1, Referenced DEF Callers, Dispatchers, Launchers
  <2>4. ref[s] > 0 => context[s] = "live"
    BY <2>1 DEF Life, Alive, Ending
  <2> QED
    BY <2>1, <2>2, <2>3, <2>4 DEF Life, Alive, Ending
<1> QED
  BY <1>1, Inductive, PTL

\* A queue is with one thread or once in the global queue: a service is never
\* run by two workers (skynet_context_message_dispatch).
THEOREM QueuesHaveOneOwner == Spec => []OneDispatcher
<1>1. ASSUME IInv PROVE OneDispatcher
  <2>1. Single
    BY <1>1 DEF IInv, Core
  <2>2. \A t, u \in Thread : Owns(t) \cap Owns(u) # {} => t = u
    BY <2>1 DEF Single, Owns
  <2>3. \A t \in Thread : Owns(t) \cap Listed = {}
    BY <2>1 DEF Single, Owns
  <2>4. \A t \in Thread : cur[t] = new[t] => cur[t] = NoService
    BY <2>1 DEF Single
  <2> QED
    BY <2>1, <2>2, <2>3, <2>4 DEF Single, OneDispatcher, Injective
<1> QED
  BY <1>1, Inductive, PTL

\* No message waits where no worker looks (skynet_mq_push, skynet_mq_pop,
\* skynet_mq_mark_release).
THEOREM QueuesAreFound == Spec => []NoStrandedQueue
<1>1. ASSUME IInv PROVE NoStrandedQueue
  <2>1. Flags
    BY <1>1 DEF IInv, Core
  <2>2. \A s \in Service : Held(s) => \E t \in Thread : s \in Owns(t)
    BY ServiceAssumption DEF Held, Owns
  <2> QED
    BY <2>1, <2>2 DEF Flags, NoStrandedQueue
<1> QED
  BY <1>1, Inductive, PTL

\* The memory of a queue that _release freed is never touched again.
THEOREM QueuesAreSafe == Spec => []FreedQueueUnreachable
<1>1. ASSUME IInv PROVE FreedQueueUnreachable
  <2> SUFFICES ASSUME NEW s \in Service, mqueue[s] = "freed"
               PROVE  /\ queue[s] = <<>>
                      /\ ref[s] = 0
                      /\ s \notin Listed
                      /\ \A t \in Thread :
                           s \notin Owns(t) /\ ~ (call[t].ctx = s /\ call[t].op \in {"push", "mark"})
    BY DEF FreedQueueUnreachable
  <2>1. TypeOK /\ Flags /\ Life /\ RefCountExact
    BY <1>1 DEF IInv, Core
  <2>2. release[s] /\ ~ in_global[s]
    BY <2>1 DEF Flags
  <2>3. ref[s] = 0
    BY <2>1, <2>2 DEF Life, Alive, Ending, TypeOK
  <2>4. queue[s] = <<>> /\ s \notin Listed
    BY <2>1, <2>2 DEF Flags
  <2>5. \A t \in Thread : s \notin Owns(t)
    BY <2>1, <2>2 DEF Flags, Owns
  <2>6. \A t \in Thread : ~ (call[t].ctx = s /\ call[t].op \in {"push", "mark"})
    BY <2>1, <2>2, <2>3, Referenced DEF Life, Alive, Ending
  <2> QED
    BY <2>3, <2>4, <2>5, <2>6
<1> QED
  BY <1>1, Inductive, PTL

\* assert(ctx->init) in dispatch_message cannot fail.
THEOREM DispatchAfterInit == Spec => []InitBeforeDispatch
<1>1. IInv => InitBeforeDispatch
  BY DEF IInv, Core, Shape, Inits, InitBeforeDispatch
<1> QED
  BY <1>1, Inductive, PTL

\* The messages of a turn are there (the loop of skynet_context_message_dispatch).
THEOREM TurnsFit == Spec => []TurnFitsQueue
<1>1. IInv => TurnFitsQueue
  BY DEF IInv, Core, Shape, Turns, TurnFitsQueue, Thread
<1> QED
  BY <1>1, Inductive, PTL

\* The threads stop (CHECK_ABORT) only when every context is gone but the reserved one and
\* what that one is about to create.
THEOREM AbortsAtTheEnd == Spec => []AbortOnlyWhenAllGone
<1>1. ASSUME IInv, total = 0, ~ exited
      PROVE  /\ \A s \in Service : context[s] = "live" =>
                  s = remote \/ \E t \in Worker : cur[t] = remote /\ new[t] = s /\ pc[t] = "create"
             /\ \A t \in Worker :
                  pc[t] # "init" /\ (pc[t] \in {"callback", "create"} => cur[t] = remote)
  <2>1. TypeOK /\ Shape /\ Single /\ Flags /\ Life /\ RefCountExact /\ TotalExact
    BY <1>1 DEF IInv, Core
  <2>2. Counted = {}
    <3>1. IsFiniteSet(Counted)
      BY ServiceAssumption, FS_Subset DEF Counted
    <3> QED
      BY <1>1, <2>1, <3>1, FS_EmptySet DEF TotalExact
  <2>3. \A t \in Thread : pc[t] \in {"callback", "create", "init"} => cur[t] = remote
    <3> SUFFICES ASSUME NEW t \in Thread, pc[t] \in {"callback", "create", "init"}
                 PROVE  cur[t] = remote
      OBVIOUS
    <3>1. cur[t] \in Service
      BY <2>1 DEF TypeOK, Handle, Shape
    <3>2. ref[cur[t]] > 0 /\ mqueue[cur[t]] # "none"
      BY <2>1, <3>1, Referenced DEF Flags
    <3> QED
      BY <2>1, <2>2, <3>1, <3>2 DEF Life, Alive, Counted
  <2>4. \A t \in Thread : pc[t] # "init"
    <3> SUFFICES ASSUME NEW t \in Thread, pc[t] = "init"
                 PROVE  FALSE
      OBVIOUS
    <3>1. new[t] \in Service /\ cur[t] # NoService
      BY <2>1 DEF TypeOK, Handle, Shape
    <3>2. ref[new[t]] > 0 /\ mqueue[new[t]] # "none"
      BY <2>1, <3>1, Referenced DEF Flags
    <3>3. new[t] = remote
      BY <2>1, <2>2, <3>1, <3>2 DEF Life, Alive, Counted
    <3> QED
      BY <2>1, <2>3, <3>1, <3>3 DEF Single
  <2>5. ASSUME NEW s \in Service, context[s] = "live", s # remote
        PROVE  \E t \in Worker : cur[t] = remote /\ new[t] = s /\ pc[t] = "create"
    <3>1. mqueue[s] = "none"
      BY <2>2, <2>5 DEF Counted
    <3>2. PICK t \in Thread : new[t] = s /\ pc[t] = "create"
      BY <2>1, <2>5, <3>1 DEF Life, Alive
    <3>3. t \in Worker
      BY <2>1, <3>2 DEF Shape, Thread
    <3> QED
      BY <2>3, <3>2, <3>3
  <2> QED
    BY <2>3, <2>4, <2>5 DEF Thread
<1>2. IInv => AbortOnlyWhenAllGone
  BY <1>1 DEF AbortOnlyWhenAllGone
<1> QED
  BY <1>2, Inductive, PTL

=============================================================================
