------------------------- MODULE HandleStorageProofs -------------------------
(***************************************************************************)
(* What is registered is found, and growing the table keeps the slots of   *)
(* the contexts apart, unless it grows over a context whose handle is not  *)
(* stored yet: for any number of launching threads and contexts, any size  *)
(* of the table and any index it starts with, across growth and across     *)
(* the wrap of the index.  The binary search of the name table ends and    *)
(* finds what is there.  The lock that makes each function of the table    *)
(* one step excludes writers.                                              *)
(***************************************************************************)
EXTENDS HandleStorage, RWLock, FiniteSetTheorems, WellFoundedInduction, TLAPS

\* A context in the table is where its handle says, unless the table grew over it before
\* the handle was stored; and it has its handle unless that is being stored.
Typed ==
  /\ size \in Nat \ {0} /\ size <= MaxSize /\ Divides(size, MaxSize)
  /\ slot \in [0 .. size - 1 -> Context \cup {None}]
  /\ index \in Nat
  /\ given \in [Context -> Handles \cup {-1}]
  /\ handle \in [Context -> Handles]
  /\ gone \subseteq Context
  /\ storing \in [Launcher -> Context \cup {None}]

InSlot(i) == slot[i] \notin overgrown => Hash(given[slot[i]], size) = i
Placed ==
  /\ \A i \in 0 .. size - 1 : slot[i] # None => given[slot[i]] # -1 /\ InSlot(i)
  /\ \A c \in Context \ (gone \cup overgrown) : given[c] # -1 => slot[Hash(given[c], size)] = c

HasHandle ==
  /\ \A c \in Context : handle[c] # 0 => handle[c] = given[c]
  /\ \A c \in Context : given[c] # -1 => handle[c] = given[c] \/ \E l \in Launcher : storing[l] = c
  /\ \A c \in Context : given[c] = -1 => c \notin gone
  /\ \A l \in Launcher : storing[l] # None => given[storing[l]] # -1

IInv ==
  /\ Typed /\ HasHandle
  /\ ~ clash => Placed
  /\ clash => overgrown # {}

-----------------------------------------------------------------------------
(* Remainders *)

LEMMA Split ==
  ASSUME NEW n \in Nat \ {0}, NEW x \in Nat
  PROVE  /\ x % n \in 0 .. n - 1
         /\ \E q \in Nat : x = n * q + (x % n)
<1>1. \E q \in Nat, r \in 0 .. n - 1 : x = n * q + r /\ r = x % n
  OBVIOUS
<1> QED BY <1>1

LEMMA Unique ==
  ASSUME NEW n \in Nat \ {0}, NEW a \in Nat, NEW t \in 0 .. n - 1
  PROVE  (n * a + t) % n = t
<1> DEFINE x == n * a + t
           m == x % n
<1>1. x \in Nat
  OBVIOUS
<1>2. m \in 0 .. n - 1 /\ \E q \in Nat : n * a + t = n * q + m
  BY <1>1, Split
<1> HIDE DEF m
<1>3. PICK q \in Nat : n * a + t = n * q + m
  BY <1>2
<1>4. a = q
  <2>1. ASSUME a > q PROVE FALSE
    <3>1. PICK d \in Nat : a = q + 1 + d
      BY <2>1
    <3>2. n * a = n * q + n + n * d
      BY <3>1
    <3>3. n * d \in Nat /\ n * q \in Nat
      OBVIOUS
    <3> QED BY <1>2, <1>3, <3>2, <3>3
  <2>2. ASSUME q > a PROVE FALSE
    <3>1. PICK d \in Nat : q = a + 1 + d
      BY <2>2
    <3>2. n * q = n * a + n + n * d
      BY <3>1
    <3>3. n * d \in Nat /\ n * a \in Nat
      OBVIOUS
    <3> QED BY <1>2, <1>3, <3>2, <3>3
  <2> QED BY <2>1, <2>2
<1>5. m = t
  BY <1>2, <1>3, <1>4
<1> QED BY <1>5 DEF m

\* The slot of a handle in a smaller table follows from that in a larger one.
LEMMA Smaller ==
  ASSUME NEW n \in Nat \ {0}, NEW k \in Nat \ {0}, NEW x \in Nat
  PROVE  (x % (k * n)) % n = x % n
<1>1. k * n \in Nat \ {0}
  OBVIOUS
<1> DEFINE r == x % (k * n)
<1>2. r \in 0 .. k * n - 1 /\ \E q \in Nat : x = (k * n) * q + r
  BY <1>1, Split
<1> HIDE DEF r
<1>3. PICK q \in Nat : x = (k * n) * q + r
  BY <1>2
<1>4. r \in Nat
  BY <1>1, <1>2
<1>5. r % n \in 0 .. n - 1 /\ \E b \in Nat : r = n * b + (r % n)
  BY <1>4, Split
<1> DEFINE t == r % n
<1> HIDE DEF t
<1>6. PICK b \in Nat : r = n * b + t
  BY <1>5 DEF t
<1>7. t \in 0 .. n - 1
  BY <1>5 DEF t
<1>8. x = n * (k * q + b) + t /\ k * q + b \in Nat
  <2>1. (k * n) * q = n * (k * q)
    OBVIOUS
  <2>2. k * q \in Nat /\ n * (k * q) \in Nat /\ n * b \in Nat
    OBVIOUS
  <2>3. n * (k * q + b) = n * (k * q) + n * b
    OBVIOUS
  <2> QED BY <1>3, <1>6, <1>7, <2>1, <2>2, <2>3
<1>9. x % n = t
  BY <1>7, <1>8, Unique
<1> QED BY <1>9 DEF t, r

\* Going round by n from any start reaches every remainder of n.
LEMMA Reaches ==
  ASSUME NEW n \in Nat \ {0}, NEW x \in Nat, NEW j \in 0 .. n - 1
  PROVE  \E i \in 0 .. n - 1 : (x + i) % n = j
<1> DEFINE r == x % n
<1>1. r \in 0 .. n - 1 /\ \E q \in Nat : x = n * q + r
  BY Split
<1> HIDE DEF r
<1>2. PICK q \in Nat : x = n * q + r
  BY <1>1
<1>3. CASE j >= r
  <2>1. j - r \in 0 .. n - 1 /\ x + (j - r) = n * q + j
    BY <1>1, <1>2, <1>3
  <2>2. (x + (j - r)) % n = j
    BY <2>1, Unique
  <2> QED BY <2>1, <2>2
<1>4. CASE j < r
  <2>1. n * (q + 1) = n * q + n /\ n * q \in Nat
    OBVIOUS
  <2> DEFINE i == j - r + n
             a == q + 1
  <2>2. i \in 0 .. n - 1 /\ a \in Nat /\ x + i = n * a + j
    BY <1>1, <1>2, <1>4, <2>1
  <2> HIDE DEF i, a
  <2>3. (x + i) % n = j
    BY <2>2, Unique
  <2> QED BY <2>2, <2>3
<1> QED BY <1>1, <1>3, <1>4

\* A set of naturals that is not empty has a least element.
LEMMA Least ==
  ASSUME NEW T, T \subseteq Nat, T # {}
  PROVE  \E x \in T : \A y \in T : x <= y
<1> DEFINE R == {ss \in Nat \X Nat : ss[1] < ss[2]}
<1>1. IsWellFoundedOn(R, Nat)
  BY NatLessThanWellFounded DEF OpToRel
<1> HIDE DEF R
<1>2. PICK x \in T : \A y \in T : <<y, x>> \notin R
  BY <1>1, WFMin
<1>3. \A y \in T : ~ (y < x)
  BY <1>2 DEF R
<1> QED BY <1>3

-----------------------------------------------------------------------------
\* Handles, and the slots they hash to.
LEMMA CandidateIs ==
  ASSUME Typed, NEW i \in Nat
  PROVE  /\ Candidate(i) \in Handles
         /\ Hash(Candidate(i), size) = (index + i) % size
<1>1. PICK k \in 1 .. MaxSize : MaxSize = k * size
  BY DEF Typed, Divides
<1>2. MaxSize \in Nat \ {0} /\ k \in Nat \ {0} /\ size \in Nat \ {0} /\ index + i \in Nat
  BY <1>1, SizeAssumption DEF Typed
<1>3. (index + i) % MaxSize \in 0 .. MaxSize - 1
  BY <1>2, Split
<1>4. ((index + i) % (k * size)) % size = (index + i) % size
  BY <1>2, Smaller
<1> QED BY <1>1, <1>3, <1>4 DEF Candidate, Handles, Hash

LEMMA HashIs ==
  ASSUME Typed, NEW h \in Handles
  PROVE  Hash(h, size) \in 0 .. size - 1
<1>1. h \in Nat /\ size \in Nat \ {0}
  BY SizeAssumption DEF Typed, Handles
<1> QED BY <1>1, Split DEF Hash

\* With no free slot on the way the table is full.
LEMMA FullTable ==
  ASSUME Typed, FreeAt = {}
  PROVE  \A j \in 0 .. size - 1 : slot[j] # None
<1> SUFFICES ASSUME NEW j \in 0 .. size - 1 PROVE slot[j] # None
  OBVIOUS
<1>1. size \in Nat \ {0} /\ index \in Nat
  BY DEF Typed
<1>2. PICK i \in 0 .. size - 1 : (index + i) % size = j
  BY <1>1, Reaches
<1>0. i \in Nat
  BY <1>1
<1>3. Hash(Candidate(i), size) = j
  BY <1>0, <1>2, CandidateIs
<1> QED BY <1>3 DEF FreeAt

-----------------------------------------------------------------------------
LEMMA RegisterKeeps ==
  ASSUME IInv, ~ clash, NEW l \in Launcher, NEW c \in Context, Register(l, c)
  PROVE  IInv'
<1> DEFINE i == CHOOSE i \in FreeAt : \A j \in FreeAt : i <= j
           h == Candidate(i)
           p == Hash(h, size)
<1>1. i \in FreeAt
  <2>1. FreeAt \subseteq Nat /\ FreeAt # {}
    BY DEF FreeAt, Register, IInv, Typed
  <2>2. \E x \in FreeAt : \A y \in FreeAt : x <= y
    BY <2>1, Least
  <2> QED BY <2>2
<1>2. /\ slot' = [slot EXCEPT ![p] = c] /\ index' = h + 1 /\ given' = [given EXCEPT ![c] = h]
      /\ storing' = [storing EXCEPT ![l] = c] /\ storing[l] = None /\ given[c] = -1
      /\ UNCHANGED <<size, handle, gone, clash, overgrown>>
  BY DEF Register
<1> HIDE DEF i
<1>3. i \in Nat /\ slot[p] = None
  BY <1>1 DEF FreeAt, IInv, Typed
<1> HIDE DEF h
<1>4. h \in Handles /\ h \in Nat /\ h # -1
  BY <1>3, CandidateIs, SizeAssumption DEF h, IInv, Handles
<1>5. p \in 0 .. size - 1
  BY <1>4, HashIs DEF IInv
<1>6. Typed'
  BY <1>2, <1>4, <1>5 DEF IInv, Typed
<1>7. Placed'
  <2>1. \A j \in 0 .. size - 1 : slot'[j] = IF j = p THEN c ELSE slot[j]
    BY <1>2, <1>5 DEF IInv, Typed
  <2>2. \A d \in Context : given'[d] = IF d = c THEN h ELSE given[d]
    BY <1>2 DEF IInv, Typed
  <2> HIDE DEF p
  <2>3. ASSUME NEW j \in 0 .. size - 1, slot'[j] # None
        PROVE  given'[slot'[j]] # -1 /\ (slot'[j] \notin overgrown => Hash(given'[slot'[j]], size) = j)
    <3>1. CASE j = p
      BY <1>4, <2>1, <2>2, <3>1 DEF p
    <3>2. CASE j # p
      <4>1. /\ slot'[j] = slot[j] /\ slot[j] \in Context /\ given[slot[j]] # -1
            /\ slot[j] \notin overgrown => Hash(given[slot[j]], size) = j
        BY <2>1, <2>3, <3>2 DEF IInv, Typed, Placed, InSlot
      <4>2. slot[j] # c
        BY <1>2, <4>1
      <4> QED BY <2>2, <4>1, <4>2
    <3> QED BY <3>1, <3>2
  <2>4. ASSUME NEW d \in Context \ (gone \cup overgrown), given'[d] # -1
        PROVE  slot'[Hash(given'[d], size)] = d
    <3>1. CASE d = c
      BY <1>5, <2>1, <2>2, <3>1 DEF p
    <3>2. CASE d # c
      <4>1. given'[d] = given[d] /\ given[d] \in Handles /\ slot[Hash(given[d], size)] = d
        BY <2>2, <2>4, <3>2 DEF IInv, Typed, Placed
      <4>2. Hash(given[d], size) \in 0 .. size - 1 /\ Hash(given[d], size) # p
        BY <1>3, <4>1, HashIs, ContextAssumption DEF IInv
      <4> QED BY <2>1, <4>1, <4>2
    <3> QED BY <3>1, <3>2
  <2> QED BY <1>2, <2>3, <2>4 DEF Placed, InSlot
<1>8. HasHandle'
  <2>1. handle[c] = 0 /\ c \notin gone
    BY <1>2 DEF IInv, HasHandle, Typed, Handles
  <2>2. \A d \in Context : given'[d] = IF d = c THEN h ELSE given[d]
    BY <1>2 DEF IInv, Typed
  <2>3. \A k \in Launcher : storing'[k] = IF k = l THEN c ELSE storing[k]
    BY <1>2 DEF IInv, Typed
  <2>4. \A d \in Context : given'[d] # -1 => handle'[d] = given'[d] \/ \E k \in Launcher : storing'[k] = d
    <3> SUFFICES ASSUME NEW d \in Context, given'[d] # -1, handle'[d] # given'[d]
                 PROVE  \E k \in Launcher : storing'[k] = d
      OBVIOUS
    <3>1. CASE d = c
      BY <2>3, <3>1
    <3>2. CASE d # c
      <4>1. PICK k \in Launcher : storing[k] = d
        BY <1>2, <2>2, <3>2 DEF IInv, HasHandle
      <4>2. k # l
        BY <1>2, <4>1, ContextAssumption
      <4> QED BY <2>3, <4>1, <4>2
    <3> QED BY <3>1, <3>2
  <2>5. \A k \in Launcher : storing'[k] # None => given'[storing'[k]] # -1
    BY <1>4, <2>2, <2>3 DEF IInv, HasHandle, Typed
  <2> QED BY <1>2, <1>4, <2>1, <2>2, <2>4, <2>5 DEF IInv, HasHandle
<1> QED BY <1>2, <1>6, <1>7, <1>8 DEF IInv

\* The slot of a handle in the table twice as large says its slot in this one.
LEMMA HashTwice ==
  ASSUME Typed, NEW h \in Handles
  PROVE  Hash(h, 2 * size) \in 0 .. 2 * size - 1 /\ Hash(Hash(h, 2 * size), size) = Hash(h, size)
<1>1. h \in Nat /\ size \in Nat \ {0} /\ 2 * size \in Nat \ {0}
  BY SizeAssumption DEF Typed, Handles
<1>2. h % (2 * size) \in 0 .. 2 * size - 1
  BY <1>1, Split
<1>3. (h % (2 * size)) % size = h % size
  <2> DEFINE two == 2
  <2>1. two \in Nat \ {0}
    OBVIOUS
  <2> HIDE DEF two
  <2>2. (h % (two * size)) % size = h % size
    BY <1>1, <2>1, Smaller
  <2> QED BY <2>2 DEF two
<1> QED BY <1>2, <1>3 DEF Hash

\* A context whose handle is stored moves to the slot of its handle.
LEMMA MovedIs ==
  ASSUME IInv, ~ clash, NEW i \in 0 .. size - 1, slot[i] # None,
         slot[i] \notin overgrown, \A l \in Launcher : storing[l] # slot[i]
  PROVE  /\ slot[i] \in Context /\ given[slot[i]] \in Handles /\ given[slot[i]] # -1
         /\ Moved(i) = Hash(given[slot[i]], 2 * size)
         /\ Hash(Moved(i), size) = i
<1>1. slot[i] \in Context
  BY DEF IInv, Typed
<1>2. given[slot[i]] # -1 /\ given[slot[i]] \in Handles /\ Hash(given[slot[i]], size) = i
  BY <1>1 DEF IInv, Typed, Placed, InSlot
<1>3. handle[slot[i]] = given[slot[i]]
  BY <1>1, <1>2 DEF IInv, HasHandle
<1>4. Moved(i) = Hash(given[slot[i]], 2 * size)
  BY <1>3 DEF Moved
<1> QED BY <1>1, <1>2, <1>4, HashTwice DEF IInv

\* Growing moves every context to a slot of its own, if all their handles are stored: two
\* that had different slots of n have different slots of 2 n.
LEMMA ExpandKeeps ==
  ASSUME IInv, ~ clash, NEW l \in Launcher, Expand(l)
  PROVE  IInv'
<1> DEFINE P == 0 .. size - 1
<1>1. /\ FreeAt = {} /\ 2 * size <= MaxSize /\ size' = 2 * size
      /\ clash' = \E i, j \in DOMAIN slot : i # j /\ Moved(i) = Moved(j)
      /\ overgrown' = overgrown \cup ({storing[k] : k \in Launcher} \ {None})
      /\ slot' = [j \in 0 .. 2 * size - 1 |->
                    IF \E i \in DOMAIN slot : Moved(i) = j
                      THEN slot[CHOOSE i \in DOMAIN slot : Moved(i) = j] ELSE None]
      /\ UNCHANGED <<index, handle, given, gone, storing>>
  BY DEF Expand
<1>2. DOMAIN slot = P /\ size \in Nat \ {0} /\ 2 * size \in Nat \ {0}
  BY DEF IInv, Typed
<1>3. \A i \in P : slot[i] # None /\ slot[i] \in Context
  BY <1>1, FullTable DEF IInv, Typed
<1>4. ASSUME NEW i \in P, slot[i] \notin overgrown'
      PROVE  /\ given[slot[i]] \in Handles /\ given[slot[i]] # -1
             /\ Moved(i) = Hash(given[slot[i]], 2 * size)
             /\ Hash(Moved(i), size) = i
  <2>1. slot[i] \notin overgrown /\ \A k \in Launcher : storing[k] # slot[i]
    BY <1>1, <1>3, <1>4
  <2> QED BY <1>3, <2>1, MovedIs
<1> HIDE DEF P
<1>5. overgrown' = {} => ~ clash'
  BY <1>1, <1>2, <1>4
<1>6. slot' \in [0 .. size' - 1 -> Context \cup {None}]
  <2>1. ASSUME NEW j \in 0 .. 2 * size - 1 PROVE slot'[j] \in Context \cup {None}
    <3>1. CASE \E i \in P : Moved(i) = j
      <4>1. (CHOOSE i \in P : Moved(i) = j) \in P
        BY <3>1
      <4> QED BY <1>1, <1>2, <1>3, <3>1, <4>1
    <3>2. CASE ~ \E i \in P : Moved(i) = j
      BY <1>1, <1>2, <3>2
    <3> QED BY <3>1, <3>2
  <2>2. slot' = [j \in 0 .. 2 * size - 1 |-> slot'[j]]
    BY <1>1
  <2> QED BY <1>1, <2>1, <2>2
<1>7. Divides(size', MaxSize)
  <2>1. size \in 1 .. MaxSize - 1
    BY <1>1, <1>2, SizeAssumption
  <2> QED BY <1>1, <2>1, SizeAssumption DEF IInv, Typed
<1>8. Typed'
  BY <1>1, <1>2, <1>6, <1>7 DEF IInv, Typed
<1>9. ASSUME ~ clash' PROVE Placed'
  <2>1. \A i, j \in P : Moved(i) = Moved(j) => i = j
    BY <1>1, <1>2, <1>9
  <2>2. ASSUME NEW i \in P, Moved(i) \in 0 .. 2 * size - 1
        PROVE  slot'[Moved(i)] = slot[i]
    <3>1. (CHOOSE k \in P : Moved(k) = Moved(i)) = i
      BY <2>1
    <3> QED BY <1>1, <1>2, <2>2, <3>1
  <2>3. ASSUME NEW j \in 0 .. 2 * size - 1, slot'[j] # None
        PROVE  \E i \in P : Moved(i) = j /\ slot'[j] = slot[i]
    BY <1>1, <1>2, <2>2, <2>3
  <2>4. ASSUME NEW j \in 0 .. 2 * size - 1, slot'[j] # None
        PROVE  given[slot'[j]] # -1 /\ (slot'[j] \notin overgrown' => Hash(given[slot'[j]], 2 * size) = j)
    <3>1. PICK i \in P : Moved(i) = j /\ slot'[j] = slot[i]
      BY <2>3, <2>4
    <3>2. given[slot[i]] # -1
      BY <1>3 DEF IInv, Placed, P
    <3>3. slot[i] \notin overgrown' => Moved(i) = Hash(given[slot[i]], 2 * size)
      BY <1>4
    <3> QED BY <3>1, <3>2, <3>3
  <2>5. ASSUME NEW c \in Context \ (gone \cup overgrown'), given[c] # -1
        PROVE  slot'[Hash(given[c], 2 * size)] = c
    <3>1. c \notin overgrown
      BY <1>1, <2>5
    <3>2. slot[Hash(given[c], size)] = c /\ given[c] \in Handles
      BY <2>5, <3>1 DEF IInv, Typed, Placed
    <3>3. Hash(given[c], size) \in P
      BY <3>2, HashIs DEF IInv, P
    <3>4. Moved(Hash(given[c], size)) = Hash(given[c], 2 * size)
      BY <1>4, <2>5, <3>2, <3>3
    <3>5. Moved(Hash(given[c], size)) \in 0 .. 2 * size - 1
      BY <3>2, <3>4, HashTwice DEF IInv
    <3> QED BY <2>2, <3>2, <3>3, <3>4, <3>5
  <2> QED BY <1>1, <2>4, <2>5 DEF Placed, InSlot
<1>10. HasHandle'
  BY <1>1 DEF IInv, HasHandle
<1> QED BY <1>5, <1>8, <1>9, <1>10 DEF IInv

LEMMA StoreKeeps ==
  ASSUME IInv, ~ clash, NEW l \in Launcher, Store(l)
  PROVE  IInv'
<1> DEFINE c == storing[l]
<1>1. /\ c \in Context /\ given[c] # -1 /\ given[c] \in Handles
      /\ handle' = [handle EXCEPT ![c] = given[c]] /\ storing' = [storing EXCEPT ![l] = None]
      /\ UNCHANGED <<size, slot, index, given, gone, clash, overgrown>>
  BY DEF Store, Stored, table, IInv, Typed, HasHandle
<1> HIDE DEF c
<1>2. Typed'
  BY <1>1 DEF IInv, Typed
<1>3. Placed'
  BY <1>1 DEF IInv, Placed, InSlot
<1>4. HasHandle'
  <2>1. \A d \in Context : handle'[d] = IF d = c THEN given[c] ELSE handle[d]
    BY <1>1 DEF IInv, Typed
  <2>2. \A k \in Launcher : storing'[k] = IF k = l THEN None ELSE storing[k]
    BY <1>1 DEF IInv, Typed
  <2>3. \A d \in Context : given[d] # -1 => handle'[d] = given[d] \/ \E k \in Launcher : storing'[k] = d
    <3> SUFFICES ASSUME NEW d \in Context, given[d] # -1, d # c, handle[d] # given[d]
                 PROVE  \E k \in Launcher : storing'[k] = d
      BY <2>1
    <3>1. PICK k \in Launcher : storing[k] = d
      BY DEF IInv, HasHandle
    <3> QED BY <2>2, <3>1 DEF c
  <2> QED BY <1>1, <2>1, <2>2, <2>3 DEF IInv, HasHandle
<1> QED BY <1>1, <1>2, <1>3, <1>4 DEF IInv

LEMMA RetireKeeps ==
  ASSUME IInv, ~ clash, NEW h \in Known, Retire(h)
  PROVE  IInv'
<1> DEFINE d == Lookup(h)
           p == Hash(h, size)
<1>1. h \in Handles /\ h # 0
  BY DEF Known, IInv, Typed, HasHandle
<1>2. p \in 0 .. size - 1
  BY <1>1, HashIs DEF IInv
<1>3. d \in Context /\ slot[p] = d /\ handle[d] = h /\ given[d] = h
  BY <1>1, <1>2 DEF Retire, Lookup, IInv, Typed, HasHandle
<1>4. /\ slot' = [slot EXCEPT ![p] = None] /\ gone' = gone \cup {d}
      /\ UNCHANGED <<size, index, handle, given, storing, clash, overgrown>>
  BY DEF Retire
<1> HIDE DEF d, p
<1>5. Typed'
  BY <1>2, <1>3, <1>4 DEF IInv, Typed
<1>6. Placed'
  <2>1. \A j \in 0 .. size - 1 : slot'[j] = IF j = p THEN None ELSE slot[j]
    BY <1>2, <1>4 DEF IInv, Typed
  <2>2. ASSUME NEW c \in Context \ (gone' \cup overgrown), given[c] # -1
        PROVE  slot'[Hash(given[c], size)] = c
    <3>1. slot[Hash(given[c], size)] = c /\ given[c] \in Handles /\ c # d
      BY <1>4, <2>2 DEF IInv, Typed, Placed
    <3>2. Hash(given[c], size) \in 0 .. size - 1 /\ Hash(given[c], size) # p
      BY <1>3, <3>1, HashIs DEF IInv
    <3> QED BY <2>1, <3>1, <3>2
  <2>3. ASSUME NEW j \in 0 .. size - 1, slot'[j] # None
        PROVE  given[slot'[j]] # -1 /\ (slot'[j] \notin overgrown => Hash(given[slot'[j]], size) = j)
    BY <2>1, <2>3 DEF IInv, Placed, InSlot
  <2> QED BY <1>4, <2>2, <2>3 DEF Placed, InSlot
<1>7. HasHandle'
  BY <1>1, <1>3, <1>4, SizeAssumption DEF IInv, HasHandle, Handles
<1> QED BY <1>4, <1>5, <1>6, <1>7 DEF IInv

-----------------------------------------------------------------------------
LEMMA InitInv == Init => IInv
<1> SUFFICES ASSUME Init PROVE IInv
  OBVIOUS
<1>1. FirstSize <= MaxSize
  <2>1. PICK k \in 1 .. MaxSize : MaxSize = k * FirstSize
    BY SizeAssumption DEF Divides
  <2>2. k \in Nat /\ k >= 1 /\ FirstSize \in Nat
    BY <2>1, SizeAssumption
  <2>3. k * FirstSize >= FirstSize
    BY <2>2
  <2> QED BY <2>1, <2>3
<1>2. Typed
  BY <1>1, SizeAssumption, IndexAssumption DEF Init, Typed, Handles
<1>3. Placed /\ HasHandle
  BY DEF Init, Placed, HasHandle
<1> QED BY <1>2, <1>3 DEF Init, IInv

LEMMA StepInv == IInv /\ [Next]_vars => IInv'
<1> SUFFICES ASSUME IInv, [Next]_vars PROVE IInv'
  OBVIOUS
<1>1. ASSUME UNCHANGED <<table, handle, given, gone, storing, clash, overgrown>> PROVE IInv'
  BY <1>1 DEF table, IInv, Typed, Placed, InSlot, HasHandle
<1>2. ASSUME NEW h, NEW n, NameHandle(h, n) PROVE IInv'
  BY <1>1, <1>2 DEF NameHandle
<1>3. CASE UNCHANGED vars
  BY <1>1, <1>3 DEF vars
<1> QED
  BY <1>2, <1>3, RegisterKeeps, ExpandKeeps, StoreKeeps, RetireKeeps DEF Next

\* Where the contexts are, for any number of launching threads: at the slot of their
\* handle, or the table grew over them before their handle was stored.
THEOREM Inductive == Spec => []IInv
BY InitInv, StepInv, PTL DEF Spec

\* skynet_handle_grab finds a registered context under its handle until it is retired,
\* while the table grows over it and the index wraps, unless the table grew between its
\* registration and the store of its handle.
THEOREM FoundUntilRetired == Spec => []RegisteredIsFound
<1>1. IInv => RegisteredIsFound
  BY ContextAssumption, SizeAssumption DEF IInv, Typed, Placed, HasHandle, RegisteredIsFound, Lookup, Handles
<1> QED BY <1>1, Inductive, PTL

\* The assertion of the expansion in skynet_handle_register fails only if the table has
\* grown over a context whose handle was not stored yet, however many threads launch.
THEOREM SlotsStayApart == Spec => []GrowingKeepsSlotsApart
<1>1. IInv => GrowingKeepsSlotsApart
  BY DEF IInv, GrowingKeepsSlotsApart
<1> QED BY <1>1, Inductive, PTL

-----------------------------------------------------------------------------
(* The name table *)

\* The entries, sorted by name and without duplicates.
Entry == [name : Name, handle : Int]
Sorted(s) == \A i, j \in 1 .. Len(s) : i < j => s[i].name < s[j].name

NamesInv ==
  /\ size \in Nat \ {0} /\ index \in Nat
  /\ given \in [Context -> Int]
  /\ name \in Seq(Entry) /\ Sorted(name)

\* One round of the binary search of s for n, and the ranges it is about.
Ranges(s) == (0 .. Len(s)) \X (-2 .. Len(s) - 1)
Mid(r) == (r[1] + r[2]) \div 2
Narrowed(s, n, r) == IF s[Mid(r) + 1].name < n THEN <<Mid(r) + 1, r[2]>> ELSE <<r[1], Mid(r) - 1>>
Round(f, s, n, r) ==
  IF r[1] > r[2] THEN [found |-> FALSE, at |-> r[1]]
  ELSE IF s[Mid(r) + 1].name = n THEN [found |-> TRUE, at |-> Mid(r)]
  ELSE f[Narrowed(s, n, r)]

\* A range that has been narrowed is a shorter range, around the middle that was left out.
LEMMA NarrowedIsShorter ==
  ASSUME NEW s, Len(s) \in Nat, NEW n, NEW r \in Ranges(s), r[1] <= r[2]
  PROVE  /\ Mid(r) \in r[1] .. r[2]
         /\ Narrowed(s, n, r) \in Ranges(s)
         /\ Narrowed(s, n, r)[2] - Narrowed(s, n, r)[1] < r[2] - r[1]
<1>1. r[1] \in 0 .. Len(s) /\ r[2] \in -2 .. Len(s) - 1
  BY DEF Ranges
<1>2. Mid(r) \in r[1] .. r[2]
  BY <1>1 DEF Mid
<1>3. <<Mid(r) + 1, r[2]>> \in Ranges(s) /\ <<r[1], Mid(r) - 1>> \in Ranges(s)
  BY <1>1, <1>2 DEF Ranges
<1> QED BY <1>1, <1>2, <1>3 DEF Narrowed

\* The search of the ranges that are shorter than m.
Shorter(s, m) == {r \in Ranges(s) : r[2] - r[1] < m - Len(s) - 2}
Searching(f, s, n, D) == f = [r \in D |-> Round(f, s, n, r)]

\* The loop ends for every range: a range is decided by a shorter one.
LEMMA SearchEnds ==
  ASSUME NEW s, Len(s) \in Nat, NEW n
  PROVE  \E f : Searching(f, s, n, Ranges(s))
<1> DEFINE T == {m \in Nat : ~ \E f : Searching(f, s, n, Shorter(s, m))}
<1>1. ASSUME T # {} PROVE FALSE
  <2>1. PICK m \in T : \A k \in T : m <= k
    <3> HIDE DEF T
    <3>1. T \subseteq Nat
      BY DEF T
    <3> QED BY <1>1, <3>1, Least
  <2>2. m # 0
    <3> DEFINE f == [r \in {} |-> Round(<<>>, s, n, r)]
    <3>1. \A r \in Ranges(s) : r[1] \in 0 .. Len(s) /\ r[2] \in -2 .. Len(s) - 1
      BY DEF Ranges
    <3>2. Shorter(s, 0) = {}
      BY <3>1 DEF Shorter
    <3>3. Searching(f, s, n, {})
      BY DEF Searching
    <3> HIDE DEF f
    <3> QED BY <2>1, <3>2, <3>3
  <2> DEFINE k == m - 1
             D == Shorter(s, k)
             E == Shorter(s, m)
  <2>3. k \in Nat /\ k < m
    BY <2>1, <2>2
  <2>4. PICK f : Searching(f, s, n, D)
    <3>1. k \notin T
      BY <2>1, <2>3
    <3> QED BY <2>3, <3>1
  <2> DEFINE g == [r \in E |-> IF r \in D THEN f[r] ELSE Round(f, s, n, r)]
  <2>5. \A r \in Ranges(s) : r[1] \in Int /\ r[2] \in Int
    BY DEF Ranges
  <2>6. D \subseteq E
    BY <2>3, <2>5 DEF Shorter
  <2>7. ASSUME NEW r \in E, r[1] <= r[2] PROVE Narrowed(s, n, r) \in D
    <3>1. r \in Ranges(s) /\ r[2] - r[1] < m - Len(s) - 2
      BY <2>7 DEF Shorter
    <3> DEFINE q == Narrowed(s, n, r)
    <3>2. q \in Ranges(s) /\ q[2] - q[1] < r[2] - r[1]
      BY <2>7, <3>1, NarrowedIsShorter
    <3> HIDE DEF q
    <3>3. q[2] - q[1] < k - Len(s) - 2
      BY <2>1, <2>3, <2>5, <3>1, <3>2
    <3>4. q \in D
      BY <3>2, <3>3 DEF Shorter
    <3> QED BY <3>4 DEF q
  <2> HIDE DEF D, E, k
  <2>8. \A r \in D : f[r] = Round(f, s, n, r) /\ g[r] = f[r]
    BY <2>4, <2>6 DEF Searching
  <2>9. \A r \in E : g[r] = Round(f, s, n, r)
    BY <2>8
  <2>10. \A r \in E : Round(g, s, n, r) = Round(f, s, n, r)
    <3> SUFFICES ASSUME NEW r \in E PROVE Round(g, s, n, r) = Round(f, s, n, r)
      OBVIOUS
    <3>1. CASE r[1] <= r[2]
      <4>1. g[Narrowed(s, n, r)] = f[Narrowed(s, n, r)]
        BY <2>7, <2>8, <3>1
      <4> HIDE DEF g
      <4> QED BY <4>1 DEF Round
    <3>2. CASE r[1] > r[2]
      <4> HIDE DEF g
      <4> QED BY <3>2 DEF Round
    <3>3. r[1] \in Int /\ r[2] \in Int
      BY <2>5 DEF E, Shorter
    <3> QED BY <3>1, <3>2, <3>3
  <2>11. Searching(g, s, n, E)
    BY <2>9, <2>10 DEF Searching
  <2> HIDE DEF g
  <2>12. m \notin T
    BY <2>11 DEF E
  <2> QED BY <2>1, <2>12
<1> DEFINE M == 2 * Len(s) + 4
<1>2. M \in Nat /\ M \notin T
  BY <1>1
<1>3. \A r \in Ranges(s) : r[1] \in 0 .. Len(s) /\ r[2] \in -2 .. Len(s) - 1
  BY DEF Ranges
<1>4. Shorter(s, M) = Ranges(s)
  BY <1>3 DEF Shorter
<1> HIDE DEF M
<1> QED BY <1>2, <1>4

\* Where the name is, or where it belongs.
Located(s, n, r) ==
  /\ r.found => r.at \in 0 .. Len(s) - 1 /\ s[r.at + 1].name = n
  /\ ~ r.found => /\ r.at \in 0 .. Len(s)
                  /\ \A i \in 1 .. r.at : s[i].name < n
                  /\ \A i \in r.at + 1 .. Len(s) : n < s[i].name

\* The range still holds the name, if it is in the table.
Within(s, n, r) ==
  /\ r \in Ranges(s)
  /\ r[1] <= r[2] + 1
  /\ \A i \in 1 .. r[1] : s[i].name < n
  /\ \A i \in r[2] + 2 .. Len(s) : n < s[i].name

LEMMA NarrowedHolds ==
  ASSUME NEW s \in Seq(Entry), Sorted(s), NEW n \in Name, NEW r, Within(s, n, r), r[1] <= r[2],
         s[Mid(r) + 1].name # n
  PROVE  Within(s, n, Narrowed(s, n, r))
<1> DEFINE m == Mid(r)
<1>1. Len(s) \in Nat /\ r[1] \in 0 .. Len(s) /\ r[2] \in -2 .. Len(s) - 1
  BY DEF Within, Ranges
<1>2. m \in r[1] .. r[2] /\ Narrowed(s, n, r) \in Ranges(s)
  BY <1>1, NarrowedIsShorter DEF Within
<1>3. \A i \in 1 .. Len(s) : s[i].name \in Int
  <2> SUFFICES ASSUME NEW i \in 1 .. Len(s) PROVE s[i].name \in Int
    OBVIOUS
  <2>1. s[i] \in Entry
    OBVIOUS
  <2>2. s[i].name \in Name
    BY <2>1 DEF Entry
  <2> QED BY <2>2, NameAssumption
<1>4. n \in Int /\ m + 1 \in 1 .. Len(s) /\ s[m + 1].name \in Int /\ s[m + 1].name # n
  <2>1. m + 1 \in 1 .. Len(s)
    BY <1>1, <1>2
  <2> HIDE DEF m
  <2> QED BY <1>3, <2>1, NameAssumption DEF m
<1> HIDE DEF m
<1>5. CASE s[m + 1].name < n
  <2>1. Narrowed(s, n, r) = <<m + 1, r[2]>>
    BY <1>5 DEF Narrowed, m
  <2>2. \A i \in 1 .. m + 1 : s[i].name < n
    <3> SUFFICES ASSUME NEW i \in 1 .. m + 1, i # m + 1 PROVE s[i].name < n
      BY <1>5
    <3>1. i \in 1 .. Len(s) /\ i < m + 1
      BY <1>1, <1>4
    <3>2. s[i].name < s[m + 1].name
      BY <1>4, <3>1 DEF Sorted
    <3> QED BY <1>3, <1>4, <1>5, <3>1, <3>2
  <2>3. m + 1 <= r[2] + 1
    BY <1>1, <1>2
  <2> QED BY <1>1, <1>2, <2>1, <2>2, <2>3 DEF Within
<1>6. CASE ~ (s[m + 1].name < n)
  <2>1. Narrowed(s, n, r) = <<r[1], m - 1>>
    BY <1>6 DEF Narrowed, m
  <2>2. \A i \in m + 1 .. Len(s) : n < s[i].name
    <3> SUFFICES ASSUME NEW i \in m + 1 .. Len(s), i # m + 1 PROVE n < s[i].name
      BY <1>4, <1>6
    <3>1. i \in 1 .. Len(s) /\ m + 1 < i
      BY <1>1, <1>4
    <3>2. s[m + 1].name < s[i].name
      BY <1>4, <3>1 DEF Sorted
    <3> QED BY <1>3, <1>4, <1>6, <3>1, <3>2
  <2>3. r[1] <= (m - 1) + 1 /\ (m - 1) + 2 = m + 1
    BY <1>1, <1>2
  <2> QED BY <1>1, <1>2, <2>1, <2>2, <2>3 DEF Within
<1> QED BY <1>5, <1>6

LEMMA RoundLocates ==
  ASSUME NEW s \in Seq(Entry), Sorted(s), NEW n \in Name, NEW f, Searching(f, s, n, Ranges(s)),
         NEW range, Within(s, n, range)
  PROVE  Located(s, n, f[range])
<1> DEFINE Bad == {r \in Ranges(s) : Within(s, n, r) /\ ~ Located(s, n, f[r])}
           T == {r[2] - r[1] + Len(s) + 2 : r \in Bad}
<1>1. Len(s) \in Nat /\ \A r \in Ranges(s) : r[1] \in 0 .. Len(s) /\ r[2] \in -2 .. Len(s) - 1
  BY DEF Ranges
<1>2. ASSUME Bad # {} PROVE FALSE
  <2> HIDE DEF Bad
  <2>1. T \subseteq Nat /\ T # {}
    BY <1>1, <1>2 DEF Bad
  <2>2. PICK x \in T : \A y \in T : x <= y
    <3> HIDE DEF T
    <3> QED BY <2>1, Least
  <2>3. PICK r \in Bad : x = r[2] - r[1] + Len(s) + 2
    BY <2>2
  <2>4. r \in Ranges(s) /\ Within(s, n, r) /\ ~ Located(s, n, f[r]) /\ f[r] = Round(f, s, n, r)
    BY <2>3 DEF Bad, Searching
  <2>5. r[1] \in 0 .. Len(s) /\ r[2] \in -2 .. Len(s) - 1
    BY <1>1, <2>4
  <2>6. CASE r[1] > r[2]
    <3>1. f[r] = [found |-> FALSE, at |-> r[1]] /\ r[2] + 2 = r[1] + 1
      BY <2>4, <2>5, <2>6 DEF Round, Within
    <3>2. ~ f[r].found /\ f[r].at = r[1]
      BY <3>1
    <3> QED BY <2>4, <2>5, <3>1, <3>2 DEF Located, Within
  <2>7. CASE r[1] <= r[2] /\ s[Mid(r) + 1].name = n
    <3>1. f[r] = [found |-> TRUE, at |-> Mid(r)]
      BY <2>4, <2>5, <2>7 DEF Round
    <3>2. f[r].found = TRUE /\ f[r].at = Mid(r)
      BY <3>1
    <3>3. Mid(r) \in r[1] .. r[2]
      BY <1>1, <2>4, <2>7, NarrowedIsShorter
    <3>4. Mid(r) \in 0 .. Len(s) - 1
      BY <2>5, <3>3
    <3> QED BY <2>4, <2>7, <3>2, <3>4 DEF Located
  <2>8. CASE r[1] <= r[2] /\ s[Mid(r) + 1].name # n
    <3> DEFINE q == Narrowed(s, n, r)
    <3>1. f[r] = f[q]
      BY <2>4, <2>5, <2>8 DEF Round
    <3>2. Within(s, n, q)
      BY <2>4, <2>8, NarrowedHolds
    <3>3. q[2] - q[1] < r[2] - r[1]
      BY <1>1, <2>4, <2>8, NarrowedIsShorter
    <3> HIDE DEF q
    <3>4. q \in Ranges(s)
      BY <3>2 DEF Within
    <3>5. q \in Bad
      BY <2>4, <3>1, <3>2, <3>4 DEF Bad
    <3>6. q[2] - q[1] + Len(s) + 2 \in T
      BY <3>5
    <3>7. q[1] \in Int /\ q[2] \in Int
      BY <1>1, <3>4
    <3>8. q[2] - q[1] + Len(s) + 2 < x
      BY <1>1, <2>3, <2>5, <3>3, <3>7
    <3>9. x <= q[2] - q[1] + Len(s) + 2
      BY <2>2, <3>6
    <3>10. x \in Int
      BY <2>1
    <3> HIDE DEF T
    <3> QED BY <1>1, <3>7, <3>8, <3>9, <3>10
  <2> QED BY <2>5, <2>6, <2>7, <2>8
<1>3. range \in Ranges(s)
  BY DEF Within
<1>4. range \notin Bad
  BY <1>2
<1> QED BY <1>3, <1>4

\* The binary search finds a name, or the place where it belongs.
LEMMA SearchLocates ==
  ASSUME NEW s \in Seq(Entry), Sorted(s), NEW n \in Name
  PROVE  Located(s, n, Search(s, n))
<1> DEFINE f == CHOOSE f : Searching(f, s, n, Ranges(s))
           range == <<0, Len(s) - 1>>
<1>1. Len(s) \in Nat
  OBVIOUS
<1>2. Searching(f, s, n, Ranges(s))
  BY <1>1, SearchEnds
<1>3. Search(s, n) = f[range]
  BY DEF Search, LastIndex, Searching, Ranges, Round, Narrowed, Mid
<1> HIDE DEF f
<1>4. range[1] = 0 /\ range[2] = Len(s) - 1
  OBVIOUS
<1>5. range \in Ranges(s)
  BY <1>1 DEF Ranges
<1> HIDE DEF range
<1>6. Within(s, n, range)
  BY <1>1, <1>4, <1>5 DEF Within
<1>7. Located(s, n, f[range])
  BY <1>2, <1>6, RoundLocates
<1> QED BY <1>3, <1>7

\* What is sorted is found, and nothing else.
LEMMA SortedIsFound == NamesInv => NamesFound
<1> SUFFICES ASSUME NamesInv PROVE NamesFound
  OBVIOUS
<1>1. name \in Seq(Entry) /\ Sorted(name) /\ DOMAIN name = 1 .. Len(name) /\ Len(name) \in Nat
  BY DEF NamesInv
<1>2. ASSUME NEW n \in Name PROVE Search(name, n).found <=> \E e \in ToSet(name) : e.name = n
  <2> DEFINE r == Search(name, n)
  <2>1. Located(name, n, r)
    BY <1>1, SearchLocates
  <2> HIDE DEF r
  <2>2. CASE r.found
    <3>1. r.at + 1 \in DOMAIN name /\ name[r.at + 1].name = n
      BY <1>1, <2>1, <2>2 DEF Located
    <3> QED BY <2>2, <3>1 DEF ToSet, r
  <2>3. CASE ~ r.found
    <3>1. ASSUME NEW i \in DOMAIN name, name[i].name = n PROVE FALSE
      <4>1. i \in 1 .. r.at \/ i \in r.at + 1 .. Len(name)
        BY <1>1, <2>1, <2>3 DEF Located
      <4>2. name[i].name < n \/ n < name[i].name
        BY <2>1, <2>3, <4>1 DEF Located
      <4> QED BY <3>1, <4>2, NameAssumption
    <3> QED BY <2>3, <3>1 DEF ToSet, r
  <2> QED BY <2>2, <2>3
<1> QED BY <1>1, <1>2 DEF NamesFound, Sorted

\* A name that is not there is put where the search stopped.
LEMMA InsertKeeps ==
  ASSUME NEW s \in Seq(Entry), Sorted(s), NEW e \in Entry, NEW at \in 0 .. Len(s),
         \A i \in 1 .. at : s[i].name < e.name,
         \A i \in at + 1 .. Len(s) : e.name < s[i].name
  PROVE  InsertAt(s, at + 1, e) \in Seq(Entry) /\ Sorted(InsertAt(s, at + 1, e))
<1> DEFINE left == SubSeq(s, 1, at)
           right == SubSeq(s, at + 1, Len(s))
           q == left \o <<e>> \o right
<1>1. left \in Seq(Entry) /\ Len(left) = at /\ \A i \in 1 .. at : left[i] = s[i]
  OBVIOUS
<1>2. right \in Seq(Entry) /\ Len(right) = Len(s) - at /\ \A i \in 1 .. Len(s) - at : right[i] = s[at + i]
  OBVIOUS
<1>3. InsertAt(s, at + 1, e) = q
  <2>1. (at + 1) - 1 = at
    OBVIOUS
  <2> QED BY <2>1 DEF InsertAt
<1> HIDE DEF left, right
<1>4. q \in Seq(Entry) /\ Len(q) = Len(s) + 1
  BY <1>1, <1>2
<1>5. \A i \in 1 .. Len(s) + 1 : q[i] = IF i <= at THEN s[i] ELSE IF i = at + 1 THEN e ELSE s[i - 1]
  <2> SUFFICES ASSUME NEW i \in 1 .. Len(s) + 1
               PROVE  q[i] = IF i <= at THEN s[i] ELSE IF i = at + 1 THEN e ELSE s[i - 1]
    OBVIOUS
  <2>1. CASE i <= at
    BY <1>1, <1>2, <2>1
  <2>2. CASE i = at + 1
    BY <1>1, <1>2, <2>2
  <2>3. CASE i > at + 1
    <3>1. q[i] = right[i - at - 1] /\ i - at - 1 \in 1 .. Len(s) - at
      BY <1>1, <1>2, <2>3
    <3>2. at + (i - at - 1) = i - 1 /\ ~ (i <= at) /\ i # at + 1
      BY <2>3
    <3>3. right[i - at - 1] = s[at + (i - at - 1)]
      BY <1>2, <3>1
    <3> QED BY <3>1, <3>2, <3>3
  <2>4. i <= at \/ i = at + 1 \/ i > at + 1
    OBVIOUS
  <2> HIDE DEF q
  <2> QED BY <2>1, <2>2, <2>3, <2>4
<1> HIDE DEF q
<1>6. e.name \in Int /\ \A i \in 1 .. Len(s) : s[i].name \in Int
  <2>1. \A d \in Entry : d.name \in Int
    BY NameAssumption DEF Entry
  <2>2. \A i \in 1 .. Len(s) : s[i] \in Entry
    OBVIOUS
  <2> QED BY <2>1, <2>2
<1>7. Sorted(q)
  <2> SUFFICES ASSUME NEW i \in 1 .. Len(s) + 1, NEW j \in 1 .. Len(s) + 1, i < j
               PROVE  q[i].name < q[j].name
    BY <1>4 DEF Sorted
  <2>1. CASE j <= at
    BY <1>5, <2>1 DEF Sorted
  <2>2. CASE j = at + 1
    BY <1>5, <2>2
  <2>3. CASE j > at + 1
    <3>1. q[j] = s[j - 1] /\ j - 1 \in at + 1 .. Len(s)
      BY <1>5, <2>3
    <3>2. CASE i <= at
      <4>1. q[i] = s[i] /\ i \in 1 .. Len(s)
        BY <1>5, <3>2
      <4> QED BY <2>3, <3>1, <3>2, <4>1 DEF Sorted
    <3>3. CASE i = at + 1
      BY <1>5, <3>1, <3>3
    <3>4. CASE i > at + 1
      <4>1. q[i] = s[i - 1] /\ i - 1 \in 1 .. Len(s) /\ j - 1 \in 1 .. Len(s) /\ i - 1 < j - 1
        BY <1>5, <2>3, <3>4
      <4> QED BY <3>1, <4>1 DEF Sorted
    <3> QED BY <3>2, <3>3, <3>4
  <2> QED BY <2>1, <2>2, <2>3
<1> QED BY <1>3, <1>4, <1>7

-----------------------------------------------------------------------------
\* How many of the kept entries are among the first i.
Below(h, i) == {k \in Kept(h) : k <= i}

\* Each place of the table that is left is taken by one of the entries that are kept.
LEMMA PlaceIsTaken ==
  ASSUME NamesInv, NEW h, NEW j \in 1 .. Cardinality(Kept(h))
  PROVE  \E i \in Kept(h) : Cardinality(Below(h, i)) = j
<1> DEFINE n == Len(name)
           Count(i) == Cardinality(Below(h, i))
           T == {i \in 0 .. n : Count(i) >= j}
<1>1. n \in Nat /\ Kept(h) \subseteq 1 .. n
  BY DEF Kept, NamesInv
<1>2. IsFiniteSet(Kept(h))
  <2>1. IsFiniteSet(1 .. n)
    BY <1>1, FS_Interval
  <2> QED BY <1>1, <2>1, FS_Subset
<1>3. \A i \in 0 .. n : IsFiniteSet(Below(h, i)) /\ Count(i) \in Nat
  <2> SUFFICES ASSUME NEW i \in 0 .. n PROVE IsFiniteSet(Below(h, i)) /\ Count(i) \in Nat
    OBVIOUS
  <2>1. Below(h, i) \subseteq Kept(h)
    BY DEF Below
  <2> QED BY <1>2, <2>1, FS_Subset, FS_CardinalityType
<1>4. n \in T
  <2>1. Below(h, n) = Kept(h)
    BY <1>1 DEF Below
  <2>2. Cardinality(Kept(h)) \in Nat
    BY <1>2, FS_CardinalityType
  <2> QED BY <1>1, <2>1, <2>2
<1>5. PICK i \in T : \A k \in T : i <= k
  <2> HIDE DEF T
  <2>1. T \subseteq Nat
    BY <1>1 DEF T
  <2> QED BY <1>4, <2>1, Least
<1>6. i # 0
  <2>1. Below(h, 0) = {}
    BY <1>1 DEF Below
  <2>2. Count(0) = 0
    BY <2>1, FS_EmptySet
  <2> QED BY <1>5, <2>2
<1>7. i - 1 \in 0 .. n /\ i \in 1 .. n
  BY <1>1, <1>5, <1>6
<1>8. Count(i - 1) < j
  <2>1. i - 1 \notin T
    BY <1>5, <1>7
  <2>2. Count(i - 1) \in Nat
    BY <1>3, <1>7
  <2> HIDE DEF Count
  <2> QED BY <1>7, <2>1, <2>2
<1>9. Below(h, i) = IF i \in Kept(h) THEN Below(h, i - 1) \cup {i} ELSE Below(h, i - 1)
  BY <1>1, <1>7 DEF Below
<1>10. i \in Kept(h)
  <2>1. ASSUME i \notin Kept(h) PROVE FALSE
    <3>1. Count(i) = Count(i - 1)
      BY <1>9, <2>1
    <3>2. Count(i - 1) \in Nat /\ Count(i) >= j
      BY <1>3, <1>5, <1>7
    <3> HIDE DEF Count
    <3> QED BY <1>8, <3>1, <3>2
  <2> QED BY <2>1
<1>11. Count(i) <= Count(i - 1) + 1
  <2> DEFINE B == Below(h, i - 1)
  <2>1. IsFiniteSet(B) /\ Cardinality(B) \in Nat
    BY <1>3, <1>7
  <2>2. Below(h, i) = B \cup {i}
    BY <1>9, <1>10
  <2> HIDE DEF B
  <2>3. Cardinality(B \cup {i}) = IF i \in B THEN Cardinality(B) ELSE Cardinality(B) + 1
    BY <2>1, FS_AddElement
  <2>4. Cardinality(B \cup {i}) <= Cardinality(B) + 1
    BY <2>1, <2>3
  <2> QED BY <2>2, <2>4 DEF B
<1>12. Count(i) >= j /\ Count(i) \in Nat /\ Count(i - 1) \in Nat
  BY <1>3, <1>5, <1>7
<1> HIDE DEF Count
<1>13. Count(i) = j
  BY <1>8, <1>11, <1>12
<1> QED BY <1>10, <1>13 DEF Count

\* What is left is sorted as it was.
LEMMA ForgetKeeps ==
  ASSUME NamesInv, NEW h
  PROVE  Forget(h) \in Seq(Entry) /\ Sorted(Forget(h))
<1> DEFINE m == Cardinality(Kept(h))
           At(j) == CHOOSE i \in Kept(h) : Cardinality(Below(h, i)) = j
           n == Len(name)
<1>1. n \in Nat /\ Kept(h) \subseteq 1 .. n
  BY DEF Kept, NamesInv
<1>2. IsFiniteSet(Kept(h)) /\ m \in Nat
  <2>1. IsFiniteSet(1 .. n)
    BY <1>1, FS_Interval
  <2>2. IsFiniteSet(Kept(h))
    BY <1>1, <2>1, FS_Subset
  <2> QED BY <2>2, FS_CardinalityType
<1>3. \A j \in 1 .. m : At(j) \in Kept(h) /\ Cardinality(Below(h, At(j))) = j
  BY PlaceIsTaken
<1>4. Forget(h) = [j \in 1 .. m |-> name[At(j)]]
  BY DEF Forget, Below
<1> HIDE DEF At, m
<1>5. \A j \in 1 .. m : name[At(j)] \in Entry
  BY <1>1, <1>3 DEF NamesInv
<1>6. Forget(h) \in Seq(Entry) /\ Len(Forget(h)) = m
  BY <1>2, <1>4, <1>5
<1>7. ASSUME NEW j \in 1 .. m, NEW k \in 1 .. m, j < k PROVE At(j) < At(k)
  <2>1. At(j) \in 1 .. n /\ At(k) \in 1 .. n
    BY <1>1, <1>3
  <2>2. ASSUME At(k) <= At(j) PROVE FALSE
    <3>1. Below(h, At(k)) \subseteq Below(h, At(j))
      BY <1>1, <2>1, <2>2 DEF Below
    <3>2. Below(h, At(j)) \subseteq Kept(h)
      BY DEF Below
    <3>3. IsFiniteSet(Below(h, At(j)))
      BY <1>2, <3>2, FS_Subset
    <3>4. Cardinality(Below(h, At(k))) <= Cardinality(Below(h, At(j)))
      BY <3>1, <3>3, FS_Subset
    <3> QED BY <1>2, <1>3, <1>7, <3>4
  <2> QED BY <2>1, <2>2
<1>8. Sorted(Forget(h))
  <2> SUFFICES ASSUME NEW j \in 1 .. m, NEW k \in 1 .. m, j < k
               PROVE  Forget(h)[j].name < Forget(h)[k].name
    BY <1>6 DEF Sorted
  <2>1. Forget(h)[j] = name[At(j)] /\ Forget(h)[k] = name[At(k)]
    BY <1>4
  <2>2. At(j) \in 1 .. n /\ At(k) \in 1 .. n /\ At(j) < At(k)
    BY <1>1, <1>3, <1>7
  <2> QED BY <2>1, <2>2 DEF NamesInv, Sorted
<1> QED BY <1>6, <1>8

\* Registering and growing keep the handles numbers; the tables of names are sorted by
\* every step, of any number of threads.
LEMMA NamesStep == NamesInv /\ [Next]_vars => NamesInv'
<1> SUFFICES ASSUME NamesInv, [Next]_vars PROVE NamesInv'
  OBVIOUS
<1>1. ASSUME NEW l \in Launcher, NEW c \in Context, Register(l, c) PROVE NamesInv'
  <2> DEFINE i == CHOOSE i \in FreeAt : \A j \in FreeAt : i <= j
             h == Candidate(i)
  <2>1. i \in Nat
    <3>1. FreeAt \subseteq Nat /\ FreeAt # {}
      BY <1>1 DEF FreeAt, Register, NamesInv
    <3>2. \E x \in FreeAt : \A y \in FreeAt : x <= y
      BY <3>1, Least
    <3> QED BY <3>1, <3>2
  <2>2. index' = h + 1 /\ given' = [given EXCEPT ![c] = h] /\ UNCHANGED <<size, name>>
    BY <1>1 DEF Register
  <2> HIDE DEF i
  <2>3. h \in Nat
    <3>1. index + i \in Nat /\ MaxSize \in Nat \ {0}
      BY <2>1, SizeAssumption DEF NamesInv
    <3>2. (index + i) % MaxSize \in 0 .. MaxSize - 1
      BY <3>1, Split
    <3> QED BY <3>1, <3>2 DEF Candidate
  <2> HIDE DEF h
  <2> QED BY <2>2, <2>3 DEF NamesInv
<1>2. ASSUME NEW l, Expand(l) PROVE NamesInv'
  BY <1>2 DEF Expand, NamesInv
<1>3. ASSUME NEW l, Store(l) PROVE NamesInv'
  BY <1>3 DEF Store, table, NamesInv
<1>4. ASSUME NEW h, Retire(h) PROVE NamesInv'
  <2>1. name' = Forget(h) /\ UNCHANGED <<size, index, given>>
    BY <1>4 DEF Retire
  <2> QED BY <2>1, ForgetKeeps DEF NamesInv
<1>5. ASSUME NEW h \in Known, NEW n \in Name, NameHandle(h, n) PROVE NamesInv'
  <2> DEFINE r == Search(name, n)
             e == [name |-> n, handle |-> h]
  <2>1. /\ ~ r.found /\ name' = InsertAt(name, r.at + 1, e)
        /\ UNCHANGED <<size, index, given>>
    BY <1>5 DEF NameHandle, table
  <2>2. e \in Entry /\ e.name = n
    BY DEF Known, NamesInv, Entry
  <2>3. Located(name, n, r)
    BY SearchLocates DEF NamesInv
  <2> HIDE DEF r, e
  <2>4. /\ r.at \in 0 .. Len(name)
        /\ \A i \in 1 .. r.at : name[i].name < e.name
        /\ \A i \in r.at + 1 .. Len(name) : e.name < name[i].name
    BY <2>1, <2>2, <2>3 DEF Located
  <2>5. PICK at \in 0 .. Len(name) : at = r.at
    BY <2>4
  <2>6. /\ \A i \in 1 .. at : name[i].name < e.name
        /\ \A i \in at + 1 .. Len(name) : e.name < name[i].name
    BY <2>4, <2>5
  <2>7. InsertAt(name, at + 1, e) \in Seq(Entry) /\ Sorted(InsertAt(name, at + 1, e))
    BY <2>2, <2>6, InsertKeeps DEF NamesInv
  <2> QED BY <2>1, <2>5, <2>7 DEF NamesInv
<1>6. CASE UNCHANGED vars
  BY <1>6 DEF vars, table, NamesInv
<1> QED BY <1>1, <1>2, <1>3, <1>4, <1>5, <1>6 DEF Next

LEMMA InitNames == Init => NamesInv
<1> SUFFICES ASSUME Init PROVE NamesInv
  OBVIOUS
<1>1. size \in Nat \ {0} /\ index \in Nat /\ given \in [Context -> Int]
  BY SizeAssumption, IndexAssumption DEF Init
<1>2. name = <<>>
  BY DEF Init
<1> QED BY <1>1, <1>2 DEF NamesInv, Sorted

\* The binary search of skynet_handle_findname finds the names that are there and no
\* others, however services are named and retired.
THEOREM NamesAreFound == Spec => []NamesFound
BY InitNames, NamesStep, SortedIsFound, PTL DEF Spec

\* Nothing that is kept has the handle that is forgotten.
LEMMA ForgetForgets ==
  ASSUME NamesInv, NEW h, NEW i \in DOMAIN Forget(h)
  PROVE  Forget(h)[i].handle # h
<1> DEFINE At(j) == CHOOSE k \in Kept(h) : Cardinality(Below(h, k)) = j
<1>1. Forget(h) = [j \in 1 .. Cardinality(Kept(h)) |-> name[At(j)]]
  BY DEF Forget, Below
<1>2. At(i) \in Kept(h) /\ Forget(h)[i] = name[At(i)]
  BY <1>1, PlaceIsTaken
<1> QED BY <1>2 DEF Kept

\* Retiring a handle takes all its names away with it (skynet_handle_retire).
THEOREM RetireForgets == Spec => RetireForgetsNames
<1>1. NamesInv /\ [Next]_vars => [\A c \in gone' \ gone : \A i \in DOMAIN name' : name'[i].handle # handle[c]]_vars
  <2> SUFFICES ASSUME NamesInv, Next, NEW c \in gone' \ gone, NEW i \in DOMAIN name'
               PROVE  name'[i].handle # handle[c]
    OBVIOUS
  <2>1. PICK h \in Known : Retire(h)
    BY DEF Next, Register, Expand, Store, NameHandle, table
  <2>2. c = Lookup(h) /\ Lookup(h) # None /\ name' = Forget(h)
    BY <2>1 DEF Retire
  <2>3. handle[c] = h
    BY <2>2 DEF Lookup
  <2> QED BY <2>2, <2>3, ForgetForgets
<1>2. Init => NamesInv
  BY InitNames
<1> QED BY <1>1, <1>2, NamesStep, PTL DEF Spec, RetireForgetsNames

-----------------------------------------------------------------------------
(* The lock: it excludes for any number of threads.                            *)

\* The words of the lock say who is inside: read counts the readers, write is
\* set exactly while one thread drains or writes, and a writer that has seen
\* read = 0 can only meet readers that are going to see write = 1.
LockInv ==
  /\ LockTypeOK
  /\ read = Cardinality(Readers)
  /\ write = 0 => Writers = {}
  /\ \A t, u \in Writers : t = u
  /\ \A t \in Thread : pc[t] = "writing" =>
       \A u \in Thread : pc[u] # "reading"

\* Readers is a subset of a finite set, so its cardinality is a number.
LEMMA ReadersFinite == IsFiniteSet(Readers)
BY ThreadAssumption, FS_Subset DEF Readers

\* One more thread is between increment and decrement.
LEMMA ReaderEnters ==
  ASSUME NEW t \in Thread, t \notin Readers, Readers' = Readers \cup {t}
  PROVE  Cardinality(Readers') = Cardinality(Readers) + 1
BY ReadersFinite, FS_AddElement

\* One thread fewer is between increment and decrement.
LEMMA ReaderLeaves ==
  ASSUME NEW t \in Thread, t \in Readers, Readers' = Readers \ {t}
  PROVE  Cardinality(Readers') = Cardinality(Readers) - 1
BY ReadersFinite, FS_RemoveElement

\* A thread inside is counted.
LEMMA ReaderCounted ==
  ASSUME NEW t \in Thread, t \in Readers
  PROVE  Cardinality(Readers) > 0
<1>1. Cardinality(Readers) # 0
  BY ReadersFinite, FS_EmptySet
<1> QED
  BY <1>1, ReadersFinite, FS_CardinalityType

LEMMA LockInitInv == LockInit => LockInv
<1> SUFFICES ASSUME LockInit PROVE LockInv
  OBVIOUS
<1>1. Readers = {} /\ Writers = {}
  BY DEF LockInit, Readers, Writers
<1> QED
  BY <1>1, FS_EmptySet DEF LockInit, LockInv, LockTypeOK, Point

LEMMA LockStepInv == LockInv /\ [LockNext]_lockVars => LockInv'
<1> SUFFICES ASSUME LockInv, [LockNext]_lockVars PROVE LockInv'
  OBVIOUS
<1> USE DEF LockInv, LockTypeOK, Point, Readers, Writers, Go
<1>1. ASSUME NEW t \in Thread, StartRead(t) PROVE LockInv'
  <2>1. Readers' = Readers /\ Writers' = Writers
    BY <1>1 DEF StartRead
  <2> QED
    BY <1>1, <2>1 DEF StartRead
<1>2. ASSUME NEW t \in Thread, SpinRead(t) PROVE LockInv'
  <2>1. Readers' = Readers /\ Writers' = Writers
    BY <1>2 DEF SpinRead
  <2> QED
    BY <1>2, <2>1 DEF SpinRead
<1>3. ASSUME NEW t \in Thread, Enter(t) PROVE LockInv'
  <2>1. t \notin Readers /\ Readers' = Readers \cup {t} /\ Writers' = Writers
    BY <1>3 DEF Enter
  <2>2. Cardinality(Readers') = Cardinality(Readers) + 1
    BY <2>1, ReaderEnters
  <2> QED
    BY <1>3, <2>1, <2>2 DEF Enter
<1>4. ASSUME NEW t \in Thread, Check(t) PROVE LockInv'
  <2>1. Readers' = Readers /\ Writers' = Writers
    BY <1>4 DEF Check, Seen
  <2> QED
    BY <1>4, <2>1 DEF Check, Seen
<1>5. ASSUME NEW t \in Thread, Back(t) PROVE LockInv'
  <2>1. t \in Readers /\ Readers' = Readers \ {t} /\ Writers' = Writers
    BY <1>5 DEF Back, BackTo
  <2>2. Cardinality(Readers') = Cardinality(Readers) - 1 /\ Cardinality(Readers) > 0
    BY <2>1, ReaderLeaves, ReaderCounted
  <2> QED
    BY <1>5, <2>1, <2>2 DEF Back, BackTo, Left
<1>6. ASSUME NEW t \in Thread, ReadUnlock(t) PROVE LockInv'
  <2>1. t \in Readers /\ Readers' = Readers \ {t} /\ Writers' = Writers
    BY <1>6 DEF ReadUnlock
  <2>2. Cardinality(Readers') = Cardinality(Readers) - 1 /\ Cardinality(Readers) > 0
    BY <2>1, ReaderLeaves, ReaderCounted
  <2> QED
    BY <1>6, <2>1, <2>2 DEF ReadUnlock, Left
<1>7. ASSUME NEW t \in Thread, StartWrite(t) PROVE LockInv'
  <2>1. Readers' = Readers /\ Writers' = Writers
    BY <1>7 DEF StartWrite
  <2> QED
    BY <1>7, <2>1 DEF StartWrite
<1>8. ASSUME NEW t \in Thread, TestAndSet(t) PROVE LockInv'
  <2>1. Readers' = Readers /\ Writers' = {t}
    BY <1>8 DEF TestAndSet
  <2> QED
    BY <1>8, <2>1 DEF TestAndSet
<1>9. ASSUME NEW t \in Thread, Drain(t) PROVE LockInv'
  <2>1. Readers' = Readers /\ Writers' = Writers
    BY <1>9 DEF Drain
  <2>2. \A u \in Thread : u \notin Readers
    BY <1>9, ReaderCounted DEF Drain
  <2> QED
    BY <1>9, <2>1, <2>2 DEF Drain
<1>10. ASSUME NEW t \in Thread, WriteUnlock(t) PROVE LockInv'
  <2>1. Readers' = Readers /\ Writers' = {}
    BY <1>10 DEF WriteUnlock
  <2> QED
    BY <1>10, <2>1 DEF WriteUnlock, Released
<1>11. CASE UNCHANGED lockVars
  <2>1. Readers' = Readers /\ Writers' = Writers
    BY <1>11 DEF lockVars
  <2> QED
    BY <1>11, <2>1 DEF lockVars
<1> QED
  BY <1>1, <1>2, <1>3, <1>4, <1>5, <1>6, <1>7, <1>8, <1>9, <1>10, <1>11
  DEF LockNext, ReadStep, WriteStep

\* The lock's words keep their type: read never goes below zero, whatever the
\* number of threads that enter and step back (rwlock_rlock).
THEOREM LockTypeCorrect == LockSpec => []LockTypeOK
<1>1. LockInv => LockTypeOK
  BY DEF LockInv
<1> QED
  BY LockInitInv, LockStepInv, <1>1, PTL DEF LockSpec

\* A writer is alone under the lock, for any number of threads: the second
\* test in rwlock_rlock closes the window its first test leaves.
THEOREM Exclusion == LockSpec => []Exclusive
<1>1. LockInv => Exclusive
  BY DEF LockInv, Exclusive, Writers
<1> QED
  BY LockInitInv, LockStepInv, <1>1, PTL DEF LockSpec

=============================================================================
