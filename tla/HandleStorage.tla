--------------------------- MODULE HandleStorage ---------------------------
(***************************************************************************)
(* The handle table and the name table of skynet_handle.c.  Every function *)
(* of that file runs under the readers-writer lock, so it is one action;   *)
(* what is not under the lock is the caller's half of a registration:      *)
(* skynet_context_new stores the handle in the context after               *)
(* skynet_handle_register has returned it.                                 *)
(*                                                                         *)
(* A handle is its low part; the harbor number in its high byte is the     *)
(* same for all handles of a process, so the tables never look at it.      *)
(*                                                                         *)
(* A Mut... operator is a faulty variant of the definition after it, used  *)
(* only to show that the properties can fail.                              *)
(***************************************************************************)
EXTENDS Integers, Sequences, FiniteSets, SequencesExt

CONSTANTS
  Context,   \* contexts; one may be registered once
  None,      \* NULL
  Name,      \* names, as numbers: strcmp compares them
  Launcher,  \* threads that create contexts
  FirstSize, \* DEFAULT_SLOT_SIZE
  MaxSize,   \* HANDLE_MASK + 1
  FirstIndex \* handle_index when the table is first watched: 1 at start

ASSUME ContextAssumption == None \notin Context
ASSUME NameAssumption == Name \subseteq Int
\* The sizes are powers of two: a smaller size that divides the largest can be doubled.
Divides(n, m) == \E k \in 1 .. m : m = k * n
ASSUME SizeAssumption ==
  /\ FirstSize \in Nat \ {0} /\ MaxSize \in Nat \ {0}
  /\ Divides(FirstSize, MaxSize)
  /\ \A n \in 1 .. MaxSize - 1 : Divides(n, MaxSize) => Divides(2 * n, MaxSize)
ASSUME IndexAssumption == FirstIndex \in 0 .. MaxSize

VARIABLES
  size, slot,   \* slot_size, slot
  index,        \* handle_index
  handle,       \* the handle field of each context, 0 before it is stored
  given,        \* what skynet_handle_register returned for it, -1 before
  gone,         \* the contexts that were retired
  storing,      \* the context a launcher has registered and not stored yet
  name,         \* the name table, a sequence of [name, handle]
  clash,        \* assert(new_slot[hash] == NULL) has failed: the program ends
  overgrown     \* history: the contexts that were moved before their handle was stored

table == <<size, slot, index>>
vars  == <<table, handle, given, gone, storing, name, clash, overgrown>>

Init ==
  /\ size = FirstSize
  /\ slot = [i \in 0 .. FirstSize - 1 |-> None]
  /\ index = FirstIndex
  /\ handle = [c \in Context |-> 0]
  /\ given = [c \in Context |-> -1]
  /\ gone = {}
  /\ storing = [l \in Launcher |-> None]
  /\ name = <<>>
  /\ clash = FALSE
  /\ overgrown = {}

Hash(h, n) == h % n

\* skynet_handle_register finds the first free slot from handle_index on
MutCandidate(i) == index + i
Candidate(i) == (index + i) % MaxSize
FreeAt == {i \in 0 .. size - 1 : slot[Hash(Candidate(i), size)] = None}

Register(l, c) ==
  /\ storing[l] = None
  /\ given[c] = -1
  /\ FreeAt # {}
  /\ LET i == CHOOSE i \in FreeAt : \A j \in FreeAt : i <= j
         h == Candidate(i)
     IN  /\ slot' = [slot EXCEPT ![Hash(h, size)] = c]
         /\ index' = h + 1
         /\ given' = [given EXCEPT ![c] = h]
  /\ storing' = [storing EXCEPT ![l] = c]
  /\ UNCHANGED <<size, handle, gone, name, clash, overgrown>>

\* it finds none and doubles the table first
MutMoved(i) == i
Moved(i) == Hash(handle[slot[i]], 2 * size)

Expand(l) ==
  /\ storing[l] = None
  /\ \E c \in Context : given[c] = -1
  /\ FreeAt = {}
  /\ 2 * size <= MaxSize
  /\ slot' = [j \in 0 .. 2 * size - 1 |->
                IF \E i \in DOMAIN slot : Moved(i) = j
                  THEN slot[CHOOSE i \in DOMAIN slot : Moved(i) = j] ELSE None]
  /\ size' = 2 * size
  /\ clash' = \E i, j \in DOMAIN slot : i # j /\ Moved(i) = Moved(j)
  /\ overgrown' = overgrown \cup ({storing[k] : k \in Launcher} \ {None})
  /\ UNCHANGED <<index, handle, given, gone, storing, name>>

\* skynet_context_new: ctx->handle = skynet_handle_register(ctx)
MutStored(c) == handle[c]
Stored(c) == given[c]

Store(l) ==
  /\ storing[l] # None
  /\ handle' = [handle EXCEPT ![storing[l]] = Stored(storing[l])]
  /\ storing' = [storing EXCEPT ![l] = None]
  /\ UNCHANGED <<table, given, gone, name, clash, overgrown>>

\* what skynet_handle_grab and skynet_handle_retire look up
Lookup(h) ==
  LET c == slot[Hash(h, size)]
  IN  IF c # None /\ handle[c] = h THEN c ELSE None

Known == {given[c] : c \in {d \in Context : handle[d] # 0}}

\* the entries that are kept move down, in their order
MutForget(h) == name
Kept(h) == {i \in DOMAIN name : name[i].handle # h}
Forget(h) ==
  [j \in 1 .. Cardinality(Kept(h)) |->
     name[CHOOSE i \in Kept(h) : Cardinality({k \in Kept(h) : k <= i}) = j]]

\* skynet_handle_retire, from the service itself, a kill or retireall
Retire(h) ==
  /\ Lookup(h) # None
  /\ slot' = [slot EXCEPT ![Hash(h, size)] = None]
  /\ gone' = gone \cup {Lookup(h)}
  /\ name' = Forget(h)
  /\ UNCHANGED <<size, index, handle, given, storing, clash, overgrown>>

\* The binary search of the name table: where it stops, and whether it found
\* the name.  end < begin: the place to insert.
MutLastIndex(s) == Len(s) - 2
LastIndex(s) == Len(s) - 1

Search(s, n) ==
  LET f[range \in (0 .. Len(s)) \X (-2 .. Len(s) - 1)] ==
        LET begin == range[1]
            end == range[2]
            mid == (begin + end) \div 2
        IN  IF begin > end THEN [found |-> FALSE, at |-> begin]
            ELSE IF s[mid + 1].name = n THEN [found |-> TRUE, at |-> mid]
            ELSE f[IF s[mid + 1].name < n THEN <<mid + 1, end>> ELSE <<begin, mid - 1>>]
  IN  f[<<0, LastIndex(s)>>]

\* skynet_handle_findname
FindName(n) ==
  LET r == Search(name, n) IN IF r.found THEN name[r.at + 1].handle ELSE 0

\* skynet_handle_namehandle; the handle may be retired by now
NameHandle(h, n) ==
  LET r == Search(name, n)
  IN  /\ ~ r.found
      /\ name' = InsertAt(name, r.at + 1, [name |-> n, handle |-> h])
      /\ UNCHANGED <<table, handle, given, gone, storing, clash, overgrown>>

Next ==
  /\ ~ clash
  /\ \/ \E l \in Launcher, c \in Context : Register(l, c)
     \/ \E l \in Launcher : Expand(l) \/ Store(l)
     \/ \E h \in Known : Retire(h) \/ (\E n \in Name : NameHandle(h, n))

Spec == Init /\ [][Next]_vars

(***************************************************************************)
(* Properties                                                              *)
(***************************************************************************)
Handles == 0 .. MaxSize - 1

\* The table has the size it says, and its entries are contexts.
TypeOK ==
  /\ size \in 1 .. MaxSize
  /\ slot \in [0 .. size - 1 -> Context \cup {None}]
  /\ index \in 0 .. MaxSize
  /\ handle \in [Context -> Handles]
  /\ given \in [Context -> Handles \cup {-1}]
  /\ gone \subseteq Context
  /\ storing \in [Launcher -> Context \cup {None}]
  /\ name \in Seq([name : Name, handle : Handles])
  /\ clash \in BOOLEAN
  /\ overgrown \subseteq Context

\* A registered context is found under its handle until it is retired: also
\* after the table has grown over it, other slots were freed and reused, and
\* the handle index has wrapped; unless the table grew between its registration
\* and the store of its handle.
RegisteredIsFound ==
  ~ clash => \A c \in Context \ (gone \cup overgrown) : handle[c] # 0 => Lookup(handle[c]) = c

\* The assertion in skynet_handle_register: growing the table moves every context to a
\* slot of its own, however many launches overlap, as long as the table has not grown
\* over a context whose handle was not stored yet.
GrowingKeepsSlotsApart == clash => overgrown # {}

\* The assertion itself, which two launches can break.
AssertionHolds == ~ clash

\* "reserve 0 for system" (skynet_handle_init): no context gets handle 0,
\* which means "nobody" to every function that takes a handle.
ZeroIsReserved == \A c \in Context : given[c] # 0

\* The name table stays sorted without duplicates, so its binary search
\* finds exactly the names that are there (skynet_handle_findname).
NamesFound ==
  /\ \A i, j \in DOMAIN name : i < j => name[i].name < name[j].name
  /\ \A n \in Name : Search(name, n).found <=> \E e \in ToSet(name) : e.name = n

\* Retiring a handle takes all its names away with it: what was named before
\* the retire can be named again (skynet_handle_retire).
RetireForgetsNames ==
  [][\A c \in gone' \ gone : \A i \in DOMAIN name' : name'[i].handle # handle[c]]_vars

=============================================================================
