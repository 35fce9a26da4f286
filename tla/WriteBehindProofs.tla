-------------------------- MODULE WriteBehindProofs --------------------------
(***************************************************************************)
(* An account has its user and shares it with no other; what the copy at    *)
(* start-up and the flush promise of mysql.  For any accounts, any finite   *)
(* number of tasks, and any number of users, logins, kills and errors.      *)
(***************************************************************************)
EXTENDS WriteBehind, FiniteSetTheorems, TLAPS

\* A user id is left for every creation that has none yet.
Early == {"lookup", "incr"}
RoomLeft == uids + Cardinality({t \in Task : task[t].at \in Early}) <= MaxUsers

\* What a task knows at each of its requests, and when its user is in redis.
Knows(t) ==
  /\ task[t].at \in {"lookup", "incr", "hasuser", "hasaccount", "setaccount"} => task[t].account \in Account
  /\ task[t].at \in {"hasuser", "setuser", "change", "hasaccount", "setaccount"} =>
       task[t].uid \in 1 .. uids /\ task[t].row \in Row
  /\ task[t].at \in {"change", "hasaccount", "setaccount"} => user[task[t].uid] # None
  /\ task[t].at = "change" => task[t].uid \in written
TasksKnow == \A t \in Task : Knows(t)

\* An account has a user that was given out and is in redis.
AccountsKnow ==
  \A a \in Account : account[a] # None => account[a] \in 1 .. uids /\ user[account[a]] # None

\* The user of a creation is its own: no other task's and no account's.
Creating(t) ==
  \/ task[t].at \in {"hasuser", "hasaccount", "setaccount"}
  \/ task[t].at \in {"setuser", "change"} /\ task[t].account # None

OwnUser ==
  /\ \A t, s \in Task : Creating(t) /\ Creating(s) /\ task[t].uid = task[s].uid => t = s
  /\ \A t \in Task, a \in Account : Creating(t) => account[a] # task[t].uid

AccountInv == RoomLeft /\ TasksKnow /\ AccountsKnow /\ OwnUser /\ UsersNotShared

-----------------------------------------------------------------------------
\* Whatever is to be written, or is in mysql, is a user of redis; what the flush
\* writes was written to redis since the start.
Writing(w) == writer[w].at \in {"update", "insert"}

WritesKnow ==
  /\ \A w \in Writer : Writing(w) =>
       writer[w].uid \in Uid /\ writer[w].row \in Row /\ user[writer[w].uid] # None
  /\ Writing("flush") => writer["flush"].uid \in written
  /\ \A i \in DOMAIN changes : changes[i].uid \in written /\ user[changes[i].uid] # None
  /\ \A u \in Uid : todo[u] # None \/ mysql[u] # None => user[u] # None

\* A user that was not written since the start waits for initDB with its row, is
\* being copied, or is in mysql as it is in redis.
Copies ==
  LET w == writer["init"] IN
  /\ w.at = "up" => todo = NoRows
  /\ \A u \in Uid \ written :
       /\ todo[u] # None => todo[u] = user[u]
       /\ Writing("init") /\ w.uid = u => w.row = user[u] /\ (w.at = "insert" => mysql[u] = None)
       /\ w.at \in {"next", "update", "insert", "up"} =>
            todo[u] # None \/ (Writing("init") /\ w.uid = u) \/ mysql[u] = user[u]

\* The newest change is the first of the list, is being written, or is in mysql.
Newest ==
  LET f == writer["flush"] IN
  last # None =>
    /\ writer["init"].at = "up"
    /\ changes # <<>> => changes[1] = last
    /\ changes = <<>> =>
         \/ f.at = "stopped"
         \/ f.at = "sleep" /\ mysql[last.uid] = last.row
         \/ /\ Writing("flush") /\ f.uid = last.uid /\ f.row = last.row
            /\ f.at = "insert" => mysql[f.uid] = None

BackupInv == WritesKnow /\ Copies /\ Newest

IInv == TypeOK /\ AccountInv /\ BackupInv

-----------------------------------------------------------------------------
\* The steps of one task, and what they leave alone.
TaskStep(t) ==
  \/ CreateStep(t) \/ SaveStep(t)
  \/ \E a \in Account : StartCreate(t, a)
  \/ \E u \in Uid : StartLogin(t, u)

TaskType ==
  [at : {"idle", "lookup", "incr", "hasuser", "setuser", "change", "hasaccount", "setaccount"},
   account : Account \cup {None}, uid : Uid \cup {None}, row : Row \cup {None}]

WriterType ==
  [at : {"boot", "next", "up", "sleep", "update", "insert", "stopped"},
   uid : Uid \cup {None}, row : Row \cup {None}]

LEMMA Steps ==
  ASSUME [Next]_vars
  PROVE  \/ \E t \in Task : TaskStep(t)
         \/ Take \/ Snapshot \/ NextRow \/ Restart
         \/ \E w \in Writer : Update(w) \/ Insert(w)
         \/ UNCHANGED vars
BY DEF Next, TaskStep, FlushStep, BootStep, Waiting, Writer

\* Where a task is after each of its steps, and that the others stay.
LEMMA TaskMoves ==
  ASSUME TypeOK, NEW t \in Task
  PROVE  /\ Idle \in TaskType
         /\ task[t] \in TaskType
         /\ Done(t) => task'[t] = Idle /\ \A s \in Task \ {t} : task'[s] = task[s]
         /\ \A at : Goto(t, at) =>
              /\ task'[t].at = at /\ task'[t].account = task[t].account
              /\ task'[t].uid = task[t].uid /\ task'[t].row = task[t].row
              /\ \A s \in Task \ {t} : task'[s] = task[s]
         /\ NewUid(t) =>
              /\ task'[t] \in [at : {"hasuser"}, account : {task[t].account}, uid : {uids + 1}, row : {clock}]
              /\ \A s \in Task \ {t} : task'[s] = task[s]
<1>1. Idle \in TaskType
  BY DEF Idle, TaskType
<1>2. task \in [Task -> TaskType]
  BY DEF TypeOK, TaskType
<1>3. task[t] \in TaskType
  BY <1>2
<1>4. Done(t) => task'[t] = Idle /\ \A s \in Task \ {t} : task'[s] = task[s]
  BY <1>2 DEF Done
<1>5. ASSUME NEW at, Goto(t, at)
      PROVE  /\ task'[t].at = at /\ task'[t].account = task[t].account
             /\ task'[t].uid = task[t].uid /\ task'[t].row = task[t].row
             /\ \A s \in Task \ {t} : task'[s] = task[s]
  BY <1>2, <1>3, <1>5 DEF Goto, TaskType
<1>6. ASSUME NewUid(t)
      PROVE  /\ task'[t] \in [at : {"hasuser"}, account : {task[t].account}, uid : {uids + 1}, row : {clock}]
             /\ \A s \in Task \ {t} : task'[s] = task[s]
  <2> DEFINE k == [task[t] EXCEPT !.at = "hasuser", !.uid = uids + 1, !.row = clock]
  <2>1. k \in [at : {"hasuser"}, account : {task[t].account}, uid : {uids + 1}, row : {clock}]
    BY <1>3 DEF TaskType
  <2>2. task' = [task EXCEPT ![t].at = "hasuser", ![t].uid = uids + 1, ![t].row = clock]
    BY <1>6 DEF NewUid, AfterUid, NextUid
  <2>3. task' = [task EXCEPT ![t] = k]
    BY <1>2, <2>2
  <2> HIDE DEF k
  <2> QED BY <1>2, <2>1, <2>3
<1> QED
  BY <1>1, <1>3, <1>4, <1>5, <1>6

\* A creation that has no user id yet finds one left.
LEMMA EarlyRoom ==
  ASSUME TypeOK, RoomLeft, NEW t \in Task, task[t].at \in Early
  PROVE  uids + 1 <= MaxUsers
<1> DEFINE S == {s \in Task : task[s].at \in Early}
<1>1. IsFiniteSet(S) /\ t \in S
  BY TaskAssumption, FS_Subset
<1>2. Cardinality(S) \in Nat /\ Cardinality(S) # 0
  BY <1>1, FS_CardinalityType, FS_EmptySet
<1> QED
  BY <1>2, BoundAssumption DEF RoomLeft, TypeOK

\* The list without its last change.
LEMMA FrontOf ==
  ASSUME NEW S, NEW s \in Seq(S), Len(s) > 0
  PROVE  /\ Front(s) \in Seq(S) /\ Len(Front(s)) = Len(s) - 1
         /\ \A i \in 1 .. Len(s) - 1 : Front(s)[i] = s[i]
<1> DEFINE n == Len(s) - 1
<1>1. Front(s) = SubSeq(s, 1, n)
  BY DEF Front
<1>2. n \in Nat /\ n <= Len(s)
  OBVIOUS
<1>3. SubSeq(s, 1, n) = [i \in 1 .. n |-> s[i]]
  BY <1>2
<1>4. \A i \in 1 .. n : s[i] \in S
  OBVIOUS
<1>5. [i \in 1 .. n |-> s[i]] \in Seq(S) /\ Len([i \in 1 .. n |-> s[i]]) = n
  BY <1>2, <1>4
<1> QED BY <1>1, <1>3, <1>5

\* Every variable keeps its type.
LEMMA TypeStep ==
  ASSUME TypeOK, RoomLeft, TasksKnow, WritesKnow, [Next]_vars
  PROVE  TypeOK'
<1> USE DEF redisVars, historyVars
<1>1. ASSUME NEW t \in Task, TaskStep(t) PROVE TypeOK'
  <2>1. task \in [Task -> TaskType] /\ Idle \in TaskType
    BY TaskMoves, <1>1 DEF TypeOK, TaskType
  <2>2. ASSUME NEW at \in {"incr", "setuser", "change", "setaccount", "hasaccount"}, Goto(t, at)
        PROVE  task' \in [Task -> TaskType]
    <3>1. [task[t] EXCEPT !.at = at] \in TaskType
      BY <2>1 DEF TaskType
    <3> QED BY <2>1, <2>2, <3>1 DEF Goto
  <2>3. ASSUME Done(t) PROVE task' \in [Task -> TaskType]
    BY <2>1, <2>3 DEF Done
  <2>4. CASE Lookup(t)
    BY <2>2, <2>3, <2>4 DEF Lookup, TypeOK, TaskType
  <2>5. CASE NewUid(t)
    <3>1. uids + 1 \in 0 .. MaxUsers /\ uids + 1 \in Uid
      BY <2>5, EarlyRoom DEF NewUid, At, Early, TypeOK, Uid
    <3>2. task' \in [Task -> TaskType]
      <4>1. task'[t] \in TaskType /\ \A s \in Task \ {t} : task'[s] = task[s]
        <5>1. [at : {"hasuser"}, account : {task[t].account}, uid : {uids + 1}, row : {clock}] \subseteq TaskType
          BY <2>1, <3>1 DEF TypeOK, TaskType
        <5> QED BY <2>5, <5>1, TaskMoves
      <4>2. DOMAIN task' = Task /\ task' = [s \in Task |-> task'[s]]
        BY <2>1, <2>5 DEF NewUid
      <4> QED BY <2>1, <4>1, <4>2
    <3> QED BY <2>5, <3>1, <3>2 DEF NewUid, NextUid, TypeOK, TaskType
  <2>6. CASE HasUser(t)
    BY <2>2, <2>3, <2>6 DEF HasUser, TypeOK, TaskType
  <2>7. CASE HasAccount(t)
    BY <2>2, <2>3, <2>7 DEF HasAccount, TypeOK, TaskType
  <2>8. CASE SetAccount(t)
    <3>1. task[t].account \in Account /\ task[t].uid \in Uid
      BY <2>8, BoundAssumption DEF SetAccount, At, TasksKnow, Knows, Uid, TypeOK
    <3> QED BY <2>3, <2>8, <3>1 DEF SetAccount, TypeOK, TaskType
  <2>9. CASE SetUser(t)
    <3>1. task[t].uid \in Uid /\ task[t].row \in Row
      BY <2>9, BoundAssumption DEF SetUser, At, TasksKnow, Knows, Uid, TypeOK
    <3> QED BY <2>2, <2>9, <3>1 DEF SetUser, TypeOK, TaskType
  <2>10. CASE AddModify(t)
    <3> DEFINE change == [uid |-> task[t].uid, row |-> task[t].row]
    <3>1. change \in Change
      BY <2>10 DEF AddModify, At, TasksKnow, Knows, Uid, TypeOK, Change
    <3>2. changes' = <<change>> \o changes /\ last' \in {last, change}
          /\ UNCHANGED <<redisVars, mysql, writer, todo, clock, restarts, written>>
          /\ (Done(t) \/ Goto(t, "hasaccount"))
      BY <2>10 DEF AddModify, AfterChange
    <3>3. task' \in [Task -> TaskType]
      BY <2>2, <2>3, <3>2
    <3> HIDE DEF change
    <3>4. changes' \in Seq(Change)
      BY <3>1, <3>2 DEF TypeOK
    <3> QED BY <3>1, <3>2, <3>3, <3>4 DEF TypeOK, TaskType
  <2>11. ASSUME NEW a \in Account, StartCreate(t, a) PROVE TypeOK'
    <3>1. [Idle EXCEPT !.at = "lookup", !.account = a] \in TaskType
      BY DEF Idle, TaskType
    <3> QED BY <2>1, <2>11, <3>1 DEF StartCreate, TypeOK, TaskType
  <2>12. ASSUME NEW u \in Uid, StartLogin(t, u) PROVE TypeOK'
    <3>1. clock + 1 \in Row
      BY <2>12, BoundAssumption DEF StartLogin, Row, TypeOK
    <3>2. [Idle EXCEPT !.at = "setuser", !.uid = u, !.row = clock + 1] \in TaskType
      BY <3>1 DEF Idle, TaskType
    <3>3. task' \in [Task -> TaskType] /\ clock' \in Row
          /\ UNCHANGED <<redisVars, mysql, changes, writer, todo, restarts, historyVars>>
      BY <2>1, <2>12, <3>1, <3>2 DEF StartLogin
    <3> QED BY <3>3 DEF TypeOK, TaskType
  <2> QED BY <1>1, <2>4, <2>5, <2>6, <2>7, <2>8, <2>9, <2>10, <2>11, <2>12 DEF TaskStep, CreateStep, SaveStep
<1>2. CASE Take
  <2>1. Len(changes) > 0 /\ changes[1] \in Change
    BY <1>2 DEF Take, Pending, TypeOK
  <2>2. changes' \in Seq(Change)
    BY <1>2, <2>1, FrontOf DEF Take, TypeOK, Rest
  <2>3. [at |-> "update", uid |-> changes[1].uid, row |-> changes[1].row] \in WriterType
    BY <2>1 DEF WriterType, Change
  <2>4. writer' \in [Writer -> WriterType]
    BY <1>2, <2>3 DEF Take, TypeOK, WriterType
  <2> QED BY <1>2, <2>2, <2>4 DEF Take, TypeOK, WriterType
<1>3. CASE Snapshot
  <2>1. writer' \in [Writer -> WriterType]
    <3>1. [writer["init"] EXCEPT !.at = "next"] \in WriterType
      BY DEF TypeOK, Writer, WriterType
    <3> QED BY <1>3, <3>1 DEF Snapshot, TypeOK, WriterType
  <2> QED BY <1>3, <2>1 DEF Snapshot, TypeOK, WriterType
<1>4. CASE NextRow
  <2>1. CASE \E u \in Uid :
          /\ todo[u] # None
          /\ writer' = [writer EXCEPT !["init"] = [at |-> "update", uid |-> u, row |-> todo[u]]]
          /\ todo' = TodoAfter(u)
    <3>1. PICK u \in Uid :
          /\ todo[u] # None
          /\ writer' = [writer EXCEPT !["init"] = [at |-> "update", uid |-> u, row |-> todo[u]]]
          /\ todo' = TodoAfter(u)
      BY <2>1
    <3>2. [at |-> "update", uid |-> u, row |-> todo[u]] \in WriterType
      BY DEF TypeOK, WriterType
    <3>3. writer' \in [Writer -> WriterType] /\ todo' \in [Uid -> Row \cup {None}]
      BY <3>1, <3>2 DEF TypeOK, WriterType, TodoAfter
    <3> QED BY <1>4, <3>3 DEF NextRow, TypeOK, WriterType
  <2>2. CASE writer' = [writer EXCEPT !["init"] = Doing("up")] /\ UNCHANGED todo
    <3>1. writer' \in [Writer -> WriterType]
      BY <2>2 DEF TypeOK, WriterType, Doing
    <3> QED BY <1>4, <2>2, <3>1 DEF NextRow, TypeOK, WriterType
  <2> QED BY <1>4, <2>1, <2>2 DEF NextRow
<1>5. CASE Restart
  <2>1. task' \in [Task -> TaskType] /\ writer' \in [Writer -> WriterType]
    BY <1>5 DEF Restart, Idle, TaskType, Started, Doing, WriterType, Writer
  <2>2. changes' \in Seq(Change) /\ todo' \in [Uid -> Row \cup {None}] /\ restarts' \in 0 .. MaxRestarts
    BY <1>5, BoundAssumption DEF Restart, NoRows, TypeOK
  <2> QED BY <1>5, <2>1, <2>2 DEF Restart, TypeOK, TaskType, WriterType
<1>w. ASSUME NEW w \in Writer, NEW at \in {"next", "sleep", "stopped"}
      PROVE  [writer EXCEPT ![w] = Doing(at)] \in [Writer -> WriterType]
  BY DEF TypeOK, WriterType, Doing
<1>6. ASSUME NEW w \in Writer, Update(w) PROVE TypeOK'
  <2>1. Writing(w) /\ writer[w].uid \in Uid /\ writer[w].row \in Row
    BY <1>6 DEF Update, WritesKnow, Writing
  <2>2. writer' \in [Writer -> WriterType]
    <3>1. [writer[w] EXCEPT !.at = "insert"] \in WriterType
      BY DEF TypeOK, WriterType
    <3>2. [writer EXCEPT ![w].at = "insert"] \in [Writer -> WriterType]
      BY <3>1 DEF TypeOK, WriterType
    <3> QED BY <1>6, <1>w, <3>2 DEF Update, WriteDone
  <2>3. mysql' \in [Uid -> Row \cup {None}]
    BY <1>6, <2>1 DEF Update, TypeOK
  <2> QED BY <1>6, <2>2, <2>3 DEF Update, TypeOK, WriterType
<1>7. ASSUME NEW w \in Writer, Insert(w) PROVE TypeOK'
  <2>1. Writing(w) /\ writer[w].uid \in Uid /\ writer[w].row \in Row
    BY <1>7 DEF Insert, WritesKnow, Writing
  <2>2. writer' \in [Writer -> WriterType]
    BY <1>7, <1>w DEF Insert, WriteDone
  <2>3. mysql' \in [Uid -> Row \cup {None}] /\ written' \subseteq Uid /\ last' \in Change \cup {None}
    BY <1>7, <2>1 DEF Insert, TypeOK
  <2> QED BY <1>7, <2>2, <2>3 DEF Insert, TypeOK, WriterType
<1>8. CASE UNCHANGED vars
  BY <1>8 DEF vars, TypeOK
<1> QED
  BY <1>1, <1>2, <1>3, <1>4, <1>5, <1>6, <1>7, <1>8, Steps

-----------------------------------------------------------------------------
\* The other tasks stay as they are, and a task writes to redis and to the list only.
LEMMA OtherTasksStay ==
  ASSUME TypeOK, NEW t \in Task, TaskStep(t)
  PROVE  /\ \A s \in Task \ {t} : task'[s] = task[s]
         /\ UNCHANGED <<mysql, writer, todo, restarts>>
<1>1. task \in [Task -> TaskType]
  BY DEF TypeOK, TaskType
<1>2. UNCHANGED <<mysql, writer, todo, restarts>>
  BY DEF TaskStep, CreateStep, SaveStep, Lookup, NewUid, HasUser, HasAccount, SetAccount, SetUser,
         AddModify, StartCreate, StartLogin
<1>3. CASE NewUid(t)
  BY <1>2, <1>3, TaskMoves
<1>4. CASE Lookup(t) \/ HasUser(t) \/ HasAccount(t) \/ SetAccount(t) \/ SaveStep(t)
  <2>1. Done(t) \/ \E at : Goto(t, at)
    BY <1>4 DEF SaveStep, Lookup, HasUser, HasAccount, SetAccount, SetUser, AddModify
  <2> QED BY <1>2, <2>1, TaskMoves
<1>5. CASE \E a \in Account : StartCreate(t, a)
  BY <1>1, <1>2, <1>5 DEF StartCreate
<1>6. CASE \E u \in Uid : StartLogin(t, u)
  BY <1>1, <1>2, <1>6 DEF StartLogin
<1> QED BY <1>3, <1>4, <1>5, <1>6 DEF TaskStep, CreateStep

\* The user ids do not run out (the bound of StartCreate is enough for each creation).
LEMMA RoomStep ==
  ASSUME TypeOK, RoomLeft, [Next]_vars
  PROVE  RoomLeft'
<1> DEFINE S == {t \in Task : task[t].at \in Early}
<1>1. IsFiniteSet(S) /\ Cardinality(S) \in Nat
  BY TaskAssumption, FS_Subset, FS_CardinalityType
<1>2. uids \in Nat /\ uids + Cardinality(S) <= MaxUsers
  BY DEF RoomLeft, TypeOK
<1>3. ASSUME S' \subseteq S, uids' = uids PROVE RoomLeft'
  <2>1. Cardinality(S') <= Cardinality(S) /\ Cardinality(S') \in Nat
    BY <1>1, <1>3, FS_Subset, FS_CardinalityType
  <2> QED BY <1>1, <1>2, <1>3, <2>1, BoundAssumption DEF RoomLeft
<1>4. ASSUME NEW t \in Task, TaskStep(t) PROVE RoomLeft'
  <2>0. \A s \in Task \ {t} : task'[s] = task[s]
    BY <1>4, OtherTasksStay
  <2>1. CASE NewUid(t)
    <3>1. S' = S \ {t} /\ t \in S /\ uids' = uids + 1
      <4>1. task'[t].at = "hasuser" /\ task[t].at = "incr" /\ uids' = uids + 1
        BY <2>1, TaskMoves DEF NewUid, NextUid, At
      <4> QED BY <2>0, <4>1 DEF Early
    <3>2. Cardinality(S') = Cardinality(S) - 1
      BY <1>1, <3>1, FS_RemoveElement
    <3> QED BY <1>1, <1>2, <3>1, <3>2, BoundAssumption DEF RoomLeft
  <2>2. CASE \E a \in Account : StartCreate(t, a)
    <3>1. S' \subseteq S \cup {t} /\ uids' = uids
      BY <2>0, <2>2 DEF StartCreate, redisVars
    <3>2. uids + Cardinality(S) < MaxUsers
      BY <2>2 DEF StartCreate, Early
    <3>3. IsFiniteSet(S \cup {t}) /\ Cardinality(S \cup {t}) <= Cardinality(S) + 1
      BY <1>1, FS_AddElement
    <3>4. Cardinality(S') \in Nat /\ Cardinality(S \cup {t}) \in Nat /\ Cardinality(S') <= Cardinality(S \cup {t})
      BY <3>1, <3>3, FS_Subset, FS_CardinalityType
    <3> QED BY <1>1, <1>2, <3>1, <3>2, <3>3, <3>4, BoundAssumption DEF RoomLeft
  <2>3. CASE \E u \in Uid : StartLogin(t, u)
    <3>1. task'[t].at \notin Early /\ uids' = uids
      BY <2>3 DEF StartLogin, Idle, Early, TypeOK, redisVars
    <3> QED BY <1>3, <2>0, <3>1
  <2>4. CASE Lookup(t)
    <3>1. t \in S /\ uids' = uids
      BY <2>4 DEF Lookup, At, Early, redisVars
    <3> QED BY <1>3, <2>0, <3>1
  <2>5. CASE HasUser(t) \/ HasAccount(t) \/ SetAccount(t) \/ SaveStep(t)
    <3>1. uids' = uids
      BY <2>5 DEF SaveStep, HasUser, HasAccount, SetAccount, SetUser, AddModify, redisVars
    <3>2. Done(t) \/ Goto(t, "setuser") \/ Goto(t, "setaccount") \/ Goto(t, "change") \/ Goto(t, "hasaccount")
      BY <2>5 DEF SaveStep, HasUser, HasAccount, SetAccount, SetUser, AddModify, AfterChange
    <3>3. task'[t].at \notin Early
      BY <3>2, TaskMoves DEF Idle, Early, TaskType
    <3> QED BY <1>3, <2>0, <3>1, <3>3
  <2> QED BY <1>4, <2>1, <2>2, <2>3, <2>4, <2>5 DEF TaskStep, CreateStep
<1>5. CASE Restart
  <2>1. S' \subseteq S /\ uids' = uids
    BY <1>5 DEF Restart, Idle, Early, redisVars
  <2> QED BY <1>3, <2>1
<1>6. CASE Take \/ Snapshot \/ NextRow \/ (\E w \in Writer : Update(w) \/ Insert(w)) \/ UNCHANGED vars
  <2>1. task' = task /\ uids' = uids
    BY <1>6 DEF Take, Snapshot, NextRow, Update, Insert, vars, redisVars
  <2> QED BY <1>3, <2>1
<1> QED BY <1>4, <1>5, <1>6, Steps

-----------------------------------------------------------------------------
\* A user that is in redis stays there, and its id is never given out again.
LEMMA UsersStay ==
  ASSUME TypeOK, TasksKnow, [Next]_vars
  PROVE  /\ \A u \in Uid : user[u] # None => user'[u] # None
         /\ uids \in Nat /\ uids <= MaxUsers /\ uids' \in Nat /\ uids <= uids'
         /\ ~ Restart => written \subseteq written'
<1>0. uids \in Nat /\ uids <= MaxUsers
  BY BoundAssumption DEF TypeOK
<1>1. ASSUME NEW t \in Task, TaskStep(t)
      PROVE  /\ \A u \in Uid : user[u] # None => user'[u] # None
             /\ uids' \in Nat /\ uids <= uids' /\ written \subseteq written'
  <2>1. CASE SetUser(t)
    <3>1. task[t].row \in Row /\ task[t].row # None
      BY <2>1, NoneAssumption, BoundAssumption DEF SetUser, At, TasksKnow, Knows, Row, TypeOK
    <3> QED BY <1>0, <2>1, <3>1 DEF SetUser, TypeOK
  <2>2. CASE NewUid(t)
    BY <1>0, <2>2 DEF NewUid, NextUid, historyVars
  <2>3. CASE ~ SetUser(t) /\ ~ NewUid(t)
    <3>1. UNCHANGED <<user, uids, written>>
      BY <1>1, <2>3 DEF TaskStep, CreateStep, SaveStep, Lookup, HasUser, HasAccount, SetAccount,
         AddModify, StartCreate, StartLogin, redisVars, historyVars
    <3> QED BY <1>0, <3>1
  <2> QED BY <2>1, <2>2, <2>3
<1>2. CASE Take \/ Snapshot \/ NextRow \/ Restart \/ UNCHANGED vars
  BY <1>0, <1>2 DEF Take, Snapshot, NextRow, Restart, vars, redisVars, historyVars
<1>3. ASSUME NEW w \in Writer, Update(w) \/ Insert(w)
      PROVE  user' = user /\ uids' = uids /\ written \subseteq written'
  BY <1>3 DEF Update, Insert, redisVars, historyVars
<1> QED BY <1>0, <1>1, <1>2, <1>3, Steps

\* What a task knows stays true of it, whatever the others do.
LEMMA TasksStep ==
  ASSUME TypeOK, TasksKnow, AccountsKnow, [Next]_vars
  PROVE  TasksKnow'
<1>1. ASSUME NEW s \in Task, task'[s] = task[s], ~ Restart PROVE Knows(s)'
  <2>1. Knows(s) /\ (task[s].uid \in 1 .. uids => task[s].uid \in Uid)
    BY BoundAssumption DEF TasksKnow, Uid, TypeOK
  <2> QED BY <1>1, <2>1, UsersStay DEF Knows
<1>2. ASSUME NEW t \in Task, TaskStep(t), ~ Restart PROVE Knows(t)'
  <2>0. Knows(t) /\ task[t] \in TaskType /\ (task[t].uid \in 1 .. uids => task[t].uid \in Uid)
    BY TaskMoves, BoundAssumption DEF TasksKnow, Uid, TypeOK
  <2>1. ASSUME task'[t] = Idle PROVE Knows(t)'
    BY <2>1 DEF Knows, Idle
  <2>2. CASE Lookup(t)
    BY <2>0, <2>1, <2>2, TaskMoves DEF Lookup, Knows, At
  <2>3. CASE NewUid(t)
    <3>1. task'[t].at = "hasuser" /\ task'[t].account = task[t].account /\ task'[t].uid = uids + 1
          /\ task'[t].row = clock /\ uids' = uids + 1 /\ task[t].at = "incr"
      BY <2>3, TaskMoves DEF NewUid, NextUid, At
    <3> QED BY <2>0, <3>1, UsersStay DEF Knows, TypeOK
  <2>4. CASE HasUser(t)
    BY <2>0, <2>1, <2>4, TaskMoves, UsersStay DEF HasUser, Knows, At
  <2>5. CASE HasAccount(t)
    BY <2>0, <2>1, <2>5, TaskMoves, UsersStay DEF HasAccount, Knows, At
  <2>6. CASE SetAccount(t)
    BY <2>1, <2>6, TaskMoves DEF SetAccount
  <2>7. CASE SetUser(t)
    <3>1. task'[t].at = "change" /\ task'[t].uid = task[t].uid /\ task'[t].row = task[t].row
          /\ task[t].at = "setuser" /\ task[t].uid \in written'
      BY <2>7, TaskMoves DEF SetUser, At
    <3>2. user'[task[t].uid] # None
      BY <2>0, <2>7, <3>1, NoneAssumption, BoundAssumption DEF SetUser, Knows, Row, TypeOK
    <3> QED BY <2>0, <3>1, <3>2, UsersStay DEF Knows
  <2>8. CASE AddModify(t)
    <3>1. task[t].at = "change" /\ (task'[t] = Idle \/ (Goto(t, "hasaccount") /\ task[t].account # None))
      <4>1. task[t].at = "change" /\ IF AfterChange(t) = "idle" THEN Done(t) ELSE Goto(t, AfterChange(t))
        BY <2>8 DEF AddModify, At
      <4>2. CASE task[t].account = None
        <5>1. Done(t)
          BY <4>1, <4>2 DEF AfterChange
        <5> QED BY <4>1, <5>1, TaskMoves
      <4>3. CASE task[t].account # None
        <5>1. Goto(t, "hasaccount")
          BY <4>1, <4>3 DEF AfterChange
        <5> QED BY <4>1, <4>3, <5>1
      <4> QED BY <4>1, <4>2, <4>3
    <3>2. CASE Goto(t, "hasaccount") /\ task[t].account # None
      BY <2>0, <3>1, <3>2, TaskMoves, UsersStay DEF Knows, TaskType
    <3> QED BY <2>1, <3>1, <3>2
  <2>9. ASSUME NEW a \in Account, StartCreate(t, a) PROVE Knows(t)'
    <3>1. task'[t].at = "lookup" /\ task'[t].account = a
      BY <2>9 DEF StartCreate, Idle, TypeOK
    <3> QED BY <3>1 DEF Knows
  <2>10. ASSUME NEW u \in Uid, StartLogin(t, u) PROVE Knows(t)'
    <3>1. u \in 1 .. uids
      BY <2>10, NoneAssumption DEF StartLogin, AccountsKnow, Uid
    <3>2. clock + 1 \in Row
      BY <2>10, BoundAssumption DEF StartLogin, Row, TypeOK
    <3>3. task'[t] = Idle \/ (task'[t].at = "setuser" /\ task'[t].uid = u /\ task'[t].row = clock + 1)
      <4>1. CASE user[u] = None
        <5>1. task' = [task EXCEPT ![t] = Idle] /\ task \in [Task -> TaskType]
          BY <2>10, <4>1 DEF StartLogin, TypeOK, TaskType
        <5> QED BY <5>1
      <4>2. CASE user[u] # None
        BY <2>10, <4>2 DEF StartLogin, Idle, TypeOK
      <4> QED BY <4>1, <4>2
    <3> QED BY <2>1, <3>1, <3>2, <3>3, UsersStay DEF Knows
  <2> QED BY <1>2, <2>2, <2>3, <2>4, <2>5, <2>6, <2>7, <2>8, <2>9, <2>10 DEF TaskStep, CreateStep, SaveStep
<1>3. ASSUME NEW t \in Task, TaskStep(t) PROVE TasksKnow'
  <2>1. ~ Restart
    BY <1>3, OtherTasksStay DEF Restart, TypeOK
  <2> QED BY <1>1, <1>2, <1>3, <2>1, OtherTasksStay DEF TasksKnow
<1>4. CASE Restart
  BY <1>4 DEF Restart, TasksKnow, Knows, Idle
<1>5. CASE ~ Restart /\ task' = task
  BY <1>1, <1>5 DEF TasksKnow
<1>6. Take \/ Snapshot \/ NextRow \/ (\E w \in Writer : Update(w) \/ Insert(w)) \/ UNCHANGED vars => task' = task
  BY DEF Take, Snapshot, NextRow, Update, Insert, vars
<1> QED BY <1>3, <1>4, <1>5, <1>6, Steps

-----------------------------------------------------------------------------
\* An account keeps a user that redis has.
LEMMA AccountsStep ==
  ASSUME TypeOK, TasksKnow, AccountsKnow, [Next]_vars
  PROVE  AccountsKnow'
<1>1. ASSUME account' = account PROVE AccountsKnow'
  <2> SUFFICES ASSUME NEW a \in Account, account'[a] # None
               PROVE  account'[a] \in 1 .. uids' /\ user'[account'[a]] # None
    BY DEF AccountsKnow
  <2>1. account[a] \in 1 .. uids /\ account[a] \in Uid /\ user[account[a]] # None
    BY <1>1 DEF AccountsKnow, TypeOK
  <2> QED BY <1>1, <2>1, UsersStay
<1>2. ASSUME NEW t \in Task, SetAccount(t) PROVE AccountsKnow'
  <2> SUFFICES ASSUME NEW a \in Account, account'[a] # None
               PROVE  account'[a] \in 1 .. uids' /\ user'[account'[a]] # None
    BY DEF AccountsKnow
  <2>1. task[t].uid \in 1 .. uids /\ task[t].uid \in Uid /\ user[task[t].uid] # None
    BY <1>2, BoundAssumption DEF SetAccount, At, TasksKnow, Knows, TypeOK, Uid
  <2>2. account'[a] = task[t].uid \/ account'[a] = account[a]
    BY <1>2 DEF SetAccount, TypeOK
  <2>3. account[a] # None => account[a] \in 1 .. uids /\ account[a] \in Uid /\ user[account[a]] # None
    BY DEF AccountsKnow, TypeOK
  <2> QED BY <2>1, <2>2, <2>3, UsersStay
<1>3. account' = account \/ \E t \in Task : SetAccount(t)
  BY DEF Next, CreateStep, SaveStep, FlushStep, BootStep, Lookup, NewUid, HasUser, HasAccount, SetUser,
         AddModify, StartCreate, StartLogin, Take, Snapshot, NextRow, Update, Insert, Restart, Waiting,
         vars, redisVars
<1> QED BY <1>1, <1>2, <1>3

\* A creation has its user from NewUid on.
LEMMA CreatingBefore ==
  ASSUME TypeOK, TasksKnow, NEW t \in Task, TaskStep(t), Creating(t)'
  PROVE  \/ NewUid(t) /\ task'[t].uid = uids + 1
         \/ Creating(t) /\ task'[t].uid = task[t].uid /\ ~ SetAccount(t)
<1>0. Knows(t) /\ task[t] \in TaskType
  BY TaskMoves DEF TasksKnow
<1>1. task'[t] # Idle /\ ~ Done(t)
  BY TaskMoves DEF Creating, Idle
<1>2. CASE NewUid(t)
  BY <1>2, TaskMoves
<1>3. CASE Lookup(t)
  <2>1. Goto(t, "incr")
    BY <1>1, <1>3 DEF Lookup
  <2> QED BY <2>1, TaskMoves DEF Creating
<1>4. CASE HasUser(t) \/ HasAccount(t)
  <2>1. task[t].at \in {"hasuser", "hasaccount"} /\ \E at : Goto(t, at)
    BY <1>1, <1>4 DEF HasUser, HasAccount, At
  <2>2. ~ SetAccount(t)
    BY <2>1 DEF SetAccount, At
  <2> QED BY <2>1, <2>2, TaskMoves DEF Creating
<1>5. CASE SetAccount(t)
  BY <1>1, <1>5 DEF SetAccount
<1>6. CASE SetUser(t)
  <2>1. task[t].at = "setuser" /\ Goto(t, "change") /\ ~ SetAccount(t)
    BY <1>6 DEF SetUser, SetAccount, At
  <2> QED BY <2>1, TaskMoves DEF Creating
<1>7. CASE AddModify(t)
  <2>1. task[t].at = "change" /\ ~ SetAccount(t)
    BY <1>7 DEF AddModify, SetAccount, At
  <2>2. task[t].account # None /\ Goto(t, "hasaccount")
    BY <1>1, <1>7 DEF AddModify, AfterChange
  <2> QED BY <2>1, <2>2, TaskMoves DEF Creating
<1>8. ASSUME NEW a \in Account, StartCreate(t, a) PROVE FALSE
  BY <1>8 DEF StartCreate, Idle, Creating, TypeOK
<1>9. ASSUME NEW u \in Uid, StartLogin(t, u) PROVE FALSE
  <2>1. user[u] # None
    <3>1. CASE user[u] = None
      <4>1. task' = [task EXCEPT ![t] = Idle] /\ task \in [Task -> TaskType]
        BY <1>9, <3>1 DEF StartLogin, TypeOK, TaskType
      <4> QED BY <1>1, <4>1
    <3> QED BY <3>1
  <2> QED BY <1>9, <2>1 DEF StartLogin, Idle, Creating, TypeOK
<1> QED BY <1>2, <1>3, <1>4, <1>5, <1>6, <1>7, <1>8, <1>9 DEF TaskStep, CreateStep, SaveStep

\* A user stays that of one creation or of one account.
LEMMA OwnStep ==
  ASSUME TypeOK, TasksKnow, AccountsKnow, OwnUser, UsersNotShared, [Next]_vars
  PROVE  OwnUser' /\ UsersNotShared'
<1>0. /\ uids \in Nat
      /\ \A t \in Task : Creating(t) => task[t].uid \in 1 .. uids
      /\ \A a \in Account : account[a] # uids + 1
  <2>1. \A t \in Task : Creating(t) => task[t].uid \in 1 .. uids
    BY DEF Creating, TasksKnow, Knows
  <2>2. \A a \in Account : account[a] # uids + 1
    BY UsersStay, NoneAssumption DEF AccountsKnow
  <2> QED BY <2>1, <2>2, UsersStay
<1>1. ASSUME NEW t \in Task, TaskStep(t) PROVE OwnUser' /\ UsersNotShared'
  <2>1. /\ \A s \in Task \ {t} : task'[s] = task[s] /\ (Creating(s)' <=> Creating(s))
        /\ Creating(t)' => \/ NewUid(t) /\ task'[t].uid = uids + 1
                           \/ Creating(t) /\ task'[t].uid = task[t].uid /\ ~ SetAccount(t)
    BY <1>1, OtherTasksStay, CreatingBefore DEF Creating
  <2>2. \A s, r \in Task : Creating(s)' /\ Creating(r)' /\ task'[s].uid = task'[r].uid => s = r
    BY <1>0, <2>1 DEF OwnUser
  <2>3. CASE SetAccount(t)
    <3>1. Creating(t) /\ ~ Creating(t)' /\ task[t].uid # None
      <4>1. Creating(t) /\ task[t].uid # None
        BY <1>0, <2>3, NoneAssumption DEF SetAccount, At, Creating
      <4>2. ~ NewUid(t)
        BY <2>3 DEF SetAccount, NewUid, At
      <4> QED BY <2>1, <2>3, <4>1, <4>2
    <3>2. \A a \in Account : account'[a] = IF a = task[t].account THEN task[t].uid ELSE account[a]
      BY <2>3 DEF SetAccount, TypeOK
    <3>3. \A s \in Task, a \in Account : Creating(s)' => account'[a] # task'[s].uid
      BY <2>1, <2>3, <3>1, <3>2 DEF OwnUser
    <3>4. UsersNotShared'
      BY <3>1, <3>2 DEF OwnUser, UsersNotShared
    <3> QED BY <2>2, <3>3, <3>4 DEF OwnUser
  <2>4. CASE ~ SetAccount(t)
    <3>1. account' = account
      BY <1>1, <2>4 DEF TaskStep, CreateStep, SaveStep, Lookup, NewUid, HasUser, HasAccount, SetUser,
         AddModify, StartCreate, StartLogin, redisVars
    <3>2. \A s \in Task, a \in Account : Creating(s)' => account'[a] # task'[s].uid
      BY <1>0, <2>1, <3>1 DEF OwnUser
    <3> QED BY <2>2, <3>1, <3>2 DEF OwnUser, UsersNotShared
  <2> QED BY <2>3, <2>4
<1>2. CASE Restart
  <2>1. account' = account /\ \A t \in Task : ~ Creating(t)'
    BY <1>2 DEF Restart, redisVars, Creating, Idle
  <2> QED BY <2>1 DEF OwnUser, UsersNotShared
<1>3. CASE Take \/ Snapshot \/ NextRow \/ (\E w \in Writer : Update(w) \/ Insert(w)) \/ UNCHANGED vars
  <2>1. account' = account /\ task' = task
    BY <1>3 DEF Take, Snapshot, NextRow, Update, Insert, vars, redisVars
  <2> QED BY <2>1 DEF OwnUser, UsersNotShared, Creating
<1> QED BY <1>1, <1>2, <1>3, Steps

-----------------------------------------------------------------------------
\* What a request to mysql changes.
Answered(w) == IF w = "init" THEN "next" ELSE "sleep"

LEMMA UpdateMoves ==
  ASSUME TypeOK, WritesKnow, NEW w \in Writer, Update(w)
  PROVE  /\ Writing(w) /\ writer[w].at = "update" /\ writer[w].uid \in Uid
         /\ \A x \in Writer \ {w} : writer'[x] = writer[x]
         /\ UNCHANGED <<redisVars, changes, task, todo, clock, restarts, historyVars>>
         /\ \/ /\ writer'[w].at = "insert" /\ writer'[w].uid = writer[w].uid /\ writer'[w].row = writer[w].row
               /\ mysql[writer[w].uid] = None /\ mysql' = mysql
            \/ /\ writer'[w].at = Answered(w)
               /\ \A u \in Uid : mysql'[u] = IF u = writer[w].uid THEN writer[w].row ELSE mysql[u]
            \/ writer'[w].at = "stopped" /\ mysql' = mysql
<1>1. writer \in [Writer -> WriterType]
  BY DEF TypeOK, WriterType
<1>2. Writing(w) /\ writer[w].at = "update" /\ writer[w].uid \in Uid
  BY DEF Update, Writing, WritesKnow
<1>3. UNCHANGED <<redisVars, changes, task, todo, clock, restarts, historyVars>>
  BY DEF Update
<1>4. CASE NoSuchRow(w) /\ writer' = [writer EXCEPT ![w].at = "insert"] /\ UNCHANGED mysql
  BY <1>1, <1>2, <1>3, <1>4 DEF NoSuchRow, WriterType
<1>5. CASE /\ ~ NoSuchRow(w)
           /\ mysql' = [u \in Uid |-> IF u = writer[w].uid /\ mysql[u] # None
                                      THEN writer[w].row ELSE mysql[u]]
           /\ WriteDone(w)
  BY <1>1, <1>2, <1>3, <1>5 DEF NoSuchRow, WriteDone, Doing, Answered
<1>6. CASE writer' = [writer EXCEPT ![w] = Doing("stopped")] /\ UNCHANGED mysql
  BY <1>1, <1>2, <1>3, <1>6 DEF Doing
<1> QED BY <1>4, <1>5, <1>6 DEF Update

LEMMA InsertMoves ==
  ASSUME TypeOK, WritesKnow, NEW w \in Writer, Insert(w)
  PROVE  /\ Writing(w) /\ writer[w].at = "insert" /\ writer[w].uid \in Uid
         /\ \A x \in Writer \ {w} : writer'[x] = writer[x]
         /\ UNCHANGED <<redisVars, changes, task, todo, clock, restarts>>
         /\ writer'[w].at = Answered(w)
         /\ \/ /\ UNCHANGED historyVars
               /\ \A u \in Uid : mysql'[u] = IF u = writer[w].uid /\ mysql[u] = None
                                            THEN writer[w].row ELSE mysql[u]
            \/ /\ mysql' = mysql /\ written' = written \cup {writer[w].uid}
               /\ last' = IF last # None /\ last.uid = writer[w].uid THEN None ELSE last
<1>1. writer \in [Writer -> WriterType]
  BY DEF TypeOK, WriterType
<1>2. Writing(w) /\ writer[w].at = "insert" /\ writer[w].uid \in Uid
  BY DEF Insert, Writing, WritesKnow
<1>3. UNCHANGED <<redisVars, changes, task, todo, clock, restarts>>
  BY DEF Insert
<1>4. writer'[w].at = Answered(w) /\ \A x \in Writer \ {w} : writer'[x] = writer[x]
  BY <1>1 DEF Insert, WriteDone, Doing, Answered
<1>5. CASE /\ mysql' = [mysql EXCEPT ![writer[w].uid] = IF @ = None THEN writer[w].row ELSE @]
           /\ UNCHANGED historyVars
  BY <1>2, <1>3, <1>4, <1>5 DEF TypeOK
<1>6. CASE /\ written' = written \cup {writer[w].uid}
           /\ last' = IF last # None /\ last.uid = writer[w].uid THEN None ELSE last
           /\ UNCHANGED mysql
  BY <1>2, <1>3, <1>4, <1>6
<1> QED BY <1>5, <1>6 DEF Insert

LEMMA TakeMoves ==
  ASSUME TypeOK, Take
  PROVE  /\ Len(changes) > 0 /\ changes[1] \in Change /\ changes' = Front(changes)
         /\ changes' \in Seq(Change) /\ Len(changes') = Len(changes) - 1
         /\ \A i \in 1 .. Len(changes) - 1 : changes'[i] = changes[i]
         /\ writer'["flush"] = [at |-> "update", uid |-> changes[1].uid, row |-> changes[1].row]
         /\ writer'["init"] = writer["init"]
         /\ UNCHANGED <<redisVars, mysql, task, todo, clock, restarts, historyVars>>
<1>1. Len(changes) > 0 /\ changes \in Seq(Change) /\ changes' = Front(changes)
  BY DEF Take, Pending, Rest, TypeOK
<1>2. changes[1] \in Change
  BY <1>1
<1>3. writer \in [Writer -> WriterType]
  BY DEF TypeOK, WriterType
<1>4. /\ writer'["flush"] = [at |-> "update", uid |-> changes[1].uid, row |-> changes[1].row]
      /\ writer'["init"] = writer["init"]
  BY <1>3 DEF Take, Writer
<1> QED BY <1>1, <1>2, <1>4, FrontOf DEF Take

\* NextRow takes a user of the list, or finds none.
LEMMA NextRowMoves ==
  ASSUME TypeOK, NextRow
  PROVE  /\ writer["init"].at = "next" /\ writer'["flush"] = writer["flush"]
         /\ UNCHANGED <<redisVars, mysql, changes, task, clock, restarts, historyVars>>
         /\ \/ \E u \in Uid :
                 /\ todo[u] # None /\ todo[u] \in Row
                 /\ writer'["init"] = [at |-> "update", uid |-> u, row |-> todo[u]]
                 /\ \A v \in Uid : todo'[v] = IF v = u THEN None ELSE todo[v]
            \/ todo = NoRows /\ writer'["init"].at = "up" /\ todo' = todo
<1>1. writer \in [Writer -> WriterType]
  BY DEF TypeOK, WriterType
<1>2. writer["init"].at = "next" /\ writer'["flush"] = writer["flush"]
      /\ UNCHANGED <<redisVars, mysql, changes, task, clock, restarts, historyVars>>
  BY <1>1 DEF NextRow, Writer
<1>3. ASSUME NEW u \in Uid, todo[u] # None, todo' = TodoAfter(u),
             writer' = [writer EXCEPT !["init"] = [at |-> "update", uid |-> u, row |-> todo[u]]]
      PROVE  /\ todo[u] # None /\ todo[u] \in Row
             /\ writer'["init"] = [at |-> "update", uid |-> u, row |-> todo[u]]
             /\ \A v \in Uid : todo'[v] = IF v = u THEN None ELSE todo[v]
  <2>1. todo[u] \in Row /\ \A v \in Uid : todo'[v] = IF v = u THEN None ELSE todo[v]
    BY <1>3 DEF TypeOK, TodoAfter
  <2> QED BY <1>1, <1>3, <2>1 DEF Writer
<1>4. ASSUME todo = NoRows, writer' = [writer EXCEPT !["init"] = Doing("up")], UNCHANGED todo
      PROVE  todo = NoRows /\ writer'["init"].at = "up" /\ todo' = todo
  BY <1>1, <1>4 DEF Doing, Writer
<1> QED BY <1>2, <1>3, <1>4 DEF NextRow

LEMMA SnapshotMoves ==
  ASSUME TypeOK, Snapshot
  PROVE  /\ todo' = user /\ writer["init"].at = "boot" /\ writer'["init"].at = "next"
         /\ writer'["flush"] = writer["flush"]
         /\ UNCHANGED <<redisVars, mysql, changes, task, clock, restarts, historyVars>>
BY DEF TypeOK, Snapshot, Writer

\* After a restart nothing is pending, and initDB is about to begin.
LEMMA RestartMoves ==
  ASSUME Restart
  PROVE  /\ changes' = <<>> /\ todo' = NoRows /\ last' = None /\ written' = {}
         /\ user' = user /\ mysql' = mysql
         /\ writer'["init"].at = "boot" /\ writer'["flush"].at = "sleep"
BY DEF Restart, Started, Doing, Writer, redisVars

\* What a task writes: nothing, its row, or its change.
LEMMA TaskWrites ==
  ASSUME TypeOK, TasksKnow, NEW t \in Task, TaskStep(t)
  PROVE  /\ UNCHANGED <<mysql, writer, todo>>
         /\ \/ UNCHANGED <<user, written, changes, last>>
            \/ /\ UNCHANGED <<changes, last>> /\ written \subseteq written'
               /\ task[t].uid \in Uid /\ task[t].uid \in written'
               /\ \A u \in Uid \ {task[t].uid} : user'[u] = user[u]
            \/ /\ UNCHANGED <<user, written>>
               /\ \E c \in Change :
                    /\ c.uid \in written /\ user[c.uid] # None /\ changes' = <<c>> \o changes
                    /\ last' = IF writer["init"].at = "up" THEN c ELSE last
<1>1. UNCHANGED <<mysql, writer, todo>>
  BY OtherTasksStay
<1>2. CASE SetUser(t)
  <2>1. task[t].uid \in Uid
    BY <1>2, BoundAssumption DEF SetUser, At, TasksKnow, Knows, TypeOK, Uid
  <2>2. UNCHANGED <<changes, last>> /\ written' = written \cup {task[t].uid}
        /\ user' = [user EXCEPT ![task[t].uid] = task[t].row]
    BY <1>2 DEF SetUser
  <2>3. \A u \in Uid \ {task[t].uid} : user'[u] = user[u]
    BY <2>2 DEF TypeOK
  <2> QED BY <1>1, <2>1, <2>2, <2>3
<1>3. CASE AddModify(t)
  <2> DEFINE c == [uid |-> task[t].uid, row |-> task[t].row]
  <2>1. c \in Change /\ c.uid \in written /\ user[c.uid] # None
    BY <1>3, BoundAssumption DEF AddModify, At, TasksKnow, Knows, TypeOK, Uid, Change
  <2>2. UNCHANGED <<user, written>> /\ changes' = <<c>> \o changes
        /\ last' = IF writer["init"].at = "up" THEN c ELSE last
    BY <1>3 DEF AddModify, redisVars
  <2> HIDE DEF c
  <2> QED BY <1>1, <2>1, <2>2
<1>4. CASE ~ SetUser(t) /\ ~ AddModify(t)
  <2>1. UNCHANGED <<user, written, changes, last>>
    BY <1>4 DEF TaskStep, CreateStep, SaveStep, Lookup, NewUid, HasUser, HasAccount, SetAccount,
       StartCreate, StartLogin, redisVars, historyVars
  <2> QED BY <1>1, <2>1
<1> QED BY <1>2, <1>3, <1>4

\* Adding a change in front moves the others by one.
LEMMA InFront ==
  ASSUME NEW S, NEW s \in Seq(S), NEW c \in S
  PROVE  /\ <<c>> \o s \in Seq(S) /\ Len(<<c>> \o s) = Len(s) + 1 /\ (<<c>> \o s)[1] = c
         /\ \A i \in DOMAIN (<<c>> \o s) : (<<c>> \o s)[i] = c \/ \E j \in DOMAIN s : (<<c>> \o s)[i] = s[j]
<1>1. <<c>> \o s \in Seq(S) /\ Len(<<c>> \o s) = Len(s) + 1 /\ (<<c>> \o s)[1] = c
  OBVIOUS
<1>2. ASSUME NEW i \in DOMAIN (<<c>> \o s), i # 1
      PROVE  \E j \in DOMAIN s : (<<c>> \o s)[i] = s[j]
  <2>1. i \in 1 .. Len(s) + 1 /\ i - 1 \in DOMAIN s
    BY <1>1, <1>2
  <2>2. (<<c>> \o s)[i] = s[i - 1]
    BY <1>2, <2>1
  <2> QED BY <2>1, <2>2
<1> QED BY <1>1, <1>2

-----------------------------------------------------------------------------
\* What is to be written to mysql stays a user of redis.
LEMMA WritesStep ==
  ASSUME TypeOK, TasksKnow, WritesKnow, [Next]_vars
  PROVE  WritesKnow'
<1>0. \A i \in DOMAIN changes : changes[i] \in Change /\ changes[i].uid \in Uid
  <2>1. changes \in Seq(Change)
    BY DEF TypeOK
  <2>2. \A i \in DOMAIN changes : changes[i] \in Change
    BY <2>1
  <2> QED BY <2>2 DEF Change
<1>1. ASSUME NEW t \in Task, TaskStep(t) PROVE WritesKnow'
  <2>1. written \subseteq written' /\ UNCHANGED <<mysql, writer, todo>>
    BY <1>1, TaskWrites
  <2>2. \A i \in DOMAIN changes' : changes'[i].uid \in written' /\ user'[changes'[i].uid] # None
    <3>1. CASE changes' = changes
      BY <1>0, <2>1, <3>1, UsersStay DEF WritesKnow
    <3>2. ASSUME NEW c \in Change, c.uid \in written, user[c.uid] # None, user' = user,
                 changes' = <<c>> \o changes
          PROVE  \A i \in DOMAIN changes' : changes'[i].uid \in written' /\ user'[changes'[i].uid] # None
      <4>1. \A i \in DOMAIN changes' : changes'[i] = c \/ \E j \in DOMAIN changes : changes'[i] = changes[j]
        BY <3>2, InFront DEF TypeOK
      <4> QED BY <2>1, <3>2, <4>1 DEF WritesKnow
    <3> QED BY <1>1, <3>1, <3>2, TaskWrites
  <2>3. \A w \in Writer : (Writing(w)' <=> Writing(w)) /\ writer'[w] = writer[w]
    BY <2>1 DEF Writing
  <2>4. \A w \in Writer : Writing(w)' =>
          writer'[w].uid \in Uid /\ writer'[w].row \in Row /\ user'[writer'[w].uid] # None
    BY <2>3, UsersStay DEF WritesKnow
  <2>5. Writing("flush")' => writer'["flush"].uid \in written'
    BY <2>1, <2>3 DEF WritesKnow, Writer
  <2>6. \A u \in Uid : todo'[u] # None \/ mysql'[u] # None => user'[u] # None
    BY <2>1, UsersStay DEF WritesKnow
  <2> QED BY <2>2, <2>4, <2>5, <2>6 DEF WritesKnow
<1>2. CASE Take
  <2>1. \A i \in DOMAIN changes' : i \in DOMAIN changes /\ changes'[i] = changes[i]
    <3>1. changes \in Seq(Change)
      BY DEF TypeOK
    <3> QED BY <1>2, <3>1, TakeMoves
  <2>2. changes[1] \in Change /\ changes[1].uid \in written /\ user[changes[1].uid] # None
    BY <1>2, TakeMoves DEF WritesKnow, TypeOK
  <2>3. user' = user /\ written' = written /\ todo' = todo /\ mysql' = mysql
    BY <1>2, TakeMoves DEF redisVars, historyVars
  <2>4. writer'["flush"].uid = changes[1].uid /\ writer'["flush"].row = changes[1].row
        /\ writer'["init"] = writer["init"]
    BY <1>2, TakeMoves
  <2>5. ASSUME NEW w \in Writer, Writing(w)'
        PROVE  writer'[w].uid \in Uid /\ writer'[w].row \in Row /\ user'[writer'[w].uid] # None
    <3>1. CASE w = "flush"
      BY <2>2, <2>3, <2>4, <3>1 DEF Change
    <3>2. CASE w = "init"
      <4>1. Writing("init")
        BY <2>4, <2>5, <3>2 DEF Writing
      <4> QED BY <2>3, <2>4, <3>2, <4>1 DEF WritesKnow
    <3> QED BY <3>1, <3>2 DEF Writer
  <2> QED BY <2>1, <2>2, <2>3, <2>4, <2>5 DEF WritesKnow
<1>3. CASE Snapshot
  BY <1>3, SnapshotMoves DEF WritesKnow, Writing, Writer, redisVars, historyVars
<1>4. CASE NextRow
  <2>1. UNCHANGED <<user, mysql, changes, written>> /\ writer'["flush"] = writer["flush"]
    BY <1>4, NextRowMoves DEF redisVars, historyVars
  <2>2. \A u \in Uid : todo'[u] # None => todo[u] # None
    BY <1>4, NextRowMoves
  <2>3. Writing("init")' => writer'["init"].uid \in Uid /\ writer'["init"].row \in Row
                           /\ user'[writer'["init"].uid] # None
    <3>1. CASE writer'["init"].at = "up"
      BY <3>1 DEF Writing
    <3>2. ASSUME NEW u \in Uid, todo[u] # None, todo[u] \in Row,
                 writer'["init"] = [at |-> "update", uid |-> u, row |-> todo[u]]
          PROVE  writer'["init"].uid \in Uid /\ writer'["init"].row \in Row
                 /\ user'[writer'["init"].uid] # None
      <4>1. user[u] # None
        BY <3>2 DEF WritesKnow
      <4> QED BY <2>1, <3>2, <4>1
    <3> QED BY <1>4, <3>1, <3>2, NextRowMoves
  <2> QED BY <2>1, <2>2, <2>3 DEF WritesKnow, Writing, Writer
<1>5. CASE Restart
  BY <1>5, RestartMoves DEF WritesKnow, Writing, Writer, NoRows
<1>6. ASSUME NEW w \in Writer, Update(w) \/ Insert(w) PROVE WritesKnow'
  <2>1. Writing(w) /\ writer[w].uid \in Uid /\ \A x \in Writer \ {w} : writer'[x] = writer[x]
    BY <1>6, UpdateMoves, InsertMoves
  <2>2. UNCHANGED <<user, changes, todo>> /\ written \subseteq written'
    BY <1>6, UpdateMoves, InsertMoves DEF redisVars, historyVars
  <2>3. Writing(w)' => writer'[w].uid = writer[w].uid /\ writer'[w].row = writer[w].row
    BY <1>6, UpdateMoves, InsertMoves DEF Writing, Answered
  <2>4. \A u \in Uid : mysql'[u] # None => mysql[u] # None \/ u = writer[w].uid
    BY <1>6, UpdateMoves, InsertMoves
  <2>5. \A x \in Writer : Writing(x)' =>
          Writing(x) /\ writer'[x].uid = writer[x].uid /\ writer'[x].row = writer[x].row
    BY <2>1, <2>3 DEF Writing
  <2>6. "flush" \in Writer
    BY DEF Writer
  <2> QED BY <2>1, <2>2, <2>4, <2>5, <2>6 DEF WritesKnow
<1>7. CASE UNCHANGED vars
  BY <1>7 DEF vars, WritesKnow, Writing, redisVars, historyVars
<1> QED BY <1>1, <1>2, <1>3, <1>4, <1>5, <1>6, <1>7, Steps

-----------------------------------------------------------------------------
\* The copy of initDB: a user that was not written keeps its row in redis.
LEMMA CopiesStep ==
  ASSUME TypeOK, TasksKnow, WritesKnow, Copies, [Next]_vars
  PROVE  Copies'
<1>1. ASSUME writer'["init"] = writer["init"], todo' = todo, written \subseteq written',
             \A u \in Uid \ written' : user'[u] = user[u] /\ mysql'[u] = mysql[u]
      PROVE  Copies'
  BY <1>1 DEF Copies, Writing
<1>2. ASSUME NEW t \in Task, TaskStep(t) PROVE Copies'
  <2>1. /\ UNCHANGED <<mysql, writer, todo>> /\ written \subseteq written'
        /\ \A u \in Uid \ written' : user'[u] = user[u]
    BY <1>2, TaskWrites
  <2> QED BY <1>1, <2>1
<1>3. CASE Take
  <2>1. UNCHANGED <<user, mysql, todo, written>> /\ writer'["init"] = writer["init"]
    BY <1>3, TakeMoves DEF redisVars, historyVars
  <2> QED BY <1>1, <2>1
<1>4. CASE Snapshot
  <2>1. todo' = user /\ user' = user /\ mysql' = mysql /\ written' = written /\ writer'["init"].at = "next"
    BY <1>4, SnapshotMoves DEF redisVars, historyVars
  <2> QED BY <2>1 DEF Copies, Writing, WritesKnow
<1>5. CASE NextRow
  <2>0. UNCHANGED <<user, mysql, written>> /\ writer["init"].at = "next"
    BY <1>5, NextRowMoves DEF redisVars, historyVars
  <2>1. \A u \in Uid \ written :
          /\ todo[u] # None => todo[u] = user[u]
          /\ todo[u] # None \/ mysql[u] = user[u]
    BY <2>0 DEF Copies, Writing
  <2>2. ASSUME NEW u \in Uid, todo[u] # None,
               writer'["init"] = [at |-> "update", uid |-> u, row |-> todo[u]],
               \A v \in Uid : todo'[v] = IF v = u THEN None ELSE todo[v]
        PROVE  Copies'
    BY <2>0, <2>1, <2>2 DEF Copies, Writing
  <2>3. CASE todo = NoRows /\ writer'["init"].at = "up" /\ todo' = todo
    BY <2>0, <2>1, <2>3 DEF Copies, Writing, NoRows
  <2> QED BY <1>5, <2>2, <2>3, NextRowMoves
<1>6. CASE Restart
  BY <1>6, RestartMoves DEF Copies, Writing, NoRows
<1>7. CASE Update("flush") \/ Insert("flush")
  <2>1. UNCHANGED <<user, todo>> /\ written \subseteq written' /\ writer'["init"] = writer["init"]
        /\ writer["flush"].uid \in written
    BY <1>7, UpdateMoves, InsertMoves DEF redisVars, historyVars, Writer, WritesKnow
  <2>2. \A u \in Uid : mysql'[u] = mysql[u] \/ u = writer["flush"].uid
    BY <1>7, UpdateMoves, InsertMoves DEF Writer
  <2> QED BY <1>1, <2>1, <2>2
<1>8. CASE Update("init")
  <2>0. UNCHANGED <<user, todo, written>> /\ writer["init"].at = "update" /\ writer["init"].uid \in Uid
    BY <1>8, UpdateMoves DEF redisVars, historyVars, Writer
  <2>1. \A u \in Uid \ written :
          /\ todo[u] # None => todo[u] = user[u]
          /\ writer["init"].uid = u => writer["init"].row = user[u]
          /\ todo[u] # None \/ writer["init"].uid = u \/ mysql[u] = user[u]
    BY <2>0 DEF Copies, Writing
  <2>2. CASE /\ writer'["init"].at = "insert" /\ writer'["init"].uid = writer["init"].uid
             /\ writer'["init"].row = writer["init"].row
             /\ mysql[writer["init"].uid] = None /\ mysql' = mysql
    BY <2>0, <2>1, <2>2 DEF Copies, Writing
  <2>3. CASE /\ writer'["init"].at = Answered("init")
             /\ \A u \in Uid : mysql'[u] = IF u = writer["init"].uid THEN writer["init"].row ELSE mysql[u]
    BY <2>0, <2>1, <2>3 DEF Copies, Writing, Answered
  <2>4. CASE writer'["init"].at = "stopped" /\ mysql' = mysql
    BY <2>0, <2>1, <2>4 DEF Copies, Writing
  <2> QED BY <1>8, <2>2, <2>3, <2>4, UpdateMoves DEF Writer
<1>9. CASE Insert("init")
  <2>0. UNCHANGED <<user, todo>> /\ writer["init"].at = "insert" /\ writer["init"].uid \in Uid
        /\ writer'["init"].at = "next"
    BY <1>9, InsertMoves DEF redisVars, Writer, Answered
  <2>1. \A u \in Uid \ written :
          /\ todo[u] # None => todo[u] = user[u]
          /\ writer["init"].uid = u => writer["init"].row = user[u] /\ mysql[u] = None
          /\ todo[u] # None \/ writer["init"].uid = u \/ mysql[u] = user[u]
    BY <2>0 DEF Copies, Writing
  <2>2. CASE /\ written' = written
             /\ \A u \in Uid : mysql'[u] = IF u = writer["init"].uid /\ mysql[u] = None
                                          THEN writer["init"].row ELSE mysql[u]
    BY <2>0, <2>1, <2>2 DEF Copies, Writing
  <2>3. CASE mysql' = mysql /\ written' = written \cup {writer["init"].uid}
    BY <2>0, <2>1, <2>3 DEF Copies, Writing
  <2> QED BY <1>9, <2>2, <2>3, InsertMoves DEF Writer, historyVars
<1>10. CASE UNCHANGED vars
  BY <1>1, <1>10 DEF vars, redisVars, historyVars
<1> QED BY <1>2, <1>3, <1>4, <1>5, <1>6, <1>7, <1>8, <1>9, <1>10, Steps DEF Writer

\* The newest change goes from the list through the flush to mysql.
LEMMA NewestStep ==
  ASSUME TypeOK, TasksKnow, WritesKnow, Newest, [Next]_vars
  PROVE  Newest'
<1>1. ASSUME UNCHANGED <<writer, mysql, changes, last>> PROVE Newest'
  BY <1>1 DEF Newest, Writing
<1>2. ASSUME last' = None PROVE Newest'
  BY <1>2 DEF Newest
<1>3. ASSUME last = None, last' = last PROVE Newest'
  BY <1>2, <1>3
<1>4. ASSUME NEW t \in Task, TaskStep(t) PROVE Newest'
  <2>1. CASE UNCHANGED <<changes, last>>
    BY <1>1, <1>4, <2>1, TaskWrites
  <2>2. ASSUME NEW c \in Change, changes' = <<c>> \o changes,
               last' = IF writer["init"].at = "up" THEN c ELSE last
        PROVE  Newest'
    <3>1. changes' # <<>> /\ changes'[1] = c
      <4>1. changes \in Seq(Change)
        BY DEF TypeOK
      <4> QED BY <2>2, <4>1
    <3>2. CASE writer["init"].at = "up"
      BY <1>4, <2>2, <3>1, <3>2, TaskWrites DEF Newest
    <3>3. CASE writer["init"].at # "up"
      BY <1>3, <2>2, <3>3 DEF Newest
    <3> QED BY <3>2, <3>3
  <2> QED BY <1>4, <2>1, <2>2, TaskWrites
<1>5. CASE Take
  <2>1. last' = last /\ mysql' = mysql /\ writer'["init"] = writer["init"]
    BY <1>5, TakeMoves DEF historyVars
  <2>2. writer'["flush"].at = "update" /\ writer'["flush"].uid = changes[1].uid
        /\ writer'["flush"].row = changes[1].row
    BY <1>5, TakeMoves
  <2>3. changes # <<>> /\ (changes' # <<>> => changes'[1] = changes[1])
    <3>1. changes \in Seq(Change)
      BY DEF TypeOK
    <3> QED BY <1>5, <3>1, TakeMoves
  <2> QED BY <2>1, <2>2, <2>3 DEF Newest, Writing
<1>6. CASE Snapshot \/ NextRow \/ Update("init")
  <2>1. writer["init"].at # "up" /\ last' = last
    BY <1>6, SnapshotMoves, NextRowMoves, UpdateMoves DEF historyVars, Writer
  <2> QED BY <1>3, <2>1 DEF Newest
<1>7. CASE Insert("init")
  <2>1. writer["init"].at # "up" /\ (last' = last \/ last' = None)
    BY <1>7, InsertMoves DEF historyVars, Writer
  <2> QED BY <1>2, <1>3, <2>1 DEF Newest
<1>8. CASE Restart
  BY <1>2, <1>8, RestartMoves
<1>9. CASE Update("flush")
  <2>0. /\ last' = last /\ changes' = changes /\ writer["flush"].at = "update" /\ Writing("flush")
        /\ writer'["init"] = writer["init"]
    BY <1>9, UpdateMoves DEF historyVars, Writer
  <2>1. last # None => last.uid \in Uid
    BY DEF TypeOK, Change
  <2>2. CASE /\ writer'["flush"].at = "insert" /\ writer'["flush"].uid = writer["flush"].uid
             /\ writer'["flush"].row = writer["flush"].row
             /\ mysql[writer["flush"].uid] = None /\ mysql' = mysql
    BY <2>0, <2>2 DEF Newest, Writing
  <2>3. CASE /\ writer'["flush"].at = Answered("flush")
             /\ \A u \in Uid : mysql'[u] = IF u = writer["flush"].uid THEN writer["flush"].row ELSE mysql[u]
    BY <2>0, <2>1, <2>3 DEF Newest, Writing, Answered
  <2>4. CASE writer'["flush"].at = "stopped" /\ mysql' = mysql
    BY <2>0, <2>4 DEF Newest
  <2> QED BY <1>9, <2>2, <2>3, <2>4, UpdateMoves DEF Writer
<1>10. CASE Insert("flush")
  <2>0. /\ changes' = changes /\ writer["flush"].at = "insert" /\ Writing("flush")
        /\ writer'["init"] = writer["init"] /\ writer'["flush"].at = "sleep"
    BY <1>10, InsertMoves DEF Writer, Answered
  <2>1. last # None => last.uid \in Uid
    BY DEF TypeOK, Change
  <2>2. CASE /\ last' = last
             /\ \A u \in Uid : mysql'[u] = IF u = writer["flush"].uid /\ mysql[u] = None
                                          THEN writer["flush"].row ELSE mysql[u]
    BY <2>0, <2>1, <2>2 DEF Newest, Writing
  <2>3. CASE /\ mysql' = mysql
             /\ last' = IF last # None /\ last.uid = writer["flush"].uid THEN None ELSE last
    BY <2>0, <2>3 DEF Newest, Writing
  <2> QED BY <1>10, <2>2, <2>3, InsertMoves DEF Writer, historyVars
<1>11. CASE UNCHANGED vars
  BY <1>1, <1>11 DEF vars, historyVars
<1> QED BY <1>4, <1>5, <1>6, <1>7, <1>8, <1>9, <1>10, <1>11, Steps DEF Writer

-----------------------------------------------------------------------------
LEMMA InitInv == Init => IInv
<1> SUFFICES ASSUME Init PROVE IInv
  OBVIOUS
<1>1. \A t \in Task : task[t] = Idle
  BY DEF Init
<1>2. writer["init"].at = "boot" /\ writer["flush"].at = "sleep"
  BY DEF Init, Started, Doing, Writer
<1>3. TypeOK
  <2>1. task \in [Task -> TaskType]
    BY DEF Init, Idle, TaskType
  <2>2. writer \in [Writer -> WriterType]
    BY DEF Init, Started, Doing, Writer, WriterType
  <2>3. 0 \in 0 .. MaxUsers /\ 0 \in Row /\ 0 \in 0 .. MaxRestarts
    BY BoundAssumption DEF Row
  <2> QED BY <2>1, <2>2, <2>3 DEF Init, TypeOK, NoRows, TaskType, WriterType
<1>4. RoomLeft
  <2>1. {t \in Task : task[t].at \in Early} = {}
    BY <1>1 DEF Idle, Early
  <2>2. Cardinality({t \in Task : task[t].at \in Early}) = 0
    BY <2>1, FS_EmptySet
  <2>3. uids = 0
    BY DEF Init
  <2> HIDE DEF Early
  <2> QED BY <2>2, <2>3, BoundAssumption DEF RoomLeft
<1>5. TasksKnow /\ AccountsKnow /\ OwnUser /\ UsersNotShared
  BY <1>1 DEF Init, TasksKnow, Knows, Idle, AccountsKnow, OwnUser, Creating, UsersNotShared
<1>6. WritesKnow /\ Copies /\ Newest
  BY <1>2 DEF Init, NoRows, WritesKnow, Writing, Writer, Copies, Newest
<1> QED BY <1>3, <1>4, <1>5, <1>6 DEF IInv, AccountInv, BackupInv

\* The inductive invariant of the database service: what each task and each writer
\* knows between its requests, for any accounts, users, logins, kills and errors.
THEOREM Inductive == Spec => []IInv
<1>1. Init => IInv
  BY InitInv
<1>2. IInv /\ [Next]_vars => IInv'
  BY TypeStep, RoomStep, TasksStep, AccountsStep, OwnStep, WritesStep, CopiesStep, NewestStep
  DEF IInv, AccountInv, BackupInv
<1> QED BY <1>1, <1>2, PTL DEF Spec

\* CreateAccount may be killed between the user and the account: an account never
\* names a user that redis does not have.
THEOREM AccountsHaveUsers == Spec => []UserBehindAccount
<1>1. IInv => UserBehindAccount
  BY DEF IInv, AccountInv, AccountsKnow, UserBehindAccount
<1> QED BY <1>1, Inductive, PTL

\* Two accounts never have one user, however creations cross and are cut off.
THEOREM UsersAreNotShared == Spec => []UsersNotShared
<1>1. IInv => UsersNotShared
  BY DEF IInv, AccountInv
<1> QED BY <1>1, Inductive, PTL

\* When initDB is through, mysql has every user that was not written since the start.
THEOREM StartCopies == Spec => []BootCopies
<1>1. IInv => BootCopies
  BY DEF IInv, BackupInv, Copies, BootCopies, Writing, NoRows
<1> QED BY <1>1, Inductive, PTL

\* When onUpdate has emptied the list, the newest change is in mysql.
THEOREM NewestReachesMysql == Spec => []NewestIsBackedUp
<1>1. IInv => NewestIsBackedUp
  BY DEF IInv, BackupInv, Newest, NewestIsBackedUp, Writing
<1> QED BY <1>1, Inductive, PTL

=============================================================================
