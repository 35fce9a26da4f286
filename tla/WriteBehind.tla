---------------------------- MODULE WriteBehind ----------------------------
(***************************************************************************)
(* The database service of ykserver: accounts and users in redis, a list   *)
(* of changed users that mysql_db flushes to mysql, and the copy of all    *)
(* users to mysql when the process starts.                                 *)
(*                                                                         *)
(* A request to redis, to mysql or to the other service yields, so that    *)
(* the tasks of dbserver and the two writers of mysql_db interleave at     *)
(* each of them.  One request is one action.  The process may be killed    *)
(* and started again; redis and mysql stay.  A start begins here when      *)
(* mysql_db is registered, at dataMode.initRedis.                          *)
(*                                                                         *)
(* A row of a user is its last login time.  A Mut... operator is a faulty  *)
(* variant of the definition after it, used only to show that the          *)
(* properties can fail.                                                    *)
(***************************************************************************)
EXTENDS Integers, Sequences, SequencesExt, FiniteSets

CONSTANTS
  Account,      \* the names of accounts
  Task,         \* requests that dbserver handles at the same time
  None,         \* no user, no row
  MaxUsers,     \* bound on the user ids that are given out
  MaxLogins,    \* bound on the logins
  MaxRestarts,  \* bound on the times the process is killed
  MysqlFails    \* whether mysql may answer a query with an error

ASSUME NoneAssumption == None \notin Nat
ASSUME TaskAssumption == IsFiniteSet(Task)
ASSUME BoundAssumption == MaxUsers \in Nat /\ MaxLogins \in Nat /\ MaxRestarts \in Nat
ASSUME FailAssumption == MysqlFails \in BOOLEAN

Uid    == 1 .. MaxUsers
Row    == 0 .. MaxLogins
Change == [uid : Uid, row : Row]
Writer == {"flush", "init"}   \* onUpdate and initDB

VARIABLES
  account,   \* redis: the user of each account (accountData)
  user,      \* redis: the row of each user (userData)
  uids,      \* redis: __uniqueUserid
  mysql,     \* mysql: the row of each user
  changes,   \* needChangeData, the newest first
  task,      \* the requests in progress
  writer,    \* the coroutines of mysql_db that write
  todo,      \* users that initDB has yet to copy, with their rows
  clock,     \* os.time()
  restarts,  \* how often the process was killed
  written,   \* history: users written, or that mysql refused, since the start
  last       \* history: the newest change made since dbserver was up, None
             \*   after mysql refused its user

redisVars   == <<account, user, uids>>
historyVars == <<written, last>>
vars == <<redisVars, mysql, changes, task, writer, todo, clock, restarts, historyVars>>

Idle == [at |-> "idle", account |-> None, uid |-> None, row |-> None]

TypeOK ==
  /\ account \in [Account -> Uid \cup {None}]
  /\ user \in [Uid -> Row \cup {None}]
  /\ uids \in 0 .. MaxUsers
  /\ mysql \in [Uid -> Row \cup {None}]
  /\ changes \in Seq(Change)
  /\ task \in [Task ->
       [at : {"idle", "lookup", "incr", "hasuser", "setuser", "change", "hasaccount", "setaccount"},
        account : Account \cup {None}, uid : Uid \cup {None}, row : Row \cup {None}]]
  /\ writer \in [Writer ->
       [at : {"boot", "next", "up", "sleep", "update", "insert", "stopped"},
        uid : Uid \cup {None}, row : Row \cup {None}]]
  /\ todo \in [Uid -> Row \cup {None}]
  /\ clock \in Row
  /\ restarts \in 0 .. MaxRestarts
  /\ written \subseteq Uid
  /\ last \in Change \cup {None}

NoRows == [u \in Uid |-> None]
Doing(at) == [at |-> at, uid |-> None, row |-> None]
Started == [w \in Writer |-> Doing(IF w = "init" THEN "boot" ELSE "sleep")]

Init ==
  /\ account = [a \in Account |-> None]
  /\ user = NoRows /\ mysql = NoRows /\ todo = NoRows
  /\ uids = 0 /\ clock = 0 /\ restarts = 0
  /\ changes = <<>>
  /\ task = [t \in Task |-> Idle]
  /\ writer = Started
  /\ written = {} /\ last = None

(***************************************************************************)
(* The tasks of dbserver: createaccount and setLastLoginTime.              *)
(***************************************************************************)
\* a failed initDB ends the service
Serving == writer["init"].at # "stopped"

At(t, at) == task[t].at = at /\ Serving
Goto(t, at) == task' = [task EXCEPT ![t].at = at]
Done(t) == task' = [task EXCEPT ![t] = Idle]

\* handlerAccount.createaccount
StartCreate(t, a) ==
  /\ At(t, "idle")
  /\ uids + Cardinality({u \in Task : task[u].at \in {"lookup", "incr"}}) < MaxUsers
  /\ task' = [task EXCEPT ![t] = [Idle EXCEPT !.at = "lookup", !.account = a]]
  /\ UNCHANGED <<redisVars, mysql, changes, writer, todo, clock, restarts, historyVars>>

\* GetAccountInfo and CreateAccount look for the account
Lookup(t) ==
  /\ At(t, "lookup")
  /\ IF account[task[t].account] # None THEN Done(t) ELSE Goto(t, "incr")
  /\ UNCHANGED <<redisVars, mysql, changes, writer, todo, clock, restarts, historyVars>>

MutNextUid == Cardinality({u \in Uid : user[u] # None}) + 1
MutNextUidTwice == uids + 2
NextUid == uids + 1

MutAfterUid == "hasaccount"
AfterUid == "hasuser"

\* GetuniqueUserid; the new user's row has the time of its creation
NewUid(t) ==
  /\ At(t, "incr")
  /\ uids' = NextUid
  /\ task' = [task EXCEPT ![t].at = AfterUid, ![t].uid = NextUid, ![t].row = clock]
  /\ UNCHANGED <<account, user, mysql, changes, writer, todo, clock, restarts, historyVars>>

\* command.Add of the user: hexists
HasUser(t) ==
  /\ At(t, "hasuser")
  /\ IF user[task[t].uid] # None THEN Done(t) ELSE Goto(t, "setuser")
  /\ UNCHANGED <<redisVars, mysql, changes, writer, todo, clock, restarts, historyVars>>

\* setLastLoginTime for a user of an account: hget of the row
StartLogin(t, u) ==
  /\ At(t, "idle")
  /\ \E a \in Account : account[a] = u
  /\ clock < MaxLogins
  /\ clock' = clock + 1
  /\ task' = [task EXCEPT ![t] =
       IF user[u] = None THEN Idle
       ELSE [Idle EXCEPT !.at = "setuser", !.uid = u, !.row = clock + 1]]
  /\ UNCHANGED <<redisVars, mysql, changes, writer, todo, restarts, historyVars>>

\* hset of the row, in command.Add and in command.AddOrUpdate
SetUser(t) ==
  /\ At(t, "setuser")
  /\ user' = [user EXCEPT ![task[t].uid] = task[t].row]
  /\ written' = written \cup {task[t].uid}
  /\ Goto(t, "change")
  /\ UNCHANGED <<account, uids, mysql, changes, writer, todo, clock, restarts, last>>

AfterChange(t) == IF task[t].account = None THEN "idle" ELSE "hasaccount"

\* mysql_db's addModify
AddModify(t) ==
  LET change == [uid |-> task[t].uid, row |-> task[t].row] IN
  /\ At(t, "change")
  /\ changes' = <<change>> \o changes
  /\ last' = IF writer["init"].at = "up" THEN change ELSE last
  /\ IF AfterChange(t) = "idle" THEN Done(t) ELSE Goto(t, AfterChange(t))
  /\ UNCHANGED <<redisVars, mysql, writer, todo, clock, restarts, written>>

\* command.Add of the account: hexists
HasAccount(t) ==
  /\ At(t, "hasaccount")
  /\ IF account[task[t].account] # None THEN Done(t) ELSE Goto(t, "setaccount")
  /\ UNCHANGED <<redisVars, mysql, changes, writer, todo, clock, restarts, historyVars>>

\* command.Add of the account: hset; accounts are not saved to mysql
SetAccount(t) ==
  /\ At(t, "setaccount")
  /\ account' = [account EXCEPT ![task[t].account] = task[t].uid]
  /\ Done(t)
  /\ UNCHANGED <<user, uids, mysql, changes, writer, todo, clock, restarts, historyVars>>

(***************************************************************************)
(* The writers of mysql_db: the loop onUpdate and the start-up's initDB.   *)
(***************************************************************************)
MutPending == Len(changes) > 1
Pending == Len(changes) > 0

MutRest == Tail(changes)
Rest == Front(changes)   \* table.remove takes the last one

\* onUpdate, every 90 s: the first change is written, the last is removed
Take ==
  /\ writer["flush"].at = "sleep"
  /\ Pending
  /\ writer' = [writer EXCEPT !["flush"] =
       [at |-> "update", uid |-> changes[1].uid, row |-> changes[1].row]]
  /\ changes' = Rest
  /\ UNCHANGED <<redisVars, mysql, task, todo, clock, restarts, historyVars>>

\* dataMode.initRedis: hvals of the users
Snapshot ==
  /\ writer["init"].at = "boot"
  /\ todo' = user
  /\ writer' = [writer EXCEPT !["init"].at = "next"]
  /\ UNCHANGED <<redisVars, mysql, changes, task, clock, restarts, historyVars>>

MutTodoAfter(u) == todo
TodoAfter(u) == [todo EXCEPT ![u] = None]

\* initDB goes on with a user of its list, or is done
NextRow ==
  /\ writer["init"].at = "next"
  /\ \/ \E u \in Uid :
          /\ todo[u] # None
          /\ writer' = [writer EXCEPT !["init"] = [at |-> "update", uid |-> u, row |-> todo[u]]]
          /\ todo' = TodoAfter(u)
     \/ /\ todo = NoRows
        /\ writer' = [writer EXCEPT !["init"] = Doing("up")]
        /\ UNCHANGED todo
  /\ UNCHANGED <<redisVars, mysql, changes, task, clock, restarts, historyVars>>

WriteDone(w) == writer' = [writer EXCEPT ![w] = Doing(IF w = "init" THEN "next" ELSE "sleep")]

MutNoSuchRow(w) == FALSE
NoSuchRow(w) == mysql[writer[w].uid] = None   \* affected_rows == 0

\* updateRow: an error ends the loop of onUpdate, or initDB and with it dbserver
Update(w) ==
  /\ writer[w].at = "update"
  /\ \/ /\ NoSuchRow(w)
        /\ writer' = [writer EXCEPT ![w].at = "insert"]
        /\ UNCHANGED mysql
     \/ /\ ~ NoSuchRow(w)
        /\ mysql' = [u \in Uid |-> IF u = writer[w].uid /\ mysql[u] # None
                                   THEN writer[w].row ELSE mysql[u]]
        /\ WriteDone(w)
     \/ /\ MysqlFails
        /\ writer' = [writer EXCEPT ![w] = Doing("stopped")]
        /\ UNCHANGED mysql
  /\ UNCHANGED <<redisVars, changes, task, todo, clock, restarts, historyVars>>

\* addRow: an error, a duplicate key among them, is only logged
Insert(w) ==
  /\ writer[w].at = "insert"
  /\ \/ /\ mysql' = [mysql EXCEPT ![writer[w].uid] = IF @ = None THEN writer[w].row ELSE @]
        /\ UNCHANGED historyVars
     \/ /\ MysqlFails
        /\ written' = written \cup {writer[w].uid}
        /\ last' = IF last # None /\ last.uid = writer[w].uid THEN None ELSE last
        /\ UNCHANGED mysql
  /\ WriteDone(w)
  /\ UNCHANGED <<redisVars, changes, task, todo, clock, restarts>>

\* The process is killed and started: what it held in memory is gone.
Restart ==
  /\ restarts < MaxRestarts
  /\ restarts' = restarts + 1
  /\ changes' = <<>>
  /\ task' = [t \in Task |-> Idle]
  /\ writer' = Started
  /\ todo' = NoRows
  /\ written' = {} /\ last' = None
  /\ UNCHANGED <<redisVars, mysql, clock>>

\* No request is there, the loop sleeps or has ended, and so has initDB.
Waiting ==
  /\ writer["init"].at \in {"up", "stopped"}
  /\ writer["flush"].at \in (IF Pending THEN {"stopped"} ELSE {"stopped", "sleep"})
  /\ \A t \in Task : ~ Serving \/ At(t, "idle")
  /\ UNCHANGED vars

CreateStep(t) == NewUid(t) \/ Lookup(t) \/ HasUser(t) \/ HasAccount(t) \/ SetAccount(t)
SaveStep(t) == SetUser(t) \/ AddModify(t)
FlushStep == Take \/ Update("flush") \/ Insert("flush")
BootStep == Snapshot \/ NextRow \/ Update("init") \/ Insert("init")

Next ==
  \/ \E t \in Task : CreateStep(t) \/ SaveStep(t)
  \/ \E t \in Task, a \in Account : StartCreate(t, a)
  \/ \E t \in Task, u \in Uid : StartLogin(t, u)
  \/ FlushStep
  \/ BootStep
  \/ Restart
  \/ Waiting

Spec == Init /\ [][Next]_vars

\* The coroutines of mysql_db are resumed by a timer and by answers of mysql.
FairSpec == Spec /\ WF_vars(FlushStep) /\ WF_vars(BootStep)

(***************************************************************************)
(* Properties                                                              *)
(***************************************************************************)
\* CreateAccount adds the user before the account and may be killed between
\* them: an account never names a user that redis does not have.
UserBehindAccount == \A a \in Account : account[a] # None => user[account[a]] # None

\* Two accounts that are created at once get two users (GetuniqueUserid), also
\* when a creation is cut off and its user id is left over.
UsersNotShared ==
  \A a, b \in Account : account[a] # None /\ account[a] = account[b] => a = b

\* initDB: once dbserver is up, mysql has the row of every user that was not
\* written or refused since, while other tasks already run and the loop already
\* flushes.
BootCopies ==
  writer["init"].at = "up" => \A u \in Uid \ written : mysql[u] = user[u]

\* onUpdate writes the newest change each time and removes the oldest: when the
\* list is empty, the newest change is in mysql.
NewestIsBackedUp ==
  changes = <<>> /\ writer["flush"].at = "sleep" /\ last # None => mysql[last.uid] = last.row

Stopped(w) == writer[w].at = "stopped"

\* Whatever is changed and in whatever order, the list is emptied, unless an
\* error of mysql ends the loop of onUpdate.
EveryChangeIsTaken == changes # <<>> ~> changes = <<>> \/ Stopped("flush")

\* initDB ends, so that dbserver starts, whatever tasks and flushes do.
BootFinishes == <>[](writer["init"].at = "up" \/ Stopped("init"))

\* README.md: mysql is the backup of redis.  At rest it would have every row.
AtRest ==
  /\ changes = <<>> /\ writer["flush"].at = "sleep" /\ writer["init"].at = "up"
  /\ \A t \in Task : task[t] = Idle
BackupComplete == AtRest => mysql = user

\* errorCode.lua, accountExist: an account that exists is not created again.
AccountIsKept == [][\A a \in Account : account[a] # None => account'[a] = account[a]]_vars

=============================================================================
