SPECIFICATION FairSpec
CONSTANTS
  a1 = a1
  a2 = a2
  t1 = t1
  t2 = t2
  None = None
  Account = {a1, a2}
  Task = {t1, t2}
  MaxUsers = 2
  MaxLogins = 1
  MaxRestarts = 1
  MysqlFails = TRUE
INVARIANTS
  TypeOK
  UsersNotShared
