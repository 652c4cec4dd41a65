\* Two threads, two accounts.
SPECIFICATION Spec
CONSTANTS
  th1 = th1  th2 = th2  acc1 = acc1  acc2 = acc2
  Threads = {th1, th2}
  Accounts = {acc1, acc2}
  Unit = 2
  Rate = 3
  Capacity = 4
  MaxCalls = 3
  MaxClock = 4
INVARIANTS TypeOK GrantsBounded SpentByGrants
