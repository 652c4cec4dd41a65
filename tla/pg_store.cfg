\* Three calls of the store's methods on two connections.
SPECIFICATION FairSpec
CONSTANTS
  c1 = c1  c2 = c2  c3 = c3  acc1 = acc1  acc2 = acc2  k1 = k1  t1 = t1
  Everything = Everything
  Calls <- MCCalls
  Requests <- MixedRequests
  Accounts = {acc1, acc2}
  Keys = {k1}
  Tasks = {t1}
  Known = {acc1}
  Owner <- MCOwner
  Threshold = 4
  Window = 0
  MaxConnections = 2
  Failing = {"select", "delete_locks", "commit"}
  MayClose = TRUE
  MaxClock = 1
INVARIANTS TypeOK Serialized NoDeadlock AssertionHolds
PROPERTIES EveryCallEnds ImplementsAtomicStore
