\* Every result is acknowledged; bodies raise and workers fail to poll.
SPECIFICATION Spec
CONSTANTS
  t1 = t1  t2 = t2  t3 = t3  acc1 = acc1  acc2 = acc2  w1 = w1  w2 = w2
  CostModel <- MCCostModel
  Tasks <- Trio
  Accounts = {acc1, acc2}
  Owner <- TrioOwner
  Escalate = {t1, t2}
  Classified <- TrioClassified
  Threshold = 150
  Window = 2
  BreakerLimit = 100
  LimiterAnswers = {TRUE}
  MaxAttempts = 2
  Workers = {w1}
  Failing = {"reserve_usage", "settle_usage", "dispatch_task"}
  Unacked = {}
  Adversity = {"unpolled"}
  MaxLate = 0
  MaxClock = 0
INVARIANTS TypeOK LedgerExact FrontierSpendBelowThreshold FrontierHasHeadroom
           BreakerCountsDispatched
