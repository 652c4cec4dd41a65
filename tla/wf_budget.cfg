\* The rolling window moves while results are lost.
SPECIFICATION Spec
CONSTANTS
  t1 = t1  t2 = t2  t3 = t3  acc1 = acc1  acc2 = acc2  w1 = w1  w2 = w2
  CostModel <- MCCostModel
  Tasks <- Pair
  Accounts = {acc1, acc2}
  Owner <- PairOwner
  Escalate = {t1, t2}
  Classified <- PairClassified
  Threshold = 150
  Window = 1
  BreakerLimit = 100
  LimiterAnswers = {TRUE}
  MaxAttempts = 2
  Workers = {w1, w2}
  Failing = {}
  Unacked = {"reserve_usage", "settle_usage"}
  Adversity = {}
  MaxLate = 0
  MaxClock = 2
SYMMETRY TaskSymmetry
INVARIANTS RollingBudget
PROPERTIES OnlyExpiredPruned
