\* The acknowledgement of one settlement is lost.
SPECIFICATION Spec
CONSTANTS
  t1 = t1  t2 = t2  t3 = t3  acc1 = acc1  acc2 = acc2  w1 = w1  w2 = w2
  CostModel <- MCCostModel
  Tasks <- Three
  Accounts = {acc1, acc2}
  Owner <- ThreeOwner
  Escalate = {t1, t2, t3}
  Classified <- ThreeClassified
  Threshold = 150
  Window = 2
  BreakerLimit = 1000
  LimiterAnswers = {TRUE}
  MaxAttempts = 2
  Workers = {w1}
  Failing = {}
  Unacked = {"settle_usage"}
  Adversity = {}
  MaxLate = 0
  MaxClock = 0
INVARIANTS FrontierSpendBelowThreshold
