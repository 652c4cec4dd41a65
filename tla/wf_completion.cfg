\* One body outlives its timeout while another worker goes on.
SPECIFICATION Spec
CONSTANTS
  t1 = t1  t2 = t2  t3 = t3  acc1 = acc1  acc2 = acc2  w1 = w1  w2 = w2
  CostModel <- MCCostModel
  Tasks <- One
  Accounts = {acc1, acc2}
  Owner <- OneOwner
  Escalate = {t1}
  Classified <- OneClassified
  Threshold = 150
  Window = 2
  BreakerLimit = 100
  LimiterAnswers = {TRUE}
  MaxAttempts = 2
  Workers = {w1, w2}
  Failing = {}
  Unacked = {}
  Adversity = {}
  MaxLate = 1
  MaxClock = 0
INVARIANTS CompletionDurable
