\* Results are lost, bodies raise, workers crash and fail to poll.
SPECIFICATION Spec
CONSTANTS
  t1 = t1  t2 = t2  t3 = t3  acc1 = acc1  acc2 = acc2  w1 = w1  w2 = w2
  CostModel <- MCCostModel
  Tasks <- One
  Accounts = {acc1, acc2}
  Owner <- OneOwner
  Escalate = {t1}
  Classified <- OneClassified
  Threshold = 150
  Window = 2
  BreakerLimit = 100
  LimiterAnswers = {TRUE, FALSE}
  MaxAttempts = 3
  Workers = {w1, w2}
  Failing = {"mark_running", "reserve_usage", "route_task", "settle_usage",
             "dispatch_task", "mark_completed", "mark_failed"}
  Unacked = {"mark_running", "check_rate_limit", "reserve_usage",
             "circuit_breaker_effective", "route_task", "settle_usage",
             "circuit_breaker_record", "dispatch_task", "mark_completed", "mark_failed"}
  Adversity = {"crash", "unpolled"}
  MaxLate = 0
  MaxClock = 0
INVARIANTS RowAgrees
PROPERTIES StatusMonotone FailedIsFinal ImplementsLifecycle
