\* A process crashes between the claim of a key and the insertion of the task.
SPECIFICATION Spec
CONSTANTS
  c1 = c1  c2 = c2  c3 = c3  p1 = p1
  acc1 = acc1  acc2 = acc2  k1 = k1  api1 = api1  api2 = api2
  NoKey = NoKey  Everything = Everything
  Calls <- RetryCalls
  Polls <- RetryPolls
  Processes = {api1, api2}
  ProcessOf <- RetryProcessOf
  Accounts = {acc1, acc2}
  AccountOf <- RetryAccountOf
  Keys = {k1}
  KeyOf <- RetryKeyOf
  LimiterAnswers = {TRUE}
  Failing = {}
  Late = {}
  Crashing = {api1}
  Resets = {}
INVARIANTS ReturnedTaskExists
