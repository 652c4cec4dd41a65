\* Calls race for a key, everything raises, gets lost or is late, processes crash,
\* an account is reset.
SPECIFICATION FairSpec
CONSTANTS
  c1 = c1  c2 = c2  c3 = c3  p1 = p1
  acc1 = acc1  acc2 = acc2  k1 = k1  api1 = api1  api2 = api2
  NoKey = NoKey  Everything = Everything
  Calls <- RaceCalls
  Polls <- RacePolls
  Processes = {api1, api2}
  ProcessOf <- RaceProcessOf
  Accounts = {acc1, acc2}
  AccountOf <- RaceAccountOf
  Keys = {k1}
  KeyOf <- RaceKeyOf
  LimiterAnswers = {TRUE, FALSE}
  Failing = {"claim", "create", "start", "status"}
  Late = {"RUNNING", "COMPLETED"}
  Crashing = {api1, api2}
  Resets = {acc2}
INVARIANTS TypeOK OneWorkflowPerKey SameKeySameTask StartedIsRecorded ReadYourSubmission TenantScoped
PROPERTIES EveryReturnedTaskEnds
