\* Two threads and three calls, of two accounts and two providers.
SPECIFICATION Spec
CONSTANTS
  c1 = c1  c2 = c2  c3 = c3
  CostModel <- MCCost
  Calls <- MCCalls
  Requests <- MCRequests
  Earlier <- MCEarlier
  Configured = {"standard", "advanced"}
  Accounts = {"default", "a"}
  Names = {"echo", "other"}
  Factories = {"EchoProvider", "Custom"}
  Registrations <- MCRegistrations
INVARIANTS TypeOK NeverOvercounted OnlyOverlapsAreLost SnapshotAddsUp OneAdapter MoreSignalsNeverLower
