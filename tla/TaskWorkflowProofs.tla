------------------------- MODULE TaskWorkflowProofs -------------------------
(***************************************************************************)
(* Theorems about TaskWorkflow, for every set of tasks, accounts and       *)
(* workers, and for every value of the other constants.                    *)
(***************************************************************************)
EXTENDS TaskWorkflow, FiniteSetTheorems, TLAPS

(* The steps whose activity is given the tier that was routed.             *)
RoutedSteps == {"settle_usage", "circuit_breaker_record", "dispatch_task",
                "mark_completed"}

(* TypeOK is not inductive: the cost of a routed task is a number only     *)
(* because no body that uses it exists before the task is routed, and the  *)
(* reason of a failure is an activity only because closed workflows do not *)
(* fail again.                                                             *)
ClosedMeansEnded == \A t \in Tasks : phase[t] = "closed" <=> step[t] \in Ends

TierKnown ==
    /\ \A t \in Tasks : step[t] \in RoutedSteps => local[t].tier \in Tiers
    /\ \A b \in bodies : b.step \in RoutedSteps => local[b.task].tier \in Tiers

TypeInv == TypeOK /\ ClosedMeansEnded /\ TierKnown

WorkflowOK ==
    /\ step \in [Tasks -> Activities \union Ends]
    /\ phase \in [Tasks -> {"scheduled", "running", "closed"}]
    /\ attempt \in [Tasks -> 1..MaxAttempts]
    /\ local \in [Tasks -> Locals]
    /\ ClosedMeansEnded

-----------------------------------------------------------------------------
(* The workflow's part of a step.                                          *)

(* An activity is not an end.                                              *)
LEMMA ActivitiesNotEnds == \A s \in Activities : s \notin Ends
BY DEF Activities, Ends

LEMMA GotoOK ==
    ASSUME WorkflowOK, NEW t \in Tasks, NEW s \in Activities \union Ends, Goto(t, s)
    PROVE  /\ step' \in [Tasks -> Activities \union Ends]
           /\ phase' \in [Tasks -> {"scheduled", "running", "closed"}]
           /\ attempt' \in [Tasks -> 1..MaxAttempts]
           /\ ClosedMeansEnded'
<1>1. 1 \in 1..MaxAttempts
  BY TaskWorkflowAssumption
<1>2. \A u \in Tasks : step'[u] = IF u = t THEN s ELSE step[u]
  BY DEF WorkflowOK, Goto
<1>3. \A u \in Tasks : phase'[u] =
         IF u = t THEN IF s \in Ends THEN "closed" ELSE "scheduled" ELSE phase[u]
  BY DEF WorkflowOK, Goto
<1>4. ClosedMeansEnded'
  BY <1>2, <1>3 DEF WorkflowOK, ClosedMeansEnded
<1> QED
  BY <1>1, <1>4 DEF WorkflowOK, Goto

(* A failing activity leaves the tier alone, and leads to a step that      *)
(* needs no tier.                                                          *)
LEMMA ActivityFailsOK ==
    ASSUME WorkflowOK, NEW t \in Tasks, phase[t] # "closed", ActivityFails(t)
    PROVE  /\ WorkflowOK'
           /\ \A u \in Tasks : local'[u].tier = local[u].tier
           /\ \A u \in Tasks : step'[u] \in {step[u], "mark_failed", "failed"}
<1>1. step[t] \in Activities
  BY DEF WorkflowOK, ClosedMeansEnded
<1>2. CASE Goto(t, "failed") /\ UNCHANGED local
  <2>1. "failed" \in Activities \union Ends
    BY DEF Ends
  <2> QED
    BY <1>2, <2>1, GotoOK DEF WorkflowOK, Goto
<1>3. CASE Goto(t, "mark_failed") /\ local' = [local EXCEPT ![t].reason = step[t]]
  <2>1. "mark_failed" \in Activities \union Ends
    BY DEF Activities
  <2>2. local' \in [Tasks -> Locals]
    BY <1>1, <1>3 DEF WorkflowOK, Locals
  <2>3. \A u \in Tasks : local'[u].tier = local[u].tier
    BY <1>3 DEF WorkflowOK, Locals
  <2> QED
    BY <1>3, <2>1, <2>2, <2>3, GotoOK DEF WorkflowOK, Goto
<1> QED
  BY <1>2, <1>3 DEF ActivityFails

(* So does a failing attempt, unless it leads to the same step.            *)
LEMMA AttemptFailsOK ==
    ASSUME WorkflowOK, NEW t \in Tasks, phase[t] # "closed", AttemptFails(t)
    PROVE  /\ WorkflowOK'
           /\ \A u \in Tasks : local'[u].tier = local[u].tier
           /\ \A u \in Tasks : step'[u] \in {step[u], "mark_failed", "failed"}
<1>1. step[t] \in Activities
  BY DEF WorkflowOK, ClosedMeansEnded
<1>2. CASE attempt[t] < MaxAttempts
  <2>1. /\ attempt' = [attempt EXCEPT ![t] = @ + 1]
        /\ phase' = [phase EXCEPT ![t] = "scheduled"]
        /\ UNCHANGED <<step, local>>
    BY <1>2 DEF AttemptFails
  <2>2. attempt[t] + 1 \in 1..MaxAttempts
    BY <1>2, TaskWorkflowAssumption DEF WorkflowOK
  <2>3. ClosedMeansEnded'
    BY <1>1, <2>1, ActivitiesNotEnds DEF WorkflowOK, ClosedMeansEnded
  <2> QED
    BY <2>1, <2>2, <2>3 DEF WorkflowOK
<1>3. CASE ~(attempt[t] < MaxAttempts)
  BY <1>3, ActivityFailsOK DEF AttemptFails
<1> QED
  BY <1>2, <1>3

(* A body that is over advances its workflow or leaves it as it is.  The   *)
(* locals it returns have to be locals, and to keep a tier that is known.  *)
LEMMA ReturnOK ==
    ASSUME TypeInv, NEW b \in bodies,
           NEW next \in Activities \union Ends, NEW locals \in Locals,
           next \in RoutedSteps => locals.tier \in Tiers,
           local[b.task].tier \in Tiers => locals.tier \in Tiers,
           Return(b, next, locals)
    PROVE  WorkflowOK' /\ TierKnown' /\ bodies' \subseteq Bodies
<1>1. b \in Bodies /\ b.task \in Tasks
  BY DEF TypeInv, TypeOK, Bodies
<1>2. bodies' \subseteq Bodies /\ bodies' \subseteq bodies
  BY DEF TypeInv, TypeOK, Return
<1>3. CASE UNCHANGED workflowVars
  BY <1>2, <1>3 DEF workflowVars, TypeInv, TypeOK, WorkflowOK, ClosedMeansEnded, TierKnown
<1>4. CASE /\ Goto(b.task, next)
           /\ local' = [local EXCEPT ![b.task] = locals]
  <2>1. WorkflowOK' /\ \A u \in Tasks : step'[u] = IF u = b.task THEN next ELSE step[u]
    BY <1>1, <1>4, GotoOK DEF TypeInv, TypeOK, WorkflowOK, Goto
  <2>2. \A u \in Tasks : local'[u] = IF u = b.task THEN locals ELSE local[u]
    BY <1>1, <1>4 DEF TypeInv, TypeOK
  <2>3. \A c \in bodies : c.task \in Tasks
    BY DEF TypeInv, TypeOK, Bodies
  <2>4. TierKnown'
    BY <1>1, <1>2, <2>1, <2>2, <2>3 DEF TypeInv, TierKnown
  <2> QED
    BY <1>2, <2>1, <2>4
<1> QED
  BY <1>3, <1>4 DEF Return

(* Most activities return the locals as they found them.                   *)
LEMMA ReturnSameOK ==
    ASSUME TypeInv, NEW b \in bodies, NEW next \in Activities \union Ends,
           next \in RoutedSteps => b.step \in RoutedSteps,
           Return(b, next, local[b.task])
    PROVE  WorkflowOK' /\ TierKnown' /\ bodies' \subseteq Bodies
<1>1. b.task \in Tasks /\ local[b.task] \in Locals
  BY DEF TypeInv, TypeOK, Bodies
<1>2. next \in RoutedSteps => local[b.task].tier \in Tiers
  BY DEF TypeInv, TierKnown
<1> QED
  BY <1>1, <1>2, ReturnOK

(* The store's and the breaker's part of a step.                           *)
LEMMA RowOK ==
    ASSUME TypeInv, NEW t \in Tasks, NEW status \in Statuses,
           NEW error \in Activities \union {Null}, NEW tier \in Tiers \union {Null},
           NEW cost \in Nat,
           row' = [row EXCEPT ![t] = UpdatedRow(@, status, error, tier, cost)]
    PROVE  row' \in [Tasks -> Rows]
<1>1. row[t] \in Rows
  BY DEF TypeInv, TypeOK
<1>2. UpdatedRow(row[t], status, error, tier, cost) \in Rows
  BY <1>1 DEF UpdatedRow, Rows
<1> QED
  BY <1>2 DEF TypeInv, TypeOK

LEMMA ActualOK ==
    ASSUME NEW t \in Tasks, local[t].tier \in Tiers
    PROVE  Actual(t) \in Nat \ {0}
BY CostModelAssumption DEF Actual

LEMMA ProjectedOK ==
    ASSUME NEW t \in Tasks
    PROVE  Projected(t) \in Nat
<1>1. UncappedTier(t \in Escalate, Classified[t]) \in Tiers
  BY TaskWorkflowAssumption DEF UncappedTier, ClassifierTiers, Tiers
<1> QED
  BY <1>1, CostModelAssumption DEF Projected, ProjectedCost

LEMMA RouteTierOK ==
    ASSUME NEW t \in Tasks, NEW degraded \in BOOLEAN
    PROVE  RouteTier(t \in Escalate, Classified[t], degraded) \in Tiers
BY TaskWorkflowAssumption
   DEF RouteTier, DegradedCap, UncappedTier, ClassifierTiers, Tiers

-----------------------------------------------------------------------------
(* TypeInv step by step: a lemma for the bodies that write a status, a     *)
(* lemma for the others, and the whole of Next.                            *)
LEMMA MarkStatusOK ==
    ASSUME TypeInv, NEW b \in bodies,
           MarkRunning(b) \/ MarkCompleted(b) \/ MarkFailed(b)
    PROVE  TypeInv'
<1>1. b \in Bodies /\ b.task \in Tasks /\ local[b.task] \in Locals
  BY DEF TypeInv, TypeOK, Bodies
<1> DEFINE Written(next, status, error, tier, cost) ==
             MarkStatus(b, next, status, error, tier, cost)
<1>2. ASSUME NEW next \in Ends \union {"check_rate_limit"}, NEW status \in Statuses,
             NEW error \in Activities \union {Null},
             NEW tier \in Tiers \union {Null}, NEW cost \in Nat,
             Written(next, status, error, tier, cost)
      PROVE  TypeInv'
  <2>1. next \in Activities \union Ends /\ next \notin RoutedSteps
    BY DEF Activities, Ends, RoutedSteps
  <2>2. WorkflowOK' /\ TierKnown' /\ bodies' \subseteq Bodies
    BY <1>2, <2>1, ReturnSameOK DEF MarkStatus
  <2>3. row' \in [Tasks -> Rows]
    BY <1>1, <1>2, RowOK DEF MarkStatus
  <2> QED
    BY <1>2, <2>2, <2>3 DEF MarkStatus, breakerVars, TypeInv, TypeOK, WorkflowOK
<1>3. CASE MarkRunning(b)
  <2>1. /\ "check_rate_limit" \in Ends \union {"check_rate_limit"}
        /\ "RUNNING" \in Statuses /\ 0 \in Nat
    BY DEF Statuses
  <2> QED
    BY <1>2, <1>3, <2>1 DEF MarkRunning
<1>4. CASE MarkCompleted(b)
  <2>1. local[b.task].tier \in Tiers
    BY <1>4 DEF MarkCompleted, Runs, TypeInv, TierKnown, RoutedSteps
  <2>2. Actual(b.task) \in Nat
    BY <1>1, <2>1, ActualOK
  <2>3. "completed" \in Ends \union {"check_rate_limit"} /\ "COMPLETED" \in Statuses
    BY DEF Statuses, Ends
  <2> QED
    BY <1>2, <1>4, <2>1, <2>2, <2>3 DEF MarkCompleted
<1>5. CASE MarkFailed(b)
  <2>1. local[b.task].reason \in Activities \union {Null}
    BY <1>1 DEF Locals
  <2>2. "failed" \in Ends \union {"check_rate_limit"} /\ "FAILED" \in Statuses /\ 0 \in Nat
    BY DEF Statuses, Ends
  <2> QED
    BY <1>2, <1>5, <2>1, <2>2 DEF MarkFailed
<1> QED
  BY <1>3, <1>4, <1>5

LEMMA BodyOK ==
    ASSUME TypeInv, NEW b \in bodies, Body(b)
    PROVE  TypeInv'
<1>1. /\ b \in Bodies /\ b.task \in Tasks /\ b.worker \in Workers
      /\ local[b.task] \in Locals /\ Owner[b.task] \in Accounts
  BY TaskWorkflowAssumption DEF TypeInv, TypeOK, Bodies
<1>2. b.step \in RoutedSteps => /\ local[b.task].tier \in Tiers
                                /\ Actual(b.task) \in Nat
  BY <1>1, ActualOK DEF TypeInv, TierKnown
<1>3. b.at # Unread => b.at \in 0..MaxClock
  BY <1>1 DEF Bodies
<1>4. CASE CheckRateLimit(b)
  <2>1. PICK ok \in LimiterAnswers :
          Return(b, "reserve_usage", [local[b.task] EXCEPT !.allowed = ok])
    BY <1>4 DEF CheckRateLimit
  <2> DEFINE locals == [local[b.task] EXCEPT !.allowed = ok]
  <2>2. locals \in Locals /\ locals.tier = local[b.task].tier
    BY <1>1, TaskWorkflowAssumption DEF Locals
  <2>3. "reserve_usage" \in Activities \union Ends /\ "reserve_usage" \notin RoutedSteps
    BY DEF Activities, RoutedSteps
  <2>4. WorkflowOK' /\ TierKnown' /\ bodies' \subseteq Bodies
    <3> HIDE DEF locals
    <3> QED
      BY <2>1, <2>2, <2>3, ReturnOK DEF locals
  <2> QED
    BY <1>4, <2>4 DEF CheckRateLimit, storeVars, breakerVars, TypeInv, TypeOK, WorkflowOK
<1>5. CASE ReserveUsage(b)
  <2> DEFINE t == b.task
             pruned == Prune(charges, Owner[t], b.at)
             over == OverThreshold(pruned, Owner[t], Projected(t))
             charge == [id |-> lastId + 1, account |-> Owner[t], ts |-> b.at,
                        amount |-> Projected(t), by |-> t, degraded |-> over]
             locals == [local[t] EXCEPT !.degraded = over]
             next == "circuit_breaker_effective"
  <2>1. /\ b.at # Unread
        /\ charges' = pruned \union {charge} /\ lastId' = lastId + 1
        /\ Return(b, next, locals)
        /\ UNCHANGED <<row, breakerVars, dispatches, clock>>
    BY <1>5 DEF ReserveUsage, Runs
  <2>2. over \in BOOLEAN
    BY DEF OverThreshold
  <2>3. charge \in Charges
    BY <1>1, <1>3, <2>1, <2>2, ProjectedOK DEF Charges, TypeInv, TypeOK
  <2>4. pruned \subseteq Charges
    BY DEF Prune, TypeInv, TypeOK
  <2>5. locals \in Locals /\ locals.tier = local[t].tier
    <3> HIDE DEF over
    <3> QED
      BY <1>1, <2>2 DEF Locals
  <2>6. next \in Activities \union Ends /\ next \notin RoutedSteps
    BY DEF Activities, RoutedSteps
  <2>7. WorkflowOK' /\ TierKnown' /\ bodies' \subseteq Bodies
    <3> HIDE DEF locals, next
    <3> QED
      BY <2>1, <2>5, <2>6, ReturnOK
  <2>8. charges' \subseteq Charges /\ lastId' \in Nat
    <3> HIDE DEF charge, pruned
    <3> QED
      BY <2>1, <2>3, <2>4 DEF TypeInv, TypeOK
  <2> QED
    BY <2>1, <2>7, <2>8 DEF breakerVars, TypeInv, TypeOK, WorkflowOK
<1>6. CASE CircuitBreakerEffective(b)
  <2> DEFINE effective == local[b.task].degraded \/ tripped[b.worker]
             locals == [local[b.task] EXCEPT !.effective = effective]
  <2>1. Return(b, "route_task", locals)
    BY <1>6 DEF CircuitBreakerEffective
  <2>2. effective \in BOOLEAN
    OBVIOUS
  <2>3. locals \in Locals /\ locals.tier = local[b.task].tier
    <3> HIDE DEF effective
    <3> QED
      BY <1>1, <2>2 DEF Locals
  <2>4. "route_task" \in Activities \union Ends /\ "route_task" \notin RoutedSteps
    BY DEF Activities, RoutedSteps
  <2>5. WorkflowOK' /\ TierKnown' /\ bodies' \subseteq Bodies
    <3> HIDE DEF locals
    <3> QED
      BY <2>1, <2>3, <2>4, ReturnOK
  <2> QED
    BY <1>6, <2>5
       DEF CircuitBreakerEffective, storeVars, breakerVars, TypeInv, TypeOK, WorkflowOK
<1>7. CASE RouteTask(b)
  <2> DEFINE tier == RouteTier(b.task \in Escalate, Classified[b.task],
                               local[b.task].effective)
             locals == [local[b.task] EXCEPT !.tier = tier]
  <2>1. Return(b, "settle_usage", locals)
    BY <1>7 DEF RouteTask
  <2>2. local[b.task].effective \in BOOLEAN
    BY <1>1 DEF Locals
  <2>3. tier \in Tiers
    BY <1>1, <2>2, RouteTierOK
  <2>4. locals \in Locals /\ locals.tier \in Tiers
    <3> HIDE DEF tier
    <3> QED
      BY <1>1, <2>3 DEF Locals
  <2>5. "settle_usage" \in Activities \union Ends
    BY DEF Activities
  <2>6. WorkflowOK' /\ TierKnown' /\ bodies' \subseteq Bodies
    <3> HIDE DEF locals
    <3> QED
      BY <2>1, <2>4, <2>5, ReturnOK
  <2> QED
    BY <1>7, <2>6 DEF RouteTask, storeVars, breakerVars, TypeInv, TypeOK, WorkflowOK
<1>8. CASE SettleUsage(b)
  <2> DEFINE t == b.task
             pruned == Prune(charges, Owner[t], b.at)
             target == SettleTarget(pruned, Owner[t], Projected(t))
  <2>1. /\ charges' = Revalue(pruned, target, Actual(t))
        /\ Return(b, "circuit_breaker_record", local[t])
        /\ UNCHANGED <<lastId, row, breakerVars, dispatches, clock>>
        /\ b.step \in RoutedSteps
    BY <1>8 DEF SettleUsage, Runs, RoutedSteps
  <2>2. pruned \subseteq Charges
    BY DEF Prune, TypeInv, TypeOK
  <2>3. \A c \in Charges : [c EXCEPT !.amount = Actual(t)] \in Charges
    BY <1>2, <2>1 DEF Charges
  <2>4. charges' \subseteq Charges
    <3> HIDE DEF pruned, target
    <3> QED
      BY <2>1, <2>2, <2>3 DEF Revalue
  <2>5. "circuit_breaker_record" \in Activities \union Ends
    BY DEF Activities
  <2>6. WorkflowOK' /\ TierKnown' /\ bodies' \subseteq Bodies
    BY <2>1, <2>5, ReturnSameOK
  <2> QED
    BY <2>1, <2>4, <2>6 DEF breakerVars, TypeInv, TypeOK, WorkflowOK
<1>9. CASE CircuitBreakerRecord(b)
  <2>1. /\ spend' = [spend EXCEPT ![b.worker] = spend[b.worker] + Actual(b.task)]
        /\ tripped' = [tripped EXCEPT ![b.worker] =
                         @ \/ spend[b.worker] + Actual(b.task) >= BreakerLimit]
        /\ Return(b, "dispatch_task", local[b.task])
        /\ UNCHANGED <<storeVars, dispatches, clock>>
        /\ b.step \in RoutedSteps
    BY <1>9 DEF CircuitBreakerRecord, Runs, RoutedSteps
  <2>2. "dispatch_task" \in Activities \union Ends
    BY DEF Activities
  <2>3. WorkflowOK' /\ TierKnown' /\ bodies' \subseteq Bodies
    BY <2>1, <2>2, ReturnSameOK
  <2>4. spend' \in [Workers -> Nat] /\ tripped' \in [Workers -> BOOLEAN]
    BY <1>1, <1>2, <2>1 DEF TypeInv, TypeOK
  <2> QED
    BY <2>1, <2>3, <2>4 DEF storeVars, TypeInv, TypeOK, WorkflowOK
<1>10. CASE DispatchTask(b)
  <2>1. /\ dispatches' = [dispatches EXCEPT ![b.task] = @ + 1]
        /\ Return(b, "mark_completed", local[b.task])
        /\ UNCHANGED <<storeVars, breakerVars, clock>>
        /\ b.step \in RoutedSteps
    BY <1>10 DEF DispatchTask, Runs, RoutedSteps
  <2>2. "mark_completed" \in Activities \union Ends
    BY DEF Activities
  <2>3. WorkflowOK' /\ TierKnown' /\ bodies' \subseteq Bodies
    BY <2>1, <2>2, ReturnSameOK
  <2>4. dispatches' \in [Tasks -> Nat]
    BY <1>1, <2>1 DEF TypeInv, TypeOK
  <2> QED
    BY <2>1, <2>3, <2>4 DEF storeVars, breakerVars, TypeInv, TypeOK, WorkflowOK
<1>11. CASE RaiseError(b)
  <2>1. bodies' \subseteq bodies /\ bodies' \subseteq Bodies
    BY <1>11 DEF RaiseError, TypeInv, TypeOK
  <2>2. \A c \in bodies : c.task \in Tasks
    BY DEF TypeInv, TypeOK, Bodies
  <2>3. CASE Current(b) /\ AttemptFails(b.task)
    <3>1. /\ WorkflowOK'
          /\ \A u \in Tasks : local'[u].tier = local[u].tier
          /\ \A u \in Tasks : step'[u] \in {step[u], "mark_failed", "failed"}
      BY <1>1, <2>3, AttemptFailsOK DEF Current, TypeInv, TypeOK, WorkflowOK
    <3>2. TierKnown'
      BY <2>1, <2>2, <3>1 DEF TypeInv, TierKnown, RoutedSteps
    <3> QED
      BY <1>11, <2>1, <3>1, <3>2
         DEF RaiseError, storeVars, breakerVars, TypeInv, TypeOK, WorkflowOK
  <2>4. CASE UNCHANGED workflowVars
    BY <1>11, <2>1, <2>4 DEF RaiseError, workflowVars, storeVars, breakerVars,
       TypeInv, TypeOK, ClosedMeansEnded, TierKnown
  <2> QED
    BY <1>11, <2>3, <2>4 DEF RaiseError
<1> QED
  BY <1>4, <1>5, <1>6, <1>7, <1>8, <1>9, <1>10, <1>11, MarkStatusOK DEF Body

LEMMA TypeInvInit == Init => TypeInv
<1> SUFFICES ASSUME Init PROVE TypeInv
  OBVIOUS
<1>1. 1 \in 1..MaxAttempts /\ 0 \in 0..MaxClock
  BY TaskWorkflowAssumption
<1>2. "mark_running" \in Activities /\ "mark_running" \notin Ends \union RoutedSteps
  BY DEF Activities, Ends, RoutedSteps
<1>3. step \in [Tasks -> Activities \union Ends] /\ local \in [Tasks -> Locals]
  BY <1>2 DEF Init, Locals
<1>4. row \in [Tasks -> Rows]
  BY DEF Init, Rows, Statuses
<1>5. ClosedMeansEnded /\ TierKnown
  BY <1>2 DEF Init, ClosedMeansEnded, TierKnown
<1>6. /\ phase \in [Tasks -> {"scheduled", "running", "closed"}]
      /\ attempt \in [Tasks -> 1..MaxAttempts]
      /\ bodies \subseteq Bodies /\ charges \subseteq Charges /\ lastId \in Nat
      /\ spend \in [Workers -> Nat] /\ tripped \in [Workers -> BOOLEAN]
      /\ dispatches \in [Tasks -> Nat] /\ clock \in 0..MaxClock
  BY <1>1 DEF Init
<1> QED
  BY <1>3, <1>4, <1>5, <1>6 DEF TypeInv, TypeOK

LEMMA TypeInvNext == TypeInv /\ [Next]_vars => TypeInv'
<1> SUFFICES ASSUME TypeInv, [Next]_vars PROVE TypeInv'
  OBVIOUS
<1>1. ASSUME NEW t \in Tasks, NEW w \in Workers, PickUp(t, w) PROVE TypeInv'
  <2> DEFINE b == [task |-> t, step |-> step[t], attempt |-> attempt[t],
                   worker |-> w, at |-> Unread]
  <2>1. step[t] \in Activities
    BY <1>1 DEF PickUp, TypeInv, TypeOK, ClosedMeansEnded
  <2>2. b \in Bodies
    BY <2>1 DEF Bodies, TypeInv, TypeOK
  <2>3. /\ bodies' = bodies \union {b}
        /\ phase' = [phase EXCEPT ![t] = "running"]
        /\ UNCHANGED <<step, attempt, local, storeVars, breakerVars, dispatches, clock>>
    BY <1>1 DEF PickUp
  <2>4. ClosedMeansEnded'
    BY <2>1, <2>3, ActivitiesNotEnds DEF ClosedMeansEnded, TypeInv, TypeOK
  <2>5. TierKnown'
    BY <2>3 DEF TierKnown, TypeInv
  <2>6. bodies' \subseteq Bodies /\ phase' \in [Tasks -> {"scheduled", "running", "closed"}]
    <3> HIDE DEF b
    <3> QED
      BY <2>2, <2>3 DEF TypeInv, TypeOK
  <2> QED
    BY <2>3, <2>4, <2>5, <2>6 DEF storeVars, breakerVars, TypeInv, TypeOK
<1>2. ASSUME NEW b \in bodies, EnterBody(b) PROVE TypeInv'
  <2> DEFINE entered == [b EXCEPT !.at = clock]
  <2>1. b \in Bodies
    BY DEF TypeInv, TypeOK
  <2>2. entered \in Bodies /\ entered.step = b.step /\ entered.task = b.task
    BY <2>1 DEF Bodies, TypeInv, TypeOK
  <2>3. /\ bodies' = (bodies \ {b}) \union {entered}
        /\ UNCHANGED <<workflowVars, storeVars, breakerVars, dispatches, clock>>
    BY <1>2 DEF EnterBody
  <2> HIDE DEF entered
  <2>4. TierKnown'
    BY <2>2, <2>3 DEF TierKnown, TypeInv, workflowVars
  <2> QED
    BY <2>2, <2>3, <2>4
       DEF workflowVars, storeVars, breakerVars, TypeInv, TypeOK, ClosedMeansEnded
<1>3. ASSUME NEW b \in bodies, Body(b) PROVE TypeInv'
  BY <1>3, BodyOK
<1>4. ASSUME NEW t \in Tasks, AttemptFails(t) \/ ActivityFails(t), phase[t] # "closed",
             UNCHANGED <<bodies, storeVars, breakerVars, dispatches, clock>>
      PROVE  TypeInv'
  <2>1. /\ WorkflowOK'
        /\ \A u \in Tasks : local'[u].tier = local[u].tier
        /\ \A u \in Tasks : step'[u] \in {step[u], "mark_failed", "failed"}
    BY <1>4, AttemptFailsOK, ActivityFailsOK DEF TypeInv, TypeOK, WorkflowOK
  <2>2. \A c \in bodies : c.task \in Tasks
    BY DEF TypeInv, TypeOK, Bodies
  <2>3. TierKnown'
    BY <1>4, <2>1, <2>2 DEF TypeInv, TierKnown, RoutedSteps
  <2> QED
    BY <1>4, <2>1, <2>3 DEF storeVars, breakerVars, TypeInv, TypeOK, WorkflowOK
<1>5. ASSUME NEW t \in Tasks, StartToCloseTimeout(t) PROVE TypeInv'
  BY <1>4, <1>5 DEF StartToCloseTimeout
<1>6. ASSUME NEW t \in Tasks, ScheduleToStartTimeout(t) PROVE TypeInv'
  BY <1>4, <1>6 DEF ScheduleToStartTimeout
<1>7. ASSUME NEW w \in Workers, WorkerCrash(w) PROVE TypeInv'
  BY <1>7 DEF WorkerCrash, workflowVars, storeVars, TypeInv, TypeOK, ClosedMeansEnded,
     TierKnown
<1>10. ASSUME NEW w \in Workers, ResetBreaker(w) PROVE TypeInv'
  BY <1>10 DEF ResetBreaker, workflowVars, storeVars, TypeInv, TypeOK, ClosedMeansEnded,
     TierKnown
<1>8. CASE Tick
  <2>1. clock' \in 0..MaxClock
    BY <1>8, TaskWorkflowAssumption DEF Tick, TypeInv, TypeOK
  <2> QED
    BY <1>8, <2>1 DEF Tick, workflowVars, storeVars, breakerVars, TypeInv, TypeOK,
       ClosedMeansEnded, TierKnown
<1>9. CASE UNCHANGED vars
  BY <1>9 DEF vars, workflowVars, storeVars, breakerVars, TypeInv, TypeOK,
     ClosedMeansEnded, TierKnown
<1> QED
  BY <1>1, <1>2, <1>3, <1>5, <1>6, <1>7, <1>8, <1>9, <1>10 DEF Next, Quiesced

(* The variables keep their types: costs are numbers, rows name activities *)
(* and tiers, attempts stay within the retry policy, also when bodies      *)
(* outlive their timeout and workers crash.                                *)
THEOREM Types == Spec => []TypeOK
<1>1. TypeInv => TypeOK
  BY DEF TypeInv
<1> QED
  BY <1>1, TypeInvInit, TypeInvNext, PTL DEF Spec

-----------------------------------------------------------------------------
(* What one step does to one workflow: it stays, it fails, or it moves on  *)
(* to the next step of run().                                              *)
Same(t) ==
    /\ local'[t].degraded = local[t].degraded
    /\ local'[t].effective = local[t].effective
    /\ local'[t].tier = local[t].tier

StaysOrFails(t) == step'[t] \in {step[t], "mark_failed", "failed"} /\ Same(t)

Reserved(t) ==
    /\ step[t] = "reserve_usage" /\ step'[t] = "circuit_breaker_effective"
    /\ local'[t].tier = local[t].tier
    /\ \E c \in charges' : c.by = t /\ c.degraded = local'[t].degraded

Consulted(t) ==
    /\ step[t] = "circuit_breaker_effective" /\ step'[t] = "route_task"
    /\ local[t].degraded => local'[t].effective
    /\ local'[t].degraded = local[t].degraded /\ local'[t].tier = local[t].tier

Routed(t) ==
    /\ step[t] = "route_task" /\ step'[t] = "settle_usage"
    /\ local'[t].tier = RouteTier(t \in Escalate, Classified[t], local[t].effective)
    /\ local'[t].degraded = local[t].degraded

PlainMoves == { <<"mark_running", "check_rate_limit">>,
                <<"check_rate_limit", "reserve_usage">>,
                <<"settle_usage", "circuit_breaker_record">>,
                <<"circuit_breaker_record", "dispatch_task">>,
                <<"dispatch_task", "mark_completed">>,
                <<"mark_completed", "completed">>,
                <<"mark_failed", "failed">> }

MovesOn(t) == <<step[t], step'[t]>> \in PlainMoves /\ Same(t)

Moves(t) == StaysOrFails(t) \/ Reserved(t) \/ Consulted(t) \/ Routed(t) \/ MovesOn(t)

LEMMA ReturnMoves ==
    ASSUME TypeInv, NEW b \in bodies, NEW next, NEW locals, Return(b, next, locals),
           NEW t \in Tasks
    PROVE  \/ step'[t] = step[t] /\ local'[t] = local[t]
           \/ /\ t = b.task /\ step[t] = b.step
              /\ step'[t] = next /\ local'[t] = locals
<1>1. CASE UNCHANGED workflowVars
  BY <1>1 DEF workflowVars
<1>2. CASE /\ Current(b) /\ Goto(b.task, next)
           /\ local' = [local EXCEPT ![b.task] = locals]
  BY <1>2 DEF Current, Goto, TypeInv, TypeOK
<1> QED
  BY <1>1, <1>2 DEF Return

LEMMA ActivityFailsMoves ==
    ASSUME TypeInv, NEW u \in Tasks, ActivityFails(u), NEW t \in Tasks
    PROVE  StaysOrFails(t)
<1>1. CASE Goto(u, "failed") /\ UNCHANGED local
  BY <1>1 DEF Goto, TypeInv, TypeOK, StaysOrFails, Same
<1>2. CASE Goto(u, "mark_failed") /\ local' = [local EXCEPT ![u].reason = step[u]]
  <2>1. Same(t)
    BY <1>2 DEF TypeInv, TypeOK, Locals, Same
  <2> QED
    BY <1>2, <2>1 DEF Goto, TypeInv, TypeOK, StaysOrFails
<1> QED
  BY <1>1, <1>2 DEF ActivityFails

LEMMA AttemptFailsMoves ==
    ASSUME TypeInv, NEW u \in Tasks, AttemptFails(u), NEW t \in Tasks
    PROVE  StaysOrFails(t)
<1>1. CASE UNCHANGED <<step, local>>
  BY <1>1 DEF StaysOrFails, Same
<1>2. CASE ActivityFails(u)
  BY <1>2, ActivityFailsMoves
<1> QED
  BY <1>1, <1>2 DEF AttemptFails

LEMMA BodyMoves ==
    ASSUME TypeInv, NEW b \in bodies, Body(b), NEW t \in Tasks
    PROVE  Moves(t)
<1>1. b.task \in Tasks /\ local[b.task] \in Locals
  BY DEF TypeInv, TypeOK, Bodies
<1>2. ASSUME step'[t] = step[t] /\ local'[t] = local[t] PROVE Moves(t)
  BY <1>2 DEF Moves, StaysOrFails, Same
<1>3. CASE MarkRunning(b) \/ MarkCompleted(b) \/ MarkFailed(b)
  <2>1. \E next : Return(b, next, local[b.task]) /\ <<b.step, next>> \in PlainMoves
    BY <1>3 DEF MarkRunning, MarkCompleted, MarkFailed, MarkStatus, Runs, PlainMoves
  <2> QED
    BY <1>2, <2>1, ReturnMoves DEF Moves, MovesOn, Same
<1>4. CASE CheckRateLimit(b)
  <2>1. PICK ok \in LimiterAnswers :
          Return(b, "reserve_usage", [local[b.task] EXCEPT !.allowed = ok])
    BY <1>4 DEF CheckRateLimit
  <2> DEFINE locals == [local[b.task] EXCEPT !.allowed = ok]
  <2>2. /\ locals.tier = local[b.task].tier
        /\ locals.degraded = local[b.task].degraded
        /\ locals.effective = local[b.task].effective
    BY <1>1 DEF Locals
  <2>3. <<b.step, "reserve_usage">> \in PlainMoves
    BY <1>4 DEF CheckRateLimit, Runs, PlainMoves
  <2>4. Return(b, "reserve_usage", locals)
    BY <2>1
  <2> HIDE DEF locals
  <2> QED
    BY <1>2, <2>2, <2>3, <2>4, ReturnMoves DEF Moves, MovesOn, Same
<1>5. CASE ReserveUsage(b)
  <2> DEFINE u == b.task
             pruned == Prune(charges, Owner[u], b.at)
             over == OverThreshold(pruned, Owner[u], Projected(u))
             charge == [id |-> lastId + 1, account |-> Owner[u], ts |-> b.at,
                        amount |-> Projected(u), by |-> u, degraded |-> over]
             locals == [local[u] EXCEPT !.degraded = over]
  <2>1. /\ charges' = pruned \union {charge}
        /\ Return(b, "circuit_breaker_effective", locals)
        /\ b.step = "reserve_usage"
    BY <1>5 DEF ReserveUsage, Runs
  <2>2. locals.tier = local[u].tier /\ locals.degraded = over
    BY <1>1 DEF Locals
  <2>3. charge \in charges' /\ charge.by = u /\ charge.degraded = over
    BY <2>1
  <2> HIDE DEF locals, over, charge
  <2> QED
    BY <1>2, <2>1, <2>2, <2>3, ReturnMoves DEF Moves, Reserved
<1>6. CASE CircuitBreakerEffective(b)
  <2> DEFINE effective == local[b.task].degraded \/ tripped[b.worker]
             locals == [local[b.task] EXCEPT !.effective = effective]
  <2>1. /\ Return(b, "route_task", locals)
        /\ b.step = "circuit_breaker_effective"
    BY <1>6 DEF CircuitBreakerEffective, Runs
  <2>2. /\ locals.tier = local[b.task].tier /\ locals.effective = effective
        /\ locals.degraded = local[b.task].degraded
    BY <1>1 DEF Locals
  <2>3. local[b.task].degraded => locals.effective
    BY <2>2
  <2> HIDE DEF locals
  <2> QED
    BY <1>2, <2>1, <2>2, <2>3, ReturnMoves DEF Moves, Consulted
<1>7. CASE RouteTask(b)
  <2> DEFINE tier == RouteTier(b.task \in Escalate, Classified[b.task],
                               local[b.task].effective)
             locals == [local[b.task] EXCEPT !.tier = tier]
  <2>1. Return(b, "settle_usage", locals) /\ b.step = "route_task"
    BY <1>7 DEF RouteTask, Runs
  <2>2. locals.tier = tier /\ locals.degraded = local[b.task].degraded
    BY <1>1 DEF Locals
  <2> HIDE DEF locals
  <2> QED
    BY <1>2, <2>1, <2>2, ReturnMoves DEF Moves, Routed
<1>8. CASE SettleUsage(b) \/ CircuitBreakerRecord(b) \/ DispatchTask(b)
  <2>1. \E next : Return(b, next, local[b.task]) /\ <<b.step, next>> \in PlainMoves
    BY <1>8 DEF SettleUsage, CircuitBreakerRecord, DispatchTask, Runs, PlainMoves
  <2> QED
    BY <1>2, <2>1, ReturnMoves DEF Moves, MovesOn, Same
<1>9. CASE RaiseError(b)
  BY <1>1, <1>2, <1>9, AttemptFailsMoves DEF RaiseError, workflowVars, Moves
<1> QED
  BY <1>3, <1>4, <1>5, <1>6, <1>7, <1>8, <1>9 DEF Body

LEMMA NextMoves == TypeInv /\ [Next]_vars => \A t \in Tasks : Moves(t)
<1> SUFFICES ASSUME TypeInv, [Next]_vars, NEW t \in Tasks PROVE Moves(t)
  OBVIOUS
<1>1. CASE UNCHANGED <<step, local>>
  BY <1>1 DEF Moves, StaysOrFails, Same
<1>2. ASSUME NEW b \in bodies, Body(b) PROVE Moves(t)
  BY <1>2, BodyMoves
<1>3. ASSUME NEW u \in Tasks, StartToCloseTimeout(u) \/ ScheduleToStartTimeout(u)
      PROVE  Moves(t)
  BY <1>3, AttemptFailsMoves, ActivityFailsMoves
     DEF StartToCloseTimeout, ScheduleToStartTimeout, Moves
<1> QED
  BY <1>1, <1>2, <1>3
     DEF Next, PickUp, EnterBody, WorkerCrash, ResetBreaker, Tick, Quiesced, vars, workflowVars

-----------------------------------------------------------------------------
(* While no charge can expire, no transaction prunes anything.             *)
LEMMA NothingExpires ==
    ASSUME TypeInv, MaxClock <= Window, NEW b \in bodies, b.at # Unread
    PROVE  Prune(charges, Owner[b.task], b.at) = charges
<1>1. b.at \in 0..MaxClock
  BY DEF TypeInv, TypeOK, Bodies
<1>2. \A c \in charges : ~(c.ts < b.at - Window)
  BY <1>1, TaskWorkflowAssumption DEF TypeInv, TypeOK, Charges
<1> QED
  BY <1>2 DEF Prune

(* While no charge can expire, a charge stays the charge of its task and   *)
(* keeps the answer its reservation got; only its amount changes.          *)
LEMMA ChargesKept ==
    ASSUME TypeInv, [Next]_vars, MaxClock <= Window
    PROVE  \A c \in charges : \E d \in charges' : d.by = c.by /\ d.degraded = c.degraded
<1>1. ASSUME NEW b \in bodies, b.at # Unread
      PROVE  Prune(charges, Owner[b.task], b.at) = charges
  BY <1>1, NothingExpires
<1>2. CASE UNCHANGED charges
  BY <1>2
<1>3. ASSUME NEW b \in bodies, ReserveUsage(b) PROVE charges \subseteq charges'
  BY <1>1, <1>3 DEF ReserveUsage, Runs
<1>4. ASSUME NEW b \in bodies, SettleUsage(b), NEW c \in charges
      PROVE  \E d \in charges' : d.by = c.by /\ d.degraded = c.degraded
  <2> DEFINE target == SettleTarget(charges, Owner[b.task], Projected(b.task))
             revalued == [c EXCEPT !.amount = Actual(b.task)]
  <2>1. charges' = {IF e \in target THEN [e EXCEPT !.amount = Actual(b.task)] ELSE e :
                      e \in charges}
    BY <1>1, <1>4 DEF SettleUsage, Runs, Revalue
  <2>2. revalued.by = c.by /\ revalued.degraded = c.degraded
    BY DEF TypeInv, TypeOK, Charges
  <2>3. (IF c \in target THEN revalued ELSE c) \in charges'
    <3> HIDE DEF target
    <3> QED
      BY <2>1
  <2> HIDE DEF target, revalued
  <2> QED
    BY <2>2, <2>3
<1>5. ASSUME NEW b \in bodies, Body(b)
      PROVE  UNCHANGED charges \/ ReserveUsage(b) \/ SettleUsage(b)
  BY <1>5 DEF Body, MarkRunning, MarkCompleted, MarkFailed, MarkStatus, CheckRateLimit,
     CircuitBreakerEffective, RouteTask, CircuitBreakerRecord, DispatchTask, RaiseError,
     storeVars
<1> QED
  BY <1>2, <1>3, <1>4, <1>5 DEF Next, PickUp, EnterBody, StartToCloseTimeout,
     ScheduleToStartTimeout, WorkerCrash, ResetBreaker, Tick, Quiesced, vars, storeVars

(* A body either existed before, or it is for the step of its workflow.    *)
LEMMA BodiesFrom ==
    ASSUME TypeInv, [Next]_vars
    PROVE  \A c \in bodies' : \/ \E b \in bodies : b.task = c.task /\ b.step = c.step
                              \/ c.task \in Tasks /\ c.step = step[c.task]
<1>1. CASE bodies' \subseteq bodies
  BY <1>1
<1>2. ASSUME NEW t \in Tasks, NEW w \in Workers, PickUp(t, w)
      PROVE  \A c \in bodies' : c \in bodies \/ (c.task = t /\ c.step = step[t])
  BY <1>2 DEF PickUp
<1>3. ASSUME NEW b \in bodies, EnterBody(b)
      PROVE  \A c \in bodies' : c \in bodies \/ (c.task = b.task /\ c.step = b.step)
  <2>1. [b EXCEPT !.at = clock].task = b.task /\ [b EXCEPT !.at = clock].step = b.step
    BY DEF TypeInv, TypeOK, Bodies
  <2> QED
    BY <1>3, <2>1 DEF EnterBody
<1>4. ASSUME NEW b \in bodies, Body(b) PROVE bodies' \subseteq bodies
  BY <1>4 DEF Body, MarkRunning, MarkCompleted, MarkFailed, MarkStatus, CheckRateLimit,
     ReserveUsage, CircuitBreakerEffective, RouteTask, SettleUsage, CircuitBreakerRecord,
     DispatchTask, RaiseError, Return
<1> QED
  BY <1>1, <1>2, <1>3, <1>4 DEF Next, StartToCloseTimeout, ScheduleToStartTimeout,
     WorkerCrash, ResetBreaker, Tick, Quiesced, vars

(* A dispatch is counted by a body of the dispatch step of its task.       *)
LEMMA DispatchesFrom ==
    ASSUME TypeInv, [Next]_vars, NEW t \in Tasks
    PROVE  \/ dispatches'[t] = dispatches[t]
           \/ \E b \in bodies : b.task = t /\ b.step = "dispatch_task"
<1>1. CASE UNCHANGED dispatches
  BY <1>1
<1>2. ASSUME NEW b \in bodies, DispatchTask(b)
      PROVE  \/ dispatches'[t] = dispatches[t]
             \/ b.task = t /\ b.step = "dispatch_task"
  BY <1>2 DEF DispatchTask, Runs, TypeInv, TypeOK
<1>3. ASSUME NEW b \in bodies, Body(b) PROVE UNCHANGED dispatches \/ DispatchTask(b)
  BY <1>3 DEF Body, MarkRunning, MarkCompleted, MarkFailed, MarkStatus, CheckRateLimit,
     ReserveUsage, CircuitBreakerEffective, RouteTask, SettleUsage, CircuitBreakerRecord,
     RaiseError
<1> QED
  BY <1>1, <1>2, <1>3 DEF Next, PickUp, EnterBody, StartToCloseTimeout,
     ScheduleToStartTimeout, WorkerCrash, ResetBreaker, Tick, Quiesced, vars

-----------------------------------------------------------------------------
(* DispatchedIsCharged is not inductive: it needs that a workflow which is *)
(* past its reservation has a charge, and that so does the task of every   *)
(* body, however late, that is about to dispatch.                          *)
HasCharge(t) == \E c \in charges : c.by = t

ReservedSteps == {"circuit_breaker_effective", "route_task", "completed"} \union RoutedSteps

ChargedInv ==
    /\ \A t \in Tasks : step[t] \in ReservedSteps => HasCharge(t)
    /\ \A b \in bodies : b.step = "dispatch_task" => HasCharge(b.task)
    /\ DispatchedIsCharged

LEMMA ChargedInvNext ==
    ASSUME TypeInv, TypeInv', ChargedInv, [Next]_vars, MaxClock <= Window
    PROVE  ChargedInv'
<1>1. \A t : HasCharge(t) => HasCharge(t)'
  BY ChargesKept DEF HasCharge
<1>2. ASSUME NEW t \in Tasks, step'[t] \in ReservedSteps PROVE HasCharge(t)'
  <2>1. Moves(t)
    BY NextMoves
  <2>2. CASE Reserved(t)
    BY <2>2 DEF Reserved, HasCharge
  <2>3. CASE StaysOrFails(t)
    BY <1>1, <1>2, <2>3 DEF StaysOrFails, ReservedSteps, RoutedSteps, ChargedInv
  <2>4. CASE Consulted(t) \/ Routed(t) \/ MovesOn(t)
    <3>1. step[t] \in ReservedSteps
      BY <1>2, <2>4
         DEF Consulted, Routed, MovesOn, PlainMoves, ReservedSteps, RoutedSteps
    <3> QED
      BY <1>1, <3>1 DEF ChargedInv
  <2> QED
    BY <2>1, <2>2, <2>3, <2>4 DEF Moves
<1>3. ASSUME NEW c \in bodies', c.step = "dispatch_task" PROVE HasCharge(c.task)'
  <2>1. HasCharge(c.task)
    BY <1>3, BodiesFrom DEF ChargedInv, ReservedSteps, RoutedSteps
  <2> QED
    BY <1>1, <2>1
<1>4. ASSUME NEW t \in Tasks, dispatches'[t] > 0 PROVE HasCharge(t)'
  <2>1. HasCharge(t)
    BY <1>4, DispatchesFrom DEF ChargedInv, DispatchedIsCharged, HasCharge
  <2> QED
    BY <1>1, <2>1
<1> QED
  BY <1>2, <1>3, <1>4 DEF ChargedInv, DispatchedIsCharged, HasCharge

(* As long as no charge expires, a task that ever reached the provider has *)
(* a charge: whatever was lost, repeated, late or forgotten in a crash.    *)
THEOREM Charged == ASSUME MaxClock <= Window PROVE Spec => []DispatchedIsCharged
<1>1. Init => ChargedInv
  BY DEF Init, ChargedInv, DispatchedIsCharged, ReservedSteps, RoutedSteps
<1>2. TypeInv /\ TypeInv' /\ ChargedInv /\ [Next]_vars => ChargedInv'
  BY ChargedInvNext
<1>3. ChargedInv => DispatchedIsCharged
  BY DEF ChargedInv
<1> QED
  BY <1>1, <1>2, <1>3, TypeInvInit, TypeInvNext, PTL DEF Spec

-----------------------------------------------------------------------------
(* FrontierHasHeadroom needs the two flags that run() carries from the     *)
(* reservation to the routing: while one of them is down, a reservation of *)
(* the task was answered "not degraded".                                   *)
HasPassed(t) == \E c \in charges : c.by = t /\ ~c.degraded

HeadroomInv ==
    /\ \A t \in Tasks : step[t] = "circuit_breaker_effective" /\ ~local[t].degraded
                          => HasPassed(t)
    /\ \A t \in Tasks : step[t] = "route_task" /\ ~local[t].effective => HasPassed(t)
    /\ FrontierHasHeadroom

LEMMA OnlyEscalatedFrontier ==
    ASSUME NEW t \in Tasks, NEW degraded,
           RouteTier(t \in Escalate, Classified[t], degraded) = "frontier"
    PROVE  t \in Escalate /\ ~degraded
<1>1. Classified[t] # "frontier"
  BY TaskWorkflowAssumption DEF ClassifierTiers
<1> QED
  BY <1>1 DEF RouteTier, DegradedCap, UncappedTier

LEMMA HeadroomInvNext ==
    ASSUME TypeInv, HeadroomInv, [Next]_vars, MaxClock <= Window
    PROVE  HeadroomInv'
<1>1. ASSUME NEW t \in Tasks, HasPassed(t) PROVE HasPassed(t)'
  BY <1>1, ChargesKept DEF HasPassed
<1>2. ASSUME NEW t \in Tasks
      PROVE  /\ step'[t] = "circuit_breaker_effective" /\ ~local'[t].degraded => HasPassed(t)'
             /\ step'[t] = "route_task" /\ ~local'[t].effective => HasPassed(t)'
             /\ local'[t].tier = "frontier" => t \in Escalate /\ HasPassed(t)'
  <2>1. /\ local[t].tier = "frontier" => t \in Escalate /\ HasPassed(t)
        /\ step[t] = "circuit_breaker_effective" /\ ~local[t].degraded => HasPassed(t)
        /\ step[t] = "route_task" /\ ~local[t].effective => HasPassed(t)
    BY DEF HeadroomInv, FrontierHasHeadroom, HasPassed
  <2>2. CASE StaysOrFails(t)
    BY <1>1, <2>1, <2>2 DEF StaysOrFails, Same
  <2>3. CASE Reserved(t)
    <3>1. ~local'[t].degraded => HasPassed(t)'
      BY <2>3 DEF Reserved, HasPassed
    <3> QED
      BY <1>1, <2>1, <2>3, <3>1 DEF Reserved
  <2>4. CASE Consulted(t)
    BY <1>1, <2>1, <2>4 DEF Consulted
  <2>5. CASE Routed(t)
    BY <1>1, <2>1, <2>5, OnlyEscalatedFrontier DEF Routed
  <2>6. CASE MovesOn(t)
    BY <1>1, <2>1, <2>6 DEF MovesOn, PlainMoves, Same
  <2> QED
    BY <2>2, <2>3, <2>4, <2>5, <2>6, NextMoves DEF Moves
<1> QED
  BY <1>2 DEF HeadroomInv, FrontierHasHeadroom, HasPassed

(* As long as no charge expires, a task is routed to the frontier tier     *)
(* only if it was escalated and a reservation of its own was answered "not *)
(* degraded", under every loss, repetition, delay and crash.               *)
THEOREM Headroom == ASSUME MaxClock <= Window PROVE Spec => []FrontierHasHeadroom
<1>1. Init => HeadroomInv
  BY DEF Init, HeadroomInv, FrontierHasHeadroom, Null
<1>2. TypeInv /\ HeadroomInv /\ [Next]_vars => HeadroomInv'
  BY HeadroomInvNext
<1>3. HeadroomInv => FrontierHasHeadroom
  BY DEF HeadroomInv
<1> QED
  BY <1>1, <1>2, <1>3, TypeInvInit, TypeInvNext, PTL DEF Spec

-----------------------------------------------------------------------------
(* When no body outlives its timeout, every body belongs to the current    *)
(* attempt of its task.                                                    *)
LateFree ==
    /\ IsFiniteSet(bodies)
    /\ \A b \in bodies : Current(b)
    /\ \A b, c \in bodies : b.task = c.task => b = c

Only(t) ==
    \A u \in Tasks \ {t} : /\ step'[u] = step[u] /\ phase'[u] = phase[u]
                           /\ attempt'[u] = attempt[u] /\ local'[u] = local[u]

LEMMA FailsOnly ==
    ASSUME TypeInv, NEW t \in Tasks, AttemptFails(t) \/ ActivityFails(t)
    PROVE  Only(t)
<1>1. ActivityFails(t) => Only(t)
  <2>1. CASE Goto(t, "failed") /\ UNCHANGED local
    BY <2>1 DEF Goto, Only, TypeInv, TypeOK
  <2>2. CASE Goto(t, "mark_failed") /\ local' = [local EXCEPT ![t].reason = step[t]]
    BY <2>2 DEF Goto, Only, TypeInv, TypeOK
  <2> QED
    BY <2>1, <2>2 DEF ActivityFails
<1> QED
  BY <1>1 DEF AttemptFails, Only, TypeInv, TypeOK

LEMMA ReturnOnly ==
    ASSUME TypeInv, NEW b \in bodies, NEW next, NEW locals, Return(b, next, locals)
    PROVE  Only(b.task)
<1>1. CASE UNCHANGED workflowVars
  BY <1>1 DEF workflowVars, Only
<1>2. CASE /\ Goto(b.task, next)
           /\ local' = [local EXCEPT ![b.task] = locals]
  BY <1>2 DEF Goto, Only, TypeInv, TypeOK
<1> QED
  BY <1>1, <1>2 DEF Return

LEMMA BodyOnly ==
    ASSUME TypeInv, NEW b \in bodies, Body(b)
    PROVE  bodies' = bodies \ {b} /\ Only(b.task)
<1>1. b.task \in Tasks
  BY DEF TypeInv, TypeOK, Bodies
<1>2. CASE RaiseError(b)
  BY <1>1, <1>2, FailsOnly DEF RaiseError, workflowVars, Only
<1>3. CASE ~RaiseError(b)
  <2>1. \E next, locals : Return(b, next, locals)
    BY <1>3 DEF Body, MarkRunning, MarkCompleted, MarkFailed, MarkStatus, CheckRateLimit,
       ReserveUsage, CircuitBreakerEffective, RouteTask, SettleUsage,
       CircuitBreakerRecord, DispatchTask
  <2> QED
    BY <2>1, ReturnOnly DEF Return
<1> QED
  BY <1>2, <1>3

LEMMA LateFreeNext ==
    ASSUME TypeInv, LateFree, [Next]_vars, MaxLate = 0
    PROVE  LateFree'
<1>1. \A b \in bodies : b \in Bodies /\ b.task \in Tasks /\ phase[b.task] = "running"
  BY DEF LateFree, Current, TypeInv, TypeOK, Bodies
<1>2. ASSUME bodies' \subseteq bodies,
             \A b \in bodies' : /\ step'[b.task] = step[b.task]
                                /\ phase'[b.task] = phase[b.task]
                                /\ attempt'[b.task] = attempt[b.task]
      PROVE  LateFree'
  <2>1. IsFiniteSet(bodies')
    BY <1>2, FS_Subset DEF LateFree
  <2> QED
    BY <1>2, <2>1 DEF LateFree, Current
<1>3. ASSUME NEW t \in Tasks, \A b \in bodies : b.task # t, Only(t), bodies' = bodies
      PROVE  LateFree'
  BY <1>1, <1>2, <1>3 DEF Only
<1>4. ASSUME NEW t \in Tasks, NEW w \in Workers, PickUp(t, w) PROVE LateFree'
  <2> DEFINE n == [task |-> t, step |-> step[t], attempt |-> attempt[t],
                   worker |-> w, at |-> Unread]
  <2>1. \A b \in bodies : b.task # t
    BY <1>1, <1>4 DEF PickUp
  <2>2. /\ bodies' = bodies \union {n}
        /\ step' = step /\ attempt' = attempt
        /\ \A u \in Tasks : phase'[u] = IF u = t THEN "running" ELSE phase[u]
    BY <1>4 DEF PickUp, TypeInv, TypeOK
  <2>3. IsFiniteSet(bodies')
    BY <2>2, FS_AddElement DEF LateFree
  <2>4. \A b \in bodies' : Current(b)'
    BY <1>1, <2>1, <2>2 DEF LateFree, Current
  <2>5. n.task = t
    OBVIOUS
  <2>6. \A b, c \in bodies' : b.task = c.task => b = c
    <3> HIDE DEF n
    <3> QED
      BY <2>1, <2>2, <2>5 DEF LateFree
  <2> QED
    BY <2>3, <2>4, <2>6 DEF LateFree
<1>5. ASSUME NEW b \in bodies, EnterBody(b) PROVE LateFree'
  <2> DEFINE n == [b EXCEPT !.at = clock]
  <2>1. n.task = b.task /\ n.step = b.step /\ n.attempt = b.attempt
    BY <1>1 DEF Bodies
  <2>2. bodies' = (bodies \ {b}) \union {n} /\ UNCHANGED <<step, phase, attempt>>
    BY <1>5 DEF EnterBody, workflowVars
  <2> HIDE DEF n
  <2>3. IsFiniteSet(bodies')
    BY <2>2, FS_AddElement, FS_RemoveElement DEF LateFree
  <2>4. \A c \in bodies' : Current(c)'
    BY <2>1, <2>2 DEF LateFree, Current
  <2>5. \A c, d \in bodies' : c.task = d.task => c = d
    BY <2>1, <2>2 DEF LateFree
  <2> QED
    BY <2>3, <2>4, <2>5 DEF LateFree
<1>6. ASSUME NEW b \in bodies, Body(b) PROVE LateFree'
  <2>1. bodies' = bodies \ {b} /\ Only(b.task)
    BY <1>6, BodyOnly
  <2>2. \A c \in bodies' : c.task \in Tasks \ {b.task}
    BY <1>1, <2>1 DEF LateFree
  <2> QED
    BY <1>2, <2>1, <2>2 DEF Only
<1>7. ASSUME NEW t \in Tasks, StartToCloseTimeout(t) PROVE LateFree'
  <2>1. {b \in bodies : ~Current(b)} = {}
    BY DEF LateFree
  <2>2. Cardinality({b \in bodies : ~Current(b)}) = 0
    BY <2>1, FS_EmptySet
  <2>3. \A b \in bodies : b.task # t
    BY <1>7, <2>2 DEF StartToCloseTimeout, LateFree
  <2> QED
    BY <1>3, <1>7, <2>3, FailsOnly DEF StartToCloseTimeout
<1>8. ASSUME NEW t \in Tasks, ScheduleToStartTimeout(t) PROVE LateFree'
  <2>1. \A b \in bodies : b.task # t
    BY <1>1, <1>8 DEF ScheduleToStartTimeout
  <2> QED
    BY <1>3, <1>8, <2>1, FailsOnly DEF ScheduleToStartTimeout
<1>9. CASE bodies' \subseteq bodies /\ UNCHANGED workflowVars
  BY <1>2, <1>9 DEF workflowVars
<1> QED
  BY <1>4, <1>5, <1>6, <1>7, <1>8, <1>9
     DEF Next, WorkerCrash, ResetBreaker, Tick, Quiesced, vars

-----------------------------------------------------------------------------
(* The reason of a failure is assigned once, when run() enters its except  *)
(* block, and a workflow has one exactly from then on.                     *)
FailedSteps == {"mark_failed", "failed"}

ReasonInv == \A t \in Tasks : step[t] \in FailedSteps <=> local[t].reason # Null

KeepsReason(t) ==
    /\ local'[t].reason = local[t].reason
    /\ step'[t] \in FailedSteps <=> step[t] \in FailedSteps

GetsReason(t) ==
    /\ step[t] \notin FailedSteps /\ step'[t] = "mark_failed"
    /\ local'[t].reason # Null

LEMMA FailsReason ==
    ASSUME TypeInv, NEW u \in Tasks, phase[u] # "closed",
           AttemptFails(u) \/ ActivityFails(u), NEW t \in Tasks
    PROVE  KeepsReason(t) \/ GetsReason(t)
<1>1. step[u] \in Activities /\ step[u] # Null /\ step[u] # "failed"
  BY DEF TypeInv, TypeOK, ClosedMeansEnded, Activities, Ends, Null
<1>2. CASE UNCHANGED <<step, local>>
  BY <1>2 DEF KeepsReason
<1>3. CASE step[u] = "mark_failed" /\ Goto(u, "failed") /\ UNCHANGED local
  BY <1>3 DEF Goto, KeepsReason, FailedSteps, TypeInv, TypeOK
<1>4. CASE /\ step[u] # "mark_failed" /\ Goto(u, "mark_failed")
           /\ local' = [local EXCEPT ![u].reason = step[u]]
  <2>1. CASE t = u
    <3>1. local'[t].reason = step[u]
      BY <1>4, <2>1 DEF TypeInv, TypeOK, Locals
    <3> QED
      BY <1>1, <1>4, <2>1, <3>1 DEF Goto, GetsReason, FailedSteps, TypeInv, TypeOK
  <2>2. CASE t # u
    BY <1>4, <2>2 DEF Goto, KeepsReason, TypeInv, TypeOK
  <2> QED
    BY <2>1, <2>2
<1> QED
  BY <1>2, <1>3, <1>4 DEF AttemptFails, ActivityFails

LEMMA ReturnReason ==
    ASSUME TypeInv, NEW b \in bodies, NEW next, NEW locals, Return(b, next, locals),
           locals.reason = local[b.task].reason,
           next \in FailedSteps <=> b.step \in FailedSteps, NEW t \in Tasks
    PROVE  KeepsReason(t)
BY ReturnMoves DEF KeepsReason

LEMMA BodyReason ==
    ASSUME TypeInv, NEW b \in bodies, Body(b), NEW t \in Tasks
    PROVE  KeepsReason(t) \/ GetsReason(t)
<1>1. b.task \in Tasks /\ local[b.task] \in Locals
  BY DEF TypeInv, TypeOK, Bodies
<1>2. CASE MarkRunning(b) \/ MarkCompleted(b) \/ MarkFailed(b) \/ SettleUsage(b)
             \/ CircuitBreakerRecord(b) \/ DispatchTask(b)
  <2>1. \E next : /\ Return(b, next, local[b.task])
                  /\ next \in FailedSteps <=> b.step \in FailedSteps
    BY <1>2 DEF MarkRunning, MarkCompleted, MarkFailed, MarkStatus, SettleUsage,
       CircuitBreakerRecord, DispatchTask, Runs, FailedSteps
  <2> QED
    BY <2>1, ReturnReason
<1>3. CASE CheckRateLimit(b)
  <2>1. PICK ok \in LimiterAnswers :
          Return(b, "reserve_usage", [local[b.task] EXCEPT !.allowed = ok])
    BY <1>3 DEF CheckRateLimit
  <2> DEFINE locals == [local[b.task] EXCEPT !.allowed = ok]
  <2>2. Return(b, "reserve_usage", locals)
    BY <2>1
  <2>3. locals.reason = local[b.task].reason
    BY <1>1 DEF Locals
  <2>4. "reserve_usage" \in FailedSteps <=> b.step \in FailedSteps
    BY <1>3 DEF CheckRateLimit, Runs, FailedSteps
  <2> HIDE DEF locals
  <2> QED
    BY <2>2, <2>3, <2>4, ReturnReason
<1>4. CASE ReserveUsage(b)
  <2> DEFINE locals == [local[b.task] EXCEPT
                         !.degraded = OverThreshold(Prune(charges, Owner[b.task], b.at),
                             Owner[b.task], Projected(b.task))]
  <2>2. Return(b, "circuit_breaker_effective", locals)
    BY <1>4 DEF ReserveUsage
  <2>3. locals.reason = local[b.task].reason
    BY <1>1 DEF Locals
  <2>4. "circuit_breaker_effective" \in FailedSteps <=> b.step \in FailedSteps
    BY <1>4 DEF ReserveUsage, Runs, FailedSteps
  <2> HIDE DEF locals
  <2> QED
    BY <2>2, <2>3, <2>4, ReturnReason
<1>5. CASE CircuitBreakerEffective(b)
  <2> DEFINE locals == [local[b.task] EXCEPT
                         !.effective = local[b.task].degraded \/ tripped[b.worker]]
  <2>2. Return(b, "route_task", locals)
    BY <1>5 DEF CircuitBreakerEffective
  <2>3. locals.reason = local[b.task].reason
    BY <1>1 DEF Locals
  <2>4. "route_task" \in FailedSteps <=> b.step \in FailedSteps
    BY <1>5 DEF CircuitBreakerEffective, Runs, FailedSteps
  <2> HIDE DEF locals
  <2> QED
    BY <2>2, <2>3, <2>4, ReturnReason
<1>6. CASE RouteTask(b)
  <2> DEFINE locals == [local[b.task] EXCEPT !.tier = RouteTier(b.task \in Escalate,
                             Classified[b.task], local[b.task].effective)]
  <2>2. Return(b, "settle_usage", locals)
    BY <1>6 DEF RouteTask
  <2>3. locals.reason = local[b.task].reason
    BY <1>1 DEF Locals
  <2>4. "settle_usage" \in FailedSteps <=> b.step \in FailedSteps
    BY <1>6 DEF RouteTask, Runs, FailedSteps
  <2> HIDE DEF locals
  <2> QED
    BY <2>2, <2>3, <2>4, ReturnReason
<1>7. CASE RaiseError(b)
  BY <1>1, <1>7, FailsReason DEF RaiseError, Current, workflowVars, KeepsReason
<1> QED
  BY <1>2, <1>3, <1>4, <1>5, <1>6, <1>7 DEF Body

LEMMA NextReason ==
    ASSUME TypeInv, [Next]_vars, NEW t \in Tasks
    PROVE  KeepsReason(t) \/ GetsReason(t)
<1>1. CASE UNCHANGED <<step, local>>
  BY <1>1 DEF KeepsReason
<1>2. ASSUME NEW b \in bodies, Body(b) PROVE KeepsReason(t) \/ GetsReason(t)
  BY <1>2, BodyReason
<1>3. ASSUME NEW u \in Tasks, StartToCloseTimeout(u) \/ ScheduleToStartTimeout(u)
      PROVE  KeepsReason(t) \/ GetsReason(t)
  BY <1>3, FailsReason DEF StartToCloseTimeout, ScheduleToStartTimeout
<1> QED
  BY <1>1, <1>2, <1>3
     DEF Next, PickUp, EnterBody, WorkerCrash, ResetBreaker, Tick, Quiesced, vars, workflowVars

(* RowAgrees is about the row and the workflow of one task; it is kept     *)
(* because only the current body of a task writes its row (LateFree).      *)
DispatchedFirst ==
    \A t \in Tasks : step[t] \in {"mark_completed", "completed"} => dispatches[t] > 0

CompletedRow(t) ==
    row[t] = [status |-> "COMPLETED", error |-> Null, tier |-> local[t].tier,
              cost |-> Actual(t)]

FailedRow(t) ==
    /\ step[t] \in FailedSteps
    /\ row[t].error = local[t].reason /\ local[t].reason # Null

RowInv ==
    /\ ReasonInv /\ DispatchedFirst
    /\ \A t \in Tasks : step[t] = "completed" => CompletedRow(t)
    /\ \A t \in Tasks : row[t].status = "FAILED" => FailedRow(t)

RowInvOf(t) ==
    /\ step[t] \in FailedSteps <=> local[t].reason # Null
    /\ step[t] \in {"mark_completed", "completed"} => dispatches[t] > 0
    /\ step[t] = "completed" => CompletedRow(t)
    /\ row[t].status = "FAILED" => FailedRow(t)

(* A task whose row and dispatches a step leaves alone stays where it is,  *)
(* fails, or does not reach its last two steps.                            *)
LEMMA RowInvKept ==
    ASSUME TypeInv, [Next]_vars, NEW t \in Tasks, RowInvOf(t),
           row'[t] = row[t], dispatches'[t] = dispatches[t],
           \/ step'[t] = step[t]
           \/ step'[t] \notin {"mark_completed", "completed"}
    PROVE  RowInvOf(t)'
<1>1. KeepsReason(t) \/ GetsReason(t)
  BY NextReason
<1>2. step'[t] \in FailedSteps <=> local'[t].reason # Null
  BY <1>1 DEF RowInvOf, KeepsReason, GetsReason, FailedSteps
<1>3. step'[t] \in {"mark_completed", "completed"} => dispatches'[t] > 0
  BY DEF RowInvOf
<1>4. row'[t].status = "FAILED" => FailedRow(t)'
  BY <1>1 DEF RowInvOf, FailedRow, KeepsReason, GetsReason
<1>5. ASSUME step'[t] = "completed" PROVE CompletedRow(t)'
  <2>1. step[t] = "completed"
    BY <1>5
  <2>2. local'[t].tier = local[t].tier
    BY <1>5, <2>1, NextMoves
       DEF Moves, StaysOrFails, Same, Reserved, Consulted, Routed, MovesOn, PlainMoves
  <2> QED
    BY <2>1, <2>2 DEF RowInvOf, CompletedRow, Actual
<1> QED
  BY <1>2, <1>3, <1>4, <1>5 DEF RowInvOf

LEMMA RowInvBody ==
    ASSUME TypeInv, LateFree, [Next]_vars, NEW b \in bodies, Body(b), RowInvOf(b.task)
    PROVE  RowInvOf(b.task)'
<1> DEFINE t == b.task
<1>1. /\ t \in Tasks /\ local[t] \in Locals /\ row[t] \in Rows
      /\ step[t] = b.step /\ phase[t] = "running" /\ dispatches[t] \in Nat
  BY DEF LateFree, Current, TypeInv, TypeOK, Bodies
<1>2. step'[t] \in FailedSteps <=> local'[t].reason # Null
  BY <1>1, NextReason DEF RowInvOf, KeepsReason, GetsReason, FailedSteps
<1>3. KeepsReason(t) \/ GetsReason(t)
  BY <1>1, NextReason
<1> HIDE DEF t
<1>4. ASSUME NEW next, NEW status, NEW error, NEW tier, NEW cost,
             MarkStatus(b, next, status, error, tier, cost)
      PROVE  /\ row'[t] = [status |-> status, error |-> error, tier |-> tier,
                           cost |-> IF cost = 0 THEN row[t].cost ELSE cost]
             /\ dispatches' = dispatches
             /\ step'[t] = step[t] \/ step'[t] = next
             /\ local'[t] = local[t]
  <2>1. row' = [row EXCEPT ![t] = UpdatedRow(@, status, error, tier, cost)]
    BY <1>4 DEF MarkStatus, t
  <2>2. row'[t] = UpdatedRow(row[t], status, error, tier, cost)
    BY <1>1, <2>1 DEF TypeInv, TypeOK
  <2>3. Return(b, next, local[t])
    BY <1>4 DEF MarkStatus, t
  <2> QED
    BY <1>1, <1>4, <2>2, <2>3, ReturnMoves DEF MarkStatus, UpdatedRow
<1>5. CASE MarkRunning(b)
  <2>1. MarkStatus(b, "check_rate_limit", "RUNNING", Null, Null, 0)
    BY <1>5 DEF MarkRunning
  <2>2. /\ row'[t] = [status |-> "RUNNING", error |-> Null, tier |-> Null,
                      cost |-> IF 0 = 0 THEN row[t].cost ELSE 0]
        /\ dispatches' = dispatches
        /\ step'[t] = step[t] \/ step'[t] = "check_rate_limit"
    BY <1>4, <2>1
  <2>3. row'[t].status = "RUNNING" /\ step[t] = "mark_running"
    BY <1>1, <1>5, <2>2 DEF MarkRunning, Runs
  <2> QED
    BY <1>2, <2>2, <2>3 DEF RowInvOf, t
<1>6. CASE MarkCompleted(b)
  <2>1. local[t].tier \in Tiers
    BY <1>6 DEF MarkCompleted, Runs, TypeInv, TierKnown, RoutedSteps, t
  <2>2. Actual(t) # 0
    BY <1>1, <2>1, ActualOK
  <2>3. MarkStatus(b, "completed", "COMPLETED", Null, local[t].tier, Actual(t))
    BY <1>6 DEF MarkCompleted, t
  <2>4. /\ row'[t] = [status |-> "COMPLETED", error |-> Null, tier |-> local[t].tier,
                      cost |-> Actual(t)]
        /\ dispatches' = dispatches /\ local'[t] = local[t]
    BY <1>4, <2>2, <2>3
  <2>5. CompletedRow(t)' /\ row'[t].status # "FAILED"
    BY <2>4 DEF CompletedRow, Actual
  <2>6. step[t] = "mark_completed"
    BY <1>1, <1>6 DEF MarkCompleted, Runs
  <2>7. dispatches'[t] > 0
    BY <2>4, <2>6 DEF RowInvOf, t
  <2> QED
    BY <1>2, <2>5, <2>7 DEF RowInvOf, t
<1>7. CASE MarkFailed(b)
  <2>1. MarkStatus(b, "failed", "FAILED", local[t].reason, Null, 0)
    BY <1>7 DEF MarkFailed, t
  <2>2. /\ row'[t] = [status |-> "FAILED", error |-> local[t].reason, tier |-> Null,
                      cost |-> IF 0 = 0 THEN row[t].cost ELSE 0]
        /\ dispatches' = dispatches /\ local'[t] = local[t]
        /\ step'[t] = step[t] \/ step'[t] = "failed"
    BY <1>4, <2>1
  <2>3. step[t] = "mark_failed" /\ row'[t].error = local[t].reason
    BY <1>1, <1>7, <2>2 DEF MarkFailed, Runs
  <2>4. FailedRow(t)'
    BY <2>2, <2>3 DEF RowInvOf, FailedRow, FailedSteps, t
  <2> QED
    BY <1>2, <2>2, <2>3, <2>4 DEF RowInvOf, t
<1>8. CASE DispatchTask(b)
  <2>1. /\ step[t] = "dispatch_task" /\ row' = row
        /\ step'[t] = step[t] \/ step'[t] = "mark_completed"
    BY <1>1, <1>8, ReturnMoves DEF DispatchTask, Runs, storeVars, t
  <2>2. dispatches'[t] > 0
    BY <1>1, <1>8 DEF DispatchTask, TypeInv, TypeOK, t
  <2>3. row'[t].status = "FAILED" => FailedRow(t)'
    BY <1>3, <2>1 DEF RowInvOf, FailedRow, KeepsReason, GetsReason, t
  <2> QED
    BY <1>2, <2>1, <2>2, <2>3 DEF RowInvOf, t
<1>9. CASE CheckRateLimit(b) \/ ReserveUsage(b) \/ CircuitBreakerEffective(b)
           \/ RouteTask(b) \/ SettleUsage(b) \/ CircuitBreakerRecord(b)
  <2>1. row' = row /\ dispatches' = dispatches
    BY <1>9 DEF CheckRateLimit, ReserveUsage, CircuitBreakerEffective, RouteTask,
       SettleUsage, CircuitBreakerRecord, storeVars
  <2>2. step[t] \notin {"dispatch_task", "mark_completed"}
    BY <1>1, <1>9 DEF CheckRateLimit, ReserveUsage, CircuitBreakerEffective, RouteTask,
       SettleUsage, CircuitBreakerRecord, Runs
  <2>3. step'[t] = step[t] \/ step'[t] \notin {"mark_completed", "completed"}
    BY <1>1, <2>2, BodyMoves
       DEF Moves, StaysOrFails, Reserved, Consulted, Routed, MovesOn, PlainMoves
  <2> QED
    BY <1>1, <2>1, <2>3, RowInvKept DEF t
<1>10. CASE RaiseError(b)
  <2>1. row' = row /\ dispatches' = dispatches
    BY <1>10 DEF RaiseError, storeVars
  <2>2. step'[t] = step[t] \/ step'[t] \notin {"mark_completed", "completed"}
    BY <1>1, <1>10, AttemptFailsMoves DEF RaiseError, StaysOrFails, workflowVars, t
  <2> QED
    BY <1>1, <2>1, <2>2, RowInvKept DEF t
<1> QED
  BY <1>5, <1>6, <1>7, <1>8, <1>9, <1>10 DEF Body, t

LEMMA RowInvNext ==
    ASSUME TypeInv, LateFree, RowInv, [Next]_vars
    PROVE  RowInv'
<1> SUFFICES ASSUME NEW t \in Tasks PROVE RowInvOf(t)'
  BY DEF RowInv, RowInvOf, ReasonInv, DispatchedFirst
<1>1. RowInvOf(t)
  BY DEF RowInv, RowInvOf, ReasonInv, DispatchedFirst
<1>2. CASE UNCHANGED <<step, row, dispatches>>
  BY <1>1, <1>2, RowInvKept
<1>3. ASSUME NEW b \in bodies, Body(b) PROVE RowInvOf(t)'
  <2>1. CASE b.task = t
    BY <1>1, <1>3, <2>1, RowInvBody
  <2>2. CASE b.task # t
    <3>1. b.task \in Tasks
      BY DEF TypeInv, TypeOK, Bodies
    <3>2. row'[t] = row[t] /\ dispatches'[t] = dispatches[t]
      BY <1>3, <2>2, <3>1 DEF Body, MarkRunning, MarkCompleted, MarkFailed, MarkStatus,
         CheckRateLimit, ReserveUsage, CircuitBreakerEffective, RouteTask, SettleUsage,
         CircuitBreakerRecord, DispatchTask, RaiseError, storeVars, TypeInv, TypeOK
    <3>3. step'[t] = step[t]
      BY <1>3, <2>2, BodyOnly DEF Only
    <3> QED
      BY <1>1, <3>2, <3>3, RowInvKept
  <2> QED
    BY <2>1, <2>2
<1>4. ASSUME NEW u \in Tasks, StartToCloseTimeout(u) \/ ScheduleToStartTimeout(u)
      PROVE  RowInvOf(t)'
  <2>1. row' = row /\ dispatches' = dispatches
    BY <1>4 DEF StartToCloseTimeout, ScheduleToStartTimeout, storeVars
  <2>2. step'[t] = step[t] \/ step'[t] \notin {"mark_completed", "completed"}
    BY <1>4, AttemptFailsMoves, ActivityFailsMoves
       DEF StartToCloseTimeout, ScheduleToStartTimeout, StaysOrFails
  <2> QED
    BY <1>1, <2>1, <2>2, RowInvKept
<1> QED
  BY <1>2, <1>3, <1>4
     DEF Next, PickUp, EnterBody, WorkerCrash, ResetBreaker, Tick, Quiesced, vars,
         workflowVars, storeVars

(* As long as no body outlives its timeout, the row of a task agrees with  *)
(* how its workflow ended: completed rows are those of dispatched tasks,   *)
(* with the tier and the cost that were routed, and failed rows name the   *)
(* reason.  Reports may be lost, workers may crash and activities repeat.  *)
THEOREM RowsAgree == ASSUME MaxLate = 0 PROVE Spec => []RowAgrees
<1>1. Init => LateFree
  BY FS_EmptySet DEF Init, LateFree
<1>2. Init => RowInv
  BY DEF Init, RowInv, ReasonInv, DispatchedFirst, FailedSteps, Null
<1>3. TypeInv /\ LateFree /\ [Next]_vars => LateFree'
  BY LateFreeNext
<1>4. TypeInv /\ LateFree /\ RowInv /\ [Next]_vars => RowInv'
  BY RowInvNext
<1>5. RowInv => RowAgrees
  BY DEF RowInv, RowAgrees, DispatchedFirst, CompletedRow, FailedRow, FailedSteps
<1> QED
  BY <1>1, <1>2, <1>3, <1>4, <1>5, TypeInvInit, TypeInvNext, PTL DEF Spec

-----------------------------------------------------------------------------
(* No body has read a time that has not come yet.                          *)
TimesInv == \A b \in bodies : b.at <= clock

LEMMA TimesInvNext ==
    ASSUME TypeInv, TimesInv, [Next]_vars
    PROVE  TimesInv'
<1>1. clock \in Nat /\ clock' \in Nat /\ clock <= clock'
  <2>1. clock \in Nat
    BY TaskWorkflowAssumption DEF TypeInv, TypeOK
  <2>2. clock' = clock \/ clock' = clock + 1
    BY DEF Next, PickUp, EnterBody, Body, MarkRunning, MarkCompleted, MarkFailed, MarkStatus,
       CheckRateLimit, ReserveUsage, CircuitBreakerEffective, RouteTask, SettleUsage,
       CircuitBreakerRecord, DispatchTask, RaiseError, StartToCloseTimeout,
       ScheduleToStartTimeout, WorkerCrash, ResetBreaker, Tick, Quiesced, vars
  <2> QED
    BY <2>1, <2>2
<1>2. \A b \in bodies : b.at \in Int
  BY TaskWorkflowAssumption DEF TypeInv, TypeOK, Bodies, Unread
<1>3. CASE bodies' \subseteq bodies
  BY <1>1, <1>2, <1>3 DEF TimesInv
<1>4. ASSUME NEW t \in Tasks, NEW w \in Workers, PickUp(t, w) PROVE TimesInv'
  <2>1. \A c \in bodies' : c \in bodies \/ c.at = Unread
    BY <1>4 DEF PickUp
  <2> QED
    BY <1>1, <1>2, <2>1 DEF TimesInv, Unread
<1>5. ASSUME NEW b \in bodies, EnterBody(b) PROVE TimesInv'
  <2>1. [b EXCEPT !.at = clock].at = clock
    BY DEF TypeInv, TypeOK, Bodies
  <2>2. \A c \in bodies' : c \in bodies \/ c.at = clock
    BY <1>5, <2>1 DEF EnterBody
  <2> QED
    BY <1>1, <1>2, <2>2 DEF TimesInv
<1>6. ASSUME NEW b \in bodies, Body(b) PROVE bodies' \subseteq bodies
  BY <1>6 DEF Body, MarkRunning, MarkCompleted, MarkFailed, MarkStatus, CheckRateLimit,
     ReserveUsage, CircuitBreakerEffective, RouteTask, SettleUsage, CircuitBreakerRecord,
     DispatchTask, RaiseError, Return
<1> QED
  BY <1>3, <1>4, <1>5, <1>6 DEF Next, StartToCloseTimeout, ScheduleToStartTimeout,
     WorkerCrash, ResetBreaker, Tick, Quiesced, vars

LEMMA ChargesExpire ==
    ASSUME TypeInv, TimesInv, [Next]_vars
    PROVE  \A c \in charges : c.ts >= clock - Window => \E d \in charges' : d.id = c.id
<1> SUFFICES ASSUME NEW c \in charges, c.ts >= clock - Window
             PROVE  \E d \in charges' : d.id = c.id
  OBVIOUS
<1>1. ASSUME NEW b \in bodies, b.at # Unread
      PROVE  c \in Prune(charges, Owner[b.task], b.at)
  <2>1. b.at \in Nat /\ clock \in Nat /\ c.ts \in Nat /\ Window \in Nat
    BY <1>1, TaskWorkflowAssumption DEF TypeInv, TypeOK, Bodies, Charges
  <2>2. ~(c.ts < b.at - Window)
    BY <2>1 DEF TimesInv
  <2> QED
    BY <2>2 DEF Prune
<1>2. CASE UNCHANGED charges
  BY <1>2
<1>3. ASSUME NEW b \in bodies, ReserveUsage(b) PROVE c \in charges'
  BY <1>1, <1>3 DEF ReserveUsage, Runs
<1>4. ASSUME NEW b \in bodies, SettleUsage(b) PROVE \E d \in charges' : d.id = c.id
  <2> DEFINE pruned == Prune(charges, Owner[b.task], b.at)
             target == SettleTarget(pruned, Owner[b.task], Projected(b.task))
             revalued == [c EXCEPT !.amount = Actual(b.task)]
  <2>1. charges' = {IF e \in target THEN [e EXCEPT !.amount = Actual(b.task)] ELSE e :
                      e \in pruned}
    BY <1>4 DEF SettleUsage, Revalue
  <2>2. revalued.id = c.id
    BY DEF TypeInv, TypeOK, Charges
  <2>3. c \in pruned
    BY <1>1, <1>4 DEF SettleUsage, Runs
  <2> HIDE DEF target, pruned
  <2>4. (IF c \in target THEN revalued ELSE c) \in charges'
    BY <2>1, <2>3
  <2> HIDE DEF revalued
  <2> QED
    BY <2>2, <2>4
<1>5. ASSUME NEW b \in bodies, Body(b)
      PROVE  UNCHANGED charges \/ ReserveUsage(b) \/ SettleUsage(b)
  BY <1>5 DEF Body, MarkRunning, MarkCompleted, MarkFailed, MarkStatus, CheckRateLimit,
     CircuitBreakerEffective, RouteTask, CircuitBreakerRecord, DispatchTask, RaiseError,
     storeVars
<1> QED
  BY <1>2, <1>3, <1>4, <1>5 DEF Next, PickUp, EnterBody, StartToCloseTimeout,
     ScheduleToStartTimeout, WorkerCrash, ResetBreaker, Tick, Quiesced, vars, storeVars

(* A charge leaves the table only when it has been in it for longer than   *)
(* the window, although every body reads the clock before it gets the      *)
(* write lock: the time it prunes with is past, never to come.             *)
THEOREM NothingDroppedEarly == Spec => OnlyExpiredPruned
<1>1. Init => TimesInv
  BY DEF Init, TimesInv
<1>2. TypeInv /\ TimesInv /\ [Next]_vars => TimesInv'
  BY TimesInvNext
<1>3. TypeInv /\ TimesInv /\ [Next]_vars
      => [\A c \in charges : c.ts >= clock - Window =>
            \E d \in charges' : d.id = c.id]_vars
  BY ChargesExpire
<1> QED
  BY <1>1, <1>2, <1>3, TypeInvInit, TypeInvNext, PTL DEF Spec, OnlyExpiredPruned

-----------------------------------------------------------------------------
(* TaskWorkflow implements TaskLifecycle, for every set of tasks, accounts *)
(* and workers, with any raising bodies, lost reports, crashes and missed  *)
(* polls, as long as no body outlives its timeout and no charge expires.   *)

(* The refinement mapping.                                                 *)
Stages == [t \in Tasks |-> StageOf(step[t])]
IdsOf(t) == {c.id : c \in {d \in charges : d.by = t}}
Ids == [t \in Tasks |-> IdsOf(t)]
Told == [t \in Tasks |-> row[t].status]

SameView == UNCHANGED <<Stages, Ids, dispatches, Told>>

Step == SameView \/ Lifecycle!Next

(* A new charge is new because the sequence is ahead of every id.          *)
IdsBounded == \A c \in charges : c.id <= lastId

-----------------------------------------------------------------------------
(* The stages.                                                             *)

LEMMA StageMoves ==
    ASSUME TypeInv, NEW t \in Tasks, NEW s, step' = [step EXCEPT ![t] = s]
    PROVE  Stages' = [Stages EXCEPT ![t] = StageOf(s)]
<1>1. \A u \in Tasks : step'[u] = IF u = t THEN s ELSE step[u]
  BY DEF TypeInv, TypeOK
<1>2. \A u \in Tasks : StageOf(step'[u]) = IF u = t THEN StageOf(s) ELSE StageOf(step[u])
  BY <1>1
<1> HIDE DEF StageOf
<1> QED
  BY <1>2 DEF Stages

LEMMA ReturnLeaves ==
    ASSUME TypeInv, NEW b \in bodies, NEW next, NEW locals, Return(b, next, locals)
    PROVE  Stages' = Stages \/ Stages' = [Stages EXCEPT ![b.task] = StageOf(next)]
<1>1. b.task \in Tasks
  BY DEF TypeInv, TypeOK, Bodies
<1>2. CASE UNCHANGED workflowVars
  BY <1>2 DEF workflowVars, Stages
<1>3. CASE Goto(b.task, next)
  BY <1>1, <1>3, StageMoves DEF Goto
<1> QED
  BY <1>2, <1>3 DEF Return

(* A step within a stage does not show.                                    *)
LEMMA ReturnWithin ==
    ASSUME TypeInv, NEW b \in bodies, NEW next, NEW locals, Return(b, next, locals),
           step[b.task] = b.step, StageOf(next) = StageOf(b.step)
    PROVE  Stages' = Stages
<1>1. b.task \in Tasks
  BY DEF TypeInv, TypeOK, Bodies
<1>2. Stages[b.task] = StageOf(next)
  BY <1>1 DEF Stages
<1>3. [Stages EXCEPT ![b.task] = StageOf(next)] = Stages
  BY <1>1, <1>2 DEF Stages
<1> QED
  BY <1>3, ReturnLeaves

-----------------------------------------------------------------------------
(* The charges.                                                            *)

(* Revaluing charges changes neither their ids nor their tasks.            *)
LEMMA SettledIds ==
    ASSUME TypeInv, MaxClock <= Window, NEW b \in bodies, SettleUsage(b)
    PROVE  Ids' = Ids /\ (IdsBounded => IdsBounded')
<1> DEFINE target == SettleTarget(charges, Owner[b.task], Projected(b.task))
           new(c) == IF c \in target THEN [c EXCEPT !.amount = Actual(b.task)] ELSE c
<1>1. charges' = {new(c) : c \in charges} /\ lastId' = lastId
  BY NothingExpires DEF SettleUsage, Runs, Revalue
<1>2. \A c \in charges : new(c).id = c.id /\ new(c).by = c.by
  BY DEF TypeInv, TypeOK, Charges
<1> HIDE DEF new
<1>3. \A t \in Tasks : IdsOf(t)' = IdsOf(t)
  BY <1>1, <1>2 DEF IdsOf
<1>4. IdsBounded => IdsBounded'
  BY <1>1, <1>2 DEF IdsBounded
<1> QED
  BY <1>3, <1>4 DEF Ids

LEMMA ReservedIds ==
    ASSUME TypeInv, MaxClock <= Window, IdsBounded, NEW b \in bodies, ReserveUsage(b)
    PROVE  /\ Ids' = [Ids EXCEPT ![b.task] = @ \union {lastId + 1}]
           /\ \A u \in Tasks : lastId + 1 \notin Ids[u]
           /\ IdsBounded'
<1> DEFINE t == b.task
           over == OverThreshold(charges, Owner[t], Projected(t))
           charge == [id |-> lastId + 1, account |-> Owner[t], ts |-> b.at,
                      amount |-> Projected(t), by |-> t, degraded |-> over]
<1>1. t \in Tasks /\ lastId \in Nat /\ charges \in SUBSET Charges
  BY DEF TypeInv, TypeOK, Bodies
<1>2. charges' = charges \union {charge} /\ lastId' = lastId + 1
  BY NothingExpires DEF ReserveUsage, Runs
<1>3. charge.id = lastId + 1 /\ charge.by = t
  OBVIOUS
<1> HIDE DEF charge, t
<1>4. \A u \in Tasks : lastId + 1 \notin IdsOf(u)
  BY <1>1 DEF IdsOf, IdsBounded, Charges
<1>5. \A u \in Tasks : IdsOf(u)' = IF u = t THEN IdsOf(u) \union {lastId + 1} ELSE IdsOf(u)
  BY <1>2, <1>3 DEF IdsOf
<1>6. IdsBounded'
  BY <1>1, <1>2, <1>3 DEF IdsBounded, Charges
<1>7. Ids' = [Ids EXCEPT ![t] = @ \union {lastId + 1}]
  <2> HIDE DEF IdsOf
  <2> QED
    BY <1>1, <1>5 DEF Ids
<1> QED
  BY <1>4, <1>6, <1>7 DEF Ids, t
-----------------------------------------------------------------------------
(* The simulation.                                                         *)

(* A failing activity is seen as Fail, or as GiveUp in the except block.   *)
LEMMA FailsView ==
    ASSUME TypeInv, NEW t \in Tasks, phase[t] # "closed",
           AttemptFails(t) \/ ActivityFails(t), UNCHANGED <<Ids, dispatches, Told>>
    PROVE  Step
<1>1. step[t] \in Activities
  BY DEF TypeInv, TypeOK, ClosedMeansEnded
<1>2. CASE UNCHANGED step
  BY <1>2 DEF Step, SameView, Stages
<1>3. CASE step[t] = "mark_failed" /\ Goto(t, "failed")
  <2>1. Stages' = [Stages EXCEPT ![t] = "failed"]
    BY <1>3, StageMoves DEF Goto, StageOf
  <2>2. Stages[t] = "failing"
    BY <1>3 DEF Stages, StageOf
  <2>3. Lifecycle!GiveUp(t)
    BY <2>1, <2>2 DEF Lifecycle!GiveUp, Stages, Ids, IdsOf, Told
  <2> QED
    BY <2>3 DEF Step, Lifecycle!Next
<1>4. CASE step[t] # "mark_failed" /\ Goto(t, "mark_failed")
  <2>1. Stages' = [Stages EXCEPT ![t] = "failing"]
    BY <1>4, StageMoves DEF Goto, StageOf
  <2>2. Stages[t] \notin {"completed", "failed", "failing"}
    BY <1>1, <1>4 DEF Stages, StageOf, Activities
  <2>3. Lifecycle!Fail(t)
    BY <2>1, <2>2 DEF Lifecycle!Fail, Lifecycle!Closed, Stages, Ids, IdsOf, Told
  <2> QED
    BY <2>3 DEF Step, Lifecycle!Next
<1> QED
  BY <1>2, <1>3, <1>4 DEF AttemptFails, ActivityFails

(* The three writes of a status are Start, Complete and DeadLetter.        *)
LEMMA WriteView ==
    ASSUME TypeInv, NEW b \in bodies, NEW next, NEW s, NEW error, NEW tier, NEW cost,
           MarkStatus(b, next, s, error, tier, cost)
    PROVE  /\ Told' = [Told EXCEPT ![b.task] = s] /\ UNCHANGED <<Ids, dispatches>>
           /\ Stages' = Stages \/ Stages' = [Stages EXCEPT ![b.task] = StageOf(next)]
<1>1. b.task \in Tasks
  BY DEF TypeInv, TypeOK, Bodies
<1>2. row' = [row EXCEPT ![b.task] = UpdatedRow(@, s, error, tier, cost)]
  BY DEF MarkStatus
<1>3. \A t \in Tasks : row'[t].status = IF t = b.task THEN s ELSE row[t].status
  BY <1>1, <1>2 DEF UpdatedRow, TypeInv, TypeOK
<1>4. Told' = [Told EXCEPT ![b.task] = s]
  BY <1>1, <1>3 DEF Told
<1>5. UNCHANGED <<Ids, dispatches>>
  BY DEF MarkStatus, Ids, IdsOf
<1> QED
  BY <1>4, <1>5, ReturnLeaves DEF MarkStatus

LEMMA BodyView ==
    ASSUME TypeInv, LateFree, IdsBounded, MaxClock <= Window, NEW b \in bodies, Body(b)
    PROVE  Step /\ IdsBounded'
<1> DEFINE t == b.task
<1>1. t \in Tasks /\ step[t] = b.step /\ phase[t] = "running"
  BY DEF TypeInv, TypeOK, Bodies, LateFree, Current
<1>2. Stages[t] = StageOf(b.step)
  BY <1>1 DEF Stages
<1>3. ASSUME UNCHANGED <<charges, lastId>> PROVE UNCHANGED Ids /\ IdsBounded'
  BY <1>3 DEF Ids, IdsOf, IdsBounded
<1>4. CASE MarkRunning(b)
  <2>1. /\ Told' = [Told EXCEPT ![t] = "RUNNING"] /\ UNCHANGED <<Ids, dispatches>>
        /\ Stages' = Stages \/ Stages' = [Stages EXCEPT ![t] = "running"]
    BY <1>4, WriteView DEF MarkRunning, StageOf
  <2>2. Stages[t] = "accepted"
    BY <1>2, <1>4 DEF MarkRunning, Runs, StageOf
  <2>3. Lifecycle!Start(t)
    BY <2>1, <2>2 DEF Lifecycle!Start, Lifecycle!Writes, Lifecycle!Leaves,
       Stages, Ids, IdsOf, Told
  <2> QED
    BY <1>1, <1>3, <1>4, <2>3 DEF Step, Lifecycle!Next, MarkRunning, MarkStatus
<1>5. CASE MarkCompleted(b)
  <2>1. /\ Told' = [Told EXCEPT ![t] = "COMPLETED"] /\ UNCHANGED <<Ids, dispatches>>
        /\ Stages' = Stages \/ Stages' = [Stages EXCEPT ![t] = "completed"]
    BY <1>5, WriteView DEF MarkCompleted, StageOf
  <2>2. Stages[t] = "dispatched"
    BY <1>2, <1>5 DEF MarkCompleted, Runs, StageOf
  <2>3. Lifecycle!Complete(t)
    BY <2>1, <2>2 DEF Lifecycle!Complete, Lifecycle!Writes, Lifecycle!Leaves,
       Stages, Ids, IdsOf, Told
  <2> QED
    BY <1>1, <1>3, <1>5, <2>3 DEF Step, Lifecycle!Next, MarkCompleted, MarkStatus
<1>6. CASE MarkFailed(b)
  <2>1. /\ Told' = [Told EXCEPT ![t] = "FAILED"] /\ UNCHANGED <<Ids, dispatches>>
        /\ Stages' = Stages \/ Stages' = [Stages EXCEPT ![t] = "failed"]
    BY <1>6, WriteView DEF MarkFailed, StageOf
  <2>2. Stages[t] = "failing"
    BY <1>2, <1>6 DEF MarkFailed, Runs, StageOf
  <2>3. Lifecycle!DeadLetter(t)
    BY <2>1, <2>2 DEF Lifecycle!DeadLetter, Lifecycle!Writes, Lifecycle!Leaves,
       Stages, Ids, IdsOf, Told
  <2> QED
    BY <1>1, <1>3, <1>6, <2>3 DEF Step, Lifecycle!Next, MarkFailed, MarkStatus
<1>7. CASE ReserveUsage(b)
  <2>1. /\ Ids' = [Ids EXCEPT ![t] = @ \union {lastId + 1}]
        /\ \A u \in Tasks : lastId + 1 \notin Ids[u]
        /\ IdsBounded'
    BY <1>7, ReservedIds
  <2>2. lastId + 1 \in Ids'[t]
    BY <1>1, <2>1 DEF Ids
  <2>3. Stages' = Stages \/ Stages' = [Stages EXCEPT ![t] = "charged"]
    BY <1>7, ReturnLeaves DEF ReserveUsage, StageOf
  <2>4. Stages[t] = "running" /\ UNCHANGED <<dispatches, Told>>
    BY <1>2, <1>7 DEF ReserveUsage, Runs, StageOf, Told
  <2>5. Lifecycle!Charge(t)
    <3> HIDE DEF t
    <3> QED
      BY <2>1, <2>2, <2>3, <2>4 DEF Lifecycle!Charge, Lifecycle!Leaves, Stages, Ids, IdsOf, Told
  <2> QED
    BY <1>1, <2>1, <2>5 DEF Step, Lifecycle!Next
<1>8. CASE DispatchTask(b)
  <2>1. Stages' = Stages \/ Stages' = [Stages EXCEPT ![t] = "dispatched"]
    BY <1>8, ReturnLeaves DEF DispatchTask, StageOf
  <2>2. Stages[t] = "charged" /\ UNCHANGED <<Ids, Told>>
    BY <1>2, <1>8 DEF DispatchTask, Runs, StageOf, Told, Ids, IdsOf, storeVars
  <2>3. dispatches' = [dispatches EXCEPT ![t] = @ + 1]
    BY <1>8 DEF DispatchTask
  <2>4. Lifecycle!Dispatch(t)
    BY <2>1, <2>2, <2>3 DEF Lifecycle!Dispatch, Lifecycle!Leaves, Stages, Ids, IdsOf, Told
  <2> QED
    BY <1>1, <1>3, <1>8, <2>4 DEF Step, Lifecycle!Next, DispatchTask, storeVars
<1>9. CASE CheckRateLimit(b) \/ CircuitBreakerEffective(b) \/ RouteTask(b)
           \/ SettleUsage(b) \/ CircuitBreakerRecord(b)
  <2>1. \E next, locals : Return(b, next, locals) /\ StageOf(next) = StageOf(b.step)
    BY <1>9 DEF CheckRateLimit, CircuitBreakerEffective, RouteTask, SettleUsage,
       CircuitBreakerRecord, Runs, StageOf
  <2>2. Stages' = Stages
    BY <1>1, <2>1, ReturnWithin
  <2>3. UNCHANGED <<dispatches, Told>>
    BY <1>9 DEF CheckRateLimit, CircuitBreakerEffective, RouteTask, SettleUsage,
       CircuitBreakerRecord, Told, storeVars
  <2>4. UNCHANGED Ids /\ IdsBounded'
    BY <1>3, <1>9, SettledIds DEF CheckRateLimit, CircuitBreakerEffective, RouteTask,
       CircuitBreakerRecord, storeVars
  <2> QED
    BY <2>2, <2>3, <2>4 DEF Step, SameView
<1>10. CASE RaiseError(b)
  <2>1. UNCHANGED <<charges, lastId, dispatches, row>>
    BY <1>10 DEF RaiseError, storeVars
  <2>2. UNCHANGED <<Ids, dispatches, Told>> /\ IdsBounded'
    BY <1>3, <2>1 DEF Told
  <2>3. AttemptFails(t)
    BY <1>10 DEF RaiseError, LateFree
  <2> QED
    BY <1>1, <2>2, <2>3, FailsView
<1> QED
  BY <1>4, <1>5, <1>6, <1>7, <1>8, <1>9, <1>10 DEF Body

LEMMA NextView ==
    ASSUME TypeInv, LateFree, IdsBounded, [Next]_vars, MaxClock <= Window
    PROVE  Step /\ IdsBounded'
<1>1. CASE UNCHANGED <<step, charges, lastId, dispatches, row>>
  BY <1>1 DEF Step, SameView, Stages, Ids, IdsOf, IdsBounded, Told
<1>2. ASSUME NEW b \in bodies, Body(b) PROVE Step /\ IdsBounded'
  BY <1>2, BodyView
<1>3. ASSUME NEW t \in Tasks, StartToCloseTimeout(t) \/ ScheduleToStartTimeout(t)
      PROVE  Step /\ IdsBounded'
  <2>1. UNCHANGED <<charges, lastId, dispatches, row>>
    BY <1>3 DEF StartToCloseTimeout, ScheduleToStartTimeout, storeVars
  <2>2. UNCHANGED <<Ids, dispatches, Told>> /\ IdsBounded'
    BY <2>1 DEF Ids, IdsOf, IdsBounded, Told
  <2> QED
    BY <1>3, <2>2, FailsView DEF StartToCloseTimeout, ScheduleToStartTimeout
<1> QED
  BY <1>1, <1>2, <1>3
     DEF Next, PickUp, EnterBody, WorkerCrash, ResetBreaker, Tick, Quiesced, vars,
         workflowVars, storeVars

(* Whatever raises, crashes, is lost or not picked up, a task is only seen *)
(* to go through its stages in order, each with its effect, and nothing    *)
(* happens to it out of its stage: TaskWorkflow implements TaskLifecycle,  *)
(* as long as no body outlives its timeout and no charge expires.          *)
THEOREM TaskLifecycleImplemented ==
    ASSUME MaxLate = 0, MaxClock <= Window PROVE Spec => ImplementsLifecycle
<1>1. Init => Lifecycle!Init /\ LateFree /\ IdsBounded
  <2> SUFFICES ASSUME Init PROVE Lifecycle!Init /\ LateFree /\ IdsBounded
    OBVIOUS
  <2>1. LateFree /\ IdsBounded
    BY FS_EmptySet DEF Init, LateFree, IdsBounded
  <2>2. \A t \in Tasks : StageOf(step[t]) = "accepted" /\ row[t].status = "ACCEPTED"
    BY DEF Init, StageOf
  <2>3. \A t \in Tasks : {c.id : c \in {d \in charges : d.by = t}} = {}
    BY DEF Init
  <2> QED
    BY <2>1, <2>2, <2>3 DEF Init, Lifecycle!Init
<1>2. TypeInv /\ LateFree /\ [Next]_vars => LateFree'
  BY LateFreeNext
<1>3. TypeInv /\ LateFree /\ IdsBounded /\ [Next]_vars
        => IdsBounded' /\ [Lifecycle!Next]_(Lifecycle!vars)
  BY NextView DEF Step, SameView, Lifecycle!vars, Stages, Ids, IdsOf, Told
<1> QED
  BY <1>1, <1>2, <1>3, TypeInvInit, TypeInvNext, PTL
     DEF Spec, ImplementsLifecycle, Lifecycle!Spec
-----------------------------------------------------------------------------
(* What a poller sees: the step of a task bounds its status.               *)
Underway == {"check_rate_limit", "reserve_usage", "circuit_breaker_effective", "route_task",
             "settle_usage", "circuit_breaker_record", "dispatch_task"}

StatusBound(t) ==
    /\ step[t] = "mark_running" => row[t].status \in {"ACCEPTED", "RUNNING"}
    /\ step[t] \in Underway => row[t].status = "RUNNING"
    /\ step[t] = "mark_completed" => row[t].status \in {"RUNNING", "COMPLETED"}
    /\ step[t] = "completed" => row[t].status = "COMPLETED"

StatusInv == \A t \in Tasks : StatusBound(t)

(* A step writes the row of a task with the status of the task's step, or  *)
(* leaves it alone and does not leave a step that writes, but by failing.  *)
Wrote(t, s, from, to) ==
    /\ step[t] = from /\ step'[t] \in {from, to}
    /\ row'[t].status = s

LeavesRow(t) ==
    /\ row'[t] = row[t]
    /\ \/ step'[t] \in {step[t], "mark_failed", "failed"}
       \/ step[t] \in Underway /\ step'[t] \in Underway \union {"mark_completed"}

WritesRow(t) ==
    \/ Wrote(t, "RUNNING", "mark_running", "check_rate_limit")
    \/ Wrote(t, "COMPLETED", "mark_completed", "completed")
    \/ Wrote(t, "FAILED", "mark_failed", "failed") /\ local'[t] = local[t]
         /\ row'[t] = [status |-> "FAILED", error |-> local[t].reason, tier |-> Null,
                       cost |-> row[t].cost]

LEMMA BodyWrites ==
    ASSUME TypeInv, LateFree, NEW b \in bodies, Body(b), NEW t \in Tasks
    PROVE  LeavesRow(t) \/ WritesRow(t)
<1>1. b.task \in Tasks /\ step[b.task] = b.step
  BY DEF TypeInv, TypeOK, Bodies, LateFree, Current
<1>2. CASE b.task # t
  <2>1. row'[t] = row[t]
    BY <1>1, <1>2 DEF Body, MarkRunning, MarkCompleted, MarkFailed, MarkStatus,
       CheckRateLimit, ReserveUsage, CircuitBreakerEffective, RouteTask, SettleUsage,
       CircuitBreakerRecord, DispatchTask, RaiseError, storeVars, TypeInv, TypeOK
  <2>2. step'[t] = step[t]
    BY <1>2, BodyOnly DEF Only
  <2> QED
    BY <2>1, <2>2 DEF LeavesRow
<1>3. ASSUME b.task = t, NEW next, NEW s, NEW error, NEW tier, NEW cost,
             MarkStatus(b, next, s, error, tier, cost)
      PROVE  /\ row'[t] = [status |-> s, error |-> error, tier |-> tier,
                           cost |-> IF cost = 0 THEN row[t].cost ELSE cost]
             /\ step'[t] \in {b.step, next} /\ local'[t] = local[t]
  <2>1. row' = [row EXCEPT ![t] = UpdatedRow(@, s, error, tier, cost)]
    BY <1>3 DEF MarkStatus
  <2>2. row'[t] = UpdatedRow(row[t], s, error, tier, cost)
    BY <2>1 DEF TypeInv, TypeOK
  <2>3. Return(b, next, local[t])
    BY <1>3 DEF MarkStatus
  <2> QED
    BY <1>1, <1>3, <2>2, <2>3, ReturnMoves DEF UpdatedRow
<1>4. CASE b.task = t /\ MarkRunning(b)
  <2>1. MarkStatus(b, "check_rate_limit", "RUNNING", Null, Null, 0)
    BY <1>4 DEF MarkRunning
  <2>2. /\ row'[t] = [status |-> "RUNNING", error |-> Null, tier |-> Null,
                      cost |-> IF 0 = 0 THEN row[t].cost ELSE 0]
        /\ step'[t] \in {b.step, "check_rate_limit"}
    BY <1>3, <1>4, <2>1
  <2> QED
    BY <1>1, <1>4, <2>2 DEF MarkRunning, Runs, WritesRow, Wrote
<1>5. CASE b.task = t /\ MarkCompleted(b)
  <2>1. MarkStatus(b, "completed", "COMPLETED", Null, local[t].tier, Actual(t))
    BY <1>5 DEF MarkCompleted
  <2>2. /\ row'[t] = [status |-> "COMPLETED", error |-> Null, tier |-> local[t].tier,
                      cost |-> IF Actual(t) = 0 THEN row[t].cost ELSE Actual(t)]
        /\ step'[t] \in {b.step, "completed"}
    BY <1>3, <1>5, <2>1
  <2> QED
    BY <1>1, <1>5, <2>2 DEF MarkCompleted, Runs, WritesRow, Wrote
<1>6. CASE b.task = t /\ MarkFailed(b)
  <2>1. MarkStatus(b, "failed", "FAILED", local[t].reason, Null, 0)
    BY <1>6 DEF MarkFailed
  <2>2. /\ row'[t] = [status |-> "FAILED", error |-> local[t].reason, tier |-> Null,
                      cost |-> IF 0 = 0 THEN row[t].cost ELSE 0]
        /\ step'[t] \in {b.step, "failed"} /\ local'[t] = local[t]
    BY <1>3, <1>6, <2>1
  <2> QED
    BY <1>1, <1>6, <2>2 DEF MarkFailed, Runs, WritesRow, Wrote
<1>7. CASE b.task = t /\ ~MarkRunning(b) /\ ~MarkCompleted(b) /\ ~MarkFailed(b)
           /\ ~RaiseError(b)
  <2>1. \E next, locals : /\ Return(b, next, locals) /\ b.step \in Underway
                          /\ next \in Underway \union {"mark_completed"}
    BY <1>7 DEF Body, CheckRateLimit, ReserveUsage, CircuitBreakerEffective, RouteTask,
       SettleUsage, CircuitBreakerRecord, DispatchTask, Runs, Underway
  <2>2. row' = row
    BY <1>7 DEF Body, CheckRateLimit, ReserveUsage, CircuitBreakerEffective, RouteTask,
       SettleUsage, CircuitBreakerRecord, DispatchTask, storeVars
  <2> QED
    BY <1>1, <1>7, <2>1, <2>2, ReturnMoves DEF LeavesRow
<1>8. CASE b.task = t /\ RaiseError(b)
  BY <1>1, <1>8, AttemptFailsMoves
     DEF RaiseError, storeVars, workflowVars, LeavesRow, StaysOrFails
<1> QED
  BY <1>2, <1>4, <1>5, <1>6, <1>7, <1>8

LEMMA NextWrites ==
    ASSUME TypeInv, LateFree, [Next]_vars, NEW t \in Tasks
    PROVE  LeavesRow(t) \/ WritesRow(t)
<1>1. CASE UNCHANGED <<step, row>>
  BY <1>1 DEF LeavesRow
<1>2. ASSUME NEW b \in bodies, Body(b) PROVE LeavesRow(t) \/ WritesRow(t)
  BY <1>2, BodyWrites
<1>3. ASSUME NEW u \in Tasks, StartToCloseTimeout(u) \/ ScheduleToStartTimeout(u)
      PROVE  LeavesRow(t)
  BY <1>3, AttemptFailsMoves, ActivityFailsMoves
     DEF StartToCloseTimeout, ScheduleToStartTimeout, storeVars, LeavesRow, StaysOrFails
<1> QED
  BY <1>1, <1>2, <1>3
     DEF Next, PickUp, EnterBody, WorkerCrash, ResetBreaker, Tick, Quiesced, vars,
         workflowVars, storeVars

LEMMA StatusBoundNext ==
    ASSUME TypeInv, LateFree, [Next]_vars, NEW t \in Tasks, StatusBound(t)
    PROVE  StatusBound(t)' /\ Rank[row[t].status] <= Rank[row'[t].status]
<1>1. row[t].status \in Statuses
  BY DEF TypeInv, TypeOK, Rows
<1>2. CASE LeavesRow(t)
  BY <1>1, <1>2 DEF LeavesRow, StatusBound, Underway, Rank, Statuses
<1>3. CASE WritesRow(t)
  BY <1>1, <1>3 DEF WritesRow, Wrote, StatusBound, Underway, Rank, Statuses
<1> QED
  BY <1>2, <1>3, NextWrites

(* A poller never sees the status of a task go back, as long as no body    *)
(* outlives its timeout, whatever raises, crashes, or is lost.             *)
THEOREM StatusNeverGoesBack == ASSUME MaxLate = 0 PROVE Spec => StatusMonotone
<1>1. Init => LateFree /\ StatusInv
  BY FS_EmptySet DEF Init, LateFree, StatusInv, StatusBound, Underway
<1>2. TypeInv /\ LateFree /\ [Next]_vars => LateFree'
  BY LateFreeNext
<1>3. TypeInv /\ LateFree /\ StatusInv /\ [Next]_vars
        => StatusInv' /\ \A t \in Tasks : Rank[row[t].status] <= Rank[row'[t].status]
  BY StatusBoundNext DEF StatusInv
<1> QED
  BY <1>1, <1>2, <1>3, TypeInvInit, TypeInvNext, PTL DEF Spec, StatusMonotone

-----------------------------------------------------------------------------
(* A row that says FAILED was written by the except block, which writes    *)
(* the same again when its report was lost.                                *)
DeadLetterInv ==
    \A t \in Tasks : row[t].status = "FAILED" =>
        row[t].tier = Null /\ row[t].error = local[t].reason /\ step[t] \in FailedSteps

(* Who has failed has no body that reserves or dispatches.                 *)
LEMMA IdsFrom ==
    ASSUME TypeInv, LateFree, [Next]_vars, NEW c \in charges'
    PROVE  \/ \E d \in charges : d.id = c.id
           \/ c.by \in Tasks /\ step[c.by] = "reserve_usage"
<1>1. CASE UNCHANGED charges
  BY <1>1
<1>2. ASSUME NEW b \in bodies, ReserveUsage(b)
      PROVE  c \in charges \/ (c.by \in Tasks /\ step[c.by] = "reserve_usage")
  BY <1>2 DEF ReserveUsage, Runs, Prune, LateFree, Current, TypeInv, TypeOK, Bodies
<1>3. ASSUME NEW b \in bodies, SettleUsage(b) PROVE \E d \in charges : d.id = c.id
  <2> DEFINE pruned == Prune(charges, Owner[b.task], b.at)
             target == SettleTarget(pruned, Owner[b.task], Projected(b.task))
             new(d) == IF d \in target THEN [d EXCEPT !.amount = Actual(b.task)] ELSE d
  <2>1. charges' = {new(d) : d \in pruned} /\ pruned \subseteq charges
    BY <1>3 DEF SettleUsage, Revalue, Prune
  <2>2. \A d \in charges : new(d).id = d.id
    BY DEF TypeInv, TypeOK, Charges
  <2> HIDE DEF new, pruned
  <2> QED
    BY <2>1, <2>2
<1>4. ASSUME NEW b \in bodies, Body(b)
      PROVE  UNCHANGED charges \/ ReserveUsage(b) \/ SettleUsage(b)
  BY <1>4 DEF Body, MarkRunning, MarkCompleted, MarkFailed, MarkStatus, CheckRateLimit,
     CircuitBreakerEffective, RouteTask, CircuitBreakerRecord, DispatchTask, RaiseError,
     storeVars
<1> QED
  BY <1>1, <1>2, <1>3, <1>4 DEF Next, PickUp, EnterBody, StartToCloseTimeout,
     ScheduleToStartTimeout, WorkerCrash, ResetBreaker, Tick, Quiesced, vars, storeVars

LEMMA DeadLetterNext ==
    ASSUME TypeInv, LateFree, ReasonInv, DeadLetterInv, [Next]_vars, NEW t \in Tasks
    PROVE  /\ row'[t].status = "FAILED" =>
                /\ row'[t].tier = Null /\ row'[t].error = local'[t].reason
                /\ step'[t] \in FailedSteps
           /\ row[t].status = "FAILED" => row'[t] = row[t]
<1>1. row[t] \in Rows /\ (KeepsReason(t) \/ GetsReason(t))
  BY NextReason DEF TypeInv, TypeOK
<1>2. row[t].status = "FAILED" =>
        /\ row[t].tier = Null /\ row[t].error = local[t].reason /\ step[t] \in FailedSteps
  BY DEF DeadLetterInv
<1>3. CASE LeavesRow(t)
  BY <1>1, <1>2, <1>3 DEF LeavesRow, KeepsReason, GetsReason
<1>4. CASE \/ Wrote(t, "RUNNING", "mark_running", "check_rate_limit")
           \/ Wrote(t, "COMPLETED", "mark_completed", "completed")
  BY <1>2, <1>4 DEF Wrote, FailedSteps
<1>5. CASE /\ Wrote(t, "FAILED", "mark_failed", "failed") /\ local'[t] = local[t]
           /\ row'[t] = [status |-> "FAILED", error |-> local[t].reason, tier |-> Null,
                         cost |-> row[t].cost]
  <2>1. row'[t].tier = Null /\ row'[t].error = local'[t].reason /\ step'[t] \in FailedSteps
    BY <1>5 DEF Wrote, FailedSteps
  <2>2. row[t].status = "FAILED" => row'[t] = row[t]
    BY <1>1, <1>2, <1>5 DEF Rows
  <2> QED
    BY <2>1, <2>2
<1> QED
  BY <1>3, <1>4, <1>5, NextWrites DEF WritesRow

(* Once a task is recorded FAILED its row is never written again, and it   *)
(* is neither dispatched nor charged any more, as long as no body outlives *)
(* its timeout.                                                            *)
THEOREM FailureIsFinal == ASSUME MaxLate = 0 PROVE Spec => FailedIsFinal
<1>1. Init => LateFree /\ ReasonInv /\ DeadLetterInv
  BY FS_EmptySet DEF Init, LateFree, ReasonInv, DeadLetterInv, FailedSteps, Null
<1>2. TypeInv /\ LateFree /\ [Next]_vars => LateFree'
  BY LateFreeNext
<1>3. TypeInv /\ ReasonInv /\ [Next]_vars => ReasonInv'
  BY NextReason DEF ReasonInv, KeepsReason, GetsReason, FailedSteps
<1>4. TypeInv /\ LateFree /\ ReasonInv /\ DeadLetterInv /\ [Next]_vars => DeadLetterInv'
  BY DeadLetterNext DEF DeadLetterInv
<1>5. TypeInv /\ LateFree /\ ReasonInv /\ DeadLetterInv /\ [Next]_vars =>
        \A t \in Tasks : row[t].status = "FAILED" =>
          /\ row'[t] = row[t]
          /\ dispatches'[t] = dispatches[t]
          /\ \A c \in charges' : c.by = t => \E d \in charges : d.id = c.id
  <2> SUFFICES ASSUME TypeInv, LateFree, ReasonInv, DeadLetterInv, [Next]_vars,
                      NEW t \in Tasks, row[t].status = "FAILED"
               PROVE  /\ row'[t] = row[t] /\ dispatches'[t] = dispatches[t]
                      /\ \A c \in charges' : c.by = t => \E d \in charges : d.id = c.id
    OBVIOUS
  <2>1. step[t] \in FailedSteps
    BY DEF DeadLetterInv
  <2>2. dispatches'[t] = dispatches[t]
    BY <2>1, DispatchesFrom DEF FailedSteps, LateFree, Current
  <2>3. \A c \in charges' : c.by = t => \E d \in charges : d.id = c.id
    BY <2>1, IdsFrom DEF FailedSteps
  <2> QED
    BY <2>2, <2>3, DeadLetterNext
<1> QED
  BY <1>1, <1>2, <1>3, <1>4, <1>5, TypeInvInit, TypeInvNext, PTL DEF Spec, FailedIsFinal

=============================================================================
