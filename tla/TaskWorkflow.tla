---------------------------- MODULE TaskWorkflow ----------------------------
(***************************************************************************)
(* The durable task workflow of orchestrator/workflow.py: every task is a  *)
(* Temporal workflow that runs eight activities in order, each of them at  *)
(* least once, against a SqliteAtomicStore and against the circuit breaker *)
(* of whichever worker process the activity lands on.                      *)
(*                                                                         *)
(* A workflow (step, phase, attempt, local) lives on the Temporal server   *)
(* and never fails by itself.  An activity body is a function running in a *)
(* worker: the server hands out an attempt (PickUp), the body is entered   *)
(* by the worker's event loop and reads the clock (EnterBody), takes       *)
(* effect in one transaction, and its result is reported to the server.    *)
(* The server gives up on an attempt after the start-to-close timeout and  *)
(* does not learn whether the body took effect.                            *)
(***************************************************************************)
EXTENDS Routing, FiniteSets, FiniteSetsExt

CONSTANTS
    Tasks,            \* workflow ids, all started by the API already
    Accounts,
    Owner,            \* task -> the account it is charged to
    Escalate,         \* the tasks whose caller set escalate=True
    Classified,       \* task -> the tier of the heuristic classifier
    Threshold,        \* degraded_threshold of the store
    Window,           \* usage_window_seconds of the store
    BreakerLimit,     \* rate_threshold of the circuit breaker
    LimiterAnswers,   \* what limiter.allow() may answer
    MaxAttempts,      \* maximum_attempts of RETRY_POLICY
    Workers,          \* worker processes, one event loop each
    Failing,          \* the steps whose body may raise
    Unacked,          \* the steps whose report to the server may get lost
    Adversity,        \* which of Adversities the environment does
    MaxLate,          \* bound on the bodies that outlive their timeout
    MaxClock          \* bound on the clock, for TLC

(* What the environment may do, each enabled by name:                      *)
(*   "unpolled"  no worker picks a task up within schedule-to-start        *)
(*   "crash"     a worker process dies and is started again                *)
(*   "reset"     an administrator resets the breaker of a worker           *)
Adversities == {"unpolled", "crash", "reset"}

Activities == {"mark_running", "check_rate_limit", "reserve_usage",
               "circuit_breaker_effective", "route_task", "settle_usage",
               "circuit_breaker_record", "dispatch_task", "mark_completed",
               "mark_failed"}

(* check_rate_limit and the two breaker activities only touch memory.      *)
Fallible == Activities \ {"check_rate_limit", "circuit_breaker_effective",
                          "circuit_breaker_record"}

ASSUME TaskWorkflowAssumption ==
    /\ Owner \in [Tasks -> Accounts]
    /\ Escalate \subseteq Tasks
    /\ Classified \in [Tasks -> ClassifierTiers]
    /\ Threshold \in Nat /\ Window \in Nat /\ BreakerLimit \in Nat
    /\ LimiterAnswers \subseteq BOOLEAN
    /\ MaxAttempts \in Nat \ {0}
    /\ Failing \subseteq Fallible
    /\ Unacked \subseteq Activities
    /\ Adversity \subseteq Adversities
    /\ MaxLate \in Nat /\ MaxClock \in Nat

VARIABLES
    step,         \* task -> the activity run() is awaiting, or how it ended
    phase,        \* task -> scheduled, running (some worker has it), closed
    attempt,      \* task -> number of the current attempt of that activity
    local,        \* task -> the local variables of run()
    bodies,       \* activity bodies accepted by a worker and not yet over
    charges,      \* the usage_charges table
    lastId,       \* its AUTOINCREMENT counter
    row,          \* task -> its row of the tasks table
    spend,        \* worker -> _aggregate_cost of its breaker
    tripped,      \* worker -> _tripped of its breaker
    dispatches,   \* task -> how often it was handed to the provider
    clock         \* time.time(), coarse

workflowVars == <<step, phase, attempt, local>>
storeVars    == <<charges, lastId, row>>
breakerVars  == <<spend, tripped>>
vars == <<workflowVars, bodies, storeVars, breakerVars, dispatches, clock>>

Ends == {"completed", "failed"}
Statuses == {"ACCEPTED", "RUNNING", "COMPLETED", "FAILED"}
Unread == -1                 \* the clock of a body that was not entered yet
Null == "null"

Locals == [allowed : BOOLEAN, degraded : BOOLEAN, effective : BOOLEAN,
           tier : Tiers \union {Null}, reason : Activities \union {Null}]
Bodies == [task : Tasks, step : Activities, attempt : 1..MaxAttempts,
           worker : Workers, at : 0..MaxClock \union {Unread}]
(* The table has no columns for the task that made the charge and for the  *)
(* answer its reservation got: they are here for the properties only.      *)
Charges == [id : Nat, account : Accounts, amount : Nat, ts : 0..MaxClock,
            by : Tasks, degraded : BOOLEAN]
Rows == [status : Statuses, error : Activities \union {Null},
         tier : Tiers \union {Null}, cost : Nat]

TypeOK ==
    /\ step \in [Tasks -> Activities \union Ends]
    /\ phase \in [Tasks -> {"scheduled", "running", "closed"}]
    /\ attempt \in [Tasks -> 1..MaxAttempts]
    /\ local \in [Tasks -> Locals]
    /\ bodies \subseteq Bodies
    /\ charges \subseteq Charges
    /\ lastId \in Nat
    /\ row \in [Tasks -> Rows]
    /\ spend \in [Workers -> Nat]
    /\ tripped \in [Workers -> BOOLEAN]
    /\ dispatches \in [Tasks -> Nat]
    /\ clock \in 0..MaxClock

Projected(t) == ProjectedCost(t \in Escalate, Classified[t])
Actual(t) == CostModel[local[t].tier]

-----------------------------------------------------------------------------
(* The store: each operator is what one transaction computes.              *)

(* Charges exactly one window old are dropped too.                         *)
PruneInclusive(cs, account, at) ==
    {c \in cs : ~(c.account = account /\ c.ts <= at - Window)}

Prune(cs, account, at) ==
    {c \in cs : ~(c.account = account /\ c.ts < at - Window)}

Balance(cs, account) ==
    MapThenSumSet(LAMBDA c : c.amount, {c \in cs : c.account = account})

(* The balance is tested before the charge is added.                       *)
OverThresholdBefore(cs, account, cost) == Balance(cs, account) >= Threshold

OverThreshold(cs, account, cost) == Balance(cs, account) + cost >= Threshold

(* LIMIT 1 is dropped: every charge of that amount is settled.             *)
SettleTargetAll(cs, account, reserved) ==
    {c \in cs : c.account = account /\ c.amount = reserved}

(* ORDER BY id DESC LIMIT 1: at most one charge, found by its amount.      *)
SettleTarget(cs, account, reserved) ==
    LET same == {c \in cs : c.account = account /\ c.amount = reserved}
    IN {c \in same : \A d \in same : d.id <= c.id}

Revalue(cs, targets, actual) ==
    {IF c \in targets THEN [c EXCEPT !.amount = actual] ELSE c : c \in cs}

(* error and tier are overwritten, NULL included; the cost is COALESCEd.   *)
UpdatedRow(r, status, error, tier, cost) ==
    [status |-> status, error |-> error, tier |-> tier,
     cost |-> IF cost = 0 THEN r.cost ELSE cost]

-----------------------------------------------------------------------------
(* The Temporal server.                                                    *)

(* run() does without one of its steps.                                    *)
GotoWithout(t, s, skipped, instead) ==
    LET n == IF s = skipped THEN instead ELSE s
    IN /\ step' = [step EXCEPT ![t] = n]
       /\ phase' = [phase EXCEPT ![t] = IF n \in Ends THEN "closed" ELSE "scheduled"]
       /\ attempt' = [attempt EXCEPT ![t] = 1]
GotoNoReserve(t, s) == GotoWithout(t, s, "reserve_usage", "circuit_breaker_effective")
GotoNoRecord(t, s) == GotoWithout(t, s, "circuit_breaker_record", "dispatch_task")
GotoNoDispatch(t, s) == GotoWithout(t, s, "dispatch_task", "mark_completed")

(* run() schedules the activity s, or it returns.                          *)
Goto(t, s) ==
    /\ step' = [step EXCEPT ![t] = s]
    /\ phase' = [phase EXCEPT ![t] = IF s \in Ends THEN "closed" ELSE "scheduled"]
    /\ attempt' = [attempt EXCEPT ![t] = 1]

(* run() starts over when the write of its except block fails for good.    *)
ActivityFailsRestart(t) ==
    /\ Goto(t, IF step[t] = "mark_failed" THEN "mark_running" ELSE "mark_failed")
    /\ local' = [local EXCEPT ![t].reason = step[t]]

(* The awaited activity fails for good: run() jumps to its except block,   *)
(* or, from there, the workflow itself fails.                              *)
ActivityFails(t) ==
    \/ /\ step[t] = "mark_failed"
       /\ Goto(t, "failed")
       /\ UNCHANGED local
    \/ /\ step[t] # "mark_failed"
       /\ Goto(t, "mark_failed")
       /\ local' = [local EXCEPT ![t].reason = step[t]]

(* The attempt counter is compared too late by one.                        *)
AttemptFailsOnceMore(t) ==
    IF attempt[t] <= MaxAttempts
    THEN /\ attempt' = [attempt EXCEPT ![t] = @ + 1]
         /\ phase' = [phase EXCEPT ![t] = "scheduled"]
         /\ UNCHANGED <<step, local>>
    ELSE ActivityFails(t)

(* The number of attempts is not bounded.                                  *)
AttemptFailsForever(t) ==
    /\ attempt' = [attempt EXCEPT ![t] = IF @ < MaxAttempts THEN @ + 1 ELSE @]
    /\ phase' = [phase EXCEPT ![t] = "scheduled"]
    /\ UNCHANGED <<step, local>>

(* A failed attempt is retried until the attempts are used up.             *)
AttemptFails(t) ==
    IF attempt[t] < MaxAttempts
    THEN /\ attempt' = [attempt EXCEPT ![t] = @ + 1]
         /\ phase' = [phase EXCEPT ![t] = "scheduled"]
         /\ UNCHANGED <<step, local>>
    ELSE ActivityFails(t)

(* The server accepts the report of the current attempt only.              *)
Current(b) ==
    /\ phase[b.task] = "running"
    /\ step[b.task] = b.step
    /\ attempt[b.task] = b.attempt

-----------------------------------------------------------------------------
Init ==
    /\ step = [t \in Tasks |-> "mark_running"]
    /\ phase = [t \in Tasks |-> "scheduled"]
    /\ attempt = [t \in Tasks |-> 1]
    /\ local = [t \in Tasks |-> [allowed |-> FALSE, degraded |-> FALSE,
                   effective |-> FALSE, tier |-> Null, reason |-> Null]]
    /\ bodies = {}
    /\ charges = {} /\ lastId = 0
    /\ row = [t \in Tasks |-> [status |-> "ACCEPTED", error |-> Null,
                               tier |-> Null, cost |-> 0]]
    /\ spend = [w \in Workers |-> 0]
    /\ tripped = [w \in Workers |-> FALSE]
    /\ dispatches = [t \in Tasks |-> 0]
    /\ clock = 0

PickUp(t, w) ==
    /\ phase[t] = "scheduled"
    /\ phase' = [phase EXCEPT ![t] = "running"]
    /\ bodies' = bodies \union {[task |-> t, step |-> step[t],
                     attempt |-> attempt[t], worker |-> w, at |-> Unread]}
    /\ UNCHANGED <<step, attempt, local, storeVars, breakerVars, dispatches, clock>>

(* Activity bodies never await, so a worker's event loop runs one of them  *)
(* to its end before it enters another.                                    *)
EnterBody(b) ==
    /\ b.at = Unread
    /\ \A o \in bodies : o.worker = b.worker => o.at = Unread
    /\ bodies' = (bodies \ {b}) \union {[b EXCEPT !.at = clock]}
    /\ UNCHANGED <<workflowVars, storeVars, breakerVars, dispatches, clock>>

Runs(b, s) == b.step = s /\ b.at # Unread

(* The body is over.  Its result advances run() to the next step, unless   *)
(* the report is lost or the server has given up on this attempt already.  *)
Return(b, next, locals) ==
    /\ bodies' = bodies \ {b}
    /\ \/ /\ Current(b)
          /\ Goto(b.task, next)
          /\ local' = [local EXCEPT ![b.task] = locals]
       \/ /\ b.step \in Unacked \/ ~Current(b)
          /\ UNCHANGED workflowVars

(* The arguments of an activity were fixed when run() scheduled it.  They  *)
(* are locals of run() that no later step assigns, so a late body may read *)
(* them here.                                                              *)
MarkStatus(b, next, status, error, tier, cost) ==
    /\ row' = [row EXCEPT ![b.task] = UpdatedRow(@, status, error, tier, cost)]
    /\ Return(b, next, local[b.task])
    /\ UNCHANGED <<charges, lastId, breakerVars, dispatches, clock>>

MarkRunning(b) ==
    /\ Runs(b, "mark_running")
    /\ MarkStatus(b, "check_rate_limit", "RUNNING", Null, Null, 0)

MarkCompleted(b) ==
    /\ Runs(b, "mark_completed")
    /\ MarkStatus(b, "completed", "COMPLETED", Null, local[b.task].tier, Actual(b.task))

MarkFailed(b) ==
    /\ Runs(b, "mark_failed")
    /\ MarkStatus(b, "failed", "FAILED", local[b.task].reason, Null, 0)

(* run() awaits the answer and never looks at it.                          *)
CheckRateLimit(b) ==
    /\ Runs(b, "check_rate_limit")
    /\ \E ok \in LimiterAnswers :
         Return(b, "reserve_usage", [local[b.task] EXCEPT !.allowed = ok])
    /\ UNCHANGED <<storeVars, breakerVars, dispatches, clock>>

ReserveUsage(b) ==
    LET t == b.task
        account == Owner[t]
        pruned == Prune(charges, account, b.at)
        over == OverThreshold(pruned, account, Projected(t))
        charge == [id |-> lastId + 1, account |-> account, ts |-> b.at,
                   amount |-> Projected(t), by |-> t, degraded |-> over]
    IN /\ Runs(b, "reserve_usage")
       /\ charges' = pruned \union {charge}
       /\ lastId' = lastId + 1
       /\ Return(b, "circuit_breaker_effective", [local[t] EXCEPT !.degraded = over])
       /\ UNCHANGED <<row, breakerVars, dispatches, clock>>

CircuitBreakerEffective(b) ==
    LET t == b.task
    IN /\ Runs(b, "circuit_breaker_effective")
       /\ Return(b, "route_task", [local[t] EXCEPT
                       !.effective = local[t].degraded \/ tripped[b.worker]])
       /\ UNCHANGED <<storeVars, breakerVars, dispatches, clock>>

RouteTask(b) ==
    LET t == b.task
    IN /\ Runs(b, "route_task")
       /\ Return(b, "settle_usage", [local[t] EXCEPT
             !.tier = RouteTier(t \in Escalate, Classified[t], local[t].effective)])
       /\ UNCHANGED <<storeVars, breakerVars, dispatches, clock>>

SettleUsage(b) ==
    LET t == b.task
        pruned == Prune(charges, Owner[t], b.at)
        target == SettleTarget(pruned, Owner[t], Projected(t))
    IN /\ Runs(b, "settle_usage")
       /\ charges' = Revalue(pruned, target, Actual(t))
       /\ Return(b, "circuit_breaker_record", local[t])
       /\ UNCHANGED <<lastId, row, breakerVars, dispatches, clock>>

CircuitBreakerRecord(b) ==
    LET total == spend[b.worker] + Actual(b.task)
    IN /\ Runs(b, "circuit_breaker_record")
       /\ spend' = [spend EXCEPT ![b.worker] = total]
       /\ tripped' = [tripped EXCEPT ![b.worker] = @ \/ total >= BreakerLimit]
       /\ Return(b, "dispatch_task", local[b.task])
       /\ UNCHANGED <<storeVars, dispatches, clock>>

DispatchTask(b) ==
    /\ Runs(b, "dispatch_task")
    /\ dispatches' = [dispatches EXCEPT ![b.task] = @ + 1]
    /\ Return(b, "mark_completed", local[b.task])
    /\ UNCHANGED <<storeVars, breakerVars, clock>>

(* An exception: the transaction is rolled back or was never begun.        *)
RaiseError(b) ==
    /\ b.step \in Failing /\ b.at # Unread
    /\ bodies' = bodies \ {b}
    /\ IF Current(b) THEN AttemptFails(b.task) ELSE UNCHANGED workflowVars
    /\ UNCHANGED <<storeVars, breakerVars, dispatches, clock>>

Body(b) ==
    \/ MarkRunning(b) \/ CheckRateLimit(b) \/ ReserveUsage(b)
    \/ CircuitBreakerEffective(b) \/ RouteTask(b) \/ SettleUsage(b)
    \/ CircuitBreakerRecord(b) \/ DispatchTask(b) \/ MarkCompleted(b)
    \/ MarkFailed(b) \/ RaiseError(b)

(* The server has not heard of the attempt in time.  Its body is gone, or  *)
(* it goes on and nobody will listen to it.                                *)
StartToCloseTimeout(t) ==
    /\ phase[t] = "running"
    /\ (\E b \in bodies : b.task = t /\ Current(b)) =>
         Cardinality({b \in bodies : ~Current(b)}) < MaxLate
    /\ AttemptFails(t)
    /\ UNCHANGED <<bodies, storeVars, breakerVars, dispatches, clock>>

(* The one timeout that the server never retries.                          *)
ScheduleToStartTimeout(t) ==
    /\ "unpolled" \in Adversity
    /\ phase[t] = "scheduled"
    /\ ActivityFails(t)
    /\ UNCHANGED <<bodies, storeVars, breakerVars, dispatches, clock>>

(* A worker process dies, with its bodies and its breaker, and comes back. *)
WorkerCrash(w) ==
    /\ "crash" \in Adversity
    /\ spend[w] > 0 \/ \E b \in bodies : b.worker = w
    /\ bodies' = {b \in bodies : b.worker # w}
    /\ spend' = [spend EXCEPT ![w] = 0]
    /\ tripped' = [tripped EXCEPT ![w] = FALSE]
    /\ UNCHANGED <<workflowVars, storeVars, dispatches, clock>>

(* reset(): the breaker forgets what it counted, whatever is under way.    *)
ResetBreaker(w) ==
    /\ "reset" \in Adversity
    /\ spend[w] > 0
    /\ spend' = [spend EXCEPT ![w] = 0]
    /\ tripped' = [tripped EXCEPT ![w] = FALSE]
    /\ UNCHANGED <<workflowVars, bodies, storeVars, dispatches, clock>>

AllClosed == \A t \in Tasks : phase[t] = "closed"

Tick ==
    /\ ~AllClosed
    /\ clock < MaxClock
    /\ clock' = clock + 1
    /\ UNCHANGED <<workflowVars, bodies, storeVars, breakerVars, dispatches>>

(* Nothing is left to do: the system idles.                                *)
Quiesced ==
    /\ AllClosed
    /\ bodies = {}
    /\ UNCHANGED vars

Next ==
    \/ \E t \in Tasks, w \in Workers : PickUp(t, w)
    \/ \E b \in bodies : EnterBody(b) \/ Body(b)
    \/ \E t \in Tasks : StartToCloseTimeout(t) \/ ScheduleToStartTimeout(t)
    \/ \E w \in Workers : WorkerCrash(w) \/ ResetBreaker(w)
    \/ Tick
    \/ Quiesced

Spec == Init /\ [][Next]_vars

(* What must happen for one task if anything does: workers poll and run    *)
(* what they accepted, and the timeouts of the server are durable timers.  *)
Engine(t) ==
    \/ \E w \in Workers : PickUp(t, w)
    \/ \E b \in bodies : b.task = t /\ (EnterBody(b) \/ Body(b))
    \/ StartToCloseTimeout(t)
    \/ ScheduleToStartTimeout(t)

FairSpec == Spec /\ \A t \in Tasks : WF_vars(Engine(t))

-----------------------------------------------------------------------------
Program == << "mark_running", "check_rate_limit", "reserve_usage",
              "circuit_breaker_effective", "route_task", "settle_usage",
              "circuit_breaker_record", "dispatch_task", "mark_completed" >>

(* What a workflow has behind it, by its order in run(); for one that has  *)
(* failed, what it had behind it when it failed.                           *)
Position(s) == CHOOSE i \in 0..9 : IF i = 0 THEN s = "completed" ELSE Program[i] = s

Reached(t) == IF local[t].reason # Null THEN local[t].reason ELSE step[t]

Past(t, s) ==
    Reached(t) = "completed" \/ Position(Reached(t)) > Position(s)

(* Every account's balance is the sum of what its tasks owe: nothing       *)
(* before the reservation, the projected cost until the settlement, the    *)
(* cost of the tier they were routed to afterwards.  A task that fails in  *)
(* between goes on owing the projection.  This is about reserve() and      *)
(* settle() finding charges by amount: settling another task's charge must *)
(* not show in the total.  It needs every finished body to be acknowledged *)
(* and no charge to expire.                                                *)
LedgerExact ==
    \A a \in Accounts :
        Balance(charges, a) = MapThenSumSet(
            LAMBDA t : IF Past(t, "settle_usage") THEN Actual(t) ELSE Projected(t),
            {t \in Tasks : Owner[t] = a /\ Past(t, "reserve_usage")})

(* What the table holds of the reservations of an account that were        *)
(* answered "not degraded" and are younger than the window never adds up   *)
(* to the threshold, whatever was lost, repeated or delayed in between:    *)
(* reserve() tests and charges in one transaction, and settle() never      *)
(* raises an amount. It bounds the amounts in the table, not the headroom  *)
(* that was given: a settlement that is repeated, or whose own charge has  *)
(* expired, lowers the charge of another task, and the next reservation is *)
(* tested against less than what was given.                                *)
RollingBudget ==
    \A a \in Accounts :
        LET passed == {c \in charges : /\ c.account = a /\ ~c.degraded
                                       /\ c.ts >= clock - Window}
        IN passed # {} => Balance(passed, a) < Threshold

(* store.py: concurrent tasks on one account "cannot both pass the         *)
(* degradation threshold": what is routed to the frontier tier stays below *)
(* it, in one window. It holds while a settlement cannot lower the charge  *)
(* of another task for good: no settlement is repeated after its report    *)
(* got lost, no body outlives its timeout and no charge expires.           *)
FrontierSpendBelowThreshold ==
    \A a \in Accounts :
        LET frontier == {t \in Tasks : Owner[t] = a /\ local[t].tier = "frontier"}
        IN frontier # {} => MapThenSumSet(Actual, frontier) < Threshold

(* A task is routed to the frontier tier only if its caller escalated it   *)
(* and a reservation of its own was answered "not degraded"; until charges *)
(* expire that reservation is in the store.                                *)
FrontierHasHeadroom ==
    \A t \in Tasks : local[t].tier = "frontier" =>
        /\ t \in Escalate
        /\ \E c \in charges : c.by = t /\ ~c.degraded

(* Nothing reaches the provider for free: as long as no charge expires, a  *)
(* task that was ever dispatched has a charge, whichever attempts were     *)
(* lost, repeated or late.                                                 *)
DispatchedIsCharged ==
    \A t \in Tasks : dispatches[t] > 0 => \E c \in charges : c.by = t

(* Repetition is bounded by the retry policy, per task: reservations and   *)
(* dispatches, those of bodies that outlived their timeout included.       *)
EffectsBounded ==
    \A t \in Tasks :
        /\ Cardinality({c \in charges : c.by = t}) <= MaxAttempts
        /\ dispatches[t] <= MaxAttempts

(* The row agrees with how the workflow ended: a completed one was         *)
(* dispatched, and its row has the tier that was routed and its cost; a    *)
(* row that says FAILED names the reason of a workflow that has failed or  *)
(* is in its except block.  It needs that no body outlives its timeout.    *)
RowAgrees ==
    \A t \in Tasks :
        /\ step[t] = "completed" =>
             /\ dispatches[t] > 0
             /\ row[t] = [status |-> "COMPLETED", error |-> Null,
                          tier |-> local[t].tier, cost |-> Actual(t)]
        /\ row[t].status = "FAILED" =>
             /\ step[t] \in {"mark_failed", "failed"}
             /\ row[t].error = local[t].reason /\ local[t].reason # Null

(* On one worker that never crashes, the breaker has counted every task    *)
(* that was dispatched, and it is tripped as soon as the count reaches its *)
(* limit.                                                                  *)
BreakerCountsDispatched ==
    \A w \in Workers :
        /\ MapThenSumSet(Actual, {t \in Tasks : dispatches[t] > 0}) <= spend[w]
        /\ tripped[w] <=> spend[w] > 0 /\ spend[w] >= BreakerLimit

Rank == [ACCEPTED |-> 1, RUNNING |-> 2, COMPLETED |-> 3, FAILED |-> 4]

(* A poller never sees a task go back: not from COMPLETED to RUNNING, and  *)
(* not away from FAILED.  It needs that no body outlives its timeout.      *)
StatusMonotone ==
    [][\A t \in Tasks : Rank[row[t].status] <= Rank[row'[t].status]]_vars

(* Once a task is recorded FAILED its row is never written again, and the  *)
(* task is neither dispatched nor charged any more.                        *)
FailedIsFinal ==
    [][\A t \in Tasks : row[t].status = "FAILED" =>
         /\ row'[t] = row[t]
         /\ dispatches'[t] = dispatches[t]
         /\ \A c \in charges' : c.by = t => \E d \in charges : d.id = c.id]_vars

(* A charge leaves the table only when it has been in it for longer than   *)
(* the window.                                                             *)
OnlyExpiredPruned ==
    [][\A c \in charges : c.ts >= clock - Window =>
         \E d \in charges' : d.id = c.id]_vars

(* No task hangs: every workflow ends.                                     *)
EveryWorkflowEnds == \A t \in Tasks : <>(phase[t] = "closed")

-----------------------------------------------------------------------------
(* The stage of a task whose run() awaits step s.                          *)
StageOf(s) ==
    CASE s = "mark_running" -> "accepted"
      [] s \in {"check_rate_limit", "reserve_usage"} -> "running"
      [] s \in {"circuit_breaker_effective", "route_task", "settle_usage",
                "circuit_breaker_record", "dispatch_task"} -> "charged"
      [] s = "mark_completed" -> "dispatched"
      [] s = "mark_failed" -> "failing"
      [] OTHER -> s

Lifecycle == INSTANCE TaskLifecycle WITH
    stage <- [t \in Tasks |-> StageOf(step[t])],
    charged <- [t \in Tasks |-> {c.id : c \in {d \in charges : d.by = t}}],
    dispatched <- dispatches,
    status <- [t \in Tasks |-> row[t].status]

(* Attempts, workers, crashes, lost reports and timeouts do not show: a    *)
(* task is only ever seen to go through its stages in order, each with its *)
(* effect, and nothing happens to it out of its stage or after its end.    *)
(* It needs that no body outlives its timeout and no charge expires.       *)
ImplementsLifecycle == Lifecycle!Spec

-----------------------------------------------------------------------------
(* What the comments and documents of the repository say and the code does *)
(* not do.                                                                 *)

(* workflow.py: a task whose retries are exhausted "lands in a definitive  *)
(* FAILED state".                                                          *)
DeadLetterRecorded ==
    \A t \in Tasks : step[t] = "failed" => row[t].status = "FAILED"

(* workflow.py: the last step is the "durable completion" of the task.     *)
CompletionDurable ==
    \A t \in Tasks : step[t] = "completed" => row[t].status = "COMPLETED"

=============================================================================
