# TLA+ models and proofs of the routing orchestrator

`src/` holds two Python packages. `routing_matrix` is a stateless library that
maps a task to a capability tier. `orchestrator` runs every task as a durable
Temporal workflow against an external store, charges an account for it, and
serves an idempotent `submit` / `get_status` facade. The hard part is
`orchestrator`: several API and worker processes share a store, every activity
is executed *at least once*, and the store is the only thing that survives.

The TLA+ here is written from the code. Comments name the code each definition
stands for, and `PROJECT.json` maps every definition to its lines.

## Inventory

| component | state | operations | interacts with |
|---|---|---|---|
| API facade, `api.py` | none of its own | `submit`, `get_status` | limiter (call), store (transactions), Temporal (`start_workflow`) |
| Task workflow, `workflow.py` | locals of `run()`, kept by the Temporal server | ten activity calls in order, an `except` block, retry policy and two timeouts | store, breaker, limiter, router, all through activities |
| SQLite store, `store.py` | `usage_charges`, `idempotency`, `tasks` | `reserve`, `settle`, `balance`, `register_idempotency`, `create_task`, `set_task_status`, `get_task`, `task_owner`, `reset` | one transaction per operation |
| PostgreSQL store, `postgres_store.py` | the same tables, `account_locks`, a connection pool | the same | row locks instead of one writer |
| Token bucket, `rate_limit.py` | bucket and time of the last refill, per account | `allow`, `acquire`, `reset` | called by threads of API and worker |
| Circuit breaker, `circuit_breaker.py` | aggregate cost, tripped flag, per process | `record`, `effective_degraded`, `reset` | called by two activities |
| Router, `routing_matrix/core.py`, and cost projection, `costing.py` | none | `route`, `project_cost` | called by activities and by `run()` |
| Classifier, `classifier.py` | none | `classify` | called by `route` and `project_cost` |
| In-process orchestrator, `core.py`, `usage.py` | totals per account | `orchestrate`, `record`, `snapshot` | router, providers, log; not used by the workflow |
| Providers, tiers, traces, logs, stubs | registry of adapters, environment | dispatch, resolve, format | leaves of the call graph |

What is hard, and what makes each part correct:

* **Workflow and charges.** A report may be lost after the effect, a body may
  outlive its timeout and overlap its own retry, a worker may die, nobody may
  poll. Then: no dispatch without a charge; no more effects than attempts; what
  the table holds of the charges that were granted headroom within one window
  stays below the threshold, and so does what is routed to the frontier tier as
  long as no settlement takes from another task's charge; the row of a task
  agrees with how its workflow ended and never goes back, as long as no body is
  late; every workflow ends.
* **Charges are found by amount.** `settle()` revalues *some* charge of the
  account with the reserved amount. The sum must come out right although the
  charges are exchanged.
* **Submission.** Calls race for one key in several processes and a process may
  die between any two transactions. One key starts one workflow, everybody with
  that key is given one id, whatever was started has its row first, and a
  submitter can poll.
* **Limiter.** The clock is read before the lock is taken. Grants must stay
  bounded by burst and rate, and an account must not pay for another.
* **Isolation.** `get_status` takes two transactions; no interleaving, reset
  included, may return another account's row.
* **PostgreSQL.** Where SQLite has one writer, every statement interleaves with
  those of other processes, serialised only by a lock row per account. Two
  reservations must count each other, a claim must find the row it ran into,
  writers that take the lock row may not deadlock, and every call must give its
  locks and its connection back. What a caller sees must be what one atomic step would have done.
* **In-process orchestrator.** Its usage ledger and its registry of adapters
  have no lock at all. Only calls that overlap may be lost, nothing may be
  counted twice, an account may not be shown another's calls, a provider may
  not change its adapter.
* **Classifier.** A task that says more must not be routed lower.

## Modules

| module | models | used by |
|---|---|---|
| `Routing` | tiers, degraded cap, projected cost; no state | `TaskWorkflow`, `Orchestrator` |
| `Classifier` | `classifier.py`: the score of a prompt; no state | `Orchestrator` |
| `TaskLifecycle` | what a submitted task promises: stages and their effects | abstract specification of `TaskWorkflow` |
| `TaskWorkflow` | `workflow.py` with the store's charges and task rows, one breaker per worker, the Temporal server as far as `run()` relies on it | |
| `Submission` | `api.py` with the store's keys and task rows, several event loops | |
| `AtomicStore` | the protocols of `store.py`: every method in one step | abstract specification of `PostgresStore` |
| `PostgresStore` | `postgres_store.py` statement by statement: transactions, row locks, pool | |
| `TokenBucket` | `rate_limit.py` called by threads | |
| `Orchestrator` | `core.py`, `usage.py` and `providers.py` in threads without locks | |

`MC*` modules hold model values and functions for TLC; no cfg replaces a
definition of a module. `*Proofs` modules hold theorems, `SumLemmas` what they
need to know about the sum over a finite set. Operators such as
`ClaimAlways` or `PruneInclusive` that stand next to the definition they alter
are the mutants of `PROJECT.json`: each one is a plausible bug that the property
named with it must catch.

### TaskWorkflow

A workflow is `step` (the activity `run()` awaits), `phase`, `attempt` and
`local`. `Goto` is `run()` scheduling an activity, `ActivityFails` the jump to
the `except` block, `AttemptFails` the retry policy. An activity goes through

1. `PickUp`: the server gives the attempt to a worker;
2. `EnterBody`: the worker's event loop enters the body, which reads the clock.
   Bodies never await, so one worker runs one body at a time;
3. one action per activity (`ReserveUsage`, `SettleUsage`, ...): the effect of
   its single transaction, and the report. The report advances `run()`, unless
   it is lost (`Unacked`) or the server has given up on the attempt
   (`~Current`). `RaiseError` rolls back and fails the attempt.

`StartToCloseTimeout` fails an attempt the server heard nothing of, whether its
body is gone or goes on. `ScheduleToStartTimeout` fails the activity at once,
because the server does not retry that timeout. `WorkerCrash` takes the bodies
and the breaker with it. Rows of `usage_charges` carry two history fields, the
task that made them and the answer it got, for properties only.
`ResetBreaker` is `CircuitBreaker.reset()`, at any point.

The bodies of two workers overlap between the reading of the clock and the
transaction, so a transaction may run with an old time. Within a transaction
nothing overlaps: both stores serialise the writers of an account, the
PostgreSQL one as `PostgresStore` shows.

Abstractions. Costs are integers in units of 0.0001 (the default weights are
1, 10, 100 of them). Prompts are reduced to what the classifier answers.
Error texts are reduced to the activity that failed. The back-off between
retries is any delay. `FIFO` order of a task queue is not assumed.

### TaskLifecycle

A task has a stage (accepted, running, charged, dispatched, failing, and two
ends), the charges made for it, a count of dispatches and a status. A stage has
one effect: the write of RUNNING, a charge, a dispatch, the write of COMPLETED,
the write of FAILED. The effect may happen again before the stage is left, since
activities run at least once, and never out of its stage. `GiveUp` is a dead
letter that is not written. `TaskWorkflow!Lifecycle` maps the activity `run()`
awaits to a stage (`StageOf`); attempts, workers, bodies, timeouts and the
steps that only compute are stutters. A body that outlives its timeout does show
(`wf_completion`), so the refinement is stated for `MaxLate = 0`, and for a
clock that does not pass the window, since an expired charge is deleted.

### Submission

A call of `submit()` is identified with the task id that `uuid4()` gives it.
`Submit`, `RegisterIdempotency`, `CreateTask`, `StartWorkflow` are the pieces
between which another process may run; `Busy` says that one event loop does not
leave a call before the await of `start_workflow()`. `GetTask` and `TaskOwner`
are the two SELECTs of `get_status()`. `SubmitRaises` is a step that raises
without effect, or after the store has committed and its answer got lost; the
second disjunct of `StartWorkflow` is an answer of the Temporal server that got
lost, `Crash` the death of a process. `Reset` is called by tests and
administrators.

The workflow is `TaskWorkflow` reduced to the stages of `TaskLifecycle` in which
a status is written: `started` (RUNNING is to be written), `running` (COMPLETED),
`failing` (FAILED, by the `except` block), and three ends. As there, a write may
take effect and its report get lost, so that the stage is not left
(`ReportLost`); any activity may fail for good, also one whose effect is in the
row, so that FAILED may overwrite COMPLETED (`WorkflowFails`); the dead letter may
be given up, written or not, whatever the row says (`WorkflowGivesUp`); and a
body that outlived its timeout may write when it likes (`BodyOutlives`,
`LateWrite`), also after the end. `StatusesOf` lists what a row may say at each
stage, `Late` the statuses that may be written late on top of that.

### PostgresStore and AtomicStore

A call is a method of the store, `pc` the SQL statement that comes next, in the
order of `After`. `Enter` reads the clock, as the methods do, before `Borrow`
waits for one of `MaxConnections` connections or raises. PostgreSQL is modelled
by what the statements rely on, under READ COMMITTED: a statement sees what is
committed when it runs and what its own transaction wrote (`gone`, `charge`,
`held` until `Commit`); to insert, update, delete or lock a row it takes the
row's lock and waits (`Wanted`, `Free`); locks are held to the end; one
transaction of a cycle of waiting ones is rolled back (`DeadlockDetected`). A
DELETE fixes the rows it matches when it starts (`matched`), waits for one
after the other and tests each again. `TransactionFails` fails any statement or
the commit, `RolledBack` leaves nothing behind. A COMMIT may also be executed and
its answer get lost: the call is `unheard` then, it has raised and its writes
stay (`Committed`). `Close` closes the pool.

`AtomicStore` has the same methods, each with its whole effect and its answer in
one step (`Reserve`, `Settle`, ...), over charges that are seen from the time a
call was made (`Views`). The mapping: a call takes effect when it commits, heard
or not, a
`balance()` when it has summed (it deletes what it could not see anyway), a
status write that meets no row when it runs. Pruned charges are remembered
(`pruned`), so that a call made earlier may still count them, as the atomic one
may. Resets are not made of one instant: a reset and the calls under way may see
each other in part. An account that was reset is `disturbed` and promises
nothing more in `AtomicStore`; the calls that were under way when everything was
reset are `caught` and exempt from `Serialized` and `AssertionHolds`.

A row of the tasks table is its owner, key and status, in both stores. Their
`create_task()` differ in the columns left out: SQLite's INSERT OR REPLACE
(`store.py:346`) clears the error, tier, model and cost of a row that is there
already, PostgreSQL's ON CONFLICT (`postgres_store.py:404`) keeps them. Nobody
creates a task twice, since every call of `submit()` has an id of its own.

### Orchestrator and Classifier

`orchestrate()` runs in threads. Python may switch threads between any read and
write of shared state, so `AccountLedger.record()` is a read and a write for the
cost, the count and the tier's entry (`ReadCell`, `WriteCell`), `account()` is a
look, a creation and a fetch, `snapshot()` one read for each field, `get()` of
the registry a look, a call of the factory, a store and a fetch. Ledgers and
adapters are named after the call that made them. `Earlier` says which calls a
thread makes before others; calls of different threads overlap unless one ended
before the other began, which the history variable `overlapped` records. `Route`
raises for a tier without a model pointer before anything is recorded;
`UseAdapter` raises for an unknown provider after it.

A prompt is the set of signals that occur in it and whether it is short. A word
that contains another makes both occur (`Within`: "refactoring" counts
"refactor" too), which is why the set of prompts is closed under it.

### TokenBucket

`ReadClock` is `time.monotonic()`, `Allow` the locked section with the very
arithmetic of `_tokens()`. `from`, `granted`, `regress` are history: an
arbitrary moment, the grants to calls whose reading is not before it, and how
far `_updated` was put back in all. Amounts are integers: float rounding is not
modelled.

## Runs

| run | instance | shows |
|---|---|---|
| `wf_ledger` | three tasks of one account, one worker, raising bodies, nobody polling | the balance is exactly what the tasks owe although charges are exchanged; what is routed to the frontier tier costs less than the threshold; frontier needs a granted reservation; the breaker has counted what was dispatched |
| `wf_lost` | one task, three attempts (as in the code), two workers, everything raises, gets lost, crashes; either limiter answer | the row agrees with the end of the workflow, never goes back, FAILED is final; the workflow implements `TaskLifecycle` |
| `wf_budget` | two tasks, two workers, a window of one tick, three clock values, lost reports | the amounts in the table that were granted headroom within a window stay below the threshold; only expired charges are dropped |
| `wf_ends` | every fault at once, a late body, a breaker that is reset, under fairness | no dispatch without a charge, effects bounded by attempts, every workflow ends |
| `sub_race` | two calls of two accounts that use one key, and one without a key, two processes, a poll, every failure of a submission and of a status write, late writes of RUNNING and COMPLETED, one account reset at any point, under fairness | one workflow and one answer per key; rows precede workflows and say what these wrote; submitters can poll, and only their own rows; returned ids end, but for the named exceptions |
| `pg_store` | three calls on two connections: reservations of two accounts, one of them without a lock row, a settlement, a balance, claims of one key, writes of one task, either reset; two clock values, failing statements, failing and unheard commits, the pool closed; under fairness | reservations count each other; claims find their row; no deadlock but with a reset, a balance, or a lock row that was reset away; calls end; the store implements `AtomicStore` |
| `tb_threads` | two threads, two accounts, three calls each, five clock values | bounded buckets and grants, accounts independent |
| `orch_threads` | two threads, three calls, an unnamed account, an unconfigured tier, an unknown provider, factories registered meanwhile | nothing counted twice, only overlapping calls lost, snapshots add up, one adapter per provider, more signals never routed lower |
| `wf_double_settle`, `wf_completion`, `wf_dead_letter`, `sub_burnt_key` | minimal instances | findings, below |

Bounds. Two tasks of one account are enough for any race over its balance and
a third for settling a charge that is neither one's own nor the partner's; two
workers or processes for any overlap; two attempts for every retry effect, and
`wf_lost` uses the code's three. The clock of `wf_budget` passes the window
once, which is when pruning begins. `MaxLate` bounds the bodies that outlive
their timeout (one: its retry is the second of an overlapping pair); in
`Submission` it is one for each status of a task. Two calls, in two processes, are
enough to race for a key: whoever comes third finds it claimed as the second did,
and the theorems are for any number. `MaxCalls` and `MaxClock` of `TokenBucket` let a bucket run dry and refill. Three calls of the
PostgreSQL store are two that collide and one that resets, prunes or holds the
second connection; one account has a lock row already and the other has none, so
that its creation is raced for. The threshold is two reservations' worth.
Two threads of the orchestrator overlap in every order, and the third call comes
after another of its thread, so that losses are told from overlaps. The costs
of the workflow runs are in the real proportion 1 : 10 : 100, the thresholds chosen so that the first
task has headroom and the next has not. (With the default threshold 0.0011 and
the default frontier weight 0.01 no escalated task ever has headroom: the model
takes the threshold as a constant.)

Deadlock is checked in every run; `Quiesced` is the idle system.

### Fairness

`TaskWorkflow!FairSpec` is weak fairness of each task's engine: workers poll and
finish what they accepted, or else the durable timers of the server fire. It is
what Temporal promises for any workflow, and does not say that a body
*succeeds*. `Submission!FairSpec` says that an event loop goes on with a call it
has begun, and that a workflow goes from stage to stage or gives up (`Ending`), which
`wf_ends` justifies: reports are not lost for ever. Late writes need not happen.
`PostgresStore!FairSpec` says of each call that it goes on: it is lent a connection
or gives up after the pool's timeout, and the server executes its statement once
nothing blocks it, or detects the deadlock it is in. Nobody has to submit, poll,
reset or close, and no failure is required.

### Findings

* `wf_double_settle`: a settlement repeated after a lost report refunds another
  task's reservation, and a further task passes the threshold.
* `wf_completion`: a late `mark_status(RUNNING)` overwrites COMPLETED.
* `wf_dead_letter`: when the status write of the `except` block fails too, the
  row stays ACCEPTED or RUNNING for ever.
* `sub_burnt_key`: a crash between claiming the key and inserting the task
  leaves a key that maps to a task that will never exist.

Observed while modelling, without a run of their own: `run()` awaits
`check_rate_limit` and drops its answer (`workflow.py:364`), and a submission
takes two tokens; `settle()` revalues the latest charge of its amount, not "this
workflow's own" (`store.py:245`), which `wf_ledger` shows to be harmless for the
sum when nothing is repeated; a settlement whose own charge has expired and was
pruned revalues another task's charge just as a repeated one does, so that more
than the threshold may be granted within a window (`FrontierSpendBelowThreshold` is
for a clock within it); `get_status` raises `TenantIsolationViolation` against the
owner, who was told the id as a duplicate, when another process inserts the row
between the two SELECTs (`api.py:151-155`; `api.py:44` says it is "Raised when a
caller attempts to reach a task owned by another account"); `reset(account_id)`
clears no idempotency keys, although its docstring says "Clear
usage/idempotency/tasks (optionally scoped to one account)" (`store.py:418`), so
the account's keys go on returning ids of tasks that are gone; `RateLimited` fails with two threads, because an overtaken thread puts `_updated`
back (`rate_limit.py:53`), and `GrantsBounded` says by how much; idempotency keys
are not scoped to accounts (`store.py:303`), so the second account to use a key
is given an id it can never poll; a failed task is never refunded. The `record()`
of the usage ledger is annotated and documented to return the ledger and returns
nothing (`usage.py:62-64`). A cached adapter survives the registration of another
factory under its name (`providers.py:62`). A reset of everything deletes the
lock rows that reservations wait for, and `SELECT ... FOR UPDATE` then locks
nothing without anybody looking (`postgres_store.py:243-246`, `495`): those under
way are no longer serialised, and a settlement whose new lock row is deleted
before it locks it goes on to prune without a lock, and may deadlock with a
reservation that prunes the same charges.

## Proofs

Checked by TLAPS for all values of the constants under the named assumptions of
each module.

* `TaskWorkflowProofs`. `Types`: `TypeOK`, strengthened by "closed means ended"
  and "a tier is known once routed", without which `Actual` has no value.
  `Charged` and `Headroom` (no charge expires: `MaxClock <= Window`): the
  inductive invariants say of every step past the reservation that a charge of
  the task, resp. the answer in its locals, is in the table; `Moves` reduces
  each action to the steps it can take a task between. They hold with lost
  reports and late bodies, because `settle()` revalues and never deletes.
  `RowsAgree` (`MaxLate = 0`): the invariant adds that the one live body of a
  task is that of its current attempt (`LateFree`), and where the row stands at
  each step. `NothingDroppedEarly`: no body has read a time that has not come
  yet (`TimesInv`), so no transaction prunes what is still inside the window.
  The rest is for `MaxLate = 0`. `TaskLifecycleImplemented` is the step
  simulation: by `LateFree` a body that takes effect is that of the stage its
  task is in, and `IdsBounded` (ids do not exceed the counter) makes a charge a
  new one. `StatusNeverGoesBack` bounds the status by the step `run()` is at;
  `FailureIsFinal` adds that who has FAILED in its row is past everything but
  the repetition of that very write.
* `TaskLedgerProofs`. `BudgetRolls`, without assumptions: the youngest of the
  charges that were answered "not degraded" and are within the window was made
  when all the others were in its balance, because nothing deletes a charge
  before it expires and no settlement raises an amount (`BudgetInv`). It speaks of
  the amounts that the table has. They may be less than what was granted, once a
  repeated settlement has revalued the charge of another task: that is how
  `wf_double_settle` passes the threshold. `FrontierBelowThreshold` is about what
  was granted, and excludes that (no report of a settlement is lost, `MaxLate = 0`,
  no charge expires): the charges of an account add up to no less than what its
  tasks owe (`CoverInv`; reservations may be repeated, so to more), hence a task
  that is granted headroom had everybody else's grant in its balance, and what the
  granted ones owe never reaches the threshold (`HeadInv`).
  `RepetitionBounded`, without assumptions: what a task has charged or
  dispatched, with what bodies still out may add, is at most the number of
  attempts handed out (`EffectsInv`). `BreakerCounts` (one worker, which neither
  crashes nor is reset): the spend is at least the sum of the costs of the tasks
  whose recording has returned, and more when a report of it was lost; the breaker
  is tripped exactly when a positive spend has reached the limit. `LedgerAddsUp` (`MaxLate = 0`, no charge expires,
  the reports of reservations and settlements are not lost, which is what
  `wf_ledger` allows to happen to all others): `settle()` exchanges charges of
  one amount, so a charge is seldom the one that its task made; the invariant
  says that some one-to-one matching (`StandsFor`) gives every task that owes
  something a charge of its account with the amount it owes. The sum follows,
  whichever matching it is.
* `SubmissionProofs`. `SubmissionTypes`; `OneWorkflow` from "a call past its
  claim is what its key maps to"; `SameTask` adds that a key maps to a call with
  that key, and that answers are what it maps to. Both hold unless everything
  is reset. `Recorded` and `PollsAnswered`, for accounts that are not reset,
  whatever happens to others: a row belongs to its creator's account
  (`OwnedInv`), and a workflow comes after the row, whose status is one of its
  stage's, or a late one (`RecordInv`). `Scoped` with
  any reset.
* `PostgresStoreProofs`. `PostgresTypes`: the invariant adds that locks and
  deletions name rows, and that a call is at a statement of its own method.
  `ReservationsSerialize`: who was not under way when everything was reset holds
  the lock row of its account from the lock statement to its commit (`Locked`),
  and so has counted every reservation that is in the table when it commits, or
  has deleted it as expired (`Counting`).
  `ClaimsFindTheRow`: nothing but a reset of everything deletes a key.
  `NobodyDeadlocks`, for any number of transactions: who waits for a charge
  holds the lock row of its account, or has not been seen by anybody yet, and
  who waits for a lock row holds nothing that another one of the cycle wants
  (`LockInv`); so a circle has a `balance()`, a reset or a `caught` call in it.
  The proof had the property restated: settlements are exempt too when a reset of
  everything has deleted their lock row, see the observations above.
* `AtomicStoreProofs`. `StoreIsAtomic`, for any number of calls and every
  failure, unheard commits included: each step of the store is a step of
  `AtomicStore` or cannot be seen by it. The instants are those of the mapping (a commit, the sum of a `balance()`,
  a status write that meets no row), so at each of them the call must still be
  right about the tables. `ViewInv` says that it is: what a reservation or a
  settlement has summed or found stays a view of its account's ledger
  (`SeenByReserve`, `SeenByFind`, `SeenBySettle`), since others who would change
  that account's charges need its lock row, and who prunes without it deletes
  only what has expired (`Expiry`, `GoneRows`); a charge that is to be revalued
  or a key that is to be claimed is locked (`Chosen`, `Claiming`), and so is the
  row of a status write (`Writing`). Numbers of charges grow in the order of the
  lock row, hence "the latest of its amount" is the same charge when a
  settlement finds it and when it commits. `Book` is the ledger as a function of
  the number, with what was pruned: pruning is not seen. `TotalIsSum` and
  `SeenTotal` turn a sum over charges into one over entries.
* `TokenBucketProofs`. `BucketTypes`; `Bounded` from
  `Unit * granted + Amount <= Capacity + Rate * Span`, where the span is counted
  from the last refill: going back adds to `regress` what it takes from
  `updated`. `OneCaller`: with one thread nothing goes back, so `RateLimited`
  holds. `Spent`: an account loses tokens by its own grants only.
* `OrchestratorProofs`. `MoreSignalsAdvance`: the score is monotone in the
  signals (`ScoreMonotone`), and the early answer for plain short prompts is one
  that the score would give as well. `OrchestratorTypes`: no call works on a
  ledger or an adapter that was never made. `CallsShareAnAdapter`: the maker of
  an adapter that is stored was the only one, or the name is in `overlapped`.
  `SayingMoreNeverCostsLess` from `MoreSignalsAdvance`. The usage of accounts
  rests on `UsageInv`, without assumptions but the finiteness of the set of calls.
  `Written` says how many of its three cells a call has written, `Most` and
  `Least` add up what all calls, resp. those that overlapped none, have written
  to a cell of an account. `AtMost`: no ledger, and no value that is read and
  not written yet, exceeds `Most`, since ledgers stay with the account they were
  made for (`Owned`); hence `UsageNeverOvercounted`. `AtLeast`: the ledger of an account
  shows `Least`, because a call that overlapped none is alone with its account
  (`Alone`), has the ledger that others will find in hand, and whoever creates
  one meets none but overlapped calls (`NoneBefore`); hence `OnlyOverlapsLost`.
  `Faithful`: as long as nobody of an account has overlapped, its tiers add up to
  its count and cost but for what the one recording call is yet to write; hence
  `SnapshotsAddUp`.
* `SumLemmas`. `MapThenSumSet` folds by a recursive function on the subsets of a
  set; `SumExists` shows that there is one, by induction on finite sets, and the
  others derive what the proofs use: a sum depends on the values only, an
  element may be taken out in any order, larger sets and values add up to no
  less, zeros add nothing, a sum may be taken along a one-to-one function.
  (Induction theorems that take an operator cannot be instantiated;
  `FiniteSetInduction` and `NatSetInduction` speak of membership in a set.)

Every invariant and action property that a run checks is stated by a theorem.
So are both refinements, `ImplementsLifecycle` and `ImplementsAtomicStore`. Only
model-checked is liveness (`EveryWorkflowEnds`, `EveryReturnedTaskEnds`,
`EveryCallEnds`), which is beyond the prover.

## Not modelled

Formatting, logging, decision logs and correlation ids: nothing depends on
them. Stub executors return constants. A workflow's cancellation or termination
from outside: no code asks for it. `log_event` is registered and never called.
The reading methods that only tests call (`get_idempotency`, `count_tasks`).
Rounding of floats. The deployment runbook is the source of the premises
(several workers and API processes), not a part of the program.

## Plan

An abstract idempotent submission service that `Submission` refines, with
`TaskLifecycle` as its other half.
