--------------------------- MODULE PostgresStore ---------------------------
(***************************************************************************)
(* orchestrator/postgres_store.py: the store on PostgreSQL.  Every method  *)
(* is one READ COMMITTED transaction on a pooled connection; transactions  *)
(* of all processes interleave at every statement.                         *)
(*                                                                         *)
(* PostgreSQL itself is modelled by what the statements rely on:           *)
(*  - a statement sees what is committed when it runs and what its own     *)
(*    transaction wrote (`gone' and the call's locals until Commit);       *)
(*  - to insert, update, delete or lock a row it takes the row's lock, and *)
(*    waits while another transaction has it; locks are held to the end;   *)
(*  - one transaction of a cycle of waiting ones is rolled back.           *)
(* A statement that has waited is evaluated afresh.                        *)
(***************************************************************************)
EXTENDS Integers, FiniteSets, FiniteSetsExt

CONSTANTS
    Calls,            \* calls of the store's methods, by any process
    Requests,         \* call -> what it may ask for
    Accounts, Keys, Tasks,
    Known,            \* the accounts that have a lock row from earlier on
    Owner,            \* task -> the account it is created for
    Threshold,        \* degraded_threshold
    Window,           \* usage_window_seconds
    MaxConnections,   \* max_connections of the pool
    Failing,          \* the steps at which a transaction may fail
    MayClose,         \* close() is called at some point
    MaxClock,         \* bound on the clock, for TLC
    Everything        \* the scope of reset() without an account

Null == "null"
NoRequest == [op |-> "none"]
NoAnswer == [answered |-> FALSE]

Charging == {"reserve", "settle", "balance"}
Resetting == {"reset_account", "reset"}

Asked == [op : Charging, account : Accounts, cost : Nat, actual : Nat]
         \union [op : {"register"}, key : Keys]
         \union [op : {"create"}, task : Tasks, status : {"ACCEPTED"}]
         \union [op : {"status"}, task : Tasks, status : {"ACCEPTED", "RUNNING"}]
         \union [op : {"reset_account"}, account : Accounts]
         \union [op : {"reset"}]

(* The statements of each method, in order, first in a mutated form.       *)
ReserveUnlockedPrune == [begin |-> "prune", prune |-> "insert_lock", insert_lock |-> "lock",
                         lock |-> "sum", sum |-> "insert", insert |-> "commit"]
ReserveSteps == [begin |-> "insert_lock", insert_lock |-> "lock", lock |-> "prune",
                 prune |-> "sum", sum |-> "insert", insert |-> "commit"]
SettleSteps == [begin |-> "insert_lock", insert_lock |-> "lock", lock |-> "prune",
                prune |-> "find", find |-> "update", update |-> "sum", sum |-> "commit"]
BalanceSteps == [begin |-> "prune", prune |-> "sum", sum |-> "commit"]
RegisterSteps == [begin |-> "claim", claim |-> "select", select |-> "commit"]
ResetKeysOfAll == [begin |-> "delete_charges", delete_charges |-> "delete_keys",
                   delete_keys |-> "delete_tasks", delete_tasks |-> "commit"]
ResetAccountSteps == [begin |-> "delete_charges", delete_charges |-> "delete_tasks",
                      delete_tasks |-> "commit"]
ResetSteps == [begin |-> "delete_charges", delete_charges |-> "delete_keys",
               delete_keys |-> "delete_tasks", delete_tasks |-> "delete_locks",
               delete_locks |-> "commit"]
After == [reserve |-> ReserveSteps, settle |-> SettleSteps, balance |-> BalanceSteps,
          register |-> RegisterSteps,
          create |-> [begin |-> "upsert", upsert |-> "commit"],
          status |-> [begin |-> "set", set |-> "commit"],
          reset_account |-> ResetAccountSteps, reset |-> ResetSteps]

Deleting == {"prune", "delete_charges", "delete_keys", "delete_tasks", "delete_locks"}
Statements == {"insert_lock", "lock", "prune", "sum", "insert", "find", "update", "claim",
               "select", "upsert", "set", "delete_charges", "delete_keys", "delete_tasks",
               "delete_locks", "commit"}

(* A committed transaction, and whether the caller has heard of it: when   *)
(* the answer to COMMIT is lost, conn.commit() raises all the same.        *)
Committed == {"done", "unheard"}
Ends == Committed \union {"raised"}

ASSUME PostgresAssumption ==
    /\ \A c \in Calls : Requests[c] \subseteq Asked
    /\ Owner \in [Tasks -> Accounts] /\ Known \subseteq Accounts
    /\ Null \notin Calls
    /\ Threshold \in Nat /\ Window \in Nat /\ MaxClock \in Nat
    /\ MaxConnections \in Nat \ {0} /\ IsFiniteSet(Calls)
    /\ Failing \subseteq Statements /\ MayClose \in BOOLEAN
    /\ Everything \notin Accounts

VARIABLES
    pc,           \* call -> the statement that comes next
    request,      \* call -> what it asks for
    at,           \* call -> time.time(), read on entry
    held,         \* call -> the row locks of its transaction
    gone,         \* call -> the rows that its transaction has deleted
    matched,      \* call -> the rows that its DELETE statement has yet to delete
    charge,       \* call -> the charge it inserted, found or updates
    counted,      \* call -> the charges in its SUM
    answer,       \* call -> what it will return
    charges,      \* the usage_charges table: id -> row
    lastId,       \* its sequence
    accountLocks, \* the account_locks table
    idempotency,  \* the idempotency table: key -> task id
    tasks,        \* the tasks table: task -> status
    closed,       \* close() was called
    clock,
    pruned,       \* history: the expired charges that were deleted, id -> row
    disturbed,    \* history: the accounts that were reset
    caught        \* history: the calls that were under way when everything was

txVars    == <<request, at, charge, counted, answer>>
lockVars  == <<held, gone, matched>>
tables    == <<charges, accountLocks, idempotency, tasks>>
history   == <<pruned, disturbed, caught>>
vars == <<pc, txVars, lockVars, tables, lastId, closed, clock, history>>

Op(c) == request[c].op
Account(c) == request[c].account

(* The name of a row, for locking.                                         *)
Row(table, id) == <<table, id>>
RowNames == {"charge"} \X Nat \union {"account"} \X Accounts
            \union {"key"} \X Keys \union {"task"} \X Tasks

None == 0                  \* no charge has this id
ChargeRows == [account : Accounts, amount : Nat, ts : 0..MaxClock]

TypeOK ==
    /\ pc \in [Calls -> {"idle", "begin"} \union Statements \union Ends]
    /\ request \in [Calls -> Asked \union {NoRequest}]
    /\ at \in [Calls -> 0..MaxClock]
    /\ held \in [Calls -> SUBSET RowNames] /\ gone \in [Calls -> SUBSET RowNames]
    /\ matched \in [Calls -> SUBSET RowNames]
    /\ charge \in [Calls -> Nat] /\ counted \in [Calls -> SUBSET Nat]
    /\ DOMAIN charges \subseteq 1..lastId /\ charges \in [DOMAIN charges -> ChargeRows]
    /\ lastId \in Nat
    /\ accountLocks \subseteq Accounts
    /\ idempotency \in [Keys -> Calls \union {Null}]
    /\ tasks \in [Tasks -> {"ACCEPTED", "RUNNING", Null}]
    /\ closed \in BOOLEAN /\ clock \in 0..MaxClock
    /\ DOMAIN pruned \subseteq 1..lastId /\ pruned \in [DOMAIN pruned -> ChargeRows]
    /\ disturbed \subseteq Accounts \union {Everything} /\ caught \subseteq Calls

Init ==
    /\ pc = [c \in Calls |-> "idle"]
    /\ request = [c \in Calls |-> NoRequest]
    /\ at = [c \in Calls |-> 0]
    /\ held = [c \in Calls |-> {}] /\ gone = [c \in Calls |-> {}]
    /\ matched = [c \in Calls |-> {}]
    /\ charge = [c \in Calls |-> None] /\ counted = [c \in Calls |-> {}]
    /\ answer = [c \in Calls |-> NoAnswer]
    /\ charges = [i \in {} |-> Null] /\ lastId = 0
    /\ accountLocks = Known
    /\ idempotency = [k \in Keys |-> Null]
    /\ tasks = [t \in Tasks |-> Null]
    /\ closed = FALSE /\ clock = 0
    /\ pruned = [i \in {} |-> Null] /\ disturbed = {} /\ caught = {}

-----------------------------------------------------------------------------
(* Row locks.                                                              *)

Free(c, row) == \A d \in Calls \ {c} : row \notin held[d]

Takes(c, rows) == held' = [held EXCEPT ![c] = @ \union rows]

(* A row of a committed table that no transaction is about to delete.      *)
Settled(row) == \A d \in Calls : row \notin gone[d]

Proceed(c) == pc' = [pc EXCEPT ![c] = After[Op(c)][pc[c]]]

(* The charges that call c sees, and their amounts: its own UPDATE counts. *)
Visible(c) == {i \in DOMAIN charges : Row("charge", i) \notin gone[c]}
Amount(c, i) ==
    IF Op(c) = "settle" /\ charge[c] = i /\ pc[c] \in {"sum", "commit"}
    THEN request[c].actual ELSE charges[i].amount
Mine(c) == {i \in Visible(c) : charges[i].account = Account(c)}

(* The rows that the DELETE statement call c has come to still matches.    *)
Expired(c) == {i \in Mine(c) : charges[i].ts < at[c] - Window}
Doomed(c) ==
    CASE pc[c] = "prune" -> {Row("charge", i) : i \in Expired(c)}
      [] pc[c] = "delete_charges" ->
           {Row("charge", i) : i \in IF Op(c) = "reset" THEN Visible(c) ELSE Mine(c)}
      [] pc[c] = "delete_keys" ->
           {Row("key", k) : k \in {x \in Keys : idempotency[x] # Null}} \ gone[c]
      [] pc[c] = "delete_tasks" ->
           {Row("task", t) : t \in {x \in Tasks : tasks[x] # Null
                /\ (Op(c) = "reset" \/ Owner[x] = Account(c))}} \ gone[c]
      [] pc[c] = "delete_locks" ->
           {Row("account", a) : a \in accountLocks} \ gone[c]
      [] OTHER -> {}

(* Table order.                                                            *)
FirstOf(rows) ==
    {r \in rows : r[1] = "charge" => \A s \in rows : s[1] = "charge" => r[2] <= s[2]}

(* The row whose lock the next statement of call c needs.                  *)
Wanted(c) ==
    CASE pc[c] = "insert_lock" ->
           IF Account(c) \in accountLocks /\ Settled(Row("account", Account(c)))
           THEN {} ELSE {Row("account", Account(c))}
      [] pc[c] = "lock" ->
           IF Account(c) \in accountLocks THEN {Row("account", Account(c))} ELSE {}
      [] pc[c] = "update" ->
           IF charge[c] \in DOMAIN charges THEN {Row("charge", charge[c])} ELSE {}
      [] pc[c] = "claim" ->
           IF idempotency[request[c].key] # Null /\ Settled(Row("key", request[c].key))
           THEN {} ELSE {Row("key", request[c].key)}
      [] pc[c] = "upsert" -> {Row("task", request[c].task)}
      [] pc[c] = "set" ->
           IF tasks[request[c].task] # Null THEN {Row("task", request[c].task)} ELSE {}
      [] OTHER -> FirstOf(matched[c])

(* The transactions that call c waits for, and who is in a cycle of them.  *)
WaitsFor(c) == {d \in Calls \ {c} : Wanted(c) \cap held[d] # {}}
Cycle(S) == /\ S # {} /\ \A c \in S : WaitsFor(c) \cap S # {}
            /\ \A c \in S : \E d \in S : c \in WaitsFor(d)

-----------------------------------------------------------------------------
(* _connection(): a connection of the pool is borrowed for the duration of *)
(* a transaction, and given back whatever happens.                         *)

InTransaction == {c \in Calls : pc[c] \in Statements}

(* time.time() is read before the connection is asked for.                 *)
Enter(c) ==
    /\ pc[c] = "idle"
    /\ \E r \in Requests[c] : request' = [request EXCEPT ![c] = r]
    /\ at' = [at EXCEPT ![c] = clock]
    /\ pc' = [pc EXCEPT ![c] = "begin"]
    /\ UNCHANGED <<charge, counted, answer, lockVars, tables, lastId, closed, clock, history>>

Borrow(c) ==
    /\ pc[c] = "begin" /\ ~closed
    /\ Cardinality(InTransaction) < MaxConnections
    /\ Proceed(c)
    /\ UNCHANGED <<txVars, lockVars, tables, lastId, closed, clock, history>>

(* PoolTimeout after thirty seconds, or PoolClosed.                        *)
BorrowRaises(c) ==
    /\ pc[c] = "begin"
    /\ closed \/ Cardinality(InTransaction) = MaxConnections
    /\ pc' = [pc EXCEPT ![c] = "raised"]
    /\ UNCHANGED <<txVars, lockVars, tables, lastId, closed, clock, history>>

(* Connections in use are closed when they are given back.                 *)
Close ==
    /\ MayClose /\ ~closed
    /\ closed' = TRUE
    /\ UNCHANGED <<pc, txVars, lockVars, tables, lastId, clock, history>>

(* Who is rolled back begins again, however often.                         *)
RolledBackRetried(c) ==
    /\ pc' = [pc EXCEPT ![c] = "begin"]
    /\ held' = [held EXCEPT ![c] = {}] /\ gone' = [gone EXCEPT ![c] = {}]
    /\ matched' = [matched EXCEPT ![c] = {}]

RolledBack(c) ==
    /\ pc' = [pc EXCEPT ![c] = "raised"]
    /\ held' = [held EXCEPT ![c] = {}] /\ gone' = [gone EXCEPT ![c] = {}]
    /\ matched' = [matched EXCEPT ![c] = {}]

(* A statement or the commit fails, or the process of the caller dies, and *)
(* the server rolls the transaction back.                                  *)
TransactionFails(c) ==
    /\ pc[c] \in Failing
    /\ RolledBack(c)
    /\ UNCHANGED <<txVars, tables, lastId, closed, clock, history>>

(* PostgreSQL picks one transaction of a deadlock and fails it.            *)
DeadlockDetected(c) ==
    /\ \E S \in SUBSET InTransaction : c \in S /\ Cycle(S)
    /\ RolledBack(c)
    /\ UNCHANGED <<txVars, tables, lastId, closed, clock, history>>

-----------------------------------------------------------------------------
(* _lock_account(): INSERT ... ON CONFLICT DO NOTHING waits for another    *)
(* transaction that is inserting or deleting the row.                      *)
InsertLock(c) ==
    /\ pc[c] = "insert_lock"
    /\ \A row \in Wanted(c) : Free(c, row)
    /\ Takes(c, Wanted(c)) /\ UNCHANGED <<gone, matched>>
    /\ Proceed(c)
    /\ UNCHANGED <<txVars, tables, lastId, closed, clock, history>>

(* A plain SELECT instead of FOR UPDATE.                                   *)
LockNothing(c) == UNCHANGED held

LockRow(c) ==
    /\ \A row \in Wanted(c) : Free(c, row)
    /\ Takes(c, Wanted(c))

(* SELECT ... FOR UPDATE waits for whoever has locked the row.  When there *)
(* is no row any more it returns none, and nobody looks.                   *)
Lock(c) ==
    /\ pc[c] = "lock"
    /\ LockRow(c)
    /\ UNCHANGED <<gone, matched>>
    /\ Proceed(c)
    /\ UNCHANGED <<txVars, tables, lastId, closed, clock, history>>

(* A DELETE statement: of the rows that matched when it started, it waits  *)
(* for one after the other, and deletes those that still do.               *)
DeleteStarts(c) ==
    /\ pc[c] \in Deleting
    /\ matched[c] = {}
    /\ matched' = [matched EXCEPT ![c] = Doomed(c)]
    /\ IF Doomed(c) = {} THEN Proceed(c) ELSE UNCHANGED pc
    /\ UNCHANGED <<txVars, held, gone, tables, lastId, closed, clock, history>>

DeleteRow(c) ==
    /\ pc[c] \in Deleting
    /\ \E row \in FirstOf(matched[c]) :
         /\ Free(c, row)
         /\ matched' = [matched EXCEPT ![c] = @ \ {row}]
         /\ LET deleted == {row} \cap Doomed(c)
            IN Takes(c, deleted) /\ gone' = [gone EXCEPT ![c] = @ \union deleted]
         /\ IF matched[c] = {row} THEN Proceed(c) ELSE UNCHANGED pc
    /\ UNCHANGED <<txVars, tables, lastId, closed, clock, history>>

(* SELECT SUM; the reservation adds its own cost and compares.             *)
Sum(c) ==
    LET total == MapThenSumSet(LAMBDA i : Amount(c, i), Mine(c))
        balance == IF Op(c) = "reserve" THEN total + request[c].cost ELSE total
    IN /\ pc[c] = "sum"
       /\ counted' = [counted EXCEPT ![c] = Mine(c)]
       /\ answer' = [answer EXCEPT ![c] =
              IF Op(c) = "reserve"
              THEN [balance |-> balance, degraded |-> balance >= Threshold]
              ELSE [balance |-> balance]]
       /\ Proceed(c)
       /\ UNCHANGED <<request, at, charge, lockVars, tables, lastId, closed, clock, history>>

Insert(c) ==
    /\ pc[c] = "insert"
    /\ lastId' = lastId + 1 /\ charge' = [charge EXCEPT ![c] = lastId + 1]
    /\ Proceed(c)
    /\ UNCHANGED <<request, at, counted, answer, lockVars, tables, closed, clock, history>>

Same(c) == {i \in Mine(c) : charges[i].amount = request[c].cost}

(* The oldest charge of the amount.                                        *)
FoundFirst(c) == IF Same(c) = {} THEN {None} ELSE {i \in Same(c) : \A j \in Same(c) : i <= j}

(* ORDER BY id DESC LIMIT 1.                                               *)
Found(c) == IF Same(c) = {} THEN {None} ELSE {i \in Same(c) : \A j \in Same(c) : j <= i}

Find(c) ==
    /\ pc[c] = "find"
    /\ \E i \in Found(c) : charge' = [charge EXCEPT ![c] = i]
    /\ Proceed(c)
    /\ UNCHANGED <<request, at, counted, answer, lockVars, tables, lastId, closed, clock,
                   history>>

Update(c) ==
    /\ pc[c] = "update"
    /\ \A row \in Wanted(c) : Free(c, row)
    /\ Takes(c, Wanted(c)) /\ UNCHANGED <<gone, matched>>
    /\ charge' = [charge EXCEPT ![c] = IF Wanted(c) = {} THEN None ELSE @]
    /\ Proceed(c)
    /\ UNCHANGED <<request, at, counted, answer, tables, lastId, closed, clock, history>>

(* INSERT ... ON CONFLICT DO NOTHING RETURNING.                            *)
Claim(c) ==
    /\ pc[c] = "claim"
    /\ \A row \in Wanted(c) : Free(c, row)
    /\ Takes(c, Wanted(c)) /\ UNCHANGED <<gone, matched>>
    /\ IF Wanted(c) = {}
       THEN Proceed(c) /\ UNCHANGED answer
       ELSE /\ pc' = [pc EXCEPT ![c] = "commit"]
            /\ answer' = [answer EXCEPT ![c] = [task |-> c, created |-> TRUE]]
    /\ UNCHANGED <<request, at, charge, counted, tables, lastId, closed, clock, history>>

(* There was a row a statement ago: `assert existing is not None'.         *)
Select(c) ==
    LET existing == idempotency[request[c].key]
    IN /\ pc[c] = "select"
       /\ IF existing = Null THEN UNCHANGED answer
          ELSE answer' = [answer EXCEPT ![c] = [task |-> existing, created |-> FALSE]]
       /\ Proceed(c)
       /\ UNCHANGED <<request, at, charge, counted, lockVars, tables, lastId, closed, clock,
                      history>>

(* create_task() and set_task_status(): one statement.  Nobody looks at    *)
(* how many rows it has written.                                           *)
Upsert(c) ==
    /\ pc[c] \in {"upsert", "set"}
    /\ \A row \in Wanted(c) : Free(c, row)
    /\ Takes(c, Wanted(c)) /\ UNCHANGED <<gone, matched>>
    /\ answer' = [answer EXCEPT ![c] = [rows |-> Cardinality(Wanted(c))]]
    /\ Proceed(c)
    /\ UNCHANGED <<request, at, charge, counted, tables, lastId, closed, clock, history>>

-----------------------------------------------------------------------------
(* What the transaction of call c leaves of each table.                    *)
Left(c) == {i \in DOMAIN charges : Row("charge", i) \notin gone[c]}

ChargesAfter(c) ==
    LET r == request[c]
        new == IF r.op = "reserve" THEN {charge[c]} ELSE {}
    IN [i \in Left(c) \union new |->
          IF i \in new THEN [account |-> r.account, amount |-> r.cost, ts |-> at[c]]
          ELSE IF r.op = "settle" /\ i = charge[c]
               THEN [charges[i] EXCEPT !.amount = r.actual] ELSE charges[i]]

(* The two columns are swapped.                                            *)
KeysSwapped(c) == [k \in Keys |->
    IF Op(c) = "register" /\ Row("key", k) \in held[c] THEN k ELSE idempotency[k]]

KeysAfter(c) == [k \in Keys |->
    IF Row("key", k) \in gone[c] THEN Null
    ELSE IF Op(c) = "register" /\ Row("key", k) \in held[c] THEN c ELSE idempotency[k]]

TasksAfter(c) == [t \in Tasks |->
    IF Row("task", t) \in gone[c] THEN Null
    ELSE IF Op(c) \in {"create", "status"} /\ Row("task", t) \in held[c]
         THEN request[c].status ELSE tasks[t]]

LocksAfter(c) == {a \in Accounts :
    /\ Row("account", a) \notin gone[c]
    /\ a \in accountLocks \/ Row("account", a) \in held[c]}

(* The rows that pruning transactions delete are remembered.               *)
PrunedAfter(c) ==
    LET out == IF Op(c) \in Charging THEN DOMAIN charges \ Left(c) ELSE {}
    IN [i \in DOMAIN pruned \union out |-> IF i \in out THEN charges[i] ELSE pruned[i]]

Disturbs(c) ==
    IF Op(c) = "reset" THEN Accounts \union {Everything}
    ELSE IF Op(c) = "reset_account" THEN {Account(c)} ELSE {}

(* COMMIT; the connection is given back, and the method returns, or its    *)
(* assertion fails, or the answer of the server is lost.                   *)
Outcomes(c) ==
    IF Op(c) = "register" /\ answer[c] = NoAnswer THEN {"raised"}
    ELSE IF "commit" \in Failing THEN Committed ELSE {"done"}

Commit(c) ==
    /\ pc[c] = "commit"
    /\ charges' = ChargesAfter(c) /\ idempotency' = KeysAfter(c)
    /\ tasks' = TasksAfter(c) /\ accountLocks' = LocksAfter(c)
    /\ pruned' = PrunedAfter(c) /\ disturbed' = disturbed \union Disturbs(c)
    /\ caught' = IF Op(c) = "reset" THEN caught \union InTransaction ELSE caught
    /\ \E end \in Outcomes(c) : pc' = [pc EXCEPT ![c] = end]
    /\ held' = [held EXCEPT ![c] = {}] /\ gone' = [gone EXCEPT ![c] = {}]
    /\ UNCHANGED <<txVars, matched, lastId, closed, clock>>

Statement(c) ==
    \/ InsertLock(c) \/ Lock(c) \/ DeleteStarts(c) \/ DeleteRow(c) \/ Sum(c) \/ Insert(c)
    \/ Find(c) \/ Update(c) \/ Claim(c) \/ Select(c) \/ Upsert(c) \/ Commit(c)

Tick ==
    /\ clock < MaxClock /\ \E c \in Calls : pc[c] \notin Ends
    /\ clock' = clock + 1
    /\ UNCHANGED <<pc, txVars, lockVars, tables, lastId, closed, history>>

Quiesced ==
    /\ \A c \in Calls : pc[c] \in Ends
    /\ UNCHANGED vars

Next ==
    \/ \E c \in Calls :
         \/ Enter(c) \/ Borrow(c) \/ BorrowRaises(c) \/ Statement(c)
         \/ TransactionFails(c) \/ DeadlockDetected(c)
    \/ Close
    \/ Tick
    \/ Quiesced

Spec == Init /\ [][Next]_vars

(* Nobody has to call the store.  A call that was made goes on: the pool   *)
(* serves those that wait for a connection in turn or times out, a         *)
(* statement runs when it need not wait, deadlocks are detected.           *)
FairSpec ==
    /\ Spec
    /\ \A c \in Calls :
         WF_vars(Borrow(c) \/ BorrowRaises(c) \/ Statement(c) \/ DeadlockDetected(c))

-----------------------------------------------------------------------------
(* Of two reservations of one account that are both in the table, one has  *)
(* counted the other: reserve() reads and charges under the lock row of    *)
(* the account.  Only a reset of everything, which deletes lock rows that  *)
(* others are waiting for, lets those through that were under way.         *)
Reserved(c) == pc[c] \in Committed /\ Op(c) = "reserve" /\ charge[c] \in DOMAIN charges

Serialized ==
    \A c, d \in Calls \ caught :
        /\ c # d /\ Reserved(c) /\ Reserved(d) /\ Account(c) = Account(d)
        => charge[c] \in counted[d] \/ charge[d] \in counted[c]

(* Only transactions that delete without the account's lock get others     *)
(* into deadlocks: reset() and balance(), and reservations and settlements *)
(* whose lock row a reset of everything deletes before they lock it.       *)
(* Otherwise reservations, settlements, claims and status writes never do  *)
(* among themselves.                                                       *)
Unlocking == {"balance"} \union Resetting

NoDeadlock ==
    \A S \in SUBSET {c \in InTransaction \ caught : Op(c) \notin Unlocking} : ~Cycle(S)

(* register_idempotency() finds the row that its INSERT ran into, a        *)
(* statement later, unless everything is reset in between.                 *)
AssertionHolds ==
    \A c \in Calls \ caught :
        pc[c] = "commit" /\ Op(c) = "register" => answer[c] # NoAnswer

(* Every call returns or raises, with its locks and its connection given   *)
(* back: a call is made once, so in the end none is under way.             *)
EveryCallEnds == <>[](\A c \in Calls : pc[c] \in Ends \union {"idle"})

-----------------------------------------------------------------------------
(* The refinement: a call takes effect when it commits, balance() when it  *)
(* has summed, a status write that meets no row when it runs, whether or   *)
(* not the caller hears of it; accounts that were reset are forgotten.     *)
ReplyOf(c) ==
    LET r == request[c]
        forgotten == \/ r.op \in Charging /\ r.account \in disturbed
                     \/ r.op = "register" /\ Everything \in disturbed
                     \/ r.op \in {"create", "status"} /\ Owner[r.task] \in disturbed
        effective == pc[c] \in Committed \/ r.op = "balance" \/ answer[c] = [rows |-> 0]
    IN IF effective /\ ~forgotten THEN answer[c] ELSE NoAnswer

LedgerOf(a) ==
    IF a \in disturbed THEN {} ELSE
        {[id |-> i, amount |-> charges[i].amount, ts |-> charges[i].ts] :
            i \in {j \in DOMAIN charges : charges[j].account = a}}
        \union {[id |-> i, amount |-> pruned[i].amount, ts |-> pruned[i].ts] :
            i \in {j \in DOMAIN pruned : pruned[j].account = a}}

Atomic == INSTANCE AtomicStore WITH
    reply <- [c \in Calls |-> ReplyOf(c)],
    ledger <- [a \in Accounts |-> LedgerOf(a)],
    idempotency <- [k \in Keys |->
        IF Everything \in disturbed THEN Null ELSE idempotency[k]],
    tasks <- [t \in Tasks |-> IF Owner[t] \in disturbed THEN Null ELSE tasks[t]]

(* Every store method takes effect at one instant, as AtomicStore says.    *)
ImplementsAtomicStore == Atomic!Spec

=============================================================================
