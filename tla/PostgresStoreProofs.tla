------------------------ MODULE PostgresStoreProofs ------------------------
(***************************************************************************)
(* Theorems about PostgresStore, for every set of calls, accounts, keys    *)
(* and tasks, every size of the pool and every failure.                    *)
(***************************************************************************)
EXTENDS PostgresStore, TLAPS

(* What has committed is spelt out in every proof below.                   *)
USE DEF Committed

(* Under way: between the borrowing of a connection and its return.        *)
Waiting(c) == pc[c] \in {"begin"} \union Statements

(* A call is at a statement of its own method.                             *)
Steps ==
    \A c \in Calls : Waiting(c) =>
        /\ request[c] \in Asked
        /\ pc[c] \in DOMAIN After[Op(c)] \union {"commit"}

(* A row is locked by one transaction.                                     *)
Exclusive == \A c, d \in Calls : c # d => held[c] \cap held[d] = {}

(* Only reset() deletes lock rows and keys.                                *)
Deleters ==
    \A c \in Calls : \A row \in gone[c] :
        row[1] \in {"account", "key"} => Op(c) = "reset" /\ pc[c] \in Statements

(* A reservation has a number once it has inserted its charge.             *)
Numbered ==
    \A c \in Calls :
        Op(c) = "reserve" /\ pc[c] \in {"commit"} \union Committed => charge[c] \in 1..lastId

TypeInv == TypeOK /\ Steps /\ Exclusive /\ Deleters /\ Numbered

-----------------------------------------------------------------------------
(* The statement that follows another one is one of the same method.       *)
LEMMA Follows ==
    ASSUME NEW r \in Asked, NEW s \in DOMAIN After[r.op]
    PROVE  /\ After[r.op][s] \in DOMAIN After[r.op] \union {"commit"}
           /\ After[r.op][s] \in Statements
<1>1. r.op \in {"reserve", "settle", "balance", "register", "create", "status",
                "reset_account", "reset"}
  BY DEF Asked, Charging
<1>2. CASE r.op = "reserve"
  BY <1>2 DEF After, ReserveSteps, Statements
<1>3. CASE r.op = "settle"
  BY <1>3 DEF After, SettleSteps, Statements
<1>4. CASE r.op = "balance"
  BY <1>4 DEF After, BalanceSteps, Statements
<1>5. CASE r.op = "register"
  BY <1>5 DEF After, RegisterSteps, Statements
<1>6. CASE r.op = "create"
  BY <1>6 DEF After, Statements
<1>7. CASE r.op = "status"
  BY <1>7 DEF After, Statements
<1>8. CASE r.op = "reset_account"
  BY <1>8 DEF After, ResetAccountSteps, Statements
<1>9. CASE r.op = "reset"
  BY <1>9 DEF After, ResetSteps, Statements
<1> QED BY <1>1, <1>2, <1>3, <1>4, <1>5, <1>6, <1>7, <1>8, <1>9

(* Which statements the methods begin with, and which follow which.        *)
LEMMA Orders ==
    ASSUME NEW r \in Asked, NEW s \in DOMAIN After[r.op]
    PROVE  /\ s \in {"insert_lock", "lock"} => r.op \in {"reserve", "settle"}
           /\ After[r.op][s] = "lock" => s = "insert_lock"
           /\ r.op = "reserve" =>
                /\ After[r.op][s] = "prune" => s = "lock"
                /\ After[r.op][s] = "sum" => s = "prune"
                /\ After[r.op][s] = "insert" => s = "sum"
                /\ After[r.op][s] = "commit" => s = "insert"
           /\ r.op = "register" =>
                /\ s \in {"begin", "claim", "select"}
                /\ After[r.op][s] = "select" => s = "claim"
                /\ After[r.op][s] = "commit" => s = "select"
           /\ s \in {"delete_keys", "delete_locks"} => r.op = "reset"
           /\ s \in {"sum", "prune"} => r.op \in Charging
           /\ s \in {"insert"} => r.op = "reserve"
           /\ s \in {"find", "update"} => r.op = "settle"
           /\ s \in {"claim", "select"} => r.op = "register"
           /\ s \in {"upsert", "set"} => r.op \in {"create", "status"}
           /\ s # "commit"
<1>1. r.op \in {"reserve", "settle", "balance", "register", "create", "status",
                "reset_account", "reset"}
  BY DEF Asked, Charging
<1>2. CASE r.op = "reserve"
  BY <1>2 DEF After, ReserveSteps, Charging
<1>3. CASE r.op = "settle"
  BY <1>3 DEF After, SettleSteps, Charging
<1>4. CASE r.op = "balance"
  BY <1>4 DEF After, BalanceSteps, Charging
<1>5. CASE r.op = "register"
  BY <1>5 DEF After, RegisterSteps
<1>6. CASE r.op = "create"
  BY <1>6 DEF After
<1>7. CASE r.op = "status"
  BY <1>7 DEF After
<1>8. CASE r.op = "reset_account"
  BY <1>8 DEF After, ResetAccountSteps
<1>9. CASE r.op = "reset"
  BY <1>9 DEF After, ResetSteps
<1> QED BY <1>1, <1>2, <1>3, <1>4, <1>5, <1>6, <1>7, <1>8, <1>9

LEMMA Fields ==
    ASSUME NEW r \in Asked
    PROVE  /\ r.op \in Charging => r.account \in Accounts /\ r.cost \in Nat /\ r.actual \in Nat
           /\ r.op = "register" => r.key \in Keys
           /\ r.op \in {"create", "status"} =>
                r.task \in Tasks /\ r.status \in {"ACCEPTED", "RUNNING"}
           /\ r.op = "reset_account" => r.account \in Accounts
           /\ r.op # "none"
BY DEF Asked, Charging

(* The types of the tables, apart from those of the calls.                 *)
TablesOK ==
    /\ DOMAIN charges \subseteq 1..lastId /\ charges \in [DOMAIN charges -> ChargeRows]
    /\ lastId \in Nat
    /\ accountLocks \subseteq Accounts
    /\ idempotency \in [Keys -> Calls \union {Null}]
    /\ tasks \in [Tasks -> {"ACCEPTED", "RUNNING", Null}]

HistoryOK ==
    /\ DOMAIN pruned \subseteq 1..lastId /\ pruned \in [DOMAIN pruned -> ChargeRows]
    /\ disturbed \subseteq Accounts \union {Everything} /\ caught \subseteq Calls

CallsOK ==
    /\ pc \in [Calls -> {"idle", "begin"} \union Statements \union Ends]
    /\ request \in [Calls -> Asked \union {NoRequest}]
    /\ at \in [Calls -> 0..MaxClock]
    /\ held \in [Calls -> SUBSET RowNames] /\ gone \in [Calls -> SUBSET RowNames]
    /\ matched \in [Calls -> SUBSET RowNames]
    /\ charge \in [Calls -> Nat] /\ counted \in [Calls -> SUBSET Nat]
    /\ closed \in BOOLEAN /\ clock \in 0..MaxClock

LEMMA TypeParts == TypeOK <=> CallsOK /\ TablesOK /\ HistoryOK
BY DEF TypeOK, CallsOK, TablesOK, HistoryOK

LEMMA TypePartsNext == TypeOK' <=> CallsOK' /\ TablesOK' /\ HistoryOK'
BY DEF TypeOK, CallsOK, TablesOK, HistoryOK

LEMMA SameTables ==
    ASSUME TypeOK, UNCHANGED <<tables, lastId, history>>
    PROVE  TablesOK' /\ HistoryOK'
BY DEF TypeOK, TablesOK, HistoryOK, tables, history

-----------------------------------------------------------------------------
(* The parts of an action that most of them share.                         *)
LEMMA Proceeds ==
    ASSUME TypeInv, NEW c \in Calls, Waiting(c), pc[c] \in DOMAIN After[Op(c)],
           Proceed(c), UNCHANGED request
    PROVE  /\ pc' \in [Calls -> {"idle", "begin"} \union Statements \union Ends]
           /\ Steps'
           /\ pc'[c] = After[Op(c)][pc[c]] /\ pc'[c] \in Statements
           /\ \A d \in Calls \ {c} : pc'[d] = pc[d]
<1>1. request[c] \in Asked
  BY DEF TypeInv, Steps
<1>2. /\ After[Op(c)][pc[c]] \in DOMAIN After[Op(c)] \union {"commit"}
      /\ After[Op(c)][pc[c]] \in Statements
  BY <1>1, Follows DEF Op
<1>3. /\ pc' \in [Calls -> {"idle", "begin"} \union Statements \union Ends]
      /\ pc'[c] = After[Op(c)][pc[c]]
      /\ \A d \in Calls \ {c} : pc'[d] = pc[d]
  BY <1>2 DEF TypeInv, TypeOK, Proceed
<1>4. Steps'
  BY <1>1, <1>2, <1>3 DEF TypeInv, Steps, Waiting, Op
<1> QED BY <1>2, <1>3, <1>4

LEMMA Taken ==
    ASSUME TypeInv, NEW c \in Calls, NEW rows \in SUBSET RowNames,
           \A row \in rows : Free(c, row), Takes(c, rows)
    PROVE  /\ held' \in [Calls -> SUBSET RowNames] /\ Exclusive'
           /\ held'[c] = held[c] \union rows
           /\ \A d \in Calls \ {c} : held'[d] = held[d]
<1>1. /\ held' \in [Calls -> SUBSET RowNames]
      /\ held'[c] = held[c] \union rows
      /\ \A d \in Calls \ {c} : held'[d] = held[d]
  BY DEF TypeInv, TypeOK, Takes
<1>2. Exclusive'
  BY <1>1 DEF TypeInv, Exclusive, Free
<1> QED BY <1>1, <1>2

LEMMA Dropped ==
    ASSUME TypeInv, NEW c \in Calls, NEW end \in Ends,
           pc' = [pc EXCEPT ![c] = end],
           held' = [held EXCEPT ![c] = {}], gone' = [gone EXCEPT ![c] = {}],
           UNCHANGED request
    PROVE  /\ pc' \in [Calls -> {"idle", "begin"} \union Statements \union Ends]
           /\ held' \in [Calls -> SUBSET RowNames] /\ gone' \in [Calls -> SUBSET RowNames]
           /\ Steps' /\ Exclusive' /\ Deleters'
           /\ pc'[c] = end /\ \A d \in Calls \ {c} : pc'[d] = pc[d]
<1>1. /\ pc' \in [Calls -> {"idle", "begin"} \union Statements \union Ends]
      /\ held' \in [Calls -> SUBSET RowNames] /\ gone' \in [Calls -> SUBSET RowNames]
      /\ pc'[c] = end /\ \A d \in Calls \ {c} : pc'[d] = pc[d]
      /\ held'[c] = {} /\ \A d \in Calls \ {c} : held'[d] = held[d]
      /\ gone'[c] = {} /\ \A d \in Calls \ {c} : gone'[d] = gone[d]
  BY DEF TypeInv, TypeOK
<1>2. Exclusive'
  BY <1>1 DEF TypeInv, Exclusive
<1>3. Deleters'
  BY <1>1 DEF TypeInv, Deleters, Op
<1>4. Steps'
  BY <1>1 DEF TypeInv, Steps, Waiting, Op, Statements, Ends
<1> QED BY <1>1, <1>2, <1>3, <1>4

(* What a statement may lock or delete are rows.                           *)
LEMMA DoomedRows ==
    ASSUME TypeInv, NEW c \in Calls, Waiting(c)
    PROVE  /\ Doomed(c) \subseteq RowNames
           /\ \A row \in Doomed(c) :
                row[1] \in {"account", "key"} => Op(c) = "reset" /\ pc[c] \in Statements
<1>1. request[c] \in Asked /\ pc[c] \in DOMAIN After[Op(c)] \union {"commit"}
  BY DEF TypeInv, Steps
<1>2. pc[c] \in {"delete_keys", "delete_locks"} => Op(c) = "reset" /\ pc[c] \in Statements
  BY <1>1, Orders DEF Op, Statements
<1>3. \A i \in DOMAIN charges : i \in Nat
  BY DEF TypeInv, TypeOK
<1>4. CASE pc[c] \in {"prune", "delete_charges"}
  <2>1. Visible(c) \subseteq Nat /\ Mine(c) \subseteq Nat /\ Expired(c) \subseteq Nat
    BY <1>3 DEF Expired, Mine, Visible
  <2>2. \A row \in Doomed(c) : \E i \in Nat : row = <<"charge", i>>
    BY <1>4, <2>1 DEF Doomed, Row
  <2> QED BY <2>2 DEF RowNames
<1>5. CASE pc[c] = "delete_keys"
  BY <1>2, <1>5 DEF Doomed, Row, RowNames
<1>6. CASE pc[c] = "delete_tasks"
  BY <1>6 DEF Doomed, Row, RowNames
<1>7. CASE pc[c] = "delete_locks"
  BY <1>2, <1>7 DEF Doomed, Row, RowNames, TypeInv, TypeOK
<1>8. CASE pc[c] \notin {"prune", "delete_charges", "delete_keys", "delete_tasks",
                         "delete_locks"}
  BY <1>8 DEF Doomed
<1> QED BY <1>4, <1>5, <1>6, <1>7, <1>8

LEMMA WantedRows ==
    ASSUME TypeInv, NEW c \in Calls, Waiting(c),
           pc[c] \in {"insert_lock", "lock", "update", "claim", "upsert", "set"}
    PROVE  Wanted(c) \subseteq RowNames
<1>1. request[c] \in Asked /\ pc[c] \in DOMAIN After[Op(c)]
  BY DEF TypeInv, Steps
<1>2. /\ pc[c] \in {"insert_lock", "lock"} => Account(c) \in Accounts
      /\ pc[c] = "claim" => request[c].key \in Keys
      /\ pc[c] \in {"upsert", "set"} => request[c].task \in Tasks
  BY <1>1, Orders, Fields DEF Op, Account, Charging
<1>3. charge[c] \in Nat
  BY DEF TypeInv, TypeOK
<1> QED BY <1>2, <1>3 DEF Wanted, Row, RowNames

-----------------------------------------------------------------------------
(* Type correctness.                                                       *)
LEMMA InitTyped == Init => TypeInv
<1> SUFFICES ASSUME Init PROVE TypeInv
  OBVIOUS
<1>d. closed \in BOOLEAN /\ clock \in 0..MaxClock
  <2>1. closed \in BOOLEAN
    BY Zenon DEF Init
  <2> QED BY <2>1, PostgresAssumption DEF Init
<1>e. 0 \in 0..MaxClock
  BY PostgresAssumption
<1>a. CallsOK
  BY <1>d, <1>e DEF Init, CallsOK, None
<1>b. TablesOK
  BY PostgresAssumption DEF Init, TablesOK
<1>c. HistoryOK
  BY PostgresAssumption DEF Init, HistoryOK
<1>1. TypeOK
  BY <1>a, <1>b, <1>c, TypeParts
<1>2. Steps /\ Exclusive /\ Deleters /\ Numbered
  BY DEF Init, Steps, Waiting, Exclusive, Deleters, Numbered, Statements
<1> QED BY <1>1, <1>2 DEF TypeInv

(* What a commit leaves in the tables.                                     *)
LEMMA CommitTyped ==
    ASSUME TypeInv, NEW c \in Calls, Commit(c), request[c] \in Asked, pc[c] = "commit",
           Op(c) = "reserve" => charge[c] \in 1..lastId
    PROVE  TablesOK' /\ HistoryOK'
<1>a. TypeOK /\ lastId' = lastId
  BY DEF TypeInv, Commit
<1>1. Left(c) \subseteq DOMAIN charges
  BY DEF Left
<1>2. Op(c) \in Charging => Account(c) \in Accounts /\ request[c].cost \in Nat
                            /\ request[c].actual \in Nat
  BY Fields DEF Op, Account
<1>3. Op(c) \in {"create", "status"} => request[c].status \in {"ACCEPTED", "RUNNING"}
  BY Fields DEF Op
<1>4. DOMAIN charges' \subseteq 1..lastId' /\ charges' \in [DOMAIN charges' -> ChargeRows]
  <2> DEFINE r == request[c]
             new == IF r.op = "reserve" THEN {charge[c]} ELSE {}
             value(i) == IF i \in new
                         THEN [account |-> r.account, amount |-> r.cost, ts |-> at[c]]
                         ELSE IF r.op = "settle" /\ i = charge[c]
                              THEN [charges[i] EXCEPT !.amount = r.actual] ELSE charges[i]
  <2>1. charges' = [i \in Left(c) \union new |-> value(i)]
    BY DEF Commit, ChargesAfter
  <2>2. new \subseteq 1..lastId
    BY DEF Op
  <2>3. ASSUME NEW i \in Left(c) \union new PROVE value(i) \in ChargeRows
    <3>1. CASE i \in new
      BY <1>a, <1>2, <3>1 DEF Op, Account, Charging, ChargeRows, TypeOK
    <3>2. CASE i \notin new
      <4>1. charges[i] \in ChargeRows
        BY <1>a, <1>1, <2>3, <3>2 DEF TypeOK
      <4> QED BY <1>2, <3>2, <4>1 DEF Op, Charging, ChargeRows
    <3> QED BY <3>1, <3>2
  <2> HIDE DEF new, value
  <2> QED BY <1>a, <1>1, <2>1, <2>2, <2>3 DEF TypeOK
<1>5. accountLocks' \subseteq Accounts
  BY DEF Commit, LocksAfter
<1>6. idempotency' \in [Keys -> Calls \union {Null}]
  BY <1>a DEF Commit, KeysAfter, TypeOK
<1>7. tasks' \in [Tasks -> {"ACCEPTED", "RUNNING", Null}]
  BY <1>a, <1>3 DEF Commit, TasksAfter, TypeOK
<1>8. DOMAIN pruned' \subseteq 1..lastId' /\ pruned' \in [DOMAIN pruned' -> ChargeRows]
  <2> DEFINE out == IF Op(c) \in Charging THEN DOMAIN charges \ Left(c) ELSE {}
  <2>1. pruned' = [i \in DOMAIN pruned \union out |->
                     IF i \in out THEN charges[i] ELSE pruned[i]]
    BY DEF Commit, PrunedAfter
  <2>2. out \subseteq DOMAIN charges
    OBVIOUS
  <2> HIDE DEF out
  <2> QED BY <1>a, <2>1, <2>2 DEF TypeOK
<1>9. disturbed' \subseteq Accounts \union {Everything} /\ caught' \subseteq Calls
  <2>1. Disturbs(c) \subseteq Accounts \union {Everything}
    BY Fields DEF Disturbs, Op, Account
  <2> QED BY <1>a, <2>1 DEF Commit, TypeOK, InTransaction
<1> QED BY <1>a, <1>4, <1>5, <1>6, <1>7, <1>8, <1>9 DEF TablesOK, HistoryOK, TypeOK

LEMMA StepTyped == TypeInv /\ [Next]_vars => TypeInv'
<1> SUFFICES ASSUME TypeInv, [Next]_vars PROVE TypeInv'
  OBVIOUS
<1>a. TypeOK /\ Steps /\ Exclusive /\ Deleters /\ Numbered
  BY DEF TypeInv
<1>1. ASSUME NEW c \in Calls, Enter(c) PROVE TypeInv'
  <2>1. PICK r \in Requests[c] : request' = [request EXCEPT ![c] = r]
    BY <1>1 DEF Enter
  <2>2. r \in Asked
    BY PostgresAssumption
  <2>3. TypeOK'
    BY <1>a, <1>1, <2>1, <2>2 DEF Enter, TypeOK, lockVars, tables, history
  <2>4. \A s \in Asked : "begin" \in DOMAIN After[s.op]
    BY DEF Asked, Charging, After, ReserveSteps, SettleSteps, BalanceSteps, RegisterSteps,
           ResetAccountSteps, ResetSteps
  <2>5. Steps'
    BY <1>a, <1>1, <2>1, <2>2, <2>4 DEF Enter, Steps, Waiting, Op, TypeOK
  <2>6. Exclusive' /\ Deleters' /\ Numbered'
    BY <1>a, <1>1, <2>1 DEF Enter, Exclusive, Deleters, Numbered, Op, TypeOK, lockVars,
                            Statements
  <2> QED BY <2>3, <2>5, <2>6 DEF TypeInv
<1>2. ASSUME NEW c \in Calls, Borrow(c) PROVE TypeInv'
  <2>1. request[c] \in Asked /\ pc[c] \in DOMAIN After[Op(c)] /\ Waiting(c)
    BY <1>a, <1>2 DEF Borrow, Steps, Waiting
  <2>2. /\ pc' \in [Calls -> {"idle", "begin"} \union Statements \union Ends]
        /\ Steps' /\ pc'[c] = After[Op(c)][pc[c]] /\ pc'[c] \in Statements
        /\ \A d \in Calls \ {c} : pc'[d] = pc[d]
    BY <1>2, <2>1, Proceeds DEF Borrow, txVars
  <2>3. TypeOK'
    BY <1>a, <1>2, <2>2 DEF Borrow, TypeOK, txVars, lockVars, tables, history
  <2>4. Op(c) = "reserve" => After[Op(c)][pc[c]] # "commit"
    BY <1>2, <2>1, Orders DEF Borrow, Op
  <2>5. Exclusive' /\ Deleters' /\ Numbered'
    BY <1>a, <1>2, <2>2, <2>4 DEF Borrow, Exclusive, Deleters, Numbered, Op, TypeOK, txVars,
                            lockVars, Ends, Statements
  <2> QED BY <2>2, <2>3, <2>5 DEF TypeInv
<1>3. ASSUME NEW c \in Calls, BorrowRaises(c) PROVE TypeInv'
  <2>1. TypeOK'
    BY <1>a, <1>3 DEF BorrowRaises, TypeOK, txVars, lockVars, tables, history, Ends
  <2>2. Steps' /\ Exclusive' /\ Deleters' /\ Numbered'
    BY <1>a, <1>3 DEF BorrowRaises, Steps, Waiting, Exclusive, Deleters, Numbered, Op, TypeOK,
                      txVars, lockVars, Statements
  <2> QED BY <2>1, <2>2 DEF TypeInv
<1>4. ASSUME NEW c \in Calls, TransactionFails(c) \/ DeadlockDetected(c) PROVE TypeInv'
  <2>1. RolledBack(c) /\ UNCHANGED <<txVars, tables, lastId, closed, clock, history>>
    BY <1>4 DEF TransactionFails, DeadlockDetected
  <2>2. /\ pc' \in [Calls -> {"idle", "begin"} \union Statements \union Ends]
        /\ held' \in [Calls -> SUBSET RowNames] /\ gone' \in [Calls -> SUBSET RowNames]
        /\ Steps' /\ Exclusive' /\ Deleters'
        /\ pc'[c] = "raised" /\ \A d \in Calls \ {c} : pc'[d] = pc[d]
    BY <2>1, Dropped DEF RolledBack, txVars, Ends
  <2>3. CallsOK'
    BY <1>a, <2>1, <2>2 DEF RolledBack, TypeOK, CallsOK, txVars
  <2>4. TypeOK'
    BY <1>a, <2>1, <2>3, SameTables, TypePartsNext
  <2>5. Numbered'
    BY <1>a, <2>1, <2>2 DEF Numbered, Op, txVars
  <2> QED BY <2>2, <2>4, <2>5 DEF TypeInv
<1>5. ASSUME Close \/ Tick \/ Quiesced \/ UNCHANGED vars PROVE TypeInv'
  <2>1. UNCHANGED <<pc, txVars, lockVars, tables, lastId, history>>
    BY <1>5 DEF Close, Tick, Quiesced, vars
  <2>2. closed' \in BOOLEAN /\ clock' \in 0..MaxClock
    <3>1. closed' = TRUE \/ closed' = closed
      BY <1>5 DEF Close, Tick, Quiesced, vars
    <3>2. closed \in BOOLEAN
      BY <1>a DEF TypeOK
    <3>3. closed' \in BOOLEAN
      BY <3>1, <3>2, Zenon
    <3>4. clock' = clock \/ (clock < MaxClock /\ clock' = clock + 1)
      BY <1>5 DEF Close, Tick, Quiesced, vars
    <3>5. clock' \in 0..MaxClock
      BY <1>a, <3>4, PostgresAssumption DEF TypeOK
    <3> QED BY <3>3, <3>5
  <2>3. CallsOK'
    BY <1>a, <2>1, <2>2 DEF TypeOK, CallsOK, txVars, lockVars
  <2>4. TypeOK'
    BY <1>a, <2>1, <2>3, SameTables, TypePartsNext
  <2>5. Steps' /\ Exclusive' /\ Deleters' /\ Numbered'
    BY <1>a, <2>1 DEF Steps, Waiting, Exclusive, Deleters, Numbered, Op, txVars, lockVars
  <2> QED BY <2>4, <2>5 DEF TypeInv
<1>6. ASSUME NEW c \in Calls, InsertLock(c) \/ Lock(c) \/ Update(c) \/ Claim(c) \/ Upsert(c)
      PROVE TypeInv'
  <2>1. pc[c] \in {"insert_lock", "lock", "update", "claim", "upsert", "set"}
    BY <1>6 DEF InsertLock, Lock, Update, Claim, Upsert
  <2>2. /\ Waiting(c) /\ request[c] \in Asked /\ pc[c] \in DOMAIN After[Op(c)]
    BY <1>a, <2>1 DEF Steps, Waiting, Statements
  <2>3. /\ Takes(c, Wanted(c)) /\ \A row \in Wanted(c) : Free(c, row)
        /\ UNCHANGED <<gone, matched, request, at, counted, tables, lastId, closed, clock,
                       history>>
    BY <1>6 DEF InsertLock, Lock, LockRow, Update, Claim, Upsert, txVars
  <2>4. /\ held' \in [Calls -> SUBSET RowNames] /\ Exclusive'
    BY <2>1, <2>2, <2>3, WantedRows, Taken
  <2>5. Proceed(c) \/ (pc' = [pc EXCEPT ![c] = "commit"] /\ pc[c] = "claim")
    BY <1>6, Zenon DEF InsertLock, Lock, Update, Claim, Upsert
  <2>6. /\ pc' \in [Calls -> {"idle", "begin"} \union Statements \union Ends]
        /\ Steps' /\ pc'[c] \in Statements
        /\ \A d \in Calls \ {c} : pc'[d] = pc[d]
    <3>1. CASE Proceed(c)
      BY <2>2, <2>3, <3>1, Proceeds
    <3>2. CASE pc' = [pc EXCEPT ![c] = "commit"]
      BY <1>a, <2>2, <2>3, <3>2 DEF TypeOK, Steps, Waiting, Op, Statements
    <3> QED BY <2>5, <3>1, <3>2
  <2>7. charge' \in [Calls -> Nat] /\ \A d \in Calls \ {c} : charge'[d] = charge[d]
    BY <1>a, <1>6 DEF InsertLock, Lock, Update, Claim, Upsert, txVars, TypeOK, None
  <2>8. TypeOK'
    <3>1. CallsOK'
      BY <1>a, <2>3, <2>4, <2>6, <2>7 DEF TypeOK, CallsOK
    <3> QED BY <1>a, <2>3, <3>1, SameTables, TypePartsNext
  <2>9. Op(c) = "reserve" => pc'[c] # "commit"
    <3>1. Op(c) = "reserve" => After[Op(c)][pc[c]] # "commit" /\ pc[c] # "claim"
      BY <2>1, <2>2, Orders DEF Op
    <3> QED BY <1>a, <2>5, <3>1 DEF TypeOK, Proceed
  <2>10. Deleters' /\ Numbered'
    BY <1>a, <2>2, <2>3, <2>6, <2>7, <2>9 DEF Deleters, Numbered, Op, Waiting, Statements, Ends
  <2> QED BY <2>4, <2>6, <2>8, <2>10 DEF TypeInv
<1>7. ASSUME NEW c \in Calls, DeleteStarts(c) PROVE TypeInv'
  <2>1. /\ UNCHANGED <<txVars, held, gone, tables, lastId, closed, clock, history>>
        /\ matched' = [matched EXCEPT ![c] = Doomed(c)]
        /\ Proceed(c) \/ UNCHANGED pc
        /\ pc[c] \in Statements /\ pc[c] # "insert" /\ pc[c] # "commit"
    BY <1>7 DEF DeleteStarts, Deleting, Statements
  <2>2. Waiting(c) /\ request[c] \in Asked /\ pc[c] \in DOMAIN After[Op(c)]
    BY <1>a, <2>1 DEF Steps, Waiting
  <2>3. /\ pc' \in [Calls -> {"idle", "begin"} \union Statements \union Ends]
        /\ Steps' /\ pc'[c] \in Statements
        /\ \A d \in Calls \ {c} : pc'[d] = pc[d]
    BY <1>a, <2>1, <2>2, Proceeds DEF txVars, TypeOK, Steps, Waiting, Op
  <2>4. matched' \in [Calls -> SUBSET RowNames]
    BY <1>a, <2>1, <2>2, DoomedRows DEF TypeOK
  <2>5. CallsOK'
    BY <1>a, <2>1, <2>3, <2>4 DEF TypeOK, CallsOK, txVars
  <2>6. TypeOK'
    BY <1>a, <2>1, <2>5, SameTables, TypePartsNext
  <2>7. Op(c) = "reserve" => pc'[c] # "commit"
    <3>1. Op(c) = "reserve" => After[Op(c)][pc[c]] # "commit" /\ pc[c] # "claim"
      BY <2>1, <2>2, Orders DEF Op
    <3> QED BY <1>a, <2>1, <3>1 DEF TypeOK, Proceed
  <2>8. Exclusive' /\ Deleters' /\ Numbered'
    BY <1>a, <2>1, <2>2, <2>3, <2>7 DEF Exclusive, Deleters, Numbered, Op, txVars, Statements,
                                       Ends
  <2> QED BY <2>3, <2>6, <2>8 DEF TypeInv
<1>10. ASSUME NEW c \in Calls, DeleteRow(c) PROVE TypeInv'
  <2>1. PICK row \in FirstOf(matched[c]) :
          /\ Free(c, row)
          /\ matched' = [matched EXCEPT ![c] = @ \ {row}]
          /\ LET deleted == {row} \cap Doomed(c)
             IN Takes(c, deleted) /\ gone' = [gone EXCEPT ![c] = @ \union deleted]
          /\ Proceed(c) \/ UNCHANGED pc
    BY <1>10 DEF DeleteRow
  <2>2. /\ UNCHANGED <<txVars, tables, lastId, closed, clock, history>>
        /\ pc[c] \in {"prune", "delete_charges", "delete_keys", "delete_tasks", "delete_locks"}
    BY <1>10 DEF DeleteRow, Deleting
  <2>3. pc[c] \in Statements /\ pc[c] # "insert" /\ pc[c] # "commit"
    BY <2>2 DEF Statements
  <2>4. Waiting(c) /\ request[c] \in Asked /\ pc[c] \in DOMAIN After[Op(c)]
    BY <1>a, <2>3 DEF Steps, Waiting
  <2>5. /\ pc' \in [Calls -> {"idle", "begin"} \union Statements \union Ends]
        /\ Steps' /\ pc'[c] \in Statements
        /\ \A d \in Calls \ {c} : pc'[d] = pc[d]
    BY <1>a, <2>1, <2>2, <2>3, <2>4, Proceeds DEF txVars, TypeOK, Steps, Waiting, Op
  <2> DEFINE deleted == {row} \cap Doomed(c)
  <2>6. /\ deleted \in SUBSET RowNames /\ \A x \in deleted : Free(c, x)
        /\ \A x \in deleted :
             x[1] \in {"account", "key"} => Op(c) = "reset" /\ pc[c] \in Statements
    BY <2>1, <2>4, DoomedRows
  <2>7. Takes(c, deleted) /\ gone' = [gone EXCEPT ![c] = @ \union deleted]
    BY <2>1
  <2> HIDE DEF deleted
  <2>8. held' \in [Calls -> SUBSET RowNames] /\ Exclusive'
    BY <2>6, <2>7, Taken
  <2>9. /\ gone' \in [Calls -> SUBSET RowNames] /\ matched' \in [Calls -> SUBSET RowNames]
        /\ gone'[c] = gone[c] \union deleted /\ \A d \in Calls \ {c} : gone'[d] = gone[d]
    BY <1>a, <2>1, <2>6, <2>7 DEF TypeOK
  <2>10. CallsOK'
    BY <1>a, <2>2, <2>5, <2>8, <2>9 DEF TypeOK, CallsOK, txVars
  <2>11. TypeOK'
    BY <1>a, <2>2, <2>10, SameTables, TypePartsNext
  <2>12. Op(c) = "reserve" => pc'[c] # "commit"
    <3>1. Op(c) = "reserve" => After[Op(c)][pc[c]] # "commit" /\ pc[c] # "claim"
      BY <2>2, <2>3, <2>4, Orders DEF Op
    <3> QED BY <1>a, <2>1, <2>3, <3>1 DEF TypeOK, Proceed
  <2>13. Deleters' /\ Numbered'
    BY <1>a, <2>2, <2>5, <2>6, <2>9, <2>12 DEF Deleters, Numbered, Op, txVars, Statements, Ends
  <2> QED BY <2>5, <2>8, <2>11, <2>13 DEF TypeInv
<1>8. ASSUME NEW c \in Calls, Sum(c) \/ Find(c) \/ Select(c) \/ Insert(c) PROVE TypeInv'
  <2>1. /\ pc[c] \in {"sum", "find", "select", "insert"} /\ Proceed(c)
        /\ UNCHANGED <<request, at, held, gone, matched, tables, closed, clock, history>>
    BY <1>8, Zenon DEF Sum, Find, Select, Insert, lockVars
  <2>2. Waiting(c) /\ request[c] \in Asked /\ pc[c] \in DOMAIN After[Op(c)]
    BY <1>a, <2>1 DEF Steps, Waiting, Statements
  <2>3. /\ pc' \in [Calls -> {"idle", "begin"} \union Statements \union Ends]
        /\ Steps' /\ pc'[c] \in Statements /\ pc'[c] = After[Op(c)][pc[c]]
        /\ \A d \in Calls \ {c} : pc'[d] = pc[d]
    BY <2>1, <2>2, Proceeds
  <2>4. \A i \in DOMAIN charges : i \in Nat
    BY <1>a DEF TypeOK
  <2>5. Mine(c) \in SUBSET Nat
    BY <2>4 DEF Mine, Visible
  <2>6. Found(c) \subseteq Nat
    BY <2>5 DEF Found, Same, None
  <2>7. counted' \in [Calls -> SUBSET Nat] /\ charge' \in [Calls -> Nat] /\ lastId' \in Nat
    <3>1. CASE Sum(c)
      <4>1. counted' = [counted EXCEPT ![c] = Mine(c)] /\ UNCHANGED <<charge, lastId>>
        BY <3>1 DEF Sum
      <4> QED BY <1>a, <2>5, <4>1 DEF TypeOK
    <3>2. CASE Find(c)
      BY <1>a, <2>6, <3>2 DEF Find, TypeOK
    <3>3. CASE Select(c)
      BY <1>a, <3>3 DEF Select, TypeOK
    <3>4. CASE Insert(c)
      BY <1>a, <3>4 DEF Insert, TypeOK
    <3> QED BY <1>8, <3>1, <3>2, <3>3, <3>4
  <2>8. /\ lastId' >= lastId
        /\ \A d \in Calls \ {c} : charge'[d] = charge[d]
        /\ Op(c) = "reserve" /\ pc'[c] = "commit" => charge'[c] = lastId' /\ lastId' = lastId + 1
    <3>1. Op(c) = "reserve" /\ pc'[c] = "commit" => pc[c] = "insert"
      BY <2>2, <2>3, Orders DEF Op
    <3>2. CASE Insert(c)
      BY <1>a, <3>2 DEF Insert, TypeOK
    <3>3. CASE Sum(c)
      BY <1>a, <3>1, <3>3 DEF Sum, TypeOK
    <3>4. CASE Find(c)
      BY <1>a, <3>1, <3>4 DEF Find, TypeOK
    <3>5. CASE Select(c)
      BY <1>a, <3>1, <3>5 DEF Select, TypeOK
    <3> QED BY <1>8, <3>2, <3>3, <3>4, <3>5
  <2>9. CallsOK'
    BY <1>a, <2>1, <2>3, <2>7 DEF TypeOK, CallsOK
  <2>10. TablesOK'
    BY <1>a, <2>1, <2>7, <2>8 DEF TypeOK, TablesOK, tables
  <2>11. HistoryOK'
    BY <1>a, <2>1, <2>7, <2>8 DEF TypeOK, HistoryOK, history
  <2>12. Exclusive' /\ Deleters'
    BY <1>a, <2>1, <2>2, <2>3 DEF Exclusive, Deleters, Op, TypeOK
  <2>13. Numbered'
    BY <1>a, <2>1, <2>2, <2>3, <2>7, <2>8 DEF Numbered, Op, Statements, TypeOK
  <2> QED BY <2>3, <2>9, <2>10, <2>11, <2>12, <2>13, TypePartsNext DEF TypeInv
<1>9. ASSUME NEW c \in Calls, Commit(c) PROVE TypeInv'
  <2>1. PICK end \in Ends : pc' = [pc EXCEPT ![c] = end]
    BY <1>9 DEF Commit, Outcomes, Ends
  <2>2. /\ held' = [held EXCEPT ![c] = {}] /\ gone' = [gone EXCEPT ![c] = {}]
        /\ UNCHANGED <<txVars, matched, lastId, closed, clock>>
    BY <1>9 DEF Commit
  <2>3. /\ pc' \in [Calls -> {"idle", "begin"} \union Statements \union Ends]
        /\ held' \in [Calls -> SUBSET RowNames] /\ gone' \in [Calls -> SUBSET RowNames]
        /\ Steps' /\ Exclusive' /\ Deleters'
        /\ pc'[c] = end /\ \A d \in Calls \ {c} : pc'[d] = pc[d]
    BY <2>1, <2>2, Dropped DEF txVars
  <2>4. pc[c] = "commit" /\ request[c] \in Asked
    BY <1>a, <1>9 DEF Commit, Steps, Waiting, Statements
  <2>5. Op(c) = "reserve" => charge[c] \in 1..lastId
    BY <1>a, <2>4 DEF Numbered
  <2>6. CallsOK'
    BY <1>a, <2>2, <2>3 DEF TypeOK, CallsOK, txVars
  <2>7. TablesOK' /\ HistoryOK'
    BY <1>9, <2>4, <2>5, CommitTyped
  <2>8. Numbered'
    BY <1>a, <2>2, <2>3, <2>4 DEF Numbered, Op, txVars
  <2> QED BY <2>3, <2>6, <2>7, <2>8, TypePartsNext DEF TypeInv
<1> QED BY <1>1, <1>2, <1>3, <1>4, <1>5, <1>6, <1>7, <1>8, <1>9, <1>10 DEF Next, Statement

THEOREM PostgresTypes == Spec => []TypeOK
<1>1. Init => TypeInv
  BY InitTyped
<1>2. TypeInv /\ [Next]_vars => TypeInv'
  BY StepTyped
<1>3. TypeInv => TypeOK
  BY DEF TypeInv
<1> QED BY <1>1, <1>2, <1>3, PTL DEF Spec

-----------------------------------------------------------------------------
(* Why reservations serialize: who was not under way when everything was   *)
(* reset holds the lock row of its account from the statement after "lock" *)
(* to its commit, and so has counted every reservation that is in the      *)
(* table when it commits, or has deleted it as expired.                    *)
LockOf(c) == Row("account", Account(c))
Reserving(c) == Op(c) = "reserve"
Guarded == {"prune", "sum", "insert", "commit"}

Locked ==
    \A c \in Calls \ caught : Reserving(c) =>
        /\ pc[c] = "lock" => LockOf(c) \in held[c] \/ Account(c) \in accountLocks
        /\ pc[c] \in Guarded => LockOf(c) \in held[c]

Distinct ==
    \A c, d \in Calls :
        /\ c # d /\ Reserving(c) /\ Reserving(d)
        /\ pc[c] \in {"commit"} \union Committed /\ pc[d] \in {"commit"} \union Committed
        => charge[c] # charge[d]

OwnCharge == \A c \in Calls : Reserved(c) => charges[charge[c]].account = Account(c)

Counts(c, d) == charge[d] \in counted[c] \/ Row("charge", charge[d]) \in gone[c]

Counting ==
    \A c, d \in Calls \ caught :
        /\ c # d /\ Reserving(c) /\ Reserved(d) /\ Account(c) = Account(d)
        /\ pc[c] \in {"insert", "commit"}
        => Counts(c, d)

(* The row that a claim ran into is there until everything is reset.       *)
Claimed ==
    \A c \in Calls \ caught :
        Op(c) = "register" /\ pc[c] = "select" => idempotency[request[c].key] # Null

SerialInv ==
    Locked /\ Distinct /\ OwnCharge /\ Counting /\ Serialized /\ Claimed /\ AssertionHolds

(* A step of one call that writes no table: what there is to show of it.   *)
LEMMA Local ==
    ASSUME TypeInv, SerialInv, NEW e \in Calls,
           UNCHANGED <<charges, accountLocks, idempotency, caught>>,
           \A d \in Calls \ {e} : /\ pc'[d] = pc[d] /\ request'[d] = request[d]
                                  /\ charge'[d] = charge[d] /\ counted'[d] = counted[d]
                                  /\ gone'[d] = gone[d] /\ held'[d] = held[d]
                                  /\ answer'[d] = answer[d],
           pc'[e] \notin Committed,
           e \notin caught /\ Reserving(e)' =>
             /\ pc'[e] = "lock" => LockOf(e)' \in held'[e] \/ Account(e)' \in accountLocks
             /\ pc'[e] \in Guarded => LockOf(e)' \in held'[e]
             /\ pc'[e] \in {"insert", "commit"} =>
                  \A d \in Calls \ (caught \union {e}) :
                      Reserved(d) /\ Account(e)' = Account(d) =>
                          charge[d] \in counted'[e] \/ Row("charge", charge[d]) \in gone'[e],
           Reserving(e)' /\ pc'[e] = "commit" =>
             \A d \in Calls \ {e} :
                 Reserving(d) /\ pc[d] \in {"commit"} \union Committed => charge'[e] # charge[d],
           e \notin caught /\ Op(e)' = "register" =>
             /\ pc'[e] = "select" => idempotency[request'[e].key] # Null
             /\ pc'[e] = "commit" => answer'[e] # NoAnswer
    PROVE  SerialInv'
<1>a. Locked /\ Distinct /\ OwnCharge /\ Counting /\ Serialized /\ Claimed /\ AssertionHolds
  BY DEF SerialInv
<1>1. Locked'
  BY <1>a DEF Locked, Reserving, LockOf, Account, Op, Row
<1>2. Distinct'
  <2> SUFFICES ASSUME NEW c \in Calls, NEW d \in Calls,
                      c # d, Reserving(c)', Reserving(d)',
                      pc'[c] \in {"commit"} \union Committed, pc'[d] \in {"commit"} \union Committed
               PROVE  charge'[c] # charge'[d]
    BY DEF Distinct
  <2>1. CASE c = e
    BY <2>1 DEF Reserving, Op
  <2>2. CASE d = e
    BY <2>2 DEF Reserving, Op
  <2>3. CASE c # e /\ d # e
    BY <1>a, <2>3 DEF Distinct, Reserving, Op
  <2> QED BY <2>1, <2>2, <2>3
<1>3. \A d \in Calls : Reserved(d)' => d # e /\ Reserved(d) /\ Account(d)' = Account(d)
                                       /\ charge'[d] = charge[d] /\ counted'[d] = counted[d]
  BY DEF Reserved, Op, Account
<1>4. OwnCharge'
  BY <1>a, <1>3 DEF OwnCharge
<1>5. Counting'
  <2> SUFFICES ASSUME NEW c \in Calls \ caught, NEW d \in Calls \ caught,
                      c # d, Reserving(c)', Reserved(d)', Account(c)' = Account(d)',
                      pc'[c] \in {"insert", "commit"}
               PROVE  Counts(c, d)'
    BY DEF Counting
  <2>1. d # e /\ Reserved(d) /\ Account(d)' = Account(d) /\ charge'[d] = charge[d]
    BY <1>3
  <2>2. CASE c = e
    BY <2>1, <2>2 DEF Counts, Row
  <2>3. CASE c # e
    BY <1>a, <2>1, <2>3 DEF Counting, Counts, Reserving, Op, Account, Row
  <2> QED BY <2>2, <2>3
<1>6. Serialized'
  <2> SUFFICES ASSUME NEW c \in Calls \ caught, NEW d \in Calls \ caught,
                      c # d, Reserved(c)', Reserved(d)', Account(c)' = Account(d)'
               PROVE  (charge[c] \in counted[d] \/ charge[d] \in counted[c])'
    BY DEF Serialized
  <2> QED BY <1>a, <1>3 DEF Serialized
<1>7. Claimed'
  BY <1>a DEF Claimed, Op
<1>8. AssertionHolds'
  BY <1>a DEF AssertionHolds, Op
<1> QED BY <1>1, <1>2, <1>4, <1>5, <1>6, <1>7, <1>8 DEF SerialInv

(* A commit: charges leave the table, or the one of the call enters it.    *)
LEMMA CommitSerial ==
    ASSUME TypeInv, SerialInv, NEW e \in Calls, Commit(e)
    PROVE  SerialInv'
<1>a. /\ Locked /\ Distinct /\ OwnCharge /\ Counting /\ Serialized /\ Claimed /\ AssertionHolds
      /\ TypeOK /\ Deleters /\ Exclusive
  BY DEF SerialInv, TypeInv
<1>1. /\ pc[e] = "commit" /\ pc'[e] \in Ends
      /\ Reserving(e) => pc'[e] \in Committed
      /\ \A d \in Calls \ {e} : pc'[d] = pc[d] /\ held'[d] = held[d] /\ gone'[d] = gone[d]
      /\ UNCHANGED txVars
  BY <1>a DEF Commit, Outcomes, TypeOK, Ends, Reserving
<1>2. /\ caught \subseteq caught'
      /\ Op(e) = "reset" => \A d \in Calls \ caught' : pc[d] \notin Statements
  BY <1>a DEF Commit, TypeOK, InTransaction
<1>3. Op(e) # "reset" => /\ accountLocks \subseteq accountLocks'
                         /\ \A k \in Keys : Row("key", k) \notin gone[e]
  BY <1>a DEF Commit, LocksAfter, Deleters, Row, TypeOK
<1>4. ASSUME NEW d \in Calls \ {e}, Reserved(d)'
      PROVE  /\ Reserved(d) /\ charge[d] \in Left(e)
             /\ charges'[charge[d]].account = charges[charge[d]].account
  <2>1. pc[d] \in Committed /\ Reserving(d) /\ charge[d] \in DOMAIN charges'
    BY <1>1, <1>4 DEF Reserved, Reserving, Op, txVars
  <2>2. Reserving(e) => charge[e] # charge[d]
    BY <1>a, <1>1, <2>1 DEF Distinct
  <2>3. charges' = ChargesAfter(e)
    BY DEF Commit
  <2>4. charge[d] \in Left(e)
    BY <2>1, <2>2, <2>3 DEF ChargesAfter, Reserving, Op
  <2>5. charge[d] \in DOMAIN charges
    BY <2>4 DEF Left
  <2>6. charges[charge[d]] \in ChargeRows
    BY <1>a, <2>5 DEF TypeOK
  <2>7. charges'[charge[d]].account = charges[charge[d]].account
    BY <2>2, <2>3, <2>4, <2>6 DEF ChargesAfter, Reserving, Op, ChargeRows
  <2> QED BY <2>1, <2>4, <2>5, <2>7 DEF Reserved, Reserving
<1>5. Locked'
  <2> SUFFICES ASSUME NEW c \in Calls \ caught', Reserving(c)'
               PROVE  /\ pc'[c] = "lock" =>
                           LockOf(c)' \in held'[c] \/ Account(c)' \in accountLocks'
                      /\ pc'[c] \in Guarded => LockOf(c)' \in held'[c]
    BY DEF Locked
  <2>1. Reserving(c) /\ LockOf(c)' = LockOf(c) /\ Account(c)' = Account(c) /\ c \notin caught
    BY <1>1, <1>2 DEF Reserving, LockOf, Account, Op, txVars, Row
  <2>2. CASE c = e
    BY <1>1, <2>2 DEF Ends, Guarded
  <2>3. CASE c # e /\ Op(e) = "reset"
    BY <1>1, <1>2, <2>3 DEF Statements, Guarded
  <2>4. CASE c # e /\ Op(e) # "reset"
    BY <1>a, <1>1, <1>3, <2>1, <2>4 DEF Locked
  <2> QED BY <2>2, <2>3, <2>4
<1>6. Distinct'
  <2>1. \A c \in Calls : Reserving(c)' /\ pc'[c] \in {"commit"} \union Committed =>
                           Reserving(c) /\ pc[c] \in {"commit"} \union Committed
    BY <1>1 DEF Reserving, Op, txVars
  <2> QED BY <1>a, <1>1, <2>1 DEF Distinct, txVars
<1>7. OwnCharge'
  <2> SUFFICES ASSUME NEW c \in Calls, Reserved(c)'
               PROVE  charges'[charge'[c]].account = Account(c)'
    BY DEF OwnCharge
  <2>1. CASE c = e
    <3>1. Reserving(e) /\ charges' = ChargesAfter(e)
      BY <1>1, <2>1 DEF Reserved, Reserving, Op, txVars, Commit
    <3> QED BY <1>1, <2>1, <3>1 DEF ChargesAfter, Reserving, Op, Account, txVars
  <2>2. CASE c # e
    BY <1>a, <1>1, <1>4, <2>2 DEF OwnCharge, Account, txVars
  <2> QED BY <2>1, <2>2
<1>8. Counting'
  <2> SUFFICES ASSUME NEW c \in Calls \ caught', NEW d \in Calls \ caught',
                      c # d, Reserving(c)', Reserved(d)', Account(c)' = Account(d)',
                      pc'[c] \in {"insert", "commit"}
               PROVE  Counts(c, d)'
    BY DEF Counting
  <2>1. /\ c # e /\ pc[c] = pc'[c] /\ Reserving(c) /\ Account(c) = Account(d)
        /\ c \notin caught /\ d \notin caught
    BY <1>1, <1>2 DEF Ends, Reserving, Op, Account, txVars
  <2>2. CASE d = e
    <3>1. Reserving(e)
      BY <1>1, <2>2 DEF Reserved, Reserving, Op, txVars
    <3>2. LockOf(c) \in held[c] /\ LockOf(e) \in held[e] /\ LockOf(c) = LockOf(e)
      BY <1>a, <1>1, <2>1, <2>2, <3>1 DEF Locked, Guarded, LockOf
    <3> QED BY <1>a, <2>1, <3>2 DEF Exclusive
  <2>3. CASE d # e
    <3>1. Reserved(d)
      BY <1>4, <2>3
    <3>2. Counts(c, d)
      BY <1>a, <2>1, <3>1 DEF Counting
    <3> QED BY <1>1, <2>1, <3>2 DEF Counts, txVars
  <2> QED BY <2>2, <2>3
<1>9. ASSUME NEW d \in Calls \ caught, d # e, e \notin caught, Reserving(e), Reserved(d)',
             Account(e) = Account(d)
      PROVE  charge[d] \in counted[e]
  <2>1. Reserved(d) /\ charge[d] \in Left(e)
    BY <1>4, <1>9
  <2>2. Counts(e, d)
    BY <1>a, <1>1, <1>9, <2>1 DEF Counting
  <2> QED BY <2>1, <2>2 DEF Counts, Left
<1>10. Serialized'
  <2> SUFFICES ASSUME NEW c \in Calls \ caught', NEW d \in Calls \ caught',
                      c # d, Reserved(c)', Reserved(d)', Account(c)' = Account(d)'
               PROVE  charge[c] \in counted[d] \/ charge[d] \in counted[c]
    BY <1>1 DEF Serialized, txVars
  <2>1. /\ Account(c) = Account(d) /\ c \notin caught /\ d \notin caught
        /\ Reserving(c) /\ Reserving(d)
    BY <1>1, <1>2 DEF Account, txVars, Reserved, Reserving, Op
  <2>2. CASE c = e
    BY <1>9, <2>1, <2>2
  <2>3. CASE d = e
    BY <1>9, <2>1, <2>3
  <2>4. CASE c # e /\ d # e
    BY <1>a, <1>4, <2>1, <2>4 DEF Serialized
  <2> QED BY <2>2, <2>3, <2>4
<1>11. Claimed'
  <2> SUFFICES ASSUME NEW c \in Calls \ caught', Op(c)' = "register", pc'[c] = "select"
               PROVE  idempotency'[request'[c].key] # Null
    BY DEF Claimed
  <2>1. /\ c # e /\ pc[c] = "select" /\ Op(c) = "register" /\ c \notin caught
        /\ request'[c] = request[c]
    BY <1>1, <1>2 DEF Ends, Op, txVars
  <2>2. request[c] \in Asked /\ request[c].key \in Keys
    BY <2>1, Fields DEF TypeInv, Steps, Waiting, Statements, Op
  <2>3. Op(e) # "reset"
    BY <1>2, <2>1 DEF Statements
  <2>4. idempotency[request[c].key] # Null
    BY <1>a, <2>1 DEF Claimed
  <2>5. idempotency' = KeysAfter(e)
    BY DEF Commit
  <2> QED BY <1>3, <2>1, <2>2, <2>3, <2>4, <2>5, PostgresAssumption DEF KeysAfter
<1>12. AssertionHolds'
  BY <1>a, <1>1, <1>2 DEF AssertionHolds, Ends, Op, txVars
<1> QED BY <1>5, <1>6, <1>7, <1>8, <1>10, <1>11, <1>12 DEF SerialInv

LEMMA InitSerial == Init => SerialInv
BY DEF Init, SerialInv, Locked, Distinct, OwnCharge, Counting, Serialized, Claimed,
       AssertionHolds, Reserving, Reserved, Op, Guarded, NoRequest

(* Every call has a place for its answer.                                  *)
Answering == answer = [c \in Calls |-> answer[c]]

LEMMA StepAnswering == Answering /\ [Next]_vars => Answering'
<1> SUFFICES ASSUME Answering, [Next]_vars PROVE Answering'
  OBVIOUS
<1>1. answer' = answer \/ \E c, value : answer' = [answer EXCEPT ![c] = value]
  BY DEF Next, Statement, vars, txVars, Enter, Borrow, BorrowRaises, TransactionFails,
         DeadlockDetected, Close, Tick, Quiesced, InsertLock, Lock, DeleteStarts, DeleteRow, Sum,
         Insert, Find, Update, Claim, Select, Upsert, Commit
<1> QED BY <1>1 DEF Answering

(* The answers of a claim are not the absence of one.                      *)
LEMMA Answered ==
    ASSUME NEW task, NEW created
    PROVE  [task |-> task, created |-> created] # NoAnswer
<1>1. "task" \in DOMAIN [task |-> task, created |-> created]
  OBVIOUS
<1>2. "task" \notin DOMAIN NoAnswer
  BY DEF NoAnswer
<1> QED BY <1>1, <1>2

LEMMA StepSerial == TypeInv /\ Answering /\ SerialInv /\ [Next]_vars => SerialInv'
<1> SUFFICES ASSUME TypeInv, Answering, SerialInv, [Next]_vars PROVE SerialInv'
  OBVIOUS
<1>a. /\ Locked /\ Distinct /\ Counting /\ OwnCharge /\ Claimed /\ AssertionHolds
      /\ TypeOK /\ Steps /\ Numbered
  BY DEF SerialInv, TypeInv
<1>1. ASSUME NEW e \in Calls, Enter(e) PROVE SerialInv'
  BY <1>a, <1>1, Local DEF Enter, TypeOK, lockVars, tables, history, Guarded
<1>2. ASSUME NEW e \in Calls,
             BorrowRaises(e) \/ TransactionFails(e) \/ DeadlockDetected(e) PROVE SerialInv'
  <2>1. /\ pc' = [pc EXCEPT ![e] = "raised"]
        /\ \A d \in Calls \ {e} : held'[d] = held[d] /\ gone'[d] = gone[d]
        /\ UNCHANGED <<txVars, tables, history>>
    BY <1>a, <1>2 DEF BorrowRaises, TransactionFails, DeadlockDetected, RolledBack, lockVars,
                      TypeOK
  <2> QED BY <1>a, <2>1, Local DEF TypeOK, txVars, tables, history, Guarded
<1>3. ASSUME NEW e \in Calls, Borrow(e) PROVE SerialInv'
  <2>1. request[e] \in Asked /\ pc[e] \in DOMAIN After[Op(e)] /\ pc[e] = "begin"
    BY <1>a, <1>3 DEF Borrow, Steps, Waiting
  <2>2. pc'[e] = After[Op(e)][pc[e]]
    BY <1>a, <1>3 DEF Borrow, Proceed, TypeOK
  <2>3. /\ pc'[e] \notin {"lock", "select"} \union Committed
        /\ Reserving(e) => pc'[e] \notin Guarded
        /\ Op(e) = "register" => pc'[e] # "commit"
    <3>1. After[Op(e)][pc[e]] \in Statements
      BY <2>1, Follows DEF Op
    <3>2. /\ After[Op(e)][pc[e]] \notin {"lock"}
          /\ Op(e) = "register" => After[Op(e)][pc[e]] \notin {"select", "commit"}
          /\ Op(e) = "reserve" =>
               After[Op(e)][pc[e]] \notin {"prune", "sum", "insert", "commit"}
      BY <2>1, Orders DEF Op
    <3>3. After[Op(e)][pc[e]] = "select" => Op(e) = "register"
      BY <2>1, Follows, Orders DEF Op
    <3> QED BY <2>2, <3>1, <3>2, <3>3 DEF Reserving, Guarded, Statements
  <2> QED BY <1>a, <1>3, <2>3, Local DEF Borrow, Proceed, TypeOK, txVars, lockVars, tables,
                                      history, Reserving, Op, Guarded
<1>4. ASSUME NEW e \in Calls, Statement(e), ~Commit(e) PROVE SerialInv'
  <2>1. pc[e] \in Statements /\ pc[e] # "commit" /\ request' = request
    BY <1>4 DEF Statement, InsertLock, Lock, DeleteStarts, DeleteRow, Sum, Insert, Find, Update,
                Claim, Select, Upsert, Deleting, Statements, txVars
  <2>2. request[e] \in Asked /\ pc[e] \in DOMAIN After[Op(e)]
    BY <1>a, <2>1 DEF Steps, Waiting
  <2>3. /\ Proceed(e) => pc'[e] = After[Op(e)][pc[e]] /\ \A d \in Calls \ {e} : pc'[d] = pc[d]
    BY <1>a DEF Proceed, TypeOK
  <2>4. /\ Op(e) = "reserve" =>
             /\ pc[e] = "insert_lock" => After[Op(e)][pc[e]] = "lock"
             /\ pc[e] = "lock" => After[Op(e)][pc[e]] = "prune"
             /\ pc[e] \in Deleting => pc[e] = "prune" /\ After[Op(e)][pc[e]] = "sum"
             /\ pc[e] = "sum" => After[Op(e)][pc[e]] = "insert"
             /\ pc[e] = "insert" => After[Op(e)][pc[e]] = "commit"
             /\ pc[e] \in {"insert_lock", "lock", "prune", "sum", "insert"}
        /\ Op(e) = "register" =>
             /\ pc[e] = "claim" => After[Op(e)][pc[e]] = "select"
             /\ pc[e] = "select" => After[Op(e)][pc[e]] = "commit"
             /\ pc[e] \in {"claim", "select"}
    BY <2>1, <2>2 DEF After, ReserveSteps, RegisterSteps, Deleting, Statements
  <2>5. After[Op(e)][pc[e]] \in Statements
    BY <2>2, Follows DEF Op
  <2>6. CASE InsertLock(e)
    <3>1. /\ pc[e] = "insert_lock" /\ Proceed(e) /\ Takes(e, Wanted(e))
          /\ UNCHANGED <<gone, txVars, tables, history>>
      BY <2>6 DEF InsertLock
    <3>2. Account(e) \in accountLocks \/ LockOf(e) \in Wanted(e)
      BY <3>1 DEF Wanted, LockOf
    <3>3. held'[e] = held[e] \union Wanted(e) /\ \A d \in Calls \ {e} : held'[d] = held[d]
      BY <1>a, <3>1 DEF Takes, TypeOK
    <3> QED BY <2>1, <2>3, <2>4, <2>5, <3>1, <3>2, <3>3, Local
            DEF txVars, tables, history, Reserving, LockOf, Account, Op, Guarded, Statements
  <2>7. CASE Lock(e)
    <3>1. /\ pc[e] = "lock" /\ Proceed(e) /\ Takes(e, Wanted(e))
          /\ UNCHANGED <<gone, txVars, tables, history>>
      BY <2>7 DEF Lock, LockRow
    <3>2. Account(e) \in accountLocks => LockOf(e) \in Wanted(e)
      BY <3>1 DEF Wanted, LockOf
    <3>3. held'[e] = held[e] \union Wanted(e) /\ \A d \in Calls \ {e} : held'[d] = held[d]
      BY <1>a, <3>1 DEF Takes, TypeOK
    <3>4. e \notin caught /\ Reserving(e) => LockOf(e) \in held'[e]
      BY <1>a, <3>1, <3>2, <3>3 DEF Locked
    <3> QED BY <2>1, <2>3, <2>4, <2>5, <3>1, <3>3, <3>4, Local
            DEF txVars, tables, history, Reserving, LockOf, Account, Op, Guarded, Statements
  <2>8. CASE DeleteStarts(e) \/ DeleteRow(e)
    <3>1. /\ pc[e] \in Deleting /\ (Proceed(e) \/ UNCHANGED pc)
          /\ UNCHANGED <<txVars, tables, history>>
      BY <2>8 DEF DeleteStarts, DeleteRow
    <3>2. /\ held[e] \subseteq held'[e]
          /\ \A d \in Calls \ {e} : held'[d] = held[d] /\ gone'[d] = gone[d]
      <4>1. CASE DeleteStarts(e)
        BY <4>1 DEF DeleteStarts
      <4>2. CASE DeleteRow(e)
        <5>1. PICK deleted : Takes(e, deleted) /\ gone' = [gone EXCEPT ![e] = @ \union deleted]
          BY <4>2 DEF DeleteRow
        <5> QED BY <1>a, <5>1 DEF Takes, TypeOK
      <4> QED BY <2>8, <4>1, <4>2
    <3>3. e \notin caught /\ Reserving(e) => LockOf(e) \in held'[e] /\ pc'[e] \in {"prune", "sum"}
      BY <1>a, <2>3, <2>4, <3>1, <3>2 DEF Locked, Guarded, Reserving
    <3>4. /\ \A d \in Calls \ {e} : pc'[d] = pc[d]
          /\ pc'[e] \in Statements /\ Op(e) # "register"
          /\ Reserving(e) => pc'[e] \in {"prune", "sum"}
      BY <2>1, <2>3, <2>4, <2>5, <3>1 DEF Deleting, Reserving
    <3> QED BY <2>1, <3>1, <3>2, <3>3, <3>4, Local
            DEF txVars, tables, history, Reserving, LockOf, Account, Op, Guarded, Statements
  <2>9. CASE Sum(e)
    <3>1. /\ pc[e] = "sum" /\ Proceed(e) /\ counted' = [counted EXCEPT ![e] = Mine(e)]
          /\ \A d \in Calls \ {e} : answer'[d] = answer[d]
          /\ UNCHANGED <<request, charge, lockVars, tables, history>>
      BY <2>9 DEF Sum, Answering
    <3>2. \A d \in Calls \ {e} : Reserved(d) /\ Account(e) = Account(d) =>
             charge[d] \in Mine(e) \/ Row("charge", charge[d]) \in gone[e]
      BY <1>a DEF OwnCharge, Reserved, Mine, Visible
    <3>3. counted'[e] = Mine(e) /\ \A d \in Calls \ {e} : counted'[d] = counted[d]
      BY <1>a, <3>1 DEF TypeOK
    <3>4. e \notin caught /\ Reserving(e) => LockOf(e) \in held'[e]
      BY <1>a, <3>1 DEF Locked, Guarded, lockVars
    <3> QED BY <2>1, <2>3, <2>4, <2>5, <3>1, <3>2, <3>3, <3>4, Local
            DEF lockVars, tables, history, Reserving, LockOf, Account, Op, Guarded, Statements
  <2>10. CASE Insert(e)
    <3>1. /\ pc[e] = "insert" /\ Proceed(e) /\ charge' = [charge EXCEPT ![e] = lastId + 1]
          /\ UNCHANGED <<request, counted, answer, lockVars, tables, history>>
      BY <2>10 DEF Insert
    <3>2. charge'[e] = lastId + 1 /\ \A d \in Calls \ {e} : charge'[d] = charge[d]
      BY <1>a, <3>1 DEF TypeOK
    <3>3. \A d \in Calls \ {e} :
             Reserving(d) /\ pc[d] \in {"commit"} \union Committed => charge'[e] # charge[d]
      BY <1>a, <3>2 DEF Numbered, Reserving, TypeOK
    <3>4. e \notin caught /\ Reserving(e) =>
             /\ LockOf(e) \in held'[e]
             /\ \A d \in Calls \ (caught \union {e}) :
                  Reserved(d) /\ Account(e) = Account(d) =>
                      charge[d] \in counted'[e] \/ Row("charge", charge[d]) \in gone'[e]
      BY <1>a, <3>1 DEF Locked, Guarded, Counting, Counts, lockVars
    <3> QED BY <2>1, <2>3, <2>4, <2>5, <3>1, <3>2, <3>3, <3>4, Local
            DEF lockVars, tables, history, Reserving, LockOf, Account, Op, Guarded, Statements
  <2>11. CASE Find(e) \/ Update(e) \/ Upsert(e)
    <3>1. /\ pc[e] \in {"find", "update", "upsert", "set"} /\ Proceed(e)
          /\ UNCHANGED <<gone, request, counted, tables, history>>
          /\ \A d \in Calls \ {e} : /\ charge'[d] = charge[d] /\ answer'[d] = answer[d]
                                    /\ held'[d] = held[d]
      BY <1>a, <2>11 DEF Find, Update, Upsert, Takes, lockVars, TypeOK, Answering
    <3> QED BY <2>1, <2>3, <2>4, <2>5, <3>1, Local
            DEF tables, history, Reserving, Op, Statements
  <2>12. CASE Claim(e)
    <3>1. /\ pc[e] = "claim" /\ Takes(e, Wanted(e))
          /\ \/ Proceed(e) /\ Wanted(e) = {} /\ UNCHANGED answer
             \/ /\ pc' = [pc EXCEPT ![e] = "commit"]
                /\ answer' = [answer EXCEPT ![e] = [task |-> e, created |-> TRUE]]
          /\ UNCHANGED <<gone, request, charge, counted, tables, history>>
      BY <2>12 DEF Claim
    <3>2. /\ \A d \in Calls \ {e} : answer'[d] = answer[d] /\ held'[d] = held[d]
                                                          /\ pc'[d] = pc[d]
          /\ pc'[e] \in Statements
      BY <1>a, <2>3, <2>5, <3>1 DEF Takes, TypeOK, Statements, Answering
    <3>3. Op(e) = "register"
      BY <2>2, <3>1, Orders DEF Op
    <3>4. pc'[e] = "select" => idempotency[request[e].key] # Null
      <4>1. Wanted(e) = {} => idempotency[request[e].key] # Null
        BY <3>1 DEF Wanted
      <4> QED BY <1>a, <3>1, <4>1 DEF TypeOK
    <3>5. pc'[e] = "commit" => answer'[e] # NoAnswer
      BY <1>a, <2>3, <2>4, <3>1, <3>3, Answered DEF Answering
    <3> QED BY <2>1, <3>1, <3>2, <3>3, <3>4, <3>5, Local
            DEF tables, history, Reserving, Op, Statements
  <2>13. CASE Select(e)
    <3>1. /\ pc[e] = "select" /\ Proceed(e)
          /\ UNCHANGED <<gone, held, request, charge, counted, tables, history>>
          /\ \A d \in Calls \ {e} : answer'[d] = answer[d]
      BY <2>13 DEF Select, lockVars, Answering
    <3>2. Op(e) = "register"
      BY <2>2, <3>1, Orders DEF Op
    <3>3. e \notin caught => answer'[e] # NoAnswer
      <4>1. e \notin caught => idempotency[request[e].key] # Null
        BY <1>a, <3>1, <3>2 DEF Claimed
      <4> QED BY <2>13, <4>1, Answered DEF Answering, Select
    <3> QED BY <2>1, <2>3, <2>4, <2>5, <3>1, <3>2, <3>3, Local
            DEF tables, history, Reserving, Op, Statements
  <2> QED BY <1>4, <2>6, <2>7, <2>8, <2>9, <2>10, <2>11, <2>12, <2>13 DEF Statement
<1>5. ASSUME NEW e \in Calls, Commit(e) PROVE SerialInv'
  BY <1>5, CommitSerial
<1>6. ASSUME Close \/ Tick \/ Quiesced \/ UNCHANGED vars PROVE SerialInv'
  <2>1. UNCHANGED <<pc, txVars, lockVars, tables, history>>
    BY <1>6 DEF Close, Tick, Quiesced, vars
  <2> QED BY <2>1 DEF txVars, lockVars, tables, history, SerialInv, Locked, Distinct, OwnCharge,
                      Counting, Serialized, Claimed, AssertionHolds, Reserving, Reserved, Op,
                      LockOf, Account, Counts
<1> QED BY <1>1, <1>2, <1>3, <1>4, <1>5, <1>6 DEF Next

(* Reservations of one account that no reset of everything overlaps are    *)
(* serialized by the account's lock row.                                   *)
THEOREM ReservationsSerialize == Spec => []Serialized
<1>1. Init => TypeInv /\ Answering /\ SerialInv
  BY InitTyped, InitSerial DEF Init, Answering
<1>2. TypeInv /\ Answering /\ SerialInv /\ [Next]_vars => (TypeInv /\ Answering /\ SerialInv)'
  BY StepTyped, StepAnswering, StepSerial
<1>3. SerialInv => Serialized
  BY DEF SerialInv
<1> QED BY <1>1, <1>2, <1>3, PTL DEF Spec

(* The assertion of register_idempotency() holds, unless everything is     *)
(* reset between its two statements.                                       *)
THEOREM ClaimsFindTheRow == Spec => []AssertionHolds
<1>1. Init => TypeInv /\ Answering /\ SerialInv
  BY InitTyped, InitSerial DEF Init, Answering
<1>2. TypeInv /\ Answering /\ SerialInv /\ [Next]_vars => (TypeInv /\ Answering /\ SerialInv)'
  BY StepTyped, StepAnswering, StepSerial
<1>3. SerialInv => AssertionHolds
  BY DEF SerialInv
<1> QED BY <1>1, <1>2, <1>3, PTL DEF Spec

-----------------------------------------------------------------------------
(* Why nobody deadlocks: a call that locks charges holds the lock row of   *)
(* its account already, and only locks charges of that account; the other  *)
(* calls lock one row and commit.                                          *)
Charger(c) == Op(c) \in {"reserve", "settle"}
BeforeLock == {"insert_lock", "lock"}

OfAccount(c, i) == i \in DOMAIN charges => charges[i].account = Account(c)

MayHold(c, row) ==
    /\ Op(c) = "register" => row[1] = "key" /\ pc[c] = "commit"
    /\ Op(c) \in {"create", "status"} => row[1] = "task" /\ pc[c] = "commit"
    /\ Charger(c) =>
         \/ row = LockOf(c) /\ pc[c] # "insert_lock"
         \/ /\ row[1] = "charge" /\ row[2] \in DOMAIN charges
            /\ pc[c] \notin BeforeLock /\ OfAccount(c, row[2])

MayMatch(c, row) ==
    /\ row[1] = "charge" => row[2] \in 0..lastId
    /\ Charger(c) => row[1] = "charge" /\ OfAccount(c, row[2])

HasLock(c) ==
    /\ pc[c] = "lock" => LockOf(c) \in held[c] \/ Account(c) \in accountLocks
    /\ pc[c] \in Statements \ BeforeLock => LockOf(c) \in held[c]

Orderly(c) ==
    /\ pc[c] \notin Statements => held[c] = {}
    /\ gone[c] \subseteq held[c]
    /\ matched[c] # {} => pc[c] \in Deleting
    /\ \A row \in held[c] : MayHold(c, row)
    /\ \A row \in matched[c] : MayMatch(c, row)
    /\ pc[c] = "update" => charge[c] \in 0..lastId /\ OfAccount(c, charge[c])
    /\ Charger(c) /\ c \notin caught => HasLock(c)

(* Nobody aims at a charge that is inserted and not committed yet.         *)
Inserted(e) == Reserving(e) /\ pc[e] = "commit"
AimsAt(c, i) == Row("charge", i) \in matched[c] \/ (pc[c] = "update" /\ charge[c] = i)

Unseen ==
    \A e \in Calls : Inserted(e) =>
        /\ charge[e] \notin DOMAIN charges
        /\ \A c \in Calls : ~AimsAt(c, charge[e])

LockInv == (\A c \in Calls : Orderly(c)) /\ Unseen

LEMMA LockSteps ==
    ASSUME NEW r \in Asked, NEW s \in DOMAIN After[r.op]
    PROVE  /\ r.op \in {"reserve", "settle"} =>
                /\ s = "begin" => After[r.op][s] = "insert_lock"
                /\ s = "insert_lock" => After[r.op][s] = "lock"
                /\ s \notin {"begin", "insert_lock"} =>
                     After[r.op][s] \in Statements \ BeforeLock
                /\ s \in Deleting => s = "prune" /\ After[r.op][s] \in {"sum", "find"}
           /\ r.op = "register" =>
                s \in {"begin", "claim", "select"} /\ After[r.op][s] \notin Deleting
           /\ r.op \in {"create", "status"} =>
                /\ s \in {"begin", "upsert", "set"}
                /\ s \in {"upsert", "set"} => After[r.op][s] = "commit"
           /\ After[r.op][s] = "update" => s = "find"
           /\ s \in Deleting => r.op \in Charging \union Resetting
<1>1. r.op \in {"reserve", "settle", "balance", "register", "create", "status",
                "reset_account", "reset"}
  BY DEF Asked, Charging
<1>2. CASE r.op = "reserve"
  BY <1>2 DEF After, ReserveSteps, Charging, Deleting, Statements, BeforeLock
<1>3. CASE r.op = "settle"
  BY <1>3 DEF After, SettleSteps, Charging, Deleting, Statements, BeforeLock
<1>4. CASE r.op = "balance"
  BY <1>4 DEF After, BalanceSteps, Charging, Deleting
<1>5. CASE r.op = "register"
  BY <1>5 DEF After, RegisterSteps, Deleting
<1>6. CASE r.op = "create"
  BY <1>6 DEF After, Deleting
<1>7. CASE r.op = "status"
  BY <1>7 DEF After, Deleting
<1>8. CASE r.op = "reset_account"
  BY <1>8 DEF After, ResetAccountSteps, Resetting
<1>9. CASE r.op = "reset"
  BY <1>9 DEF After, ResetSteps, Resetting
<1> QED BY <1>1, <1>2, <1>3, <1>4, <1>5, <1>6, <1>7, <1>8, <1>9

(* A step of one call that writes no table: what there is to show of it.   *)
LEMMA LocalLocks ==
    ASSUME TypeInv, LockInv, NEW e \in Calls,
           UNCHANGED <<charges, accountLocks, caught>>, lastId' \in Nat, lastId <= lastId',
           \A d \in Calls \ {e} : /\ pc'[d] = pc[d] /\ request'[d] = request[d]
                                  /\ charge'[d] = charge[d] /\ gone'[d] = gone[d]
                                  /\ held'[d] = held[d] /\ matched'[d] = matched[d],
           Orderly(e)',
           Inserted(e)' => /\ charge'[e] \notin DOMAIN charges
                           /\ \A c \in Calls \ {e} : ~AimsAt(c, charge'[e])
                           /\ ~AimsAt(e, charge[e])',
           \A d \in Calls \ {e} : Inserted(d) => ~AimsAt(e, charge[d])'
    PROVE  LockInv'
<1>1. ASSUME NEW d \in Calls \ {e} PROVE Orderly(d)'
  <2>1. Orderly(d) /\ lastId \in Nat
    BY DEF LockInv, TypeInv, TypeOK
  <2>2. /\ Op(d)' = Op(d) /\ Account(d)' = Account(d) /\ Charger(d)' = Charger(d)
        /\ LockOf(d)' = LockOf(d)
    BY <1>1 DEF Op, Account, Charger, LockOf, Row
  <2>3. \A i : OfAccount(d, i)' = OfAccount(d, i)
    BY <2>2 DEF OfAccount
  <2>4. HasLock(d) => HasLock(d)'
    BY <1>1, <2>2 DEF HasLock
  <2>5. \A row : MayHold(d, row) => MayHold(d, row)'
    BY <1>1, <2>2, <2>3 DEF MayHold
  <2>6. \A row : MayMatch(d, row) => MayMatch(d, row)'
    BY <2>1, <2>2, <2>3 DEF MayMatch
  <2>7. charge[d] \in 0..lastId => charge[d] \in 0..lastId'
    BY <2>1
  <2> QED BY <1>1, <2>1, <2>2, <2>3, <2>4, <2>5, <2>6, <2>7 DEF Orderly
<1>2. Unseen'
  <2> SUFFICES ASSUME NEW d \in Calls, Inserted(d)'
               PROVE  /\ charge'[d] \notin DOMAIN charges'
                      /\ \A c \in Calls : ~AimsAt(c, charge[d])'
    BY DEF Unseen
  <2>1. CASE d = e
    <3>1. \A c \in Calls \ {e} : ~AimsAt(c, charge[d])'
      BY <2>1 DEF AimsAt, Row
    <3> QED BY <2>1, <3>1
  <2>2. CASE d # e
    <3>1. Inserted(d) /\ charge'[d] = charge[d]
      BY <2>2 DEF Inserted, Reserving, Op
    <3>2. \A c \in Calls \ {e} : ~AimsAt(c, charge[d])'
      BY <3>1 DEF AimsAt, Row, LockInv, Unseen
    <3>3. ~AimsAt(e, charge[d])'
      BY <2>2, <3>1 DEF AimsAt, Row
    <3>4. charge'[d] \notin DOMAIN charges'
      BY <3>1 DEF LockInv, Unseen
    <3> QED BY <3>2, <3>3, <3>4
  <2> QED BY <2>1, <2>2
<1> QED BY <1>1, <1>2 DEF LockInv

(* What a call may wait for.                                               *)
LEMMA WantedBy ==
    ASSUME TypeInv, LockInv, NEW c \in Calls, pc[c] \in Statements, Op(c) \notin Unlocking,
           NEW row \in Wanted(c)
    PROVE  /\ Op(c) \in {"reserve", "settle", "register", "create", "status"}
           /\ pc[c] # "commit"
           /\ Op(c) = "register" => row[1] = "key"
           /\ Op(c) \in {"create", "status"} => row[1] = "task"
           /\ Charger(c) => \/ pc[c] \in BeforeLock /\ row = LockOf(c)
                            \/ /\ pc[c] \notin BeforeLock /\ row[1] = "charge"
                               /\ OfAccount(c, row[2])
<1>1. /\ request[c] \in Asked /\ pc[c] \in DOMAIN After[Op(c)] \union {"commit"}
      /\ Orderly(c)
  BY DEF TypeInv, Steps, Waiting, LockInv
<1>2. Op(c) \in {"reserve", "settle", "register", "create", "status"}
  BY <1>1 DEF Unlocking, Resetting, Asked, Charging, Op
<1>3. CASE row \in matched[c]
  <2>1. pc[c] \in Deleting
    BY <1>1, <1>3 DEF Orderly
  <2>2. Charger(c) /\ pc[c] = "prune"
    BY <1>1, <1>2, <2>1, LockSteps DEF Op, Charger, Deleting, Charging, Resetting
  <2>3. row[1] = "charge" /\ OfAccount(c, row[2])
    BY <1>1, <1>3, <2>2 DEF Orderly, MayMatch
  <2> QED BY <1>2, <2>2, <2>3 DEF Charger, BeforeLock
<1>4. CASE row \notin matched[c]
  <2>1. row \notin FirstOf(matched[c])
    BY <1>4 DEF FirstOf
  <2>2. pc[c] \in {"insert_lock", "lock", "update", "claim", "upsert", "set"}
    BY <2>1 DEF Wanted
  <2>3. pc[c] \in DOMAIN After[Op(c)]
    BY <1>1, <2>2
  <2>4. /\ pc[c] \in {"insert_lock", "lock"} => Op(c) \in {"reserve", "settle"}
        /\ pc[c] = "update" => Op(c) = "settle"
        /\ pc[c] = "claim" => Op(c) = "register"
        /\ pc[c] \in {"upsert", "set"} => Op(c) \in {"create", "status"}
    BY <1>1, <2>3, Orders DEF Op
  <2>5. CASE pc[c] \in {"insert_lock", "lock"}
    <3>1. row = LockOf(c)
      BY <2>5 DEF Wanted, LockOf
    <3> QED BY <2>4, <2>5, <3>1 DEF BeforeLock
  <2>6. CASE pc[c] = "update"
    <3>1. row = <<"charge", charge[c]>> /\ OfAccount(c, charge[c])
      BY <1>1, <2>6 DEF Wanted, Row, Orderly
    <3> QED BY <2>4, <2>6, <3>1 DEF BeforeLock
  <2>7. CASE pc[c] = "claim"
    <3>1. row = <<"key", request[c].key>>
      BY <2>7 DEF Wanted, Row
    <3> QED BY <2>4, <2>7, <3>1 DEF Charger
  <2>8. CASE pc[c] \in {"upsert", "set"}
    <3>1. row = <<"task", request[c].task>>
      BY <2>8 DEF Wanted, Row
    <3> QED BY <2>4, <2>8, <3>1 DEF Charger
  <2> QED BY <2>2, <2>5, <2>6, <2>7, <2>8
<1> QED BY <1>3, <1>4

LEMMA NoCycle ==
    ASSUME TypeInv, LockInv
    PROVE  NoDeadlock
<1> SUFFICES ASSUME NEW S \in SUBSET {c \in InTransaction \ caught : Op(c) \notin Unlocking},
                    Cycle(S)
             PROVE  FALSE
  BY DEF NoDeadlock
<1>1. \A c \in S : /\ c \in Calls /\ pc[c] \in Statements /\ Op(c) \notin Unlocking
                   /\ c \notin caught /\ Orderly(c)
  BY DEF InTransaction, LockInv
<1>2. \A c \in S : \E d \in S, row \in Wanted(c) : d # c /\ row \in held[d]
  BY DEF Cycle, WaitsFor
<1>3. \A c \in S : /\ Op(c) \in {"reserve", "settle", "register", "create", "status"}
                   /\ pc[c] # "commit"
  BY <1>1, <1>2, WantedBy
(* Who has locked a row and still waits is a charger.                      *)
<1>4. ASSUME NEW d \in S, NEW row \in held[d]
      PROVE  /\ Charger(d) /\ pc[d] # "insert_lock"
             /\ \/ row = LockOf(d)
                \/ /\ row[1] = "charge" /\ row[2] \in DOMAIN charges
                   /\ pc[d] \notin BeforeLock /\ OfAccount(d, row[2])
  <2>1. MayHold(d, row)
    BY <1>1, <1>4 DEF Orderly
  <2>2. Charger(d)
    BY <1>3, <2>1 DEF MayHold, Charger
  <2> QED BY <2>1, <2>2 DEF MayHold, BeforeLock
<1>5. \A d \in S : LockOf(d)[1] = "account"
  BY DEF LockOf, Row
(* Whoever has come to its charges has the lock of its account, and so has *)
(* whoever holds one of them.                                              *)
<1>6. ASSUME NEW c \in S, Charger(c), pc[c] \notin BeforeLock PROVE FALSE
  <2>1. PICK d \in S, row \in Wanted(c) : d # c /\ row \in held[d]
    BY <1>2
  <2>2. row[1] = "charge" /\ OfAccount(c, row[2])
    BY <1>1, <1>6, <2>1, WantedBy
  <2>3. /\ Charger(d) /\ row[2] \in DOMAIN charges /\ pc[d] \notin BeforeLock
        /\ OfAccount(d, row[2])
    BY <1>4, <1>5, <2>1, <2>2
  <2>4. LockOf(c) = LockOf(d)
    BY <2>2, <2>3 DEF OfAccount, LockOf
  <2>5. LockOf(c) \in held[c] /\ LockOf(d) \in held[d]
    BY <1>1, <1>6, <2>3 DEF Orderly, HasLock
  <2> QED BY <1>1, <2>1, <2>4, <2>5 DEF TypeInv, Exclusive
<1>7. ASSUME NEW c \in S PROVE FALSE
  <2>1. PICK d \in S, row \in Wanted(c) : d # c /\ row \in held[d]
    BY <1>2
  <2>2. Charger(d) /\ pc[d] # "insert_lock"
    BY <1>4, <2>1
  <2>3. pc[d] = "lock"
    BY <1>6, <2>2 DEF BeforeLock
  <2>4. row = LockOf(d)
    BY <1>4, <2>1, <2>3 DEF BeforeLock
  <2>5. PICK e \in S, other \in Wanted(d) : e # d /\ other \in held[e]
    BY <1>2
  <2>6. other = LockOf(d)
    BY <1>1, <2>2, <2>3, <2>5, WantedBy DEF BeforeLock
  <2> QED BY <1>1, <2>1, <2>4, <2>5, <2>6 DEF TypeInv, Exclusive
<1> QED BY <1>7 DEF Cycle

(* A commit: the charges that others hold stay, and the one of the call    *)
(* appears, at which nobody aims.                                          *)
LEMMA CommitLocks ==
    ASSUME TypeInv, Distinct, LockInv, NEW e \in Calls, Commit(e)
    PROVE  LockInv'
<1>a. /\ TypeOK /\ Deleters /\ Exclusive /\ Numbered /\ Unseen
      /\ \A c \in Calls : Orderly(c)
  BY DEF TypeInv, LockInv
<1>1. /\ pc[e] = "commit" /\ pc'[e] \in Ends
      /\ held'[e] = {} /\ gone'[e] = {} /\ matched' = matched /\ lastId' = lastId
      /\ \A d \in Calls \ {e} : pc'[d] = pc[d] /\ held'[d] = held[d] /\ gone'[d] = gone[d]
      /\ UNCHANGED txVars
  BY <1>a DEF Commit, Outcomes, TypeOK, Ends
<1>2. /\ caught \subseteq caught'
      /\ Op(e) = "reset" => \A d \in Calls \ caught' : pc[d] \notin Statements
  BY <1>a DEF Commit, TypeOK, InTransaction
<1>3. Op(e) # "reset" => accountLocks \subseteq accountLocks'
  BY <1>a DEF Commit, LocksAfter, Deleters, Row, TypeOK
<1>4. charges' = ChargesAfter(e)
  BY DEF Commit
<1>5. \A i : i \in DOMAIN charges' =>
          \/ i \in Left(e) /\ charges'[i].account = charges[i].account
          \/ Inserted(e) /\ i = charge[e]
  <2> SUFFICES ASSUME NEW i \in DOMAIN charges', ~(Inserted(e) /\ i = charge[e])
               PROVE  i \in Left(e) /\ charges'[i].account = charges[i].account
    OBVIOUS
  <2>1. Op(e) = "reserve" => i # charge[e]
    BY <1>1 DEF Inserted, Reserving
  <2>2. i \in Left(e)
    BY <1>4, <2>1 DEF ChargesAfter, Op
  <2>3. i \in DOMAIN charges /\ charges[i] \in ChargeRows
    BY <1>a, <2>2 DEF Left, TypeOK
  <2>4. charges'[i].account = charges[i].account
    BY <1>4, <2>1, <2>2, <2>3 DEF ChargesAfter, Op, ChargeRows
  <2> QED BY <2>2, <2>4
<1>6. \A d \in Calls : /\ Op(d)' = Op(d) /\ Account(d)' = Account(d)
                       /\ Charger(d)' = Charger(d) /\ LockOf(d)' = LockOf(d)
                       /\ Reserving(d)' = Reserving(d)
  BY <1>1 DEF Op, Account, Charger, LockOf, Row, txVars, Reserving
<1>7. \A d \in Calls : \A i : OfAccount(d, i) /\ (Inserted(e) => i # charge[e]) => OfAccount(d, i)'
  <2> SUFFICES ASSUME NEW d \in Calls, NEW i, OfAccount(d, i), Inserted(e) => i # charge[e],
                      i \in DOMAIN charges'
               PROVE  charges'[i].account = Account(d)'
    BY DEF OfAccount
  <2>1. i \in Left(e) /\ charges'[i].account = charges[i].account
    BY <1>5
  <2> QED BY <1>6, <2>1 DEF OfAccount, Left
<1>8. ASSUME NEW d \in Calls PROVE Orderly(d)'
  <2>a. Orderly(d)
    BY <1>a
  <2>1. pc'[d] \notin Statements => held'[d] = {}
    BY <1>1, <2>a DEF Orderly
  <2>2. gone'[d] \subseteq held'[d]
    BY <1>1, <2>a DEF Orderly
  <2>3. matched'[d] # {} => d # e /\ pc'[d] \in Deleting
    BY <1>1, <2>a DEF Orderly, Deleting
  <2>4. ASSUME NEW row \in held'[d] PROVE MayHold(d, row)'
    <3>1. d # e /\ row \in held[d] /\ pc'[d] = pc[d] /\ MayHold(d, row)
      BY <1>1, <2>4, <2>a DEF Orderly
    <3>2. ASSUME row[1] = "charge", row[2] \in DOMAIN charges, OfAccount(d, row[2]),
                 Charger(d), row # LockOf(d)
          PROVE  row[2] \in DOMAIN charges' /\ OfAccount(d, row[2])'
      <4>1. Inserted(e) => row[2] # charge[e]
        BY <1>a, <3>2 DEF Unseen
      <4>2. row = Row("charge", row[2])
        BY <1>a, <3>1, <3>2 DEF TypeOK, RowNames, Row
      <4>3. row \notin gone[e]
        BY <1>a, <3>1 DEF Orderly, Exclusive
      <4>4. row[2] \in Left(e)
        BY <3>2, <4>2, <4>3 DEF Left
      <4>5. row[2] \in DOMAIN charges'
        BY <1>4, <4>4 DEF ChargesAfter
      <4> QED BY <1>7, <3>2, <4>1, <4>5
    <3>3. /\ Op(d)' = Op(d) /\ Charger(d)' = Charger(d) /\ LockOf(d)' = LockOf(d)
          /\ pc'[d] = pc[d]
      BY <1>6, <3>1
    <3>4. Op(d)' = "register" => row[1] = "key" /\ pc'[d] = "commit"
      BY <3>1, <3>3 DEF MayHold
    <3>5. Op(d)' \in {"create", "status"} => row[1] = "task" /\ pc'[d] = "commit"
      BY <3>1, <3>3 DEF MayHold
    <3>6. ASSUME Charger(d)', ~(row = LockOf(d)' /\ pc'[d] # "insert_lock")
          PROVE  /\ row[1] = "charge" /\ row[2] \in DOMAIN charges'
                 /\ pc'[d] \notin BeforeLock /\ OfAccount(d, row[2])'
      <4>1. /\ row[1] = "charge" /\ row[2] \in DOMAIN charges
            /\ pc[d] \notin BeforeLock /\ OfAccount(d, row[2])
        BY <3>1, <3>3, <3>6 DEF MayHold
      <4>2. row # LockOf(d)
        BY <4>1 DEF LockOf, Row
      <4> QED BY <3>2, <3>3, <3>6, <4>1, <4>2
    <3> QED BY <3>4, <3>5, <3>6 DEF MayHold, BeforeLock
  <2>5. ASSUME NEW row \in matched'[d] PROVE MayMatch(d, row)'
    <3>1. row \in matched[d] /\ MayMatch(d, row)
      BY <1>1, <2>5, <2>a DEF Orderly
    <3>2. ASSUME Charger(d) PROVE OfAccount(d, row[2])'
      <4>1. row[1] = "charge" /\ OfAccount(d, row[2])
        BY <3>1, <3>2 DEF MayMatch
      <4>2. row = Row("charge", row[2])
        BY <1>a, <3>1, <4>1 DEF TypeOK, RowNames, Row
      <4>3. Inserted(e) => row[2] # charge[e]
        BY <1>a, <3>1, <4>2 DEF Unseen, AimsAt
      <4> QED BY <1>7, <4>1, <4>3
    <3> QED BY <1>1, <1>6, <3>1, <3>2 DEF MayMatch
  <2>6. ASSUME pc'[d] = "update"
        PROVE  charge'[d] \in 0..lastId' /\ OfAccount(d, charge[d])'
    <3>1. d # e /\ pc[d] = "update" /\ charge'[d] = charge[d]
      BY <1>1, <2>6 DEF Ends, txVars
    <3>2. Inserted(e) => charge[d] # charge[e]
      BY <1>a, <3>1 DEF Unseen, AimsAt
    <3> QED BY <1>1, <1>7, <2>a, <3>1, <3>2 DEF Orderly, OfAccount
  <2>7. ASSUME Charger(d)', d \notin caught' PROVE HasLock(d)'
    <3>1. CASE d = e
      BY <1>1, <3>1 DEF HasLock, Ends, Statements
    <3>2. CASE d # e /\ Op(e) = "reset"
      BY <1>1, <1>2, <2>7, <3>2 DEF HasLock, Statements
    <3>3. CASE d # e /\ Op(e) # "reset"
      <4>1. HasLock(d)
        BY <1>2, <1>6, <2>7, <2>a DEF Orderly
      <4> QED BY <1>1, <1>3, <1>6, <3>3, <4>1 DEF HasLock
    <3> QED BY <3>1, <3>2, <3>3
  <2> QED BY <2>1, <2>2, <2>3, <2>4, <2>5, <2>6, <2>7 DEF Orderly
<1>9. Unseen'
  <2> SUFFICES ASSUME NEW d \in Calls, Inserted(d)'
               PROVE  /\ charge'[d] \notin DOMAIN charges'
                      /\ \A c \in Calls : ~AimsAt(c, charge[d])'
    BY DEF Unseen
  <2>1. d # e /\ Inserted(d) /\ charge'[d] = charge[d]
    BY <1>1, <1>6 DEF Inserted, Ends, txVars
  <2>2. charge[d] \notin DOMAIN charges /\ \A c \in Calls : ~AimsAt(c, charge[d])
    BY <1>a, <2>1 DEF Unseen
  <2>3. charge[d] \notin DOMAIN charges'
    <3>1. Inserted(e) => charge[d] # charge[e]
      BY <2>1 DEF Distinct, Inserted
    <3> QED BY <1>5, <2>2, <3>1 DEF Left
  <2>4. \A c \in Calls : ~AimsAt(c, charge[d])'
    BY <1>1, <2>1, <2>2 DEF AimsAt, Row, Ends, txVars
  <2> QED BY <2>1, <2>3, <2>4
<1> QED BY <1>8, <1>9 DEF LockInv
(* The statements that take no lock, and those that delete.                *)
LEMMA PlainLocks ==
    ASSUME TypeInv, LockInv, NEW e \in Calls, Statement(e),
           pc[e] \in {"sum", "insert", "find", "select"}
    PROVE  LockInv'
<1>a. /\ TypeOK /\ Numbered /\ Unseen
      /\ \A c \in Calls : Orderly(c)
  BY DEF TypeInv, LockInv
<1>1. /\ Sum(e) \/ Insert(e) \/ Find(e) \/ Select(e)
      /\ Proceed(e) /\ UNCHANGED <<request, lockVars, tables, caught>>
  BY DEF Statement, InsertLock, Lock, DeleteStarts, DeleteRow, Sum, Insert, Find, Update,
         Claim, Select, Upsert, Commit, Deleting, history
<1>2. request[e] \in Asked /\ pc[e] \in DOMAIN After[Op(e)]
  BY DEF TypeInv, Steps, Waiting, Statements
<1>3. pc'[e] = After[Op(e)][pc[e]] /\ \A d \in Calls \ {e} : pc'[d] = pc[d]
  BY <1>a, <1>1 DEF Proceed, TypeOK
<1>4. /\ pc'[e] \in Statements
      /\ Charger(e) => pc'[e] \notin BeforeLock
      /\ pc'[e] = "update" => pc[e] = "find"
      /\ Op(e) = "register" => pc[e] # "sum"
      /\ Op(e) \notin {"create", "status"}
      /\ Op(e) = "reserve" /\ pc'[e] = "commit" => pc[e] = "insert"
  BY <1>2, <1>3, Follows, LockSteps, Orders DEF Op, Charger, Charging
<1>5. /\ lastId' \in Nat /\ lastId <= lastId'
      /\ \A d \in Calls \ {e} : charge'[d] = charge[d]
      /\ pc[e] \notin {"insert", "find"} => charge'[e] = charge[e] /\ lastId' = lastId
  BY <1>a, <1>1 DEF Sum, Insert, Find, Select, TypeOK
<1>6. ASSUME pc[e] = "find"
      PROVE  charge'[e] \in 0..lastId' /\ OfAccount(e, charge'[e])
             /\ (charge'[e] = None \/ charge'[e] \in DOMAIN charges)
  <2>1. PICK i \in Found(e) : charge' = [charge EXCEPT ![e] = i]
    BY <1>1, <1>6 DEF Sum, Insert, Find, Select
  <2>2. i = None \/ (i \in DOMAIN charges /\ charges[i].account = Account(e))
    BY DEF Found, Same, Mine, Visible
  <2>3. 0 \notin DOMAIN charges /\ charge'[e] = i /\ \A j \in DOMAIN charges : j \in 0..lastId
    BY <1>a, <2>1 DEF TypeOK
  <2> QED BY <1>5, <1>6, <2>2, <2>3, <1>a, <1>1 DEF OfAccount, None, Find, Sum, Insert, Select,
             TypeOK
<1>7. /\ held' = held /\ gone' = gone /\ matched' = matched /\ charges' = charges
      /\ accountLocks' = accountLocks /\ caught' = caught /\ request' = request
  BY <1>1 DEF lockVars, tables
<1>8. matched[e] = {} /\ (Op(e) = "register" => held[e] = {})
  BY <1>a, <1>4 DEF Orderly, Deleting, MayHold
<1>9. Orderly(e)'
  <2>1. /\ Op(e)' = Op(e) /\ Account(e)' = Account(e) /\ Charger(e)' = Charger(e)
        /\ LockOf(e)' = LockOf(e)
    BY <1>7 DEF Op, Account, Charger, LockOf, Row
  <2>2. \A i : OfAccount(e, i)' = OfAccount(e, i)
    BY <1>7, <2>1 DEF OfAccount
  <2>3. \A row \in held[e] : MayHold(e, row) => MayHold(e, row)'
    BY <1>4, <1>7, <1>8, <2>1, <2>2 DEF MayHold, BeforeLock
  <2>4. HasLock(e) => HasLock(e)' \/ ~Charger(e)
    BY <1>4, <1>7, <2>1 DEF HasLock, BeforeLock, Statements
  <2>5. pc'[e] = "update" => charge'[e] \in 0..lastId' /\ OfAccount(e, charge[e])'
    BY <1>4, <1>6, <2>2, <1>7, <2>1 DEF OfAccount
  <2> QED BY <1>a, <1>4, <1>7, <1>8, <2>1, <2>3, <2>4, <2>5 DEF Orderly, Statements
<1>10. ASSUME Inserted(e)'
       PROVE  /\ charge'[e] \notin DOMAIN charges
              /\ \A c \in Calls \ {e} : ~AimsAt(c, charge'[e])
              /\ ~AimsAt(e, charge[e])'
  <2>1. Insert(e) /\ pc'[e] = "commit"
    BY <1>1, <1>4, <1>7, <1>10 DEF Inserted, Reserving, Op, Sum, Find, Select
  <2>2. charge'[e] = lastId + 1
    BY <1>a, <2>1 DEF Insert, TypeOK
  <2>3. charge'[e] \notin DOMAIN charges
    BY <1>a, <2>2 DEF TypeOK
  <2>4. ASSUME NEW c \in Calls \ {e}, AimsAt(c, charge'[e]) PROVE FALSE
    <3>1. charge'[e] \in 0..lastId
      BY <1>a, <2>4 DEF AimsAt, Orderly, MayMatch, Row
    <3> QED BY <1>a, <2>2, <3>1 DEF TypeOK
  <2>5. ~AimsAt(e, charge[e])'
    BY <1>7, <1>8, <2>1 DEF AimsAt
  <2> QED BY <2>3, <2>4, <2>5
<1>11. ASSUME NEW d \in Calls \ {e}, Inserted(d) PROVE ~AimsAt(e, charge[d])'
  <2>1. charge'[d] = charge[d] /\ charge[d] \notin DOMAIN charges /\ charge[d] \in 1..lastId
    BY <1>a, <1>5, <1>11 DEF Unseen, Numbered, Inserted, Reserving
  <2>2. pc'[e] = "update" => charge'[e] # charge[d]
    BY <1>a, <1>4, <1>6, <2>1 DEF None, TypeOK
  <2> QED BY <1>7, <1>8, <2>1, <2>2 DEF AimsAt
<1> QED BY <1>3, <1>5, <1>7, <1>9, <1>10, <1>11, LocalLocks

(* Nothing is aimed at by a call that has no rows to delete and is not at  *)
(* its update.                                                             *)
LEMMA LockingLocks ==
    ASSUME TypeInv, LockInv, NEW e \in Calls, Statement(e),
           pc[e] \in {"insert_lock", "lock", "update", "claim", "upsert", "set"}
    PROVE  LockInv'
<1>a. /\ TypeOK /\ Unseen
      /\ Orderly(e)
  BY DEF TypeInv, LockInv
<1>1. /\ InsertLock(e) \/ Lock(e) \/ Update(e) \/ Claim(e) \/ Upsert(e)
      /\ Takes(e, Wanted(e)) /\ UNCHANGED <<gone, matched, request, tables, lastId, caught>>
      /\ Proceed(e) \/ (pc[e] = "claim" /\ Wanted(e) # {} /\ pc' = [pc EXCEPT ![e] = "commit"])
      /\ pc[e] = "claim" /\ Wanted(e) # {} => pc' = [pc EXCEPT ![e] = "commit"]
  BY DEF Statement, InsertLock, Lock, DeleteStarts, DeleteRow, Sum, Insert, Find, Update,
         Claim, Select, Upsert, Commit, Deleting, history, LockRow, txVars
<1>2. request[e] \in Asked /\ pc[e] \in DOMAIN After[Op(e)]
  BY DEF TypeInv, Steps, Waiting, Statements
<1>3. /\ pc'[e] = After[Op(e)][pc[e]] \/ (pc[e] = "claim" /\ pc'[e] = "commit")
      /\ pc[e] = "claim" /\ Wanted(e) # {} => pc'[e] = "commit"
      /\ \A d \in Calls \ {e} : pc'[d] = pc[d]
  BY <1>a, <1>1 DEF Proceed, TypeOK
<1>4. /\ pc[e] \in {"insert_lock", "lock"} => Op(e) \in {"reserve", "settle"}
      /\ pc[e] = "update" => Op(e) = "settle"
      /\ pc[e] = "claim" => Op(e) = "register"
      /\ pc[e] \in {"upsert", "set"} => Op(e) \in {"create", "status"} /\ pc'[e] = "commit"
      /\ pc'[e] \in Statements /\ pc'[e] # "update"
      /\ pc[e] = "insert_lock" => pc'[e] = "lock"
      /\ pc[e] \in {"lock", "update"} => pc'[e] \notin BeforeLock
      /\ ~Inserted(e)'
  <2>1. Op(e)' = Op(e)
    BY <1>1 DEF Op
  <2>2. /\ pc[e] \in {"insert_lock", "lock"} => Op(e) \in {"reserve", "settle"}
        /\ pc[e] = "update" => Op(e) = "settle"
        /\ pc[e] = "claim" => Op(e) = "register"
        /\ pc[e] \in {"upsert", "set"} => Op(e) \in {"create", "status"}
    BY <1>2, Orders DEF Op
  <2>3. /\ After[Op(e)][pc[e]] \in Statements /\ After[Op(e)][pc[e]] # "update"
        /\ pc[e] = "insert_lock" => After[Op(e)][pc[e]] = "lock"
        /\ pc[e] \in {"lock", "update"} => After[Op(e)][pc[e]] \notin BeforeLock
        /\ pc[e] \in {"upsert", "set"} => After[Op(e)][pc[e]] = "commit"
        /\ Op(e) = "reserve" => After[Op(e)][pc[e]] # "commit"
    BY <1>2, <2>2, Follows, LockSteps, Orders DEF Op
  <2> QED BY <1>3, <2>1, <2>2, <2>3 DEF Inserted, Reserving, Statements
<1>5. /\ held'[e] = held[e] \union Wanted(e) /\ \A d \in Calls \ {e} : held'[d] = held[d]
      /\ gone' = gone /\ matched' = matched /\ charges' = charges /\ lastId' = lastId
      /\ accountLocks' = accountLocks /\ caught' = caught /\ request' = request
      /\ \A d \in Calls \ {e} : charge'[d] = charge[d]
  BY <1>a, <1>1 DEF Takes, TypeOK, tables, InsertLock, Lock, Update, Claim, Upsert, txVars
<1>6. matched[e] = {} /\ gone[e] \subseteq held[e]
  BY <1>a DEF Orderly, Deleting
<1>7. \A row \in Wanted(e) :
        /\ pc[e] \in {"insert_lock", "lock"} => row = LockOf(e)
        /\ pc[e] = "update" => row = <<"charge", charge[e]>> /\ charge[e] \in DOMAIN charges
        /\ pc[e] = "claim" => row[1] = "key"
        /\ pc[e] \in {"upsert", "set"} => row[1] = "task"
  BY DEF Wanted, LockOf, Row
<1>8. /\ Op(e)' = Op(e) /\ Account(e)' = Account(e) /\ Charger(e)' = Charger(e)
      /\ LockOf(e)' = LockOf(e)
  BY <1>5 DEF Op, Account, Charger, LockOf, Row
<1>9. \A i : OfAccount(e, i)' = OfAccount(e, i)
  BY <1>5, <1>8 DEF OfAccount
<1>10. ASSUME NEW row \in held'[e] PROVE MayHold(e, row)'
  <2>1. row \in held[e] \/ row \in Wanted(e)
    BY <1>5
  <2>2. row \in held[e] => MayHold(e, row)
    BY <1>a DEF Orderly
  <2>3. CASE pc[e] \in {"insert_lock", "lock"}
    <3>1. row = LockOf(e)
      <4>1. CASE row \in Wanted(e)
        BY <1>7, <2>3, <4>1
      <4>2. CASE row \in held[e]
        BY <1>4, <2>2, <2>3, <4>2 DEF MayHold, Charger, BeforeLock
      <4> QED BY <2>1, <4>1, <4>2
    <3>2. pc'[e] # "insert_lock"
      BY <1>4, <2>3 DEF BeforeLock
    <3> QED BY <1>4, <1>8, <2>3, <3>1, <3>2 DEF MayHold
  <2>4. CASE pc[e] = "update"
    <3>1. Op(e) = "settle" /\ pc'[e] \notin BeforeLock
      BY <1>4, <2>4
    <3>2. row \in Wanted(e) => /\ row[1] = "charge" /\ row[2] \in DOMAIN charges
                               /\ OfAccount(e, row[2])
      BY <1>7, <1>a, <2>4 DEF Orderly
    <3>3. \/ row = LockOf(e)
          \/ row[1] = "charge" /\ row[2] \in DOMAIN charges /\ OfAccount(e, row[2])
      BY <2>1, <2>2, <3>1, <3>2 DEF MayHold, Charger
    <3> QED BY <1>5, <1>8, <1>9, <3>1, <3>3 DEF MayHold, BeforeLock
  <2>5. CASE pc[e] = "claim"
    <3>1. row \in Wanted(e)
      BY <1>4, <2>1, <2>2, <2>5 DEF MayHold
    <3> QED BY <1>3, <1>4, <1>7, <1>8, <2>5, <3>1 DEF MayHold, Charger
  <2>6. CASE pc[e] \in {"upsert", "set"}
    <3>1. row \in Wanted(e)
      BY <1>4, <2>1, <2>2, <2>6 DEF MayHold
    <3> QED BY <1>4, <1>7, <1>8, <2>6, <3>1 DEF MayHold, Charger
  <2> QED BY <2>3, <2>4, <2>5, <2>6
<1>11. ASSUME Charger(e), e \notin caught PROVE HasLock(e)'
  <2>1. HasLock(e) /\ pc[e] \in {"insert_lock", "lock", "update"}
    BY <1>a, <1>4, <1>11 DEF Orderly, Charger
  <2>2. CASE pc[e] = "insert_lock"
    <3>1. LockOf(e) \in Wanted(e) \/ Account(e) \in accountLocks
      BY <2>2 DEF Wanted, LockOf
    <3> QED BY <1>4, <1>5, <1>8, <2>2, <3>1 DEF HasLock, BeforeLock
  <2>3. CASE pc[e] = "lock"
    <3>1. Account(e) \in accountLocks => LockOf(e) \in Wanted(e)
      BY <2>3 DEF Wanted, LockOf
    <3> QED BY <1>4, <1>5, <1>8, <2>1, <2>3, <3>1 DEF HasLock, BeforeLock
  <2>4. CASE pc[e] = "update"
    <3>1. LockOf(e) \in held[e]
      BY <2>1, <2>4 DEF HasLock, BeforeLock, Statements
    <3> QED BY <1>4, <1>5, <1>8, <2>4, <3>1 DEF HasLock, BeforeLock
  <2> QED BY <2>1, <2>2, <2>3, <2>4
<1>12. Orderly(e)'
  BY <1>4, <1>5, <1>6, <1>8, <1>10, <1>11 DEF Orderly
<1>13. \A d \in Calls : ~AimsAt(e, charge[d])'
  BY <1>4, <1>5, <1>6 DEF AimsAt
<1> QED BY <1>3, <1>4, <1>5, <1>12, <1>13, <1>a, LocalLocks DEF TypeOK

LEMMA DeletingLocks ==
    ASSUME TypeInv, LockInv, NEW e \in Calls, Statement(e), pc[e] \in Deleting
    PROVE  LockInv'
<1>a. /\ TypeOK /\ Unseen /\ Orderly(e)
  BY DEF TypeInv, LockInv
<1>1. /\ DeleteStarts(e) \/ DeleteRow(e)
      /\ UNCHANGED <<txVars, tables, lastId, caught>>
  BY DEF Statement, InsertLock, Lock, DeleteStarts, DeleteRow, Sum, Insert, Find, Update,
         Claim, Select, Upsert, Commit, Deleting, history
<1>2. request[e] \in Asked /\ pc[e] \in DOMAIN After[Op(e)]
  BY DEF TypeInv, Steps, Waiting, Statements, Deleting
<1>3. /\ charges' = charges /\ accountLocks' = accountLocks /\ caught' = caught
      /\ request' = request /\ charge' = charge /\ lastId' = lastId
  BY <1>1 DEF txVars, tables
<1>4. PICK deleted \in SUBSET Doomed(e) :
        /\ held'[e] = held[e] \union deleted /\ gone'[e] = gone[e] \union deleted
        /\ \A d \in Calls \ {e} : /\ held'[d] = held[d] /\ gone'[d] = gone[d]
                                  /\ matched'[d] = matched[d]
        /\ matched'[e] \subseteq matched[e] \union Doomed(e)
        /\ \/ UNCHANGED pc
           \/ Proceed(e) /\ matched'[e] = {}
  <2>1. CASE DeleteStarts(e)
    <3>1. /\ held' = held /\ gone' = gone
          /\ matched'[e] = Doomed(e) /\ \A d \in Calls \ {e} : matched'[d] = matched[d]
          /\ UNCHANGED pc \/ (Proceed(e) /\ matched'[e] = {})
      BY <1>a, <2>1 DEF DeleteStarts, TypeOK
    <3>2. /\ held'[e] = held[e] \union {} /\ gone'[e] = gone[e] \union {}
          /\ {} \in SUBSET Doomed(e)
      BY <3>1
    <3> QED BY <3>1, <3>2
  <2>2. CASE DeleteRow(e)
    <3>1. PICK row \in FirstOf(matched[e]) :
            /\ matched' = [matched EXCEPT ![e] = @ \ {row}]
            /\ Takes(e, {row} \cap Doomed(e))
            /\ gone' = [gone EXCEPT ![e] = @ \union ({row} \cap Doomed(e))]
            /\ IF matched[e] = {row} THEN Proceed(e) ELSE UNCHANGED pc
      BY <2>2 DEF DeleteRow
    <3>2. /\ held'[e] = held[e] \union ({row} \cap Doomed(e))
          /\ gone'[e] = gone[e] \union ({row} \cap Doomed(e))
          /\ matched'[e] = matched[e] \ {row}
          /\ \A d \in Calls \ {e} : /\ held'[d] = held[d] /\ gone'[d] = gone[d]
                                    /\ matched'[d] = matched[d]
      BY <1>a, <3>1 DEF Takes, TypeOK
    <3>3. {row} \cap Doomed(e) \in SUBSET Doomed(e)
      OBVIOUS
    <3>4. UNCHANGED pc \/ (Proceed(e) /\ matched'[e] = {})
      BY <3>1, <3>2
    <3> QED BY <3>2, <3>3, <3>4
  <2> QED BY <1>1, <2>1, <2>2
<1>5. /\ \A d \in Calls \ {e} : pc'[d] = pc[d]
      /\ pc'[e] = pc[e] \/ (pc'[e] = After[Op(e)][pc[e]] /\ matched'[e] = {})
  BY <1>a, <1>4 DEF Proceed, TypeOK
<1>6. /\ pc'[e] \in Statements /\ pc'[e] # "update" /\ ~Inserted(e)'
      /\ Charger(e) => pc[e] = "prune" /\ pc'[e] \notin BeforeLock
      /\ Op(e) \notin {"register", "create", "status"}
  <2>1. /\ After[Op(e)][pc[e]] \in Statements /\ After[Op(e)][pc[e]] # "update"
        /\ Op(e) = "reserve" => After[Op(e)][pc[e]] # "commit"
        /\ Charger(e) => pc[e] = "prune" /\ After[Op(e)][pc[e]] \in {"sum", "find"}
        /\ Op(e) \notin {"register", "create", "status"}
    BY <1>2, Follows, LockSteps, Orders DEF Op, Deleting, Charger, Charging, Resetting
  <2> QED BY <1>3, <1>5, <2>1 DEF Deleting, Statements, Inserted, Reserving, Op, BeforeLock
<1>7. \A row \in Doomed(e) :
        /\ row[1] = "charge" => row[2] \in DOMAIN charges /\ row[2] \in 0..lastId
        /\ Charger(e) => row[1] = "charge" /\ OfAccount(e, row[2])
  <2>1. \A i \in DOMAIN charges : i \in 0..lastId
    BY <1>a DEF TypeOK
  <2>2. CASE pc[e] = "prune"
    <3>1. \A row \in Doomed(e) : \E i \in Expired(e) : row = <<"charge", i>>
      BY <2>2 DEF Doomed, Row
    <3>2. \A i \in Expired(e) : i \in DOMAIN charges /\ charges[i].account = Account(e)
      BY DEF Expired, Mine, Visible
    <3> QED BY <2>1, <3>1, <3>2 DEF OfAccount
  <2>3. CASE pc[e] = "delete_charges"
    <3>1. \A row \in Doomed(e) : \E i \in DOMAIN charges : row = <<"charge", i>>
      BY <2>3 DEF Doomed, Row, Mine, Visible
    <3> QED BY <1>6, <2>1, <2>3, <3>1
  <2>4. CASE pc[e] \in {"delete_keys", "delete_tasks", "delete_locks"}
    BY <1>6, <2>4 DEF Doomed, Row
  <2> QED BY <2>2, <2>3, <2>4 DEF Deleting
<1>8. /\ Op(e)' = Op(e) /\ Account(e)' = Account(e) /\ Charger(e)' = Charger(e)
      /\ LockOf(e)' = LockOf(e)
  BY <1>3 DEF Op, Account, Charger, LockOf, Row
<1>9. \A i : OfAccount(e, i)' = OfAccount(e, i)
  BY <1>3, <1>8 DEF OfAccount
<1>10. ASSUME NEW row \in held'[e] PROVE MayHold(e, row)'
  <2>1. CASE row \in held[e]
    <3>1. MayHold(e, row)
      BY <1>a, <2>1 DEF Orderly
    <3> QED BY <1>3, <1>6, <1>8, <1>9, <3>1 DEF MayHold, BeforeLock
  <2>2. CASE row \in Doomed(e)
    BY <1>3, <1>6, <1>7, <1>8, <1>9, <2>2 DEF MayHold
  <2> QED BY <1>4, <2>1, <2>2
<1>11. ASSUME NEW row \in matched'[e] PROVE MayMatch(e, row)'
  <2>1. row \in matched[e] => MayMatch(e, row)
    BY <1>a DEF Orderly
  <2> QED BY <1>3, <1>4, <1>7, <1>8, <1>9, <2>1 DEF MayMatch
<1>12. ASSUME Charger(e), e \notin caught PROVE HasLock(e)'
  <2>1. LockOf(e) \in held[e]
    BY <1>a, <1>6, <1>12 DEF Orderly, HasLock, BeforeLock, Statements
  <2> QED BY <1>4, <1>6, <1>8, <1>12, <2>1 DEF HasLock, BeforeLock
<1>13. Orderly(e)'
  <2>1. gone'[e] \subseteq held'[e]
    BY <1>a, <1>4 DEF Orderly
  <2>2. matched'[e] # {} => pc'[e] \in Deleting
    BY <1>5
  <2> QED BY <1>3, <1>6, <1>8, <1>10, <1>11, <1>12, <2>1, <2>2 DEF Orderly
<1>14. ASSUME NEW d \in Calls \ {e}, Inserted(d) PROVE ~AimsAt(e, charge[d])'
  <2>1. charge[d] \notin DOMAIN charges /\ ~AimsAt(e, charge[d])
    BY <1>a, <1>14 DEF Unseen
  <2>2. Row("charge", charge[d]) \notin Doomed(e)
    BY <1>7, <2>1 DEF Row
  <2> QED BY <1>3, <1>4, <1>6, <2>1, <2>2 DEF AimsAt, Row
<1> QED BY <1>3, <1>4, <1>5, <1>6, <1>13, <1>14, <1>a, LocalLocks DEF TypeOK

(* A call that holds no locks and writes nothing.                          *)
LEMMA IdleLocks ==
    ASSUME TypeInv, LockInv, NEW e \in Calls,
           UNCHANGED <<charges, accountLocks, caught, lastId>>,
           \A d \in Calls \ {e} : /\ pc'[d] = pc[d] /\ request'[d] = request[d]
                                  /\ charge'[d] = charge[d] /\ gone'[d] = gone[d]
                                  /\ held'[d] = held[d] /\ matched'[d] = matched[d],
           held'[e] = {}, gone'[e] = {}, matched'[e] = {},
           pc'[e] \notin {"update", "lock"}, ~Inserted(e)',
           Charger(e)' => pc'[e] \notin Statements \ BeforeLock
    PROVE  LockInv'
<1>1. Orderly(e)'
  BY DEF Orderly, HasLock
<1>2. \A d \in Calls : ~AimsAt(e, charge[d])'
  BY DEF AimsAt
<1> QED BY <1>1, <1>2, LocalLocks DEF TypeInv, TypeOK

LEMMA InitLocks == Init => LockInv
BY DEF Init, LockInv, Orderly, Unseen, Inserted, Reserving, Op, NoRequest, Charger, Statements,
       Deleting

LEMMA StepLocks == TypeInv /\ Distinct /\ LockInv /\ [Next]_vars => LockInv'
<1> SUFFICES ASSUME TypeInv, Distinct, LockInv, [Next]_vars PROVE LockInv'
  OBVIOUS
<1>a. TypeOK /\ Steps /\ \A c \in Calls : Orderly(c)
  BY DEF TypeInv, LockInv
<1>b. \A c \in Calls : pc[c] \in {"idle", "begin"} =>
        held[c] = {} /\ gone[c] = {} /\ matched[c] = {}
  BY <1>a DEF Orderly, Statements, Deleting
<1>1. ASSUME NEW e \in Calls, Enter(e) PROVE LockInv'
  <2>1. /\ pc[e] = "idle" /\ pc'[e] = "begin"
        /\ UNCHANGED <<charge, lockVars, charges, accountLocks, caught, lastId>>
        /\ \A d \in Calls \ {e} : pc'[d] = pc[d] /\ request'[d] = request[d]
    BY <1>a, <1>1 DEF Enter, TypeOK, tables, history
  <2>2. held'[e] = {} /\ gone'[e] = {} /\ matched'[e] = {} /\ ~Inserted(e)'
    BY <1>b, <2>1 DEF lockVars, Inserted
  <2> QED BY <2>1, <2>2, IdleLocks DEF lockVars, Statements
<1>2. ASSUME NEW e \in Calls,
             BorrowRaises(e) \/ TransactionFails(e) \/ DeadlockDetected(e) PROVE LockInv'
  <2>1. /\ pc' = [pc EXCEPT ![e] = "raised"]
        /\ \A d \in Calls \ {e} : /\ held'[d] = held[d] /\ gone'[d] = gone[d]
                                  /\ matched'[d] = matched[d]
        /\ held'[e] = {} /\ gone'[e] = {} /\ matched'[e] = {}
        /\ UNCHANGED <<request, charge, charges, accountLocks, caught, lastId>>
    BY <1>a, <1>b, <1>2 DEF BorrowRaises, TransactionFails, DeadlockDetected, RolledBack,
                            lockVars, TypeOK, txVars, tables, history
  <2>2. pc'[e] = "raised" /\ \A d \in Calls \ {e} : pc'[d] = pc[d]
    BY <1>a, <2>1 DEF TypeOK
  <2> QED BY <2>1, <2>2, IdleLocks DEF Statements, Inserted
<1>3. ASSUME NEW e \in Calls, Borrow(e) PROVE LockInv'
  <2>1. request[e] \in Asked /\ pc[e] \in DOMAIN After[Op(e)] /\ pc[e] = "begin"
    BY <1>a, <1>3 DEF Borrow, Steps, Waiting
  <2>2. /\ pc'[e] = After[Op(e)][pc[e]] /\ \A d \in Calls \ {e} : pc'[d] = pc[d]
        /\ UNCHANGED <<txVars, lockVars, tables, caught, lastId>>
    BY <1>a, <1>3 DEF Borrow, Proceed, TypeOK, history
  <2>3. /\ pc'[e] \notin {"update", "lock"}
        /\ Op(e) = "reserve" => pc'[e] # "commit"
        /\ Charger(e) => pc'[e] = "insert_lock"
    BY <2>1, <2>2, LockSteps, Orders DEF Op, Charger
  <2> QED BY <1>b, <2>1, <2>2, <2>3, IdleLocks
          DEF txVars, lockVars, tables, Inserted, Reserving, Op, Charger, BeforeLock
<1>4. ASSUME NEW e \in Calls, Statement(e) PROVE LockInv'
  <2>1. \/ pc[e] \in {"sum", "insert", "find", "select"} \/ pc[e] \in Deleting
        \/ pc[e] \in {"insert_lock", "lock", "update", "claim", "upsert", "set"}
        \/ Commit(e)
    BY <1>4 DEF Statement, InsertLock, Lock, DeleteStarts, DeleteRow, Sum, Insert, Find, Update,
                Claim, Select, Upsert
  <2> QED BY <1>4, <2>1, PlainLocks, LockingLocks, DeletingLocks, CommitLocks
<1>5. ASSUME Close \/ Tick \/ Quiesced \/ UNCHANGED vars PROVE LockInv'
  <2>1. UNCHANGED <<pc, txVars, lockVars, tables, lastId, history>>
    BY <1>5 DEF Close, Tick, Quiesced, vars
  <2> QED BY <2>1 DEF txVars, lockVars, tables, history, LockInv, Orderly, Unseen, Inserted,
                      Reserving, AimsAt, Op, Charger, Account, LockOf, OfAccount, HasLock,
                      MayHold, MayMatch
<1> QED BY <1>1, <1>2, <1>3, <1>4, <1>5 DEF Next

(* Among themselves, reservations, settlements, claims and status writes   *)
(* never deadlock, unless a reset of everything was under way with them:   *)
(* whoever has locked a charge has locked its account before.              *)
THEOREM NobodyDeadlocks == Spec => []NoDeadlock
<1>1. Init => TypeInv /\ Answering /\ SerialInv /\ LockInv
  BY InitTyped, InitSerial, InitLocks DEF Init, Answering
<1>2. TypeInv /\ Answering /\ SerialInv /\ LockInv /\ [Next]_vars
      => (TypeInv /\ Answering /\ SerialInv /\ LockInv)'
  BY StepTyped, StepAnswering, StepSerial, StepLocks DEF SerialInv
<1>3. TypeInv /\ LockInv => NoDeadlock
  BY NoCycle
<1> QED BY <1>1, <1>2, <1>3, PTL DEF Spec

=============================================================================
