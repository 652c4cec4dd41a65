------------------------- MODULE AtomicStoreProofs -------------------------
(***************************************************************************)
(* PostgresStore implements AtomicStore, for every set of calls, accounts, *)
(* keys and tasks, every size of the pool and every failure.               *)
(*                                                                         *)
(* What a call has read stays true of the ledger of its account until the  *)
(* call takes effect: a reservation or a settlement holds the lock row, a  *)
(* claim or a status write its row; who deletes charges without the lock   *)
(* row only deletes expired ones.                                          *)
(***************************************************************************)
EXTENDS PostgresStoreProofs, SumLemmas

(* What has committed is spelt out in every proof below.                   *)
USE DEF Committed

(* Like AtomicStore, with the ledger and the start of the window given.    *)
Views(L, low) == {S \in SUBSET L : {h \in L : h.ts >= low} \subseteq S}
Total(S) == MapThenSumSet(LAMBDA h : h.amount, S)
Latest(S, amount) ==
    {h \in S : h.amount = amount /\ \A g \in S : g.amount = amount => g.id <= h.id}
(* An entry of the ledger once charge i is given another amount.           *)
Revalue(h, i, amount) == IF h.id = i THEN [h EXCEPT !.amount = amount] ELSE h

(* The start of the window, and the ledger of the account that a call asks *)
(* about, before and after it settles.                                     *)
Start == clock - Window
Charged(c) == LedgerOf(Account(c))
Revalued(c) == {Revalue(h, charge[c], request[c].actual) : h \in Charged(c)}

(* Everything is disturbed once anybody was caught by a reset of           *)
(* everything.                                                             *)
Scopes == caught = {} \/ Accounts \union {Everything} \subseteq disturbed

(* A charge is in the table, or deleted, or its number is taken.           *)
Apart ==
    /\ DOMAIN charges \cap DOMAIN pruned = {}
    /\ \A c \in Calls : Inserted(c) => charge[c] \notin DOMAIN pruned

(* What was deleted had expired; nobody has read a time that has not come. *)
Expiry ==
    /\ \A i \in DOMAIN pruned : pruned[i].ts < Start
    /\ \A c \in Calls : at[c] <= clock

(* A call has no answer before the statement that computes it.             *)
Unanswered(c) ==
    /\ pc[c] = "idle" => request[c] = NoRequest
    /\ pc[c] \notin {"insert", "commit"} \union Ends \/ Op(c) \in Resetting
       => answer[c] = NoAnswer

(* What a transaction has deleted: expired charges, when it prunes, or     *)
(* what it resets.                                                         *)
GoneRows(c) ==
    /\ \A i \in Nat : Row("charge", i) \in gone[c] =>
         /\ i \in DOMAIN charges
         /\ Op(c) \in Charging => charges[i].ts < at[c] - Window
         /\ Op(c) = "reset_account" => charges[i].account = Account(c)
    /\ \A t \in Tasks : Row("task", t) \in gone[c] =>
         /\ Op(c) \in Resetting
         /\ Op(c) = "reset_account" => Owner[t] = Account(c)
    /\ gone[c] # {} => Op(c) \in Charging \union Resetting

(* The charge that a settlement is about to write.                         *)
Chosen(c) ==
    Op(c) = "settle" /\ charge[c] # None =>
      /\ pc[c] \in {"sum", "commit"} =>
           /\ charge[c] \in DOMAIN charges /\ charges[charge[c]].account = Account(c)
           /\ Row("charge", charge[c]) \in held[c]
      /\ pc[c] \in {"update", "sum", "commit"} => Row("charge", charge[c]) \notin gone[c]

(* A claim that is to commit has found the key free, and keeps it so, or   *)
(* answers what the key maps to.                                           *)
Claiming(c) ==
    Op(c) = "register" /\ pc[c] = "commit" =>
      LET k == request[c].key
      IN /\ held[c] \subseteq {Row("key", k)}
         /\ Row("key", k) \in held[c] =>
              idempotency[k] = Null /\ answer[c] = [task |-> c, created |-> TRUE]
         /\ Row("key", k) \notin held[c] /\ Everything \notin disturbed =>
              idempotency[k] # Null /\ answer[c] = [task |-> idempotency[k], created |-> FALSE]

(* A status write that is to commit holds the row that it writes, or has   *)
(* met none.                                                               *)
Writing(c) ==
    Op(c) \in {"create", "status"} /\ pc[c] = "commit" =>
      LET t == request[c].task
      IN \/ /\ held[c] = {Row("task", t)} /\ answer[c] = [rows |-> 1]
            /\ Op(c) = "status" => tasks[t] # Null
         \/ Op(c) = "status" /\ held[c] = {} /\ answer[c] = [rows |-> 0]

(* What a reservation and a settlement have read.                          *)
SeenByReserve(c) ==
    \E S \in Views(Charged(c), Start) :
        answer[c] = [balance |-> Total(S) + request[c].cost,
                     degraded |-> Total(S) + request[c].cost >= Threshold]

(* The charge that a settlement has found is the latest of its amount; one *)
(* that has found none, or whose charge has been deleted, leaves only      *)
(* expired ones.                                                           *)
SeenByFind(c) ==
    \E S \in Views(Charged(c), Start) :
        IF charge[c] = None
        THEN \A h \in Latest(S, request[c].cost) : h.ts < Start
        ELSE Latest(S, request[c].cost) = {h \in Charged(c) : h.id = charge[c]}

(* The balance is that of the ledger as the settlement will leave it.      *)
SeenBySettle(c) == \E S \in Views(Revalued(c), Start) : answer[c] = [balance |-> Total(S)]

(* All of this holds as long as the account is not reset.                  *)
Viewed(c) ==
    Charger(c) /\ Account(c) \notin disturbed =>
      /\ Op(c) = "reserve" /\ pc[c] \in {"insert", "commit"} => SeenByReserve(c)
      /\ Inserted(c) => \A h \in Charged(c) : h.id < charge[c]
      /\ Op(c) = "settle" /\ pc[c] \in {"update", "sum", "commit"} => SeenByFind(c)
      /\ Op(c) = "settle" /\ pc[c] = "commit" => SeenBySettle(c)

(* What AtomicStore needs to know of a call, and of all of them.           *)
Faithful(c) ==
    Unanswered(c) /\ GoneRows(c) /\ Chosen(c) /\ Claiming(c) /\ Writing(c) /\ Viewed(c)

(* The invariant of the refinement.                                        *)
ViewInv == Scopes /\ Apart /\ Expiry /\ \A c \in Calls : Faithful(c)

(* The invariants that the others rest on.                                 *)
StoreInv == TypeInv /\ Answering /\ SerialInv /\ LockInv

-----------------------------------------------------------------------------
(* The charges that are or were in the table, by number.                   *)
Book == [i \in DOMAIN charges \union DOMAIN pruned |->
           IF i \in DOMAIN charges THEN charges[i] ELSE pruned[i]]
(* A row of the book as AtomicStore keeps it, and the rows of an account.  *)
Entry(row, i) == [id |-> i, amount |-> row.amount, ts |-> row.ts]
InBook(a) == {i \in DOMAIN Book : Book[i].account = a}

(* The ledger of an account that was not reset is what the book says of    *)
(* it.                                                                     *)
LEMMA Ledger ==
    ASSUME Apart, NEW a, a \notin disturbed
    PROVE  LedgerOf(a) = {Entry(Book[i], i) : i \in InBook(a)}
<1>1. /\ \A i \in DOMAIN charges : i \in DOMAIN Book /\ Book[i] = charges[i]
      /\ \A i \in DOMAIN pruned : i \in DOMAIN Book /\ Book[i] = pruned[i]
      /\ \A i \in DOMAIN Book : i \in DOMAIN charges \/ i \in DOMAIN pruned
  BY DEF Apart, Book
<1> HIDE DEF Book
<1>2. ASSUME NEW h \in LedgerOf(a) PROVE h \in {Entry(Book[i], i) : i \in InBook(a)}
  <2>1. CASE \E i \in DOMAIN charges : charges[i].account = a /\ h = Entry(charges[i], i)
    BY <1>1, <2>1 DEF InBook
  <2>2. CASE \E i \in DOMAIN pruned : pruned[i].account = a /\ h = Entry(pruned[i], i)
    BY <1>1, <2>2 DEF InBook
  <2> QED BY <1>2, <2>1, <2>2 DEF LedgerOf, Entry
<1>3. ASSUME NEW i \in InBook(a) PROVE Entry(Book[i], i) \in LedgerOf(a)
  BY <1>1 DEF LedgerOf, Entry, InBook
<1> QED BY <1>2, <1>3

(* The same of all accounts.                                               *)
LEMMA LedgerForm ==
    Apart => \A a : a \notin disturbed => LedgerOf(a) = {Entry(Book[i], i) : i \in InBook(a)}
BY Ledger

(* The same after a step.                                                  *)
LEMMA LedgerNext ==
    (Apart => \A a : a \notin disturbed => LedgerOf(a) = {Entry(Book[i], i) : i \in InBook(a)})'
BY LedgerForm, PTL

(* The book is finite, and its rows have the type of charges.              *)
LEMMA BookTyped ==
    ASSUME TypeOK
    PROVE  /\ DOMAIN Book \subseteq 1..lastId /\ IsFiniteSet(DOMAIN Book)
           /\ \A i \in DOMAIN Book : /\ i \in Nat /\ i # None /\ Book[i] \in ChargeRows
                                     /\ Book[i].amount \in Nat /\ Book[i].ts \in Int
<1>1. /\ DOMAIN Book \subseteq 1..lastId
      /\ \A i \in DOMAIN Book : i \in Nat /\ i # None /\ Book[i] \in ChargeRows
  BY DEF TypeOK, Book, None
<1>2. lastId \in Int /\ MaxClock \in Nat
  BY PostgresAssumption DEF TypeOK
<1>3. IsFiniteSet(1..lastId)
  BY <1>2, FS_Interval
<1>4. IsFiniteSet(DOMAIN Book)
  BY <1>1, <1>3, FS_Subset
<1> HIDE DEF Book
<1> QED BY <1>1, <1>2, <1>4 DEF ChargeRows

(* The window moves on: what has been seen remains enough.                 *)
LEMMA ViewsGrow ==
    ASSUME NEW L, NEW low \in Int, NEW high \in Int, low <= high,
           \A h \in L : h.ts \in Int
    PROVE  Views(L, low) \subseteq Views(L, high)
BY DEF Views

(* An entry of a ledger is a record of numbers, one for each charge.       *)
LEMMA LedgerTyped ==
    ASSUME TypeOK, Apart, NEW a, NEW h \in LedgerOf(a)
    PROVE  /\ h = [id |-> h.id, amount |-> h.amount, ts |-> h.ts]
           /\ h.id \in InBook(a) /\ h = Entry(Book[h.id], h.id)
           /\ h.id \in 1..lastId /\ h.amount \in Nat /\ h.ts \in Int
<1>1. a \notin disturbed
  BY DEF LedgerOf
<1>2. PICK i \in InBook(a) : h = Entry(Book[i], i)
  BY <1>1, Ledger
<1>3. i \in DOMAIN Book
  BY DEF InBook
<1> QED BY <1>2, <1>3, BookTyped DEF Entry

-----------------------------------------------------------------------------
(* A commit.                                                               *)
New(c) == IF Op(c) = "reserve" THEN {charge[c]} ELSE {}

(* What a commit does to the calls, and that its locks are its own.        *)
LEMMA CommitFacts ==
    ASSUME StoreInv, NEW e \in Calls, Commit(e)
    PROVE  /\ pc[e] = "commit" /\ pc'[e] \in Ends /\ request[e] \in Asked
           /\ held'[e] = {} /\ gone'[e] = {}
           /\ \A d \in Calls \ {e} : pc'[d] = pc[d] /\ held'[d] = held[d] /\ gone'[d] = gone[d]
           /\ request' = request /\ at' = at /\ charge' = charge /\ counted' = counted
           /\ answer' = answer /\ matched' = matched /\ lastId' = lastId /\ clock' = clock
           /\ \A d \in Calls \ {e} : held[d] \cap held[e] = {}
           /\ gone[e] \subseteq held[e]
           /\ \A i \in New(e) : i \notin DOMAIN charges /\ i \in 1..lastId
<1>1. /\ pc[e] = "commit" /\ pc'[e] \in Ends
      /\ held'[e] = {} /\ gone'[e] = {}
      /\ \A d \in Calls \ {e} : pc'[d] = pc[d] /\ held'[d] = held[d] /\ gone'[d] = gone[d]
  BY DEF StoreInv, TypeInv, Commit, Outcomes, TypeOK, Ends
<1>2. request[e] \in Asked
  BY <1>1 DEF StoreInv, TypeInv, Steps, Waiting, Statements
<1>3. /\ \A d \in Calls \ {e} : held[d] \cap held[e] = {}
      /\ gone[e] \subseteq held[e]
  BY DEF StoreInv, TypeInv, Exclusive, LockInv, Orderly
<1>4. \A i \in New(e) : i \notin DOMAIN charges /\ i \in 1..lastId
  BY <1>1 DEF StoreInv, TypeInv, Numbered, LockInv, Unseen, Inserted, Reserving, New
<1> QED BY <1>1, <1>2, <1>3, <1>4 DEF Commit, txVars

(* What becomes of the tables of charges, and of the deleted ones.         *)
LEMMA CommitCharges ==
    ASSUME StoreInv, ViewInv, NEW e \in Calls, Commit(e)
    PROVE  /\ DOMAIN charges' = Left(e) \union New(e)
           /\ \A i \in New(e) :
                charges'[i] = [account |-> Account(e), amount |-> request[e].cost, ts |-> at[e]]
           /\ \A i \in Left(e) : charges'[i] = IF Op(e) = "settle" /\ i = charge[e]
                                               THEN [charges[i] EXCEPT !.amount = request[e].actual]
                                               ELSE charges[i]
           /\ Op(e) \in Charging =>
                /\ DOMAIN pruned' = DOMAIN pruned \union (DOMAIN charges \ Left(e))
                /\ \A i \in DOMAIN pruned : pruned'[i] = pruned[i]
                /\ \A i \in DOMAIN charges \ Left(e) : pruned'[i] = charges[i]
           /\ Op(e) \notin Charging => DOMAIN pruned' = DOMAIN pruned
                                       /\ \A i \in DOMAIN pruned : pruned'[i] = pruned[i]
<1>1. charges' = ChargesAfter(e) /\ pruned' = PrunedAfter(e)
  BY DEF Commit
<1>2. New(e) \cap DOMAIN charges = {} /\ Left(e) \subseteq DOMAIN charges
  BY CommitFacts DEF Left
<1>3. DOMAIN charges \cap DOMAIN pruned = {}
  BY DEF ViewInv, Apart
<1>4. New(e) = IF request[e].op = "reserve" THEN {charge[e]} ELSE {}
  BY DEF New, Op
<1> HIDE DEF New
<1>5. charges' = [i \in Left(e) \union New(e) |->
                    IF i \in New(e)
                    THEN [account |-> Account(e), amount |-> request[e].cost, ts |-> at[e]]
                    ELSE IF Op(e) = "settle" /\ i = charge[e]
                         THEN [charges[i] EXCEPT !.amount = request[e].actual] ELSE charges[i]]
  BY <1>1, <1>4, Zenon DEF ChargesAfter, Op, Account
<1> DEFINE out == IF Op(e) \in Charging THEN DOMAIN charges \ Left(e) ELSE {}
<1>6. pruned' = [i \in DOMAIN pruned \union out |->
                   IF i \in out THEN charges[i] ELSE pruned[i]]
  BY <1>1 DEF PrunedAfter
<1>7. out \subseteq DOMAIN charges
  OBVIOUS
<1>8. /\ DOMAIN charges' = Left(e) \union New(e)
      /\ \A i \in New(e) :
           charges'[i] = [account |-> Account(e), amount |-> request[e].cost, ts |-> at[e]]
  BY <1>5
<1>9. ASSUME NEW i \in Left(e)
      PROVE  charges'[i] = IF Op(e) = "settle" /\ i = charge[e]
                           THEN [charges[i] EXCEPT !.amount = request[e].actual] ELSE charges[i]
  <2>1. i \notin New(e)
    BY <1>2
  <2> QED BY <1>5, <2>1
<1>10. DOMAIN pruned' = DOMAIN pruned \union out
  BY <1>6
<1>11. /\ \A i \in DOMAIN pruned : pruned'[i] = pruned[i]
       /\ \A i \in out : pruned'[i] = charges[i]
  <2> HIDE DEF out
  <2> QED BY <1>3, <1>6, <1>7
<1> QED BY <1>8, <1>9, <1>10, <1>11

(* A commit moves a charge from one table to the other, never copies it.   *)
LEMMA CommitApart ==
    ASSUME StoreInv, ViewInv, NEW e \in Calls, Commit(e)
    PROVE  Apart'
<1>1. DOMAIN charges \cap DOMAIN pruned = {} /\ New(e) \cap DOMAIN charges = {}
      /\ New(e) \cap DOMAIN pruned = {} /\ Left(e) \subseteq DOMAIN charges
  BY CommitFacts DEF ViewInv, Apart, New, Left, Inserted, Reserving
<1>2. DOMAIN pruned' \subseteq DOMAIN pruned \union (DOMAIN charges \ Left(e))
  BY CommitCharges
<1>3. DOMAIN charges' \cap DOMAIN pruned' = {}
  BY <1>1, <1>2, CommitCharges
<1>4. ASSUME NEW d \in Calls, Inserted(d)' PROVE charge'[d] \notin DOMAIN pruned'
  <2>1. d # e /\ Inserted(d) /\ charge'[d] = charge[d]
    BY <1>4, CommitFacts DEF Inserted, Reserving, Op, Ends
  <2>2. charge[d] \notin DOMAIN charges /\ charge[d] \notin DOMAIN pruned
    BY <2>1 DEF StoreInv, LockInv, Unseen, ViewInv, Apart
  <2> QED BY <1>2, <2>1, <2>2
<1> QED BY <1>3, <1>4 DEF Apart

(* The charges that a settlement writes and a prune deletes.               *)
LEMMA CommitBook ==
    ASSUME StoreInv, ViewInv, NEW e \in Calls, Commit(e)
    PROVE  /\ Op(e) \in Charging => DOMAIN Book' = DOMAIN Book \union New(e)
           /\ Op(e) \notin Charging =>
                DOMAIN Book' = DOMAIN Book \ {i \in DOMAIN charges : i \notin Left(e)}
           /\ \A i \in New(e) : i \notin DOMAIN Book /\ i \in DOMAIN Book'
                /\ Book'[i] = [account |-> Account(e), amount |-> request[e].cost, ts |-> at[e]]
           /\ \A i \in DOMAIN Book' \ New(e) : /\ i \in DOMAIN Book
                /\ Book'[i] = IF Op(e) = "settle" /\ i = charge[e]
                              THEN [Book[i] EXCEPT !.amount = request[e].actual] ELSE Book[i]
<1>1. /\ DOMAIN charges \cap DOMAIN pruned = {} /\ New(e) \cap DOMAIN charges = {}
      /\ New(e) \cap DOMAIN pruned = {} /\ Left(e) \subseteq DOMAIN charges
      /\ DOMAIN charges' \cap DOMAIN pruned' = {}
  BY CommitFacts, CommitApart DEF ViewInv, Apart, New, Left, Inserted, Reserving
<1>2. /\ DOMAIN Book = DOMAIN charges \union DOMAIN pruned
      /\ \A i \in DOMAIN charges : Book[i] = charges[i]
      /\ \A i \in DOMAIN pruned : Book[i] = pruned[i]
  BY <1>1 DEF Book
<1>3. /\ DOMAIN Book' = DOMAIN charges' \union DOMAIN pruned'
      /\ \A i \in DOMAIN charges' : Book'[i] = charges'[i]
      /\ \A i \in DOMAIN pruned' : Book'[i] = pruned'[i]
  BY <1>1 DEF Book
<1>c. /\ DOMAIN pruned' \subseteq DOMAIN pruned \union (DOMAIN charges \ Left(e))
      /\ \A i \in DOMAIN pruned : pruned'[i] = pruned[i]
      /\ \A i \in DOMAIN pruned' \ DOMAIN pruned : pruned'[i] = charges[i]
  BY CommitCharges
<1>d. DOMAIN charges' = Left(e) \union New(e)
  BY CommitCharges
<1>4. Op(e) = "settle" /\ charge[e] \in DOMAIN Book => charge[e] \in Left(e)
  <2>1. SUFFICES ASSUME Op(e) = "settle", charge[e] \in DOMAIN Book PROVE charge[e] \in Left(e)
    OBVIOUS
  <2>2. charge[e] # None
    BY <2>1, BookTyped DEF StoreInv, TypeInv
  <2>3. Chosen(e) /\ pc[e] = "commit"
    BY CommitFacts DEF ViewInv, Faithful
  <2> QED BY <2>1, <2>2, <2>3 DEF Chosen, Left
<1>5. Op(e) \in Charging => DOMAIN Book' = DOMAIN Book \union New(e)
  BY <1>1, <1>2, <1>3, CommitCharges
<1>6. Op(e) \notin Charging =>
        DOMAIN Book' = DOMAIN Book \ {i \in DOMAIN charges : i \notin Left(e)}
  <2>1. Op(e) \notin Charging => New(e) = {}
    BY DEF New, Charging
  <2> QED BY <1>1, <1>2, <1>3, <2>1, CommitCharges
<1>7. ASSUME NEW i \in New(e)
      PROVE  /\ i \notin DOMAIN Book /\ i \in DOMAIN Book'
             /\ Book'[i] = [account |-> Account(e), amount |-> request[e].cost, ts |-> at[e]]
  <2>1. i \in DOMAIN charges'
    BY CommitCharges
  <2>2. Book'[i] = charges'[i] /\ i \in DOMAIN Book'
    BY <1>3, <2>1
  <2>3. i \notin DOMAIN Book
    BY <1>1, <1>2
  <2> QED BY <2>2, <2>3, CommitCharges
<1>8. ASSUME NEW i \in DOMAIN Book' \ New(e)
      PROVE  /\ i \in DOMAIN Book
             /\ Book'[i] = IF Op(e) = "settle" /\ i = charge[e]
                           THEN [Book[i] EXCEPT !.amount = request[e].actual] ELSE Book[i]
  <2>1. CASE i \in DOMAIN charges'
    <3>1. i \in Left(e) /\ Book'[i] = charges'[i] /\ i \in DOMAIN Book /\ Book[i] = charges[i]
      BY <1>1, <1>2, <1>3, <1>d, <2>1
    <3>2. charges'[i] = IF Op(e) = "settle" /\ i = charge[e]
                        THEN [charges[i] EXCEPT !.amount = request[e].actual] ELSE charges[i]
      BY <3>1, CommitCharges
    <3> QED BY <3>1, <3>2
  <2>2. CASE i \in DOMAIN pruned'
    <3>1. Book'[i] = pruned'[i] /\ i \notin Left(e)
      BY <1>1, <1>3, <1>d, <2>2
    <3>2. i \in DOMAIN Book /\ pruned'[i] = Book[i]
      <4>1. CASE i \in DOMAIN pruned
        <5>1. pruned'[i] = pruned[i]
          BY <1>c, <4>1
        <5> QED BY <1>2, <4>1, <5>1
      <4>2. CASE i \notin DOMAIN pruned
        <5>1. i \in DOMAIN charges \ Left(e) /\ pruned'[i] = charges[i]
          BY <1>c, <2>2, <4>2
        <5> QED BY <1>2, <5>1
      <4> QED BY <4>1, <4>2
    <3>3. ~(Op(e) = "settle" /\ i = charge[e])
      BY <1>4, <3>1, <3>2
    <3> QED BY <3>1, <3>2, <3>3
  <2> QED BY <1>3, <2>1, <2>2
<1> QED BY <1>5, <1>6, <1>7, <1>8

(* What becomes of the ledger of an account.                               *)
LEMMA CommitLedger ==
    ASSUME StoreInv, ViewInv, NEW e \in Calls, Commit(e), NEW a \in Accounts, a \notin disturbed'
    PROVE  /\ a \notin disturbed
           /\ ~(Charger(e) /\ Account(e) = a) => LedgerOf(a)' = LedgerOf(a)
           /\ Op(e) = "reserve" /\ Account(e) = a =>
                LedgerOf(a)' = LedgerOf(a) \union
                               {[id |-> charge[e], amount |-> request[e].cost, ts |-> at[e]]}
           /\ Op(e) = "settle" /\ Account(e) = a => LedgerOf(a)' = Revalued(e)
<1>a. a \notin disturbed /\ Apart /\ Apart' /\ TypeOK
  BY CommitApart DEF Commit, ViewInv, StoreInv, TypeInv
<1>1. /\ LedgerOf(a) = {Entry(Book[i], i) : i \in InBook(a)}
      /\ LedgerOf(a)' = {Entry(Book'[i], i) : i \in InBook(a)'}
  <2>1. LedgerOf(a)' = {Entry(Book[i], i) : i \in InBook(a)}'
    BY <1>a, LedgerNext
  <2> QED BY <1>a, <2>1, Ledger DEF Entry
<1>t. \A i \in DOMAIN Book : Book[i] \in ChargeRows /\ i # None /\ i \in Nat
  BY <1>a, BookTyped
<1>2. \A i \in DOMAIN Book' \ New(e) :
        /\ i \in DOMAIN Book /\ Book'[i].account = Book[i].account
        /\ Op(e) = "settle" /\ i = charge[e] =>
             Entry(Book'[i], i) = [Entry(Book[i], i) EXCEPT !.amount = request[e].actual]
        /\ ~(Op(e) = "settle" /\ i = charge[e]) => Entry(Book'[i], i) = Entry(Book[i], i)
  <2>1. SUFFICES ASSUME NEW i \in DOMAIN Book' \ New(e)
        PROVE /\ i \in DOMAIN Book /\ Book'[i].account = Book[i].account
              /\ Op(e) = "settle" /\ i = charge[e] =>
                   Entry(Book'[i], i) = [Entry(Book[i], i) EXCEPT !.amount = request[e].actual]
              /\ ~(Op(e) = "settle" /\ i = charge[e]) => Entry(Book'[i], i) = Entry(Book[i], i)
    OBVIOUS
  <2>2. /\ i \in DOMAIN Book
        /\ Book'[i] = IF Op(e) = "settle" /\ i = charge[e]
                      THEN [Book[i] EXCEPT !.amount = request[e].actual] ELSE Book[i]
    BY CommitBook
  <2>3. Book[i] \in ChargeRows
    BY <1>t, <2>2
  <2> QED BY <2>2, <2>3 DEF Entry, ChargeRows
<1>3. /\ \A i \in New(e) : i \notin DOMAIN Book /\ i \in DOMAIN Book'
           /\ Book'[i] = [account |-> Account(e), amount |-> request[e].cost, ts |-> at[e]]
      /\ Op(e) \in Charging => DOMAIN Book' = DOMAIN Book \union New(e)
      /\ Op(e) \notin Charging =>
           DOMAIN Book' = DOMAIN Book \ {i \in DOMAIN charges : i \notin Left(e)}
  BY CommitBook
<1>4. Op(e) = "settle" /\ charge[e] \in InBook(a) => Account(e) = a
  <2>1. SUFFICES ASSUME Op(e) = "settle", charge[e] \in InBook(a) PROVE Account(e) = a
    OBVIOUS
  <2>2. charge[e] \in DOMAIN Book /\ Book[charge[e]].account = a /\ charge[e] # None
    BY <1>t, <2>1 DEF InBook
  <2>3. charge[e] \in DOMAIN charges /\ charges[charge[e]].account = Account(e)
    BY <2>1, <2>2, CommitFacts DEF ViewInv, Faithful, Chosen
  <2> QED BY <2>2, <2>3 DEF Book
<1>5. Op(e) \notin Charging => \A i \in DOMAIN charges : i \notin Left(e) => i \notin InBook(a)
  <2>1. SUFFICES ASSUME Op(e) \notin Charging, NEW i \in DOMAIN charges, i \notin Left(e)
        PROVE i \notin InBook(a)
    OBVIOUS
  <2>2. Row("charge", i) \in gone[e] /\ i \in Nat
    BY <1>a, <2>1 DEF Left, TypeOK
  <2>3. GoneRows(e) /\ Op(e) \in Resetting
    BY <2>1, <2>2 DEF ViewInv, Faithful, GoneRows
  <2>4. Op(e) = "reset_account" /\ Account(e) # a
    BY <2>3 DEF Commit, Disturbs, Resetting
  <2>5. charges[i].account = Account(e)
    BY <2>2, <2>3, <2>4 DEF GoneRows
  <2> QED BY <2>1, <2>4, <2>5 DEF InBook, Book
<1>6. /\ Op(e) = "reserve" /\ Account(e) = a => InBook(a)' = InBook(a) \union {charge[e]}
      /\ ~(Op(e) = "reserve" /\ Account(e) = a) => InBook(a)' = InBook(a)
  <2>1. \A i \in New(e) : Book'[i].account = Account(e)
    BY <1>3
  <2>2. InBook(a)' \ New(e) = InBook(a)
    BY <1>2, <1>3, <1>5 DEF InBook
  <2>3. \A i \in New(e) : i \in InBook(a)' <=> Account(e) = a
    BY <1>3, <2>1 DEF InBook
  <2> QED BY <2>2, <2>3 DEF New
<1>n. \A i \in InBook(a) : i \in DOMAIN Book /\ i \notin New(e)
  BY <1>3 DEF InBook
<1>m. \A i \in InBook(a)' : i \in DOMAIN Book'
  BY DEF InBook
<1>k. Op(e) = "reserve" /\ Account(e) = a =>
        Entry(Book'[charge[e]], charge[e]) =
          [id |-> charge[e], amount |-> request[e].cost, ts |-> at[e]]
  BY <1>3 DEF Entry, New
<1> HIDE DEF Entry, InBook, Book, New
<1>7. ASSUME ~(Charger(e) /\ Account(e) = a) PROVE LedgerOf(a)' = LedgerOf(a)
  <2>1. InBook(a)' = InBook(a)
    BY <1>6, <1>7 DEF Charger
  <2>2. \A i \in InBook(a) : ~(Op(e) = "settle" /\ i = charge[e])
    BY <1>4, <1>7 DEF Charger
  <2>3. \A i \in InBook(a) : Entry(Book'[i], i) = Entry(Book[i], i)
    BY <1>2, <1>n, <1>m, <2>1, <2>2
  <2> QED BY <1>1, <2>1, <2>3
<1>8. ASSUME Op(e) = "reserve", Account(e) = a
      PROVE  LedgerOf(a)' = LedgerOf(a) \union
               {[id |-> charge[e], amount |-> request[e].cost, ts |-> at[e]]}
  <2>1. InBook(a)' = InBook(a) \union {charge[e]}
    BY <1>6, <1>8
  <2>2. \A i \in InBook(a) : Entry(Book'[i], i) = Entry(Book[i], i)
    BY <1>2, <1>n, <1>m, <1>8, <2>1
  <2> QED BY <1>1, <1>8, <1>k, <2>1, <2>2
<1>9. ASSUME Op(e) = "settle", Account(e) = a PROVE LedgerOf(a)' = Revalued(e)
  <2>1. InBook(a)' = InBook(a)
    BY <1>6, <1>9
  <2>2. \A i \in InBook(a) :
          Entry(Book'[i], i) = Revalue(Entry(Book[i], i), charge[e], request[e].actual)
    <3>1. \A i \in InBook(a) : Entry(Book[i], i).id = i
      BY DEF Entry
    <3> QED BY <1>2, <1>9, <1>n, <1>m, <2>1, <3>1 DEF Revalue
  <2>3. Revalued(e) = {Revalue(h, charge[e], request[e].actual) : h \in LedgerOf(a)}
    BY <1>9 DEF Revalued, Charged
  <2> QED BY <1>1, <2>1, <2>2, <2>3
<1> QED BY <1>a, <1>7, <1>8, <1>9

(* The lock row of an account that was not reset.                          *)
LEMMA LocksHeld ==
    ASSUME StoreInv, Scopes, NEW c \in Calls, Charger(c), Account(c) \notin disturbed,
           pc[c] \in Statements \ BeforeLock
    PROVE  LockOf(c) \in held[c] /\ Account(c) \in Accounts
<1>1. request[c] \in Asked
  BY DEF StoreInv, TypeInv, Steps, Waiting
<1>2. Account(c) \in Accounts
  BY <1>1, Fields DEF Charger, Op, Account, Charging
<1>3. caught = {}
  BY <1>2 DEF Scopes
<1> QED BY <1>2, <1>3 DEF StoreInv, LockInv, Orderly, HasLock

-----------------------------------------------------------------------------
(* What another call's step leaves alone.                                  *)
Untouched(d) ==
    /\ pc'[d] = pc[d] /\ request'[d] = request[d] /\ charge'[d] = charge[d]
    /\ answer'[d] = answer[d] /\ at'[d] = at[d]
    /\ held'[d] = held[d] /\ gone'[d] = gone[d]

(* A call stays faithful through the step of another one that leaves alone *)
(* what it has locked.                                                     *)
LEMMA Keeps ==
    ASSUME StoreInv, ViewInv, NEW d \in Calls, Untouched(d), clock' \in Int, clock <= clock',
           disturbed \subseteq disturbed',
           /\ Charger(d) /\ pc[d] \in Statements \ BeforeLock /\ Account(d) \notin disturbed'
           => Charged(d)' = Charged(d),
           \A i \in DOMAIN charges : Row("charge", i) \in held[d] =>
               i \in DOMAIN charges' /\ charges'[i].ts = charges[i].ts
               /\ charges'[i].account = charges[i].account,
           \A t \in Tasks : Row("task", t) \in held[d] /\ tasks[t] # Null => tasks'[t] # Null,
           Claiming(d)'
    PROVE  Faithful(d)'
<1>a. /\ Unanswered(d) /\ GoneRows(d) /\ Chosen(d) /\ Writing(d) /\ Viewed(d)
      /\ gone[d] \subseteq held[d] /\ TypeOK /\ Apart
  BY DEF ViewInv, Faithful, StoreInv, LockInv, Orderly, TypeInv
<1>b. Op(d)' = Op(d) /\ Account(d)' = Account(d) /\ Charger(d)' = Charger(d)
  BY DEF Untouched, Op, Account, Charger
<1>1. Unanswered(d)'
  BY <1>a, <1>b DEF Unanswered, Untouched
<1>2. GoneRows(d)'
  BY <1>a, <1>b DEF GoneRows, Untouched, Row
<1>3. Chosen(d)'
  BY <1>a, <1>b DEF Chosen, Untouched, Row
<1>4. Writing(d)'
  <2>1. Op(d) \in {"create", "status"} /\ pc[d] = "commit" => request[d].task \in Tasks
    <3>1. Op(d) \in {"create", "status"} => request[d] \in Asked
      BY <1>a DEF TypeOK, NoRequest, Op
    <3> QED BY <3>1, Fields DEF Op
  <2> QED BY <1>a, <1>b, <2>1 DEF Writing, Untouched, Row
<1>5. Viewed(d)'
  <2>1. SUFFICES ASSUME Charger(d), Account(d) \notin disturbed',
                        pc[d] \in Statements \ BeforeLock
                 PROVE  Viewed(d)'
    BY <1>b DEF Viewed, Untouched, Statements, BeforeLock, Inserted, Reserving
  <2>2. Charged(d)' = Charged(d) /\ Account(d) \notin disturbed
    BY <2>1
  <2>3. \A h \in Charged(d) : h.ts \in Int
    BY <1>a, LedgerTyped DEF Charged
  <2>4. Start \in Int /\ Start' \in Int /\ Start <= Start'
    BY <1>a, PostgresAssumption DEF Start, TypeOK
  <2>5. Views(Charged(d), Start) \subseteq Views(Charged(d)', Start')
    BY <2>2, <2>3, <2>4, ViewsGrow
  <2>6. SeenByReserve(d) => SeenByReserve(d)'
    BY <2>5 DEF SeenByReserve, Untouched
  <2>7. SeenByFind(d) => SeenByFind(d)'
    <3>1. SUFFICES ASSUME SeenByFind(d) PROVE SeenByFind(d)'
      OBVIOUS
    <3>2. PICK S \in Views(Charged(d), Start) :
             IF charge[d] = None
             THEN \A h \in Latest(S, request[d].cost) : h.ts < Start
             ELSE Latest(S, request[d].cost) = {h \in Charged(d) : h.id = charge[d]}
      BY <3>1 DEF SeenByFind
    <3>3. \A h \in Latest(S, request[d].cost) : h.ts < Start => h.ts < Start'
      BY <2>3, <2>4 DEF Latest, Views
    <3> QED BY <2>2, <2>5, <3>2, <3>3 DEF SeenByFind, Untouched
  <2>8. SeenBySettle(d) => SeenBySettle(d)'
    <3>1. Revalued(d)' = Revalued(d)
      BY <2>2 DEF Revalued, Untouched
    <3>2. \A h \in Revalued(d) : h.ts \in Int
      <4>1. \A h \in Charged(d) : Revalue(h, charge[d], request[d].actual).ts = h.ts
        BY <1>a, LedgerTyped DEF Charged, Revalue
      <4> QED BY <2>3, <4>1 DEF Revalued
    <3>3. Views(Revalued(d), Start) \subseteq Views(Revalued(d)', Start')
      BY <2>4, <3>1, <3>2, ViewsGrow
    <3> QED BY <3>3 DEF SeenBySettle, Untouched
  <2> QED BY <1>a, <1>b, <2>1, <2>2, <2>6, <2>7, <2>8 DEF Viewed, Untouched, Inserted, Reserving
<1>6. Claiming(d)'
  OBVIOUS
<1> QED BY <1>1, <1>2, <1>3, <1>4, <1>5, <1>6 DEF Faithful

(* Ledgers are about the charges.                                          *)
LEMMA LedgerSame ==
    ASSUME UNCHANGED <<charges, pruned, disturbed>>
    PROVE  \A a : LedgerOf(a)' = LedgerOf(a)
BY DEF LedgerOf

(* A step of one call that writes no table.                                *)
LEMMA LocalViews ==
    ASSUME StoreInv, ViewInv, NEW e \in Calls,
           UNCHANGED <<charges, idempotency, tasks, clock, history>>,
           \A d \in Calls \ {e} : Untouched(d),
           at'[e] <= clock, Inserted(e)' => charge'[e] \notin DOMAIN pruned,
           Faithful(e)'
    PROVE  ViewInv'
<1>1. Scopes' /\ Expiry'
  BY DEF ViewInv, Scopes, Expiry, Start, Untouched, history
<1>2. Apart'
  BY DEF ViewInv, Apart, history, Inserted, Reserving, Op, Untouched
<1>3. ASSUME NEW d \in Calls \ {e} PROVE Faithful(d)'
  <2>1. Charged(d)' = Charged(d)
    <3>1. Account(d)' = Account(d)
      BY <1>3 DEF Untouched, Account
    <3> QED BY <3>1, LedgerSame DEF Charged, history
  <2>2. Claiming(d)'
    BY <1>3 DEF ViewInv, Faithful, Claiming, Untouched, history, Op, Row
  <2>3. clock \in Int /\ clock <= clock' /\ clock' \in Int
    BY PostgresAssumption DEF StoreInv, TypeInv, TypeOK
  <2> QED BY <1>3, <2>1, <2>2, <2>3, Keeps DEF history
<1> QED BY <1>1, <1>2, <1>3 DEF ViewInv

(* A commit, for the others.                                               *)
LEMMA CommitViews ==
    ASSUME StoreInv, ViewInv, NEW e \in Calls, Commit(e)
    PROVE  ViewInv'
<1>a. /\ Scopes /\ Apart /\ Expiry /\ TypeOK /\ Deleters /\ Faithful(e)
  BY DEF ViewInv, StoreInv, TypeInv
<1>b. /\ disturbed' = disturbed \union Disturbs(e) /\ disturbed \subseteq disturbed'
      /\ caught' = IF Op(e) = "reset" THEN caught \union InTransaction ELSE caught
      /\ idempotency' = KeysAfter(e) /\ tasks' = TasksAfter(e)
  BY DEF Commit
<1>1. Scopes'
  BY <1>a, <1>b DEF Scopes, Disturbs
<1>2. Expiry'
  <2>1. clock' = clock /\ at' = at /\ Start' = Start
    BY CommitFacts DEF Start
  <2>2. ASSUME NEW i \in DOMAIN pruned' PROVE pruned'[i].ts < Start
    <3>1. CASE i \in DOMAIN pruned
      <4>1. pruned'[i] = pruned[i]
        BY <3>1, CommitCharges
      <4> QED BY <1>a, <3>1, <4>1 DEF Expiry
    <3>2. CASE i \notin DOMAIN pruned
      <4>1. Op(e) \in Charging /\ i \in DOMAIN charges \ Left(e) /\ pruned'[i] = charges[i]
        BY <2>2, <3>2, CommitCharges
      <4>2. charges[i].ts < at[e] - Window
        BY <1>a, <4>1 DEF Left, Faithful, GoneRows, TypeOK
      <4>3. charges[i].ts \in Int /\ at[e] \in Int /\ clock \in Int /\ at[e] <= clock
        BY <1>a, <4>1, PostgresAssumption DEF TypeOK, ChargeRows, Expiry
      <4> QED BY <4>1, <4>2, <4>3, PostgresAssumption DEF Start
    <3> QED BY <3>1, <3>2
  <2> QED BY <1>a, <2>1, <2>2 DEF Expiry
<1>3. Faithful(e)'
  <2>1. pc'[e] \in Ends /\ gone'[e] = {} /\ request' = request /\ answer' = answer
    BY CommitFacts
  <2> QED BY <1>a, <2>1 DEF Faithful, Unanswered, GoneRows, Chosen, Claiming, Writing, Viewed,
                            Ends, Op, Inserted, Reserving
<1>4. ASSUME NEW d \in Calls \ {e} PROVE Faithful(d)'
  <2>1. Untouched(d) /\ clock' = clock /\ clock \in Int
    BY <1>a, CommitFacts, PostgresAssumption DEF Untouched, TypeOK
  <2>2. /\ held[d] \cap held[e] = {} /\ gone[e] \subseteq held[e]
    BY CommitFacts
  <2>3. ASSUME Charger(d), pc[d] \in Statements \ BeforeLock, Account(d) \notin disturbed'
        PROVE  Charged(d)' = Charged(d)
    <3>1. LockOf(d) \in held[d] /\ Account(d) \in Accounts
      BY <1>a, <1>b, <2>3, LocksHeld
    <3>2. ~(Charger(e) /\ Account(e) = Account(d))
      <4>1. SUFFICES ASSUME Charger(e), Account(e) = Account(d) PROVE FALSE
        OBVIOUS
      <4>2. pc[e] \in Statements \ BeforeLock
        BY CommitFacts DEF Statements, BeforeLock
      <4>3. LockOf(e) \in held[e]
        BY <1>a, <1>b, <2>3, <4>1, <4>2, LocksHeld
      <4> QED BY <2>2, <3>1, <4>1, <4>3 DEF LockOf
    <3>3. LedgerOf(Account(d))' = LedgerOf(Account(d))
      <4> DEFINE a == Account(d)
      <4>1. a' = a
        BY <2>1 DEF Untouched, Account
      <4>2. a \in Accounts /\ a \notin disturbed' /\ ~(Charger(e) /\ Account(e) = a)
        BY <2>3, <3>1, <3>2
      <4>3. \A b \in Accounts : b \notin disturbed' /\ ~(Charger(e) /\ Account(e) = b)
                                => LedgerOf(b)' = LedgerOf(b)
        BY CommitLedger
      <4> HIDE DEF a
      <4>4. LedgerOf(a)' = LedgerOf(a)
        BY <4>1, <4>2, <4>3
      <4> QED BY <4>4 DEF a
    <3> QED BY <3>3 DEF Charged
  <2>4. ASSUME NEW i \in DOMAIN charges, Row("charge", i) \in held[d]
        PROVE  /\ i \in DOMAIN charges' /\ charges'[i].ts = charges[i].ts
               /\ charges'[i].account = charges[i].account
    <3>1. i \in Left(e)
      BY <2>2, <2>4 DEF Left
    <3>2. charges[i] \in ChargeRows
      BY <1>a DEF TypeOK
    <3>3. /\ i \in DOMAIN charges'
          /\ charges'[i] = IF Op(e) = "settle" /\ i = charge[e]
                           THEN [charges[i] EXCEPT !.amount = request[e].actual] ELSE charges[i]
      <4>1. DOMAIN charges' = Left(e) \union New(e)
        BY CommitCharges
      <4>2. \A j \in Left(e) :
              charges'[j] = IF Op(e) = "settle" /\ j = charge[e]
                            THEN [charges[j] EXCEPT !.amount = request[e].actual] ELSE charges[j]
        BY CommitCharges
      <4> QED BY <3>1, <4>1, <4>2
    <3> QED BY <3>2, <3>3 DEF ChargeRows
  <2>5. ASSUME NEW t \in Tasks, Row("task", t) \in held[d], tasks[t] # Null
        PROVE  tasks'[t] # Null
    BY <1>b, <2>2, <2>5 DEF TasksAfter
  <2>6. Claiming(d)'
    <3>1. SUFFICES ASSUME Op(d) = "register", pc[d] = "commit" PROVE Claiming(d)'
      BY <2>1 DEF Claiming, Op, Untouched
    <3> DEFINE k == request[d].key
    <3>2. request[d] \in Asked /\ k \in Keys
      BY <3>1, Fields DEF StoreInv, TypeInv, Steps, Waiting, Statements, Op
    <3>3. Claiming(d) /\ Claiming(e)
      BY DEF ViewInv, Faithful
    <3>4. k' = k /\ held'[d] = held[d] /\ answer'[d] = answer[d] /\ Op(d)' = Op(d)
      BY <2>1 DEF Untouched, Op
    <3>5. CASE Row("key", k) \in held[d]
      <4>1. idempotency'[k] = idempotency[k]
        BY <1>b, <2>2, <3>2, <3>5 DEF KeysAfter
      <4> QED BY <3>1, <3>3, <3>4, <3>5, <4>1 DEF Claiming, Row
    <3>6. CASE Row("key", k) \notin held[d]
      <4>1. ASSUME Everything \notin disturbed'
            PROVE  idempotency'[k] = idempotency[k] /\ idempotency[k] # Null
        <5>1. Everything \notin disturbed
          BY <1>b, <4>1
        <5>2. idempotency[k] # Null
          BY <3>1, <3>3, <3>6, <5>1 DEF Claiming
        <5>3. Row("key", k) \notin gone[e]
          <6>1. Op(e) # "reset"
            BY <1>b, <4>1 DEF Disturbs
          <6> QED BY <1>a, <6>1 DEF Deleters, Row
        <5>4. ~(Op(e) = "register" /\ Row("key", k) \in held[e])
          <6>1. SUFFICES ASSUME Op(e) = "register", Row("key", k) \in held[e] PROVE FALSE
            OBVIOUS
          <6>2. k = request[e].key
            BY <3>3, <6>1, CommitFacts DEF Claiming, Row
          <6> QED BY <3>3, <5>2, <6>1, <6>2, CommitFacts DEF Claiming
        <5> QED BY <1>b, <3>2, <5>2, <5>3, <5>4 DEF KeysAfter
      <4>2. CASE Everything \in disturbed'
        BY <3>1, <3>3, <3>4, <3>6, <4>2 DEF Claiming, Row
      <4>3. CASE Everything \notin disturbed'
        BY <1>b, <3>1, <3>3, <3>4, <3>6, <4>1, <4>3 DEF Claiming, Row
      <4> QED BY <4>2, <4>3
    <3> QED BY <3>5, <3>6
  <2> QED BY <1>b, <2>1, <2>3, <2>4, <2>5, <2>6, Keeps
<1> QED BY <1>1, <1>2, <1>3, <1>4, CommitApart DEF ViewInv

-----------------------------------------------------------------------------
(* The statements that follow one another.                                 *)
LEMMA StepsAfter ==
    ASSUME NEW r \in Asked, NEW s \in DOMAIN After[r.op]
    PROVE  /\ s \in {"begin", "insert_lock", "lock"} \union Deleting =>
                /\ After[r.op][s] \notin {"insert", "update"}
                /\ After[r.op][s] = "commit" => r.op \in Resetting
                /\ r.op = "settle" => After[r.op][s] # "sum"
           /\ s = "claim" => After[r.op][s] = "select"
           /\ s = "select" => After[r.op][s] = "commit"
           /\ s = "sum" => After[r.op][s] = IF r.op = "reserve" THEN "insert" ELSE "commit"
           /\ s = "insert" => After[r.op][s] = "commit"
           /\ s = "find" => After[r.op][s] = "update"
           /\ s = "update" => After[r.op][s] = "sum"
           /\ s = "prune" => r.op \in Charging
           /\ s \in Deleting \ {"prune"} => r.op \in Resetting
<1>1. r.op \in {"reserve", "settle", "balance", "register", "create", "status",
                "reset_account", "reset"}
  BY DEF Asked, Charging
<1>2. CASE r.op = "reserve"
  BY <1>2 DEF After, ReserveSteps, Deleting, Charging
<1>3. CASE r.op = "settle"
  BY <1>3 DEF After, SettleSteps, Deleting, Charging
<1>4. CASE r.op = "balance"
  BY <1>4 DEF After, BalanceSteps, Deleting, Charging
<1>5. CASE r.op = "register"
  BY <1>5 DEF After, RegisterSteps, Deleting
<1>6. CASE r.op = "create"
  BY <1>6 DEF After, Deleting
<1>7. CASE r.op = "status"
  BY <1>7 DEF After, Deleting
<1>8. CASE r.op = "reset_account"
  BY <1>8 DEF After, ResetAccountSteps, Resetting
<1>9. CASE r.op = "reset"
  BY <1>9 DEF After, ResetSteps, Resetting
<1> QED BY <1>1, <1>2, <1>3, <1>4, <1>5, <1>6, <1>7, <1>8, <1>9

(* The step of a call that learns nothing and takes no effect.             *)
LEMMA Unlearned ==
    ASSUME ViewInv, NEW e \in Calls, request'[e] = request[e], answer'[e] = answer[e],
           pc'[e] \notin {"idle", "insert"}, pc'[e] = "commit" => Op(e) \in Resetting,
           Op(e) = "settle" => pc'[e] \notin {"update", "sum"},
           pc'[e] \in Ends \/ pc[e] \notin {"insert", "commit"} \union Ends,
           GoneRows(e)'
    PROVE  Faithful(e)'
<1>1. Op(e)' = Op(e) /\ Unanswered(e)
  BY DEF Op, ViewInv, Faithful
<1>2. Unanswered(e)'
  BY <1>1 DEF Unanswered
<1>3. Chosen(e)' /\ Claiming(e)' /\ Writing(e)' /\ Viewed(e)'
  BY <1>1 DEF Chosen, Claiming, Writing, Viewed, Inserted, Reserving, Resetting, Charger
<1> QED BY <1>2, <1>3 DEF Faithful

(* Steps outside of a transaction.                                         *)
LEMMA OuterViews ==
    ASSUME StoreInv, ViewInv, NEW e \in Calls,
           \/ Enter(e) \/ Borrow(e) \/ BorrowRaises(e)
           \/ TransactionFails(e) \/ DeadlockDetected(e)
    PROVE  ViewInv'
<1>a. TypeOK /\ Steps /\ Orderly(e) /\ Faithful(e)
  BY DEF ViewInv, StoreInv, TypeInv, LockInv
<1>b. at[e] <= clock /\ clock <= clock
  BY <1>a, PostgresAssumption DEF ViewInv, Expiry, TypeOK
<1>1. CASE Enter(e)
  <2>1. /\ pc[e] = "idle" /\ pc'[e] = "begin" /\ at'[e] = clock
        /\ UNCHANGED <<charge, answer, held, gone, charges, idempotency, tasks, clock, history>>
        /\ \A d \in Calls \ {e} : Untouched(d)
    BY <1>a, <1>1 DEF Enter, TypeOK, lockVars, tables, Untouched
  <2>2. gone'[e] = {} /\ answer'[e] = NoAnswer
    BY <1>a, <2>1 DEF Orderly, Faithful, Unanswered, Statements, Ends
  <2>3. Faithful(e)'
    BY <2>1, <2>2 DEF Faithful, Unanswered, GoneRows, Chosen, Claiming, Writing, Viewed,
                      Inserted, Reserving, Row
  <2>4. ~Inserted(e)'
    BY <2>1 DEF Inserted
  <2> QED BY <1>b, <2>1, <2>3, <2>4, LocalViews
<1>2. CASE Borrow(e)
  <2>1. request[e] \in Asked /\ pc[e] \in DOMAIN After[Op(e)] /\ pc[e] = "begin"
    BY <1>a, <1>2 DEF Borrow, Steps, Waiting, Statements
  <2>2. /\ pc'[e] = After[Op(e)]["begin"] /\ \A d \in Calls \ {e} : pc'[d] = pc[d]
        /\ UNCHANGED <<txVars, lockVars, tables, clock, history>>
    BY <1>a, <1>2, <2>1 DEF Borrow, Proceed, TypeOK
  <2>3. pc'[e] \in Statements
    BY <2>1, <2>2, Follows DEF Op
  <2>4. /\ pc'[e] \notin {"insert", "update"}
        /\ pc'[e] = "commit" => Op(e) \in Resetting
        /\ Op(e) = "settle" => pc'[e] # "sum"
    BY <2>1, <2>2, StepsAfter DEF Op
  <2>5. GoneRows(e)'
    BY <1>a, <2>2 DEF Faithful, GoneRows, lockVars, txVars, tables, Op, Account
  <2>6. Faithful(e)'
    BY <2>1, <2>2, <2>3, <2>4, <2>5, Unlearned DEF txVars, Statements, Ends
  <2>7. ~Inserted(e)'
    BY <2>2, <2>4 DEF Inserted, Reserving, Op, txVars, Resetting
  <2>8. \A d \in Calls \ {e} : Untouched(d)
    BY <2>2 DEF Untouched, txVars, lockVars
  <2> QED BY <1>b, <2>2, <2>6, <2>7, <2>8, LocalViews DEF txVars, tables
<1>3. CASE BorrowRaises(e) \/ TransactionFails(e) \/ DeadlockDetected(e)
  <2>1. /\ pc' = [pc EXCEPT ![e] = "raised"]
        /\ \A d \in Calls \ {e} : held'[d] = held[d] /\ gone'[d] = gone[d]
        /\ gone'[e] = {}
        /\ UNCHANGED <<txVars, tables, clock, history>>
    BY <1>a, <1>3 DEF BorrowRaises, TransactionFails, DeadlockDetected, RolledBack, lockVars,
                      TypeOK, Orderly, Statements
  <2>2. pc'[e] = "raised" /\ \A d \in Calls \ {e} : pc'[d] = pc[d]
    BY <1>a, <2>1 DEF TypeOK
  <2>3. GoneRows(e)'
    BY <2>1 DEF GoneRows
  <2>4. Faithful(e)'
    BY <2>1, <2>2, <2>3, Unlearned DEF txVars, Ends
  <2>5. ~Inserted(e)' /\ \A d \in Calls \ {e} : Untouched(d)
    BY <2>1, <2>2 DEF Inserted, Untouched, txVars
  <2> QED BY <1>b, <2>1, <2>4, <2>5, LocalViews DEF txVars, tables
<1> QED BY <1>1, <1>2, <1>3

(* The statements that lock the account, and those that delete.            *)
LEMMA LockViews ==
    ASSUME StoreInv, ViewInv, NEW e \in Calls, InsertLock(e) \/ Lock(e)
    PROVE  ViewInv'
<1>a. TypeOK /\ Steps /\ Faithful(e)
  BY DEF ViewInv, StoreInv, TypeInv
<1>1. /\ pc[e] \in {"insert_lock", "lock"} /\ Proceed(e) /\ Takes(e, Wanted(e))
      /\ UNCHANGED <<gone, txVars, tables, clock, history>>
  BY DEF InsertLock, Lock, LockRow
<1>2. request[e] \in Asked /\ pc[e] \in DOMAIN After[Op(e)]
  BY <1>a, <1>1 DEF Steps, Waiting, Statements
<1>3. /\ pc'[e] = After[Op(e)][pc[e]] /\ \A d \in Calls \ {e} : pc'[d] = pc[d]
      /\ \A d \in Calls \ {e} : held'[d] = held[d]
  BY <1>a, <1>1 DEF Proceed, Takes, TypeOK
<1>4. pc'[e] \in Statements
  BY <1>2, <1>3, Follows DEF Op
<1>5. /\ pc'[e] \notin {"insert", "update"}
      /\ pc'[e] = "commit" => Op(e) \in Resetting
      /\ Op(e) = "settle" => pc'[e] # "sum"
  BY <1>1, <1>2, <1>3, StepsAfter DEF Op
<1>6. GoneRows(e)'
  BY <1>a, <1>1 DEF Faithful, GoneRows, txVars, tables, Op, Account
<1>7. Faithful(e)'
  BY <1>1, <1>4, <1>5, <1>6, Unlearned DEF txVars, Statements, Ends
<1>8. ~Inserted(e)'
  BY <1>1, <1>5 DEF Inserted, Reserving, Op, txVars, Resetting
<1>9. at'[e] <= clock /\ \A d \in Calls \ {e} : Untouched(d)
  BY <1>1, <1>3 DEF Untouched, txVars, ViewInv, Expiry
<1> QED BY <1>1, <1>7, <1>8, <1>9, LocalViews DEF tables

(* Deletions.                                                              *)
LEMMA DeleteViews ==
    ASSUME StoreInv, ViewInv, NEW e \in Calls, DeleteStarts(e) \/ DeleteRow(e)
    PROVE  ViewInv'
<1>a. TypeOK /\ Steps /\ Faithful(e)
  BY DEF ViewInv, StoreInv, TypeInv
<1>1. /\ pc[e] \in Deleting
      /\ Proceed(e) \/ UNCHANGED pc
      /\ UNCHANGED <<txVars, tables, clock, history>>
  BY DEF DeleteStarts, DeleteRow
<1>2. request[e] \in Asked /\ pc[e] \in DOMAIN After[Op(e)]
  BY <1>a, <1>1 DEF Steps, Waiting, Statements, Deleting
<1>3. /\ pc'[e] = pc[e] \/ pc'[e] = After[Op(e)][pc[e]]
      /\ \A d \in Calls \ {e} : pc'[d] = pc[d]
  BY <1>a, <1>1 DEF Proceed, TypeOK
<1>4. pc'[e] \in Statements
  BY <1>1, <1>2, <1>3, Follows DEF Op, Deleting, Statements
<1>5. /\ pc'[e] \notin {"insert", "update"}
      /\ pc'[e] = "commit" => Op(e) \in Resetting
      /\ Op(e) = "settle" => pc'[e] # "sum"
      /\ pc[e] = "prune" => Op(e) \in Charging
      /\ pc[e] # "prune" => Op(e) \in Resetting
  BY <1>1, <1>2, <1>3, StepsAfter DEF Op, Deleting
<1>6. PICK deleted \in SUBSET Doomed(e) :
        /\ gone'[e] = gone[e] \union deleted
        /\ \A d \in Calls \ {e} : held'[d] = held[d] /\ gone'[d] = gone[d]
  <2>1. CASE DeleteStarts(e)
    <3>1. held' = held /\ gone' = gone
      BY <2>1 DEF DeleteStarts
    <3>2. /\ gone'[e] = gone[e] \union {} /\ {} \in SUBSET Doomed(e)
          /\ \A d \in Calls \ {e} : held'[d] = held[d] /\ gone'[d] = gone[d]
      BY <3>1
    <3> QED BY <3>2
  <2>2. CASE DeleteRow(e)
    <3>1. PICK row \in FirstOf(matched[e]) :
            /\ Takes(e, {row} \cap Doomed(e))
            /\ gone' = [gone EXCEPT ![e] = @ \union ({row} \cap Doomed(e))]
      BY <2>2 DEF DeleteRow
    <3>2. /\ gone'[e] = gone[e] \union ({row} \cap Doomed(e))
          /\ \A d \in Calls \ {e} : held'[d] = held[d] /\ gone'[d] = gone[d]
      BY <1>a, <3>1 DEF Takes, TypeOK
    <3>3. {row} \cap Doomed(e) \in SUBSET Doomed(e)
      OBVIOUS
    <3> QED BY <3>2, <3>3
  <2> QED BY <2>1, <2>2
<1>7. ASSUME NEW i \in Nat, Row("charge", i) \in Doomed(e)
      PROVE  /\ i \in DOMAIN charges
             /\ Op(e) \in Charging => charges[i].ts < at[e] - Window
             /\ Op(e) = "reset_account" => charges[i].account = Account(e)
  <2>1. CASE pc[e] = "prune"
    <3>1. i \in Expired(e)
      BY <1>7, <2>1 DEF Doomed, Row
    <3> QED BY <1>5, <2>1, <3>1 DEF Expired, Mine, Visible, Charging
  <2>2. CASE pc[e] = "delete_charges"
    <3>1. i \in IF Op(e) = "reset" THEN Visible(e) ELSE Mine(e)
      BY <1>7, <2>2 DEF Doomed, Row
    <3> QED BY <1>5, <2>2, <3>1 DEF Mine, Visible, Charging, Resetting
  <2>3. CASE pc[e] \in {"delete_keys", "delete_tasks", "delete_locks"}
    BY <1>7, <2>3 DEF Doomed, Row
  <2> QED BY <1>1, <2>1, <2>2, <2>3 DEF Deleting
<1>8. ASSUME NEW t \in Tasks, Row("task", t) \in Doomed(e)
      PROVE  Op(e) \in Resetting /\ (Op(e) = "reset_account" => Owner[t] = Account(e))
  <2>1. CASE pc[e] = "delete_tasks"
    BY <1>5, <1>8, <2>1 DEF Doomed, Row
  <2>2. CASE pc[e] # "delete_tasks"
    BY <1>1, <1>8, <2>2 DEF Doomed, Row, Deleting
  <2> QED BY <2>1, <2>2
<1>9. GoneRows(e)'
  <2>1. Op(e)' = Op(e) /\ Account(e)' = Account(e) /\ at' = at /\ charges' = charges
    BY <1>1 DEF txVars, tables, Op, Account
  <2>2. Op(e) \in Charging \union Resetting
    BY <1>5
  <2> QED BY <1>a, <1>6, <1>7, <1>8, <2>1, <2>2 DEF Faithful, GoneRows, Row
<1>10. Faithful(e)'
  BY <1>1, <1>4, <1>5, <1>9, Unlearned DEF txVars, Statements, Ends, Deleting
<1>11. ~Inserted(e)'
  BY <1>1, <1>5 DEF Inserted, Reserving, Op, txVars, Resetting
<1>12. at'[e] <= clock /\ \A d \in Calls \ {e} : Untouched(d)
  BY <1>1, <1>3, <1>6 DEF Untouched, txVars, ViewInv, Expiry
<1> QED BY <1>1, <1>10, <1>11, <1>12, LocalViews DEF tables

(* The single statement of each task method.                               *)
LEMMA ClaimSteps ==
    ASSUME NEW r \in Asked
    PROVE  /\ "upsert" \in DOMAIN After[r.op] => r.op = "create"
           /\ "set" \in DOMAIN After[r.op] => r.op = "status"
<1>1. r.op \in {"reserve", "settle", "balance", "register", "create", "status",
                "reset_account", "reset"}
  BY DEF Asked, Charging
<1> QED BY <1>1 DEF After, ReserveSteps, SettleSteps, BalanceSteps, RegisterSteps,
                    ResetAccountSteps, ResetSteps

(* The statements of claims and of status writes.                          *)
LEMMA ClaimViews ==
    ASSUME StoreInv, ViewInv, NEW e \in Calls, Claim(e) \/ Select(e) \/ Upsert(e)
    PROVE  ViewInv'
<1>a. TypeOK /\ Steps /\ Faithful(e) /\ Exclusive /\ Orderly(e) /\ Answering
      /\ \A d \in Calls : gone[d] \subseteq held[d]
  BY DEF ViewInv, StoreInv, TypeInv, LockInv, Orderly
<1>1. /\ pc[e] \in {"claim", "select", "upsert", "set"}
      /\ UNCHANGED <<gone, request, at, charge, tables, clock, history>>
      /\ \A d \in Calls \ {e} : /\ pc'[d] = pc[d] /\ held'[d] = held[d]
                                /\ answer'[d] = answer[d]
  BY <1>a DEF Claim, Select, Upsert, Takes, TypeOK, Proceed, Answering, lockVars
<1>2. request[e] \in Asked /\ pc[e] \in DOMAIN After[Op(e)]
  BY <1>a, <1>1 DEF Steps, Waiting, Statements
<1>3. /\ pc[e] \in {"claim", "select"} => Op(e) = "register" /\ request[e].key \in Keys
      /\ pc[e] \in {"upsert", "set"} =>
           Op(e) \in {"create", "status"} /\ request[e].task \in Tasks
      /\ pc[e] = "upsert" => Op(e) = "create"
      /\ pc[e] = "set" => Op(e) = "status"
  BY <1>2, Orders, Fields, ClaimSteps DEF Op
<1>4. Op(e)' = Op(e) /\ Account(e)' = Account(e)
  BY <1>1 DEF Op, Account
<1>5. held[e] = {}
  BY <1>a, <1>1, <1>3 DEF Orderly, MayHold
<1>6. answer[e] = NoAnswer
  BY <1>a, <1>1 DEF Faithful, Unanswered, Ends
<1>7. pc'[e] = "commit" \/ (pc'[e] = "select" /\ answer'[e] = answer[e])
  <2>1. /\ pc[e] = "claim" => After[Op(e)][pc[e]] = "select"
        /\ pc[e] \in {"select", "upsert", "set"} => After[Op(e)][pc[e]] = "commit"
    BY <1>2, <1>3, StepsAfter, LockSteps DEF Op
  <2>2. CASE Claim(e)
    <3>1. CASE Wanted(e) = {}
      BY <1>a, <2>1, <2>2, <3>1 DEF Claim, Proceed, TypeOK
    <3>2. CASE Wanted(e) # {}
      BY <1>a, <2>2, <3>2 DEF Claim, TypeOK
    <3> QED BY <3>1, <3>2
  <2>3. CASE Select(e) \/ Upsert(e)
    <3>1. Proceed(e) /\ pc[e] \in {"select", "upsert", "set"}
      BY <2>3 DEF Select, Upsert
    <3> QED BY <1>a, <2>1, <3>1 DEF Proceed, TypeOK
  <2> QED BY <2>2, <2>3
<1>8. Claiming(e)'
  <2>1. SUFFICES ASSUME Op(e) = "register", pc'[e] = "commit" PROVE Claiming(e)'
    BY <1>4 DEF Claiming
  <2> DEFINE k == request[e].key
  <2>2. k' = k /\ idempotency' = idempotency /\ disturbed' = disturbed
    BY <1>1 DEF tables, history
  <2>3. CASE Claim(e)
    <3>1. pc[e] = "claim" /\ Wanted(e) # {}
      BY <1>a, <1>2, <2>1, <2>3, StepsAfter DEF Claim, Proceed, TypeOK, Op
    <3>2. /\ Wanted(e) = {Row("key", k)}
          /\ idempotency[k] = Null \/ ~Settled(Row("key", k))
      BY <3>1 DEF Wanted
    <3>3. \A d \in Calls : Row("key", k) \notin gone[d]
      BY <1>a, <1>5, <2>3, <3>2 DEF Claim, Free
    <3>4. idempotency[k] = Null
      BY <3>2, <3>3 DEF Settled
    <3>5. held'[e] = {Row("key", k)} /\ answer'[e] = [task |-> e, created |-> TRUE]
      BY <1>a, <1>5, <2>3, <3>1, <3>2 DEF Claim, Takes, TypeOK, Answering
    <3> QED BY <2>2, <3>4, <3>5 DEF Claiming, Row
  <2>4. CASE Select(e)
    <3>1. held' = held /\ pc[e] = "select"
      BY <2>4 DEF Select, lockVars
    <3>2. ASSUME Everything \notin disturbed PROVE idempotency[k] # Null
      <4>1. caught = {}
        BY <3>2 DEF ViewInv, Scopes
      <4> QED BY <2>1, <3>1, <4>1 DEF StoreInv, SerialInv, Claimed
    <3>3. Everything \notin disturbed =>
            answer'[e] = [task |-> idempotency[k], created |-> FALSE]
      BY <1>a, <2>4, <3>2 DEF Select, Answering
    <3> QED BY <1>5, <2>2, <3>1, <3>2, <3>3 DEF Claiming, Row
  <2>5. ~Upsert(e)
    BY <1>3, <2>1 DEF Upsert
  <2> QED BY <2>3, <2>4, <2>5
<1>9. Writing(e)'
  <2>1. SUFFICES ASSUME Op(e) \in {"create", "status"}, pc'[e] = "commit" PROVE Writing(e)'
    BY <1>4 DEF Writing
  <2> DEFINE t == request[e].task
  <2>2. t' = t /\ tasks' = tasks
    BY <1>1 DEF tables
  <2>3. Upsert(e)
    BY <1>3, <2>1 DEF Claim, Select
  <2>4. /\ held'[e] = Wanted(e) /\ answer'[e] = [rows |-> Cardinality(Wanted(e))]
    BY <1>a, <1>5, <2>3 DEF Upsert, Takes, TypeOK, Answering
  <2>5. CASE Wanted(e) = {Row("task", t)}
    <3>1. Cardinality(Wanted(e)) = 1
      BY <2>5, FS_Singleton
    <3>2. Op(e) = "status" => tasks[t] # Null
      BY <1>3, <2>3, <2>5 DEF Wanted, Upsert
    <3> QED BY <1>4, <2>2, <2>4, <2>5, <3>1, <3>2 DEF Writing, Row
  <2>6. CASE Wanted(e) # {Row("task", t)}
    <3>1. Wanted(e) = {} /\ Op(e) = "status"
      BY <1>3, <2>3, <2>6 DEF Wanted, Upsert
    <3>2. Cardinality(Wanted(e)) = 0
      BY <3>1, FS_EmptySet
    <3> QED BY <1>4, <2>2, <2>4, <3>1, <3>2 DEF Writing, Row
  <2> QED BY <2>5, <2>6
<1>10. GoneRows(e)' /\ Chosen(e)' /\ Viewed(e)'
  BY <1>a, <1>1, <1>3, <1>4 DEF Faithful, GoneRows, Chosen, Viewed, Charger, tables, Charging,
                                Resetting
<1>11. Unanswered(e)'
  BY <1>3, <1>1, <1>4, <1>6, <1>7 DEF Unanswered, Resetting
<1>12. ~Inserted(e)'
  BY <1>1, <1>3, <1>4 DEF Inserted, Reserving
<1>13. at'[e] <= clock /\ \A d \in Calls \ {e} : Untouched(d)
  BY <1>1 DEF Untouched, ViewInv, Expiry
<1>14. Faithful(e)'
  BY <1>8, <1>9, <1>10, <1>11 DEF Faithful
<1> QED BY <1>1, <1>12, <1>13, <1>14, LocalViews DEF tables

-----------------------------------------------------------------------------
(* The sum over the charges that a call sees is the total of what it has   *)
(* seen of the ledger.                                                     *)
LEMMA TotalIsSum ==
    ASSUME NEW S, IsFiniteSet(S)
    PROVE  Total(S) = SumOf([h \in S |-> h.amount], S)
<1> DEFINE f == [h \in S |-> h.amount]
           A(it) == it = [s \in SUBSET S |-> IF s = {} THEN 0
                             ELSE Some(s).amount + it[s \ {Some(s)}]]
           sum == CHOOSE it : A(it)
<1>1. PICK i : IsSum(i, f, S) /\ SumOf(f, S) = i[S]
  BY SumUnfold
<1>2. \A s \in SUBSET S : s # {} => f[Some(s)] = Some(s).amount
  BY DEF Some
<1>3. A(i)
  <2> HIDE DEF f
  <2> QED BY <1>1, <1>2 DEF IsSum
<1>4. A(sum)
  BY <1>3
<1>5. Total(S) = sum[S]
  BY DEF Total, MapThenSumSet, MapThenFoldSet, Some
<1>6. IsSum(sum, f, S)
  <2> HIDE DEF sum, f
  <2> QED BY <1>2, <1>4 DEF IsSum
<1>7. \A T \in SUBSET S : sum[T] = SumOf(f, T)
  <2> HIDE DEF sum, f
  <2> QED BY <1>6, SumOfParts
<1> QED BY <1>5, <1>7

(* What SELECT SUM returns.                                                *)
Summed(c) == MapThenSumSet(LAMBDA i : Amount(c, i), Mine(c))

(* It is a sum over the charges that are seen.                             *)
LEMMA SummedIsSum ==
    ASSUME NEW c \in Calls, IsFiniteSet(Mine(c))
    PROVE  Summed(c) = SumOf([i \in Mine(c) |-> Amount(c, i)], Mine(c))
<1> DEFINE S == Mine(c)
           v(i) == Amount(c, i)
           f == [x \in S |-> v(x)]
           A(it) == it = [s \in SUBSET S |-> IF s = {} THEN 0
                             ELSE v(Some(s)) + it[s \ {Some(s)}]]
           sum == CHOOSE it : A(it)
<1>5. Summed(c) = sum[S]
  BY DEF Summed, MapThenSumSet, MapThenFoldSet, Some
<1> HIDE DEF S, v
<1>0. IsFiniteSet(S)
  BY DEF S
<1>1. PICK i : IsSum(i, f, S) /\ SumOf(f, S) = i[S]
  BY <1>0, SumUnfold
<1>2. \A s \in SUBSET S : s # {} => f[Some(s)] = v(Some(s))
  BY DEF Some
<1>3. A(i)
  <2> HIDE DEF f
  <2> QED BY <1>1, <1>2 DEF IsSum
<1>4. A(sum)
  BY <1>3
<1>6. IsSum(sum, f, S)
  <2> HIDE DEF sum, f
  <2> QED BY <1>2, <1>4 DEF IsSum
<1>7. \A T \in SUBSET S : sum[T] = SumOf(f, T)
  <2> HIDE DEF sum, f
  <2> QED BY <1>0, <1>6, SumOfParts
<1>8. Summed(c) = SumOf(f, S)
  BY <1>5, <1>7
<1> QED BY <1>8 DEF S, v

(* The entries of the charges that a call sees, as it will leave them.     *)
SeenAs(c, i) == [id |-> i, amount |-> Amount(c, i), ts |-> charges[i].ts]
(* All that a call sees.                                                   *)
SeenOf(c) == {SeenAs(c, i) : i \in Mine(c)}

(* The sum over charges is the total of their entries: no two are equal.   *)
LEMMA SeenTotal ==
    ASSUME StoreInv, NEW c \in Calls, Op(c) \in Charging, pc[c] \in Statements
    PROVE  Total(SeenOf(c)) = Summed(c) /\ Summed(c) \in Nat
<1>a. TypeOK /\ request[c] \in Asked
  BY DEF StoreInv, TypeInv, Steps, Waiting
<1> DEFINE M == Mine(c)
           f == [i \in M |-> Amount(c, i)]
           h == [i \in M |-> SeenAs(c, i)]
           g == [x \in SeenOf(c) |-> x.amount]
<1>1. M \subseteq DOMAIN charges /\ M \subseteq 1..lastId /\ lastId \in Int
  BY <1>a DEF Mine, Visible, TypeOK
<1>2. IsFiniteSet(M)
  <2>1. IsFiniteSet(1..lastId)
    BY <1>1, FS_Interval
  <2> HIDE DEF M
  <2> QED BY <1>1, <2>1, FS_Subset
<1>3. \A i \in M : f[i] \in Nat
  <2>1. request[c].actual \in Nat
    BY <1>a, Fields DEF Op
  <2>2. \A i \in M : charges[i].amount \in Nat
    BY <1>a, <1>1 DEF TypeOK, ChargeRows
  <2> QED BY <2>1, <2>2 DEF Amount
<1>4. Summed(c) = SumOf(f, M)
  BY <1>2, SummedIsSum
<1>5. SeenOf(c) = ImageOf(h, M)
  BY DEF SeenOf, ImageOf
<1>6. \A i \in M : h[i] \in SeenOf(c) /\ g[h[i]] = f[i]
  BY DEF SeenOf, SeenAs
<1>7. \A x, y \in M : h[x] = h[y] => x = y
  BY DEF SeenAs
<1>8. IsFiniteSet(SeenOf(c))
  <2>1. \A i \in M : g[h[i]] \in Nat /\ g[h[i]] <= f[i]
    <3> HIDE DEF f, g, h
    <3> QED BY <1>3, <1>6
  <2>2. IsFiniteSet(ImageOf(h, M))
    <3> HIDE DEF f, g, h, M
    <3> QED BY <1>2, <1>3, <2>1, SumImage
  <2> QED BY <1>5, <2>2
<1>9. Total(SeenOf(c)) = SumOf(g, SeenOf(c))
  BY <1>8, TotalIsSum
<1> HIDE DEF f, g, h, M
<1>10. SumOf(g, ImageOf(h, M)) = SumOf(f, M)
  BY <1>2, <1>3, <1>6, <1>7, SumInjective
<1>11. SumOf(f, M) \in Nat
  BY <1>2, <1>3, SumType
<1> QED BY <1>4, <1>5, <1>9, <1>10, <1>11

(* Whatever of the ledger is in the window, a call of the account sees: it *)
(* has deleted expired charges only, and so have the others.               *)
LEMMA SeesTheWindow ==
    ASSUME StoreInv, ViewInv, NEW c \in Calls, Op(c) \in Charging, Account(c) \notin disturbed
    PROVE  /\ \A h \in Charged(c) : h.ts >= Start => h.id \in Mine(c)
           /\ \A h \in Charged(c) : h.id \in Mine(c) => h = Entry(charges[h.id], h.id)
           /\ \A i \in Mine(c) : Entry(charges[i], i) \in Charged(c)
           /\ \A i \in Mine(c) : i # None /\ i \in Nat /\ i \in DOMAIN charges
<1>a. TypeOK /\ Apart /\ Expiry /\ GoneRows(c)
  BY DEF StoreInv, TypeInv, ViewInv, Faithful
<1> DEFINE a == Account(c)
<1>1. Charged(c) = {Entry(Book[i], i) : i \in InBook(a)}
  BY <1>a, Ledger DEF Charged
<1>2. \A i \in DOMAIN charges : i \in DOMAIN Book /\ Book[i] = charges[i] /\ i \in Nat
  BY <1>a DEF Book, TypeOK
<1>3. ASSUME NEW i \in Mine(c)
      PROVE  /\ Entry(charges[i], i) \in Charged(c)
             /\ i # None /\ i \in Nat /\ i \in DOMAIN charges
  <2>1. i \in DOMAIN charges /\ charges[i].account = a
    BY DEF Mine, Visible
  <2>2. i \in InBook(a) /\ Book[i] = charges[i]
    BY <1>2, <2>1 DEF InBook
  <2>3. i \in DOMAIN Book /\ i # None
    BY <1>2, <1>a, <2>1, BookTyped
  <2> QED BY <1>1, <1>2, <2>1, <2>2, <2>3
<1>4. ASSUME NEW h \in Charged(c)
      PROVE  /\ h.id \in Mine(c) => h = Entry(charges[h.id], h.id)
             /\ h.ts >= Start => h.id \in Mine(c)
  <2>1. h.id \in InBook(a) /\ h = Entry(Book[h.id], h.id)
    BY <1>a, <1>4, LedgerTyped DEF Charged
  <2>2. h.id \in Mine(c) => h = Entry(charges[h.id], h.id)
    BY <1>2, <2>1 DEF Mine, Visible
  <2>3. ASSUME h.ts >= Start PROVE h.id \in Mine(c)
    <3>1. Book[h.id].ts >= Start /\ Book[h.id].account = a /\ h.id \in DOMAIN Book
      BY <2>1, <2>3 DEF Entry, InBook
    <3>2. h.id \in Nat /\ Book[h.id].ts \in Int /\ Start \in Int
      BY <1>a, <3>1, BookTyped, PostgresAssumption DEF Start, TypeOK
    <3>3. h.id \notin DOMAIN pruned
      <4>1. SUFFICES ASSUME h.id \in DOMAIN pruned PROVE FALSE
        OBVIOUS
      <4>2. Book[h.id] = pruned[h.id] /\ pruned[h.id].ts < Start
        BY <1>a, <4>1 DEF Book, Apart, Expiry
      <4> QED BY <3>1, <3>2, <4>2
    <3>4. h.id \in DOMAIN charges /\ Book[h.id] = charges[h.id]
      BY <1>2, <3>1, <3>3 DEF Book
    <3>5. Row("charge", h.id) \notin gone[c]
      <4>1. SUFFICES ASSUME Row("charge", h.id) \in gone[c] PROVE FALSE
        OBVIOUS
      <4>2. charges[h.id].ts < at[c] - Window
        BY <1>a, <3>2, <4>1 DEF GoneRows
      <4>3. at[c] \in Int /\ clock \in Int /\ at[c] <= clock /\ Window \in Int
        BY <1>a, PostgresAssumption DEF TypeOK, Expiry
      <4> QED BY <3>1, <3>2, <3>4, <4>2, <4>3 DEF Start
    <3> QED BY <3>1, <3>4, <3>5 DEF Mine, Visible
  <2> QED BY <2>2, <2>3
<1> QED BY <1>3, <1>4

(* So what a call sees is a view of the ledger, as it is, and for a        *)
(* settlement as it will be.                                               *)
LEMMA SeenIsView ==
    ASSUME StoreInv, ViewInv, NEW c \in Calls, Op(c) \in Charging, Account(c) \notin disturbed
    PROVE  /\ {Entry(charges[i], i) : i \in Mine(c)} \in Views(Charged(c), Start)
           /\ Op(c) # "settle" => SeenOf(c) \in Views(Charged(c), Start)
           /\ pc[c] = "sum" /\ Op(c) = "settle" => SeenOf(c) \in Views(Revalued(c), Start)
<1> DEFINE S == {Entry(charges[i], i) : i \in Mine(c)}
<1>a. /\ \A h \in Charged(c) : h.ts >= Start => h.id \in Mine(c)
      /\ \A h \in Charged(c) : h.id \in Mine(c) => h = Entry(charges[h.id], h.id)
      /\ \A i \in Mine(c) : Entry(charges[i], i) \in Charged(c)
  BY SeesTheWindow
<1>1. S \in Views(Charged(c), Start)
  BY <1>a DEF Views
<1>2. ASSUME Op(c) # "settle" PROVE SeenOf(c) = S
  <2>1. \A i \in Mine(c) : SeenAs(c, i) = Entry(charges[i], i)
    BY <1>2 DEF SeenAs, Entry, Amount
  <2> QED BY <2>1 DEF SeenOf
<1>3. ASSUME pc[c] = "sum", Op(c) = "settle" PROVE SeenOf(c) \in Views(Revalued(c), Start)
  <2> DEFINE R(h) == Revalue(h, charge[c], request[c].actual)
  <2>1. \A i \in Mine(c) : SeenAs(c, i) = R(Entry(charges[i], i))
    BY <1>3 DEF SeenAs, Entry, Amount, Revalue
  <2>2. Revalued(c) = {R(h) : h \in Charged(c)}
    BY DEF Revalued
  <2>3. \A h \in Charged(c) : R(h).ts = h.ts
    <3>1. \A h \in Charged(c) : h = [id |-> h.id, amount |-> h.amount, ts |-> h.ts]
      BY LedgerTyped DEF Charged, StoreInv, TypeInv, ViewInv
    <3> QED BY <3>1 DEF Revalue
  <2> HIDE DEF R
  <2>4. SeenOf(c) \subseteq Revalued(c)
    BY <1>a, <2>1, <2>2 DEF SeenOf
  <2>5. ASSUME NEW g \in Revalued(c), g.ts >= Start PROVE g \in SeenOf(c)
    <3>1. PICK h \in Charged(c) : g = R(h)
      BY <2>2, <2>5
    <3>2. h.id \in Mine(c) /\ h = Entry(charges[h.id], h.id)
      BY <1>a, <2>3, <2>5, <3>1
    <3> QED BY <2>1, <3>1, <3>2 DEF SeenOf
  <2> QED BY <2>4, <2>5 DEF Views
<1> QED BY <1>1, <1>2, <1>3

(* The sum.                                                                *)
LEMMA SumViews ==
    ASSUME StoreInv, ViewInv, NEW e \in Calls, Sum(e)
    PROVE  ViewInv'
<1>a. TypeOK /\ Steps /\ Faithful(e) /\ Answering
  BY DEF ViewInv, StoreInv, TypeInv
<1>1. /\ pc[e] = "sum" /\ Proceed(e)
      /\ UNCHANGED <<request, at, charge, held, gone, tables, lastId, clock, history>>
      /\ answer' = [answer EXCEPT ![e] =
             IF Op(e) = "reserve"
             THEN [balance |-> Summed(e) + request[e].cost,
                   degraded |-> Summed(e) + request[e].cost >= Threshold]
             ELSE [balance |-> Summed(e)]]
  BY DEF Sum, Summed, lockVars
<1>2. request[e] \in Asked /\ pc[e] \in DOMAIN After[Op(e)]
  BY <1>a, <1>1 DEF Steps, Waiting, Statements
<1>3. /\ pc'[e] = IF Op(e) = "reserve" THEN "insert" ELSE "commit"
      /\ \A d \in Calls \ {e} : pc'[d] = pc[d] /\ answer'[d] = answer[d]
      /\ Op(e) \in Charging
  <2>1. pc'[e] = After[Op(e)][pc[e]] /\ \A d \in Calls \ {e} : pc'[d] = pc[d]
    BY <1>a, <1>1 DEF Proceed, TypeOK
  <2>2. /\ After[Op(e)]["sum"] = IF Op(e) = "reserve" THEN "insert" ELSE "commit"
        /\ Op(e) \in Charging
    BY <1>1, <1>2, StepsAfter, Orders DEF Op
  <2>3. \A d \in Calls \ {e} : answer'[d] = answer[d]
    BY <1>a, <1>1 DEF Answering
  <2> QED BY <1>1, <2>1, <2>2, <2>3
<1>4. /\ Op(e) = "reserve" => answer'[e] = [balance |-> Summed(e) + request[e].cost,
                                degraded |-> Summed(e) + request[e].cost >= Threshold]
      /\ Op(e) # "reserve" => answer'[e] = [balance |-> Summed(e)]
  BY <1>a, <1>1 DEF Answering
<1>5. Op(e)' = Op(e) /\ Account(e)' = Account(e) /\ Charger(e)' = Charger(e)
  BY <1>1 DEF Op, Account, Charger
<1>6. Total(SeenOf(e)) = Summed(e)
  BY <1>1, <1>3, SeenTotal DEF Statements
<1>7. Charged(e)' = Charged(e) /\ Start' = Start /\ Revalued(e)' = Revalued(e)
  <2>1. Charged(e)' = Charged(e)
    <3>1. \A a : LedgerOf(a)' = LedgerOf(a)
      BY <1>1, LedgerSame DEF tables, history
    <3> QED BY <1>5, <3>1 DEF Charged
  <2> QED BY <1>1, <2>1 DEF Start, Revalued
<1>8. ASSUME Charger(e), Account(e) \notin disturbed PROVE Viewed(e)'
  <2>1. Op(e) = "reserve" => SeenByReserve(e)'
    <3>1. Op(e) = "reserve" => SeenOf(e) \in Views(Charged(e), Start)
      BY <1>3, <1>8, SeenIsView
    <3> QED BY <1>1, <1>4, <1>6, <1>7, <3>1 DEF SeenByReserve
  <2>2. Op(e) = "settle" => SeenBySettle(e)'
    <3>1. Op(e) = "settle" => SeenOf(e) \in Views(Revalued(e), Start)
      BY <1>1, <1>3, <1>8, SeenIsView
    <3> QED BY <1>1, <1>4, <1>6, <1>7, <3>1 DEF SeenBySettle
  <2>3. Op(e) = "settle" => SeenByFind(e)'
    <3>1. Op(e) = "settle" => SeenByFind(e)
      BY <1>1, <1>8, <1>a DEF Faithful, Viewed
    <3> QED BY <1>1, <1>7, <3>1 DEF SeenByFind
  <2> QED BY <1>3, <1>5, <2>1, <2>2, <2>3 DEF Viewed, Inserted, Reserving
<1>9. Viewed(e)'
  BY <1>1, <1>5, <1>8 DEF Viewed, history
<1>10. GoneRows(e)' /\ Chosen(e)'
  BY <1>a, <1>1, <1>3, <1>5 DEF Faithful, GoneRows, Chosen, tables
<1>11. Unanswered(e)' /\ Claiming(e)' /\ Writing(e)'
  BY <1>3, <1>5 DEF Unanswered, Claiming, Writing, Charging, Resetting
<1>12. Faithful(e)'
  BY <1>9, <1>10, <1>11 DEF Faithful
<1>13. at'[e] <= clock /\ ~Inserted(e)' /\ \A d \in Calls \ {e} : Untouched(d)
  BY <1>1, <1>3, <1>5 DEF Untouched, ViewInv, Expiry, Inserted, Reserving
<1> QED BY <1>1, <1>12, <1>13, LocalViews DEF tables

-----------------------------------------------------------------------------
(* The statements that choose a charge.                                    *)
LEMMA InsertViews ==
    ASSUME StoreInv, ViewInv, NEW e \in Calls, Insert(e)
    PROVE  ViewInv'
<1>a. TypeOK /\ Steps /\ Faithful(e) /\ Apart
  BY DEF ViewInv, StoreInv, TypeInv
<1>1. /\ pc[e] = "insert" /\ Proceed(e)
      /\ UNCHANGED <<request, at, answer, held, gone, tables, clock, history>>
      /\ lastId' = lastId + 1 /\ charge' = [charge EXCEPT ![e] = lastId + 1]
  BY DEF Insert, lockVars
<1>2. request[e] \in Asked /\ pc[e] \in DOMAIN After[Op(e)]
  BY <1>a, <1>1 DEF Steps, Waiting, Statements
<1>3. /\ pc'[e] = After[Op(e)][pc[e]] /\ charge'[e] = lastId + 1
      /\ \A d \in Calls \ {e} : pc'[d] = pc[d] /\ charge'[d] = charge[d]
  BY <1>a, <1>1 DEF Proceed, TypeOK
<1>4. Op(e) = "reserve" /\ pc'[e] = "commit"
  BY <1>1, <1>2, <1>3, StepsAfter, Orders DEF Op
<1>5. Op(e)' = Op(e) /\ Account(e)' = Account(e)
  BY <1>1 DEF Op, Account
<1>6. Charged(e)' = Charged(e) /\ Start' = Start
  <2>1. \A a : LedgerOf(a)' = LedgerOf(a)
    BY <1>1, LedgerSame DEF tables, history
  <2> QED BY <1>1, <1>5, <2>1 DEF Charged, Start
<1>7. charge'[e] \notin DOMAIN pruned /\ \A h \in Charged(e) : h.id < charge'[e]
  <2>1. lastId \in Nat /\ DOMAIN pruned \subseteq 1..lastId
    BY <1>a DEF TypeOK
  <2>2. \A h \in Charged(e) : h.id \in 1..lastId
    BY <1>a, LedgerTyped DEF Charged
  <2> QED BY <1>3, <2>1, <2>2
<1>8. Viewed(e)'
  <2>1. SUFFICES ASSUME Account(e) \notin disturbed
                 PROVE  SeenByReserve(e)' /\ \A h \in Charged(e)' : h.id < charge'[e]
    BY <1>1, <1>4, <1>5 DEF Viewed, history
  <2>2. SeenByReserve(e)
    BY <1>a, <1>1, <1>4, <2>1 DEF Faithful, Viewed, Charger
  <2> QED BY <1>1, <1>6, <1>7, <2>2 DEF SeenByReserve
<1>9. Unanswered(e)' /\ GoneRows(e)' /\ Chosen(e)' /\ Claiming(e)' /\ Writing(e)'
  BY <1>a, <1>1, <1>4, <1>5 DEF Faithful, Unanswered, GoneRows, Chosen, Claiming, Writing,
                                tables, Resetting
<1>10. Faithful(e)'
  BY <1>8, <1>9 DEF Faithful
<1>11. at'[e] <= clock /\ \A d \in Calls \ {e} : Untouched(d)
  BY <1>1, <1>3 DEF Untouched, ViewInv, Expiry
<1> QED BY <1>1, <1>7, <1>10, <1>11, LocalViews DEF tables

(* The latest charge of the amount, among those that the settlement sees.  *)
LEMMA FoundIsLatest ==
    ASSUME StoreInv, ViewInv, NEW e \in Calls, Op(e) \in Charging, Account(e) \notin disturbed,
           NEW i \in Found(e)
    PROVE  \E S \in Views(Charged(e), Start) :
              IF i = None THEN Latest(S, request[e].cost) = {}
              ELSE Latest(S, request[e].cost) = {h \in Charged(e) : h.id = i}
<1> DEFINE S == {Entry(charges[j], j) : j \in Mine(e)}
           cost == request[e].cost
<1>1. S \in Views(Charged(e), Start)
  BY SeenIsView
<1>2. /\ \A h \in Charged(e) : h.id \in Mine(e) => h = Entry(charges[h.id], h.id)
      /\ \A j \in Mine(e) : Entry(charges[j], j) \in Charged(e)
      /\ \A j \in Mine(e) : j # None /\ j \in Nat /\ j \in DOMAIN charges
  BY SeesTheWindow
<1>3. \A j \in Mine(e) : /\ Entry(charges[j], j).id = j
                         /\ Entry(charges[j], j).amount = charges[j].amount
  BY DEF Entry
<1>4. \A j \in Same(e) : j \in Mine(e) /\ charges[j].amount = cost
  BY DEF Same
<1>5. \A j \in Mine(e) : charges[j].amount = cost => j \in Same(e)
  BY DEF Same
<1> HIDE DEF cost
<1>6. CASE i = None
  <2>1. Same(e) = {}
    BY <1>2, <1>4, <1>6 DEF Found
  <2>2. Latest(S, cost) = {}
    BY <1>3, <1>5, <2>1 DEF Latest
  <2> HIDE DEF S
  <2> QED BY <1>1, <1>6, <2>2 DEF cost
<1>7. CASE i # None
  <2>1. i \in Same(e) /\ \A j \in Same(e) : j <= i
    BY <1>7 DEF Found
  <2>2. {h \in Charged(e) : h.id = i} = {Entry(charges[i], i)}
    BY <1>2, <1>3, <1>4, <2>1
  <2>3. Entry(charges[i], i) \in Latest(S, cost)
    BY <1>3, <1>4, <1>5, <2>1 DEF Latest
  <2>4. ASSUME NEW h \in Latest(S, cost) PROVE h = Entry(charges[i], i)
    <3>1. PICK j \in Mine(e) : h = Entry(charges[j], j)
      BY DEF Latest
    <3>2. charges[j].amount = cost /\ i <= j
      <4>1. h.amount = cost /\ \A g \in S : g.amount = cost => g.id <= h.id
        BY DEF Latest
      <4>2. Entry(charges[i], i) \in S /\ charges[i].amount = cost /\ i \in Mine(e)
        BY <1>4, <2>1
      <4> HIDE DEF S
      <4> QED BY <1>3, <3>1, <4>1, <4>2
    <3>3. j <= i
      BY <1>5, <2>1, <3>1, <3>2
    <3>4. i \in Nat /\ j \in Nat
      BY <1>2, <1>4, <2>1, <3>1
    <3>5. i = j
      BY <3>2, <3>3, <3>4
    <3> QED BY <3>1, <3>5
  <2>5. Latest(S, cost) = {h \in Charged(e) : h.id = i}
    BY <2>2, <2>3, <2>4
  <2> HIDE DEF S
  <2> QED BY <1>1, <1>7, <2>5 DEF cost
<1> QED BY <1>6, <1>7

(* The search of a settlement.                                             *)
LEMMA FindViews ==
    ASSUME StoreInv, ViewInv, NEW e \in Calls, Find(e)
    PROVE  ViewInv'
<1>a. TypeOK /\ Steps /\ Faithful(e) /\ Apart
  BY DEF ViewInv, StoreInv, TypeInv
<1>1. /\ pc[e] = "find" /\ Proceed(e)
      /\ UNCHANGED <<request, at, answer, held, gone, tables, clock, history>>
  BY DEF Find, lockVars
<1>b. PICK i \in Found(e) : charge' = [charge EXCEPT ![e] = i]
  BY DEF Find
<1>2. request[e] \in Asked /\ pc[e] \in DOMAIN After[Op(e)]
  BY <1>a, <1>1 DEF Steps, Waiting, Statements
<1>3. /\ pc'[e] = After[Op(e)][pc[e]] /\ charge'[e] = i
      /\ \A d \in Calls \ {e} : pc'[d] = pc[d] /\ charge'[d] = charge[d]
  BY <1>a, <1>1, <1>b DEF Proceed, TypeOK
<1>4. Op(e) = "settle" /\ pc'[e] = "update"
  BY <1>1, <1>2, <1>3, StepsAfter, Orders DEF Op
<1>5. Op(e)' = Op(e) /\ Account(e)' = Account(e)
  BY <1>1 DEF Op, Account
<1>6. Charged(e)' = Charged(e) /\ Start' = Start
  <2>1. \A a : LedgerOf(a)' = LedgerOf(a)
    BY <1>1, LedgerSame DEF tables, history
  <2> QED BY <1>1, <1>5, <2>1 DEF Charged, Start
<1>7. Viewed(e)'
  <2>1. SUFFICES ASSUME Account(e) \notin disturbed PROVE SeenByFind(e)'
    BY <1>1, <1>4, <1>5 DEF Viewed, Inserted, Reserving, history
  <2>2. PICK S \in Views(Charged(e), Start) :
              IF i = None THEN Latest(S, request[e].cost) = {}
              ELSE Latest(S, request[e].cost) = {h \in Charged(e) : h.id = i}
    BY <1>4, <2>1, FoundIsLatest DEF Charging
  <2> QED BY <1>1, <1>3, <1>6, <2>2 DEF SeenByFind
<1>8. Chosen(e)'
  <2>1. i # None => Row("charge", i) \notin gone[e]
    BY DEF Found, Same, Mine, Visible
  <2> QED BY <1>1, <1>3, <1>4, <2>1 DEF Chosen
<1>9. Unanswered(e)' /\ GoneRows(e)' /\ Claiming(e)' /\ Writing(e)'
  BY <1>a, <1>1, <1>4, <1>5 DEF Faithful, Unanswered, GoneRows, Claiming, Writing, tables, Ends
<1>10. Faithful(e)'
  BY <1>7, <1>8, <1>9 DEF Faithful
<1>11. at'[e] <= clock /\ ~Inserted(e)' /\ \A d \in Calls \ {e} : Untouched(d)
  BY <1>1, <1>3, <1>4 DEF Untouched, ViewInv, Expiry, Inserted
<1> QED BY <1>1, <1>10, <1>11, LocalViews DEF tables

(* A charge that is not there any more has expired.                        *)
LEMMA UpdateViews ==
    ASSUME StoreInv, ViewInv, NEW e \in Calls, Update(e)
    PROVE  ViewInv'
<1>a. TypeOK /\ Steps /\ Faithful(e) /\ Apart /\ Expiry /\ Orderly(e)
  BY DEF ViewInv, StoreInv, TypeInv, LockInv
<1>1. /\ pc[e] = "update" /\ Proceed(e) /\ Takes(e, Wanted(e))
      /\ UNCHANGED <<request, at, answer, gone, tables, clock, history>>
      /\ charge' = [charge EXCEPT ![e] = IF Wanted(e) = {} THEN None ELSE @]
  BY DEF Update
<1>2. request[e] \in Asked /\ pc[e] \in DOMAIN After[Op(e)]
  BY <1>a, <1>1 DEF Steps, Waiting, Statements
<1>3. /\ pc'[e] = After[Op(e)][pc[e]] /\ held'[e] = held[e] \union Wanted(e)
      /\ charge'[e] = IF Wanted(e) = {} THEN None ELSE charge[e]
      /\ \A d \in Calls \ {e} : pc'[d] = pc[d] /\ charge'[d] = charge[d] /\ held'[d] = held[d]
  BY <1>a, <1>1 DEF Proceed, Takes, TypeOK
<1>4. Op(e) = "settle" /\ pc'[e] = "sum"
  BY <1>1, <1>2, <1>3, StepsAfter, Orders DEF Op
<1>5. Op(e)' = Op(e) /\ Account(e)' = Account(e)
  BY <1>1 DEF Op, Account
<1>6. Charged(e)' = Charged(e) /\ Start' = Start
  <2>1. \A a : LedgerOf(a)' = LedgerOf(a)
    BY <1>1, LedgerSame DEF tables, history
  <2> QED BY <1>1, <1>5, <2>1 DEF Charged, Start
<1>w. Wanted(e) = IF charge[e] \in DOMAIN charges THEN {Row("charge", charge[e])} ELSE {}
  BY <1>1 DEF Wanted
<1>7. Viewed(e)'
  <2>1. SUFFICES ASSUME Account(e) \notin disturbed PROVE SeenByFind(e)'
    BY <1>1, <1>4, <1>5 DEF Viewed, Inserted, Reserving, history
  <2>2. PICK S \in Views(Charged(e), Start) :
             IF charge[e] = None
             THEN \A h \in Latest(S, request[e].cost) : h.ts < Start
             ELSE Latest(S, request[e].cost) = {h \in Charged(e) : h.id = charge[e]}
    BY <1>a, <1>1, <1>4, <2>1 DEF Faithful, Viewed, Charger, SeenByFind
  <2>3. ASSUME charge[e] \notin DOMAIN charges, charge[e] # None,
               NEW h \in Latest(S, request[e].cost)
        PROVE  h.ts < Start
    <3>1. h \in Charged(e) /\ h.id = charge[e]
      BY <2>2, <2>3
    <3>2. h.id \in InBook(Account(e)) /\ h = Entry(Book[h.id], h.id)
      BY <1>a, <3>1, LedgerTyped DEF Charged
    <3>3. h.id \in DOMAIN pruned /\ Book[h.id] = pruned[h.id]
      BY <2>3, <3>1, <3>2 DEF InBook, Book
    <3>4. h.ts = pruned[h.id].ts
      BY <3>2, <3>3 DEF Entry
    <3> QED BY <1>a, <3>3, <3>4 DEF Expiry
  <2>4. CASE Wanted(e) = {}
    <3>1. charge'[e] = None /\ charge[e] \notin DOMAIN charges
      BY <1>3, <1>w, <2>4
    <3>2. \A h \in Latest(S, request[e].cost) : h.ts < Start
      BY <2>2, <2>3, <3>1
    <3> QED BY <1>1, <1>6, <3>1, <3>2 DEF SeenByFind
  <2>5. CASE Wanted(e) # {}
    BY <1>1, <1>3, <1>6, <2>2, <2>5 DEF SeenByFind
  <2> QED BY <2>4, <2>5
<1>8. Chosen(e)'
  <2>1. SUFFICES ASSUME charge'[e] # None
        PROVE  /\ charge'[e] \in DOMAIN charges /\ charges[charge'[e]].account = Account(e)
               /\ Row("charge", charge'[e]) \in held'[e]
               /\ Row("charge", charge'[e]) \notin gone[e]
    BY <1>1, <1>5 DEF Chosen, tables, Row
  <2>2. charge'[e] = charge[e] /\ charge[e] \in DOMAIN charges
    BY <1>3, <1>w, <2>1
  <2>3. charges[charge[e]].account = Account(e)
    BY <1>a, <1>1, <2>2 DEF Orderly, OfAccount
  <2>4. Row("charge", charge[e]) \notin gone[e]
    BY <1>a, <1>1, <1>4, <2>1, <2>2 DEF Faithful, Chosen
  <2> QED BY <1>3, <1>w, <2>2, <2>3, <2>4
<1>9. Unanswered(e)' /\ GoneRows(e)' /\ Claiming(e)' /\ Writing(e)'
  BY <1>a, <1>1, <1>4, <1>5 DEF Faithful, Unanswered, GoneRows, Claiming, Writing, tables, Ends
<1>10. Faithful(e)'
  BY <1>7, <1>8, <1>9 DEF Faithful
<1>11. at'[e] <= clock /\ ~Inserted(e)' /\ \A d \in Calls \ {e} : Untouched(d)
  BY <1>1, <1>3, <1>4 DEF Untouched, ViewInv, Expiry, Inserted
<1> QED BY <1>1, <1>10, <1>11, LocalViews DEF tables

-----------------------------------------------------------------------------
(* Steps of no call, and all steps.                                        *)
LEMMA IdleViews ==
    ASSUME StoreInv, ViewInv, Close \/ Tick \/ Quiesced \/ UNCHANGED vars
    PROVE  ViewInv'
<1>a. TypeOK
  BY DEF StoreInv, TypeInv
<1>1. UNCHANGED <<pc, txVars, lockVars, tables, history>>
  BY DEF Close, Tick, Quiesced, vars
<1>2. clock' = clock \/ clock' = clock + 1
  BY DEF Close, Tick, Quiesced, vars
<1>3. /\ clock \in Int /\ clock' \in Int /\ clock <= clock' /\ Window \in Int
      /\ \A c \in Calls : at[c] \in Int
      /\ \A i \in DOMAIN pruned : pruned[i].ts \in Int
  BY <1>a, <1>2, PostgresAssumption DEF TypeOK, ChargeRows
<1>4. Scopes' /\ Apart'
  BY <1>1 DEF ViewInv, Scopes, Apart, Inserted, Reserving, Op, txVars, tables, history
<1>5. Expiry'
  BY <1>1, <1>3 DEF ViewInv, Expiry, Start, txVars, history
<1>6. ASSUME NEW d \in Calls PROVE Faithful(d)'
  <2>1. Untouched(d)
    BY <1>1 DEF Untouched, txVars, lockVars
  <2>2. Charged(d)' = Charged(d)
    <3>1. Account(d)' = Account(d)
      BY <2>1 DEF Untouched, Account
    <3> QED BY <1>1, <3>1, LedgerSame DEF Charged, tables, history
  <2>3. Claiming(d)'
    BY <1>1 DEF ViewInv, Faithful, Claiming, txVars, lockVars, tables, history, Op, Row
  <2> QED BY <1>1, <1>3, <2>1, <2>2, <2>3, Keeps DEF tables, history
<1> QED BY <1>4, <1>5, <1>6 DEF ViewInv

(* ViewInv holds at first.                                                 *)
LEMMA InitViews == Init => ViewInv
<1> SUFFICES ASSUME Init PROVE ViewInv
  OBVIOUS
<1>1. Scopes /\ Apart /\ Expiry
  BY PostgresAssumption DEF Init, Scopes, Apart, Expiry, Inserted, Reserving
<1>2. ASSUME NEW c \in Calls PROVE Faithful(c)
  BY DEF Init, Faithful, Unanswered, GoneRows, Chosen, Claiming, Writing, Viewed, Inserted,
         Reserving, Ends, Op, NoRequest, NoAnswer
<1> QED BY <1>1, <1>2 DEF ViewInv

(* Every step preserves ViewInv.                                           *)
LEMMA StepViews == StoreInv /\ ViewInv /\ [Next]_vars => ViewInv'
<1> SUFFICES ASSUME StoreInv, ViewInv, [Next]_vars PROVE ViewInv'
  OBVIOUS
<1>1. CASE Close \/ Tick \/ Quiesced \/ UNCHANGED vars
  BY <1>1, IdleViews
<1>2. ASSUME NEW e \in Calls, \/ Enter(e) \/ Borrow(e) \/ BorrowRaises(e)
                              \/ TransactionFails(e) \/ DeadlockDetected(e)
      PROVE  ViewInv'
  BY <1>2, OuterViews
<1>3. ASSUME NEW e \in Calls, Statement(e) PROVE ViewInv'
  <2>1. CASE InsertLock(e) \/ Lock(e)
    BY <2>1, LockViews
  <2>2. CASE DeleteStarts(e) \/ DeleteRow(e)
    BY <2>2, DeleteViews
  <2>3. CASE Claim(e) \/ Select(e) \/ Upsert(e)
    BY <2>3, ClaimViews
  <2>4. CASE Sum(e)
    BY <2>4, SumViews
  <2>5. CASE Insert(e)
    BY <2>5, InsertViews
  <2>6. CASE Find(e)
    BY <2>6, FindViews
  <2>7. CASE Update(e)
    BY <2>7, UpdateViews
  <2>8. CASE Commit(e)
    BY <2>8, CommitViews
  <2> QED BY <1>3, <2>1, <2>2, <2>3, <2>4, <2>5, <2>6, <2>7, <2>8 DEF Statement
<1> QED BY <1>1, <1>2, <1>3 DEF Next

-----------------------------------------------------------------------------
(* The state of AtomicStore that a state of the store stands for.          *)
Replies == [c \in Calls |-> ReplyOf(c)]
Ledgers == [a \in Accounts |-> LedgerOf(a)]
KeysKept == [k \in Keys |-> IF Everything \in disturbed THEN Null ELSE idempotency[k]]
TasksKept == [t \in Tasks |-> IF Owner[t] \in disturbed THEN Null ELSE tasks[t]]

(* What AtomicStore calls forgotten: a request about something that was    *)
(* reset.                                                                  *)
Forgot(r, D) ==
    \/ r.op \in Charging /\ r.account \in D
    \/ r.op = "register" /\ Everything \in D
    \/ r.op \in {"create", "status"} /\ Owner[r.task] \in D

(* A call has taken effect.                                                *)
Effective(c) == pc[c] \in Committed \/ Op(c) = "balance" \/ answer[c] = [rows |-> 0]

(* The answer that AtomicStore knows of.                                   *)
LEMMA ReplyForm ==
    \A c : ReplyOf(c) = IF Effective(c) /\ ~Forgot(request[c], disturbed)
                        THEN answer[c] ELSE NoAnswer
BY DEF ReplyOf, Effective, Forgot, Op

(* The same after a step.                                                  *)
LEMMA ReplyNext ==
    (\A c : ReplyOf(c) = IF Effective(c) /\ ~Forgot(request[c], disturbed)
                         THEN answer[c] ELSE NoAnswer)'
BY ReplyForm, PTL

(* The variables of AtomicStore are the four above, and three of the store's. *)
LEMMA AtomicVars ==
    ASSUME UNCHANGED <<request, disturbed, clock, Replies, Ledgers, KeysKept, TasksKept>>
    PROVE  UNCHANGED Atomic!vars
BY DEF Atomic!vars, Replies, Ledgers, KeysKept, TasksKept

(* An invocation.                                                          *)
LEMMA AtomicInvoke ==
    ASSUME NEW c \in Calls, request[c] = NoRequest, request'[c] # NoRequest,
           request' = [request EXCEPT ![c] = request'[c]],
           UNCHANGED <<disturbed, clock, Replies, Ledgers, KeysKept, TasksKept>>
    PROVE  Atomic!Invoke(c)
BY DEF Atomic!Invoke, Atomic!NoRequest, NoRequest, Replies, Ledgers, KeysKept, TasksKept

(* A tick.                                                                 *)
LEMMA AtomicTick ==
    ASSUME clock' > clock, UNCHANGED <<request, disturbed, Replies, Ledgers, KeysKept, TasksKept>>
    PROVE  Atomic!Tick
BY DEF Atomic!Tick, Replies, Ledgers, KeysKept, TasksKept

(* What a call may see of the ledger, there and here.                      *)
LEMMA AtomicViews ==
    ASSUME NEW a \in Accounts
    PROVE  /\ Atomic!Views(a) = Views(LedgerOf(a), Start)
           /\ Atomic!Live(a) = {h \in LedgerOf(a) : h.ts >= Start}
BY DEF Atomic!Views, Atomic!Live, Views, Start

(* The sum over what is seen.                                              *)
LEMMA AtomicTotal == \A S : Atomic!Total(S) = Total(S)
BY DEF Atomic!Total, Total, Atomic!MapThenSumSet, Atomic!MapThenFoldSet, MapThenSumSet,
       MapThenFoldSet

(* The charge that a settlement revalues.                                  *)
LEMMA AtomicLatest == \A S, amount : Atomic!Latest(S, amount) = Latest(S, amount)
BY DEF Atomic!Latest, Latest

(* The actions of AtomicStore, in the terms of the store.                  *)
Replying(c, value) == Replies[c] = NoAnswer /\ Replies' = [Replies EXCEPT ![c] = value]

(* An answer.                                                              *)
LEMMA AtomicAnswers ==
    ASSUME NEW c \in Calls, NEW value, Replying(c, value)
    PROVE  Atomic!Answers(c, value)
BY DEF Replying, Atomic!Answers, Atomic!NoAnswer, NoAnswer, Replies

(* A balance.                                                              *)
LEMMA AtomicBalance ==
    ASSUME NEW c \in Calls, Op(c) = "balance", Account(c) \in Accounts,
           NEW S \in Views(LedgerOf(Account(c)), Start), Replying(c, [balance |-> Total(S)]),
           UNCHANGED <<request, disturbed, clock, Ledgers, KeysKept, TasksKept>>
    PROVE  Atomic!Balance(c)
<1>1. S \in Atomic!Views(request[c].account)
  BY AtomicViews DEF Account
<1>2. Atomic!Answers(c, [balance |-> Atomic!Total(S)])
  BY AtomicAnswers, AtomicTotal
<1>3. Atomic!Asks(c, "balance")
  BY DEF Atomic!Asks, Op
<1> QED BY <1>1, <1>2, <1>3 DEF Atomic!Balance, Ledgers, KeysKept, TasksKept

(* Cardinality is the same operator in both modules.                       *)
LEMMA AtomicCardinality == \A S : Atomic!Cardinality(S) = Cardinality(S)
BY DEF Atomic!Cardinality, Cardinality

(* A reservation: one entry more, whose number is the highest.             *)
LEMMA AtomicReserve ==
    ASSUME NEW c \in Calls, Op(c) = "reserve", Account(c) \in Accounts,
           NEW S \in Views(LedgerOf(Account(c)), Start),
           Replying(c, [balance |-> Total(S) + request[c].cost,
                          degraded |-> Total(S) + request[c].cost >= Threshold]),
           NEW h, h.amount = request[c].cost, h.ts <= clock, h \notin LedgerOf(Account(c)),
           \A g \in LedgerOf(Account(c)) : g.id < h.id,
           Ledgers' = [Ledgers EXCEPT ![Account(c)] = @ \union {h}],
           UNCHANGED <<request, disturbed, clock, KeysKept, TasksKept>>
    PROVE  Atomic!Reserve(c)
<1> DEFINE a == request[c].account
           made == Ledgers'[a] \ Ledgers[a]
<1>0. a = Account(c) /\ a \in Accounts /\ Ledgers[a] = LedgerOf(a)
  BY DEF Account, Ledgers
<1>1. S \in Atomic!Views(a)
  BY <1>0, AtomicViews
<1>2. Atomic!Answers(c, [balance |-> Atomic!Total(S) + request[c].cost,
                         degraded |-> Atomic!Total(S) + request[c].cost >= Threshold])
  BY AtomicAnswers, AtomicTotal
<1>3. Atomic!Asks(c, "reserve")
  BY DEF Atomic!Asks, Op
<1>4. made = {h} /\ Atomic!Cardinality(made) = 1
  <2>1. Ledgers'[a] = Ledgers[a] \union {h}
    BY <1>0 DEF Ledgers
  <2>2. made = {h}
    BY <1>0, <2>1
  <2> QED BY <2>2, FS_Singleton, AtomicCardinality
<1>5. Ledgers' = [Ledgers EXCEPT ![a] = @ \union made]
  BY <1>0, <1>4
<1>6. \A x \in made : /\ x.amount = request[c].cost /\ x.ts <= clock
                      /\ \A g \in Ledgers[a] : g.id < x.id
  BY <1>0, <1>4
<1> HIDE DEF a
<1> QED BY <1>1, <1>2, <1>3, <1>4, <1>5, <1>6 DEF Atomic!Reserve, Ledgers, KeysKept, TasksKept, a

(* A settlement: the target gets another amount, or there is none.         *)
LEMMA AtomicSettle ==
    ASSUME NEW c \in Calls, Op(c) = "settle", Account(c) \in Accounts,
           NEW S \in Views(LedgerOf(Account(c)), Start),
           NEW target, target = Latest(S, request[c].cost),
           \/ Ledgers' = [Ledgers EXCEPT ![Account(c)] =
                  {IF h \in target THEN [h EXCEPT !.amount = request[c].actual] ELSE h :
                     h \in LedgerOf(Account(c))}]
           \/ Ledgers' = Ledgers /\ \A h \in target : ~(h.ts >= Start),
           NEW T \in Views(LedgerOf(Account(c))', Start), Replying(c, [balance |-> Total(T)]),
           UNCHANGED <<request, disturbed, clock, KeysKept, TasksKept>>
    PROVE  Atomic!Settle(c)
<1> DEFINE a == request[c].account
<1>0. a = Account(c) /\ a \in Accounts /\ a' = a /\ Ledgers[a] = LedgerOf(a)
      /\ Ledgers'[a] = LedgerOf(a)' /\ LedgerOf(a)' = LedgerOf(Account(c))'
  BY DEF Account, Ledgers
<1>1. S \in Atomic!Views(a) /\ Atomic!Latest(S, request[c].cost) = target
  BY <1>0, AtomicViews, AtomicLatest
<1>2. \/ Ledgers' = [Ledgers EXCEPT ![a] =
             {IF h \in target THEN [h EXCEPT !.amount = request[c].actual] ELSE h :
                h \in Ledgers[a]}]
      \/ target \cap Atomic!Live(a) = {} /\ UNCHANGED Ledgers
  BY <1>0, AtomicViews
<1>3. /\ T \in SUBSET Ledgers'[a]
      /\ {h \in Ledgers'[a] : h.ts >= clock - Window} \subseteq T
      /\ Atomic!Answers(c, [balance |-> Atomic!Total(T)])
  <2>1. Atomic!Answers(c, [balance |-> Atomic!Total(T)])
    BY AtomicAnswers, AtomicTotal
  <2> QED BY <1>0, <2>1 DEF Views, Start
<1>4. Atomic!Asks(c, "settle")
  BY DEF Atomic!Asks, Op
<1>5. \E Q \in Atomic!Views(a) :
         \/ Ledgers' = [Ledgers EXCEPT ![a] =
                {IF h \in Atomic!Latest(Q, request[c].cost)
                 THEN [h EXCEPT !.amount = request[c].actual] ELSE h : h \in Ledgers[a]}]
         \/ Atomic!Latest(Q, request[c].cost) \cap Atomic!Live(a) = {} /\ UNCHANGED Ledgers
  BY <1>1, <1>2
<1>6. \E U \in SUBSET Ledgers'[a] :
         /\ {h \in Ledgers'[a] : h.ts >= clock - Window} \subseteq U
         /\ Atomic!Answers(c, [balance |-> Atomic!Total(U)])
  BY <1>3
<1> QED BY <1>4, <1>5, <1>6 DEF Atomic!Settle, Ledgers, KeysKept, TasksKept

(* A claim: of a free key, or of one that is taken.                        *)
LEMMA AtomicRegister ==
    ASSUME NEW c \in Calls, Op(c) = "register", NEW k, k = request[c].key,
           \/ /\ KeysKept[k] = Null /\ Replying(c, [task |-> c, created |-> TRUE])
              /\ KeysKept' = [KeysKept EXCEPT ![k] = c]
           \/ /\ KeysKept[k] # Null /\ Replying(c, [task |-> KeysKept[k], created |-> FALSE])
              /\ KeysKept' = KeysKept,
           UNCHANGED <<request, disturbed, clock, Ledgers, TasksKept>>
    PROVE  Atomic!Register(c)
<1>1. Atomic!Asks(c, "register")
  BY DEF Atomic!Asks, Op
<1>2. CASE /\ KeysKept[k] = Null /\ Replying(c, [task |-> c, created |-> TRUE])
           /\ KeysKept' = [KeysKept EXCEPT ![k] = c]
  <2>1. Atomic!Answers(c, [task |-> c, created |-> TRUE])
    BY <1>2, AtomicAnswers
  <2> QED BY <1>1, <1>2, <2>1
          DEF Atomic!Register, Atomic!Null, Null, Ledgers, KeysKept, TasksKept
<1>3. CASE /\ KeysKept[k] # Null
           /\ Replying(c, [task |-> KeysKept[k], created |-> FALSE])
           /\ KeysKept' = KeysKept
  <2>1. Atomic!Answers(c, [task |-> KeysKept[k], created |-> FALSE])
    BY <1>3, AtomicAnswers
  <2> QED BY <1>1, <1>3, <2>1
          DEF Atomic!Register, Atomic!Null, Null, Ledgers, KeysKept, TasksKept
<1> QED BY <1>2, <1>3

(* The creation of a task.                                                 *)
LEMMA AtomicCreate ==
    ASSUME NEW c \in Calls, Op(c) = "create", Replying(c, [rows |-> 1]),
           TasksKept' = [TasksKept EXCEPT ![request[c].task] = "ACCEPTED"],
           UNCHANGED <<request, disturbed, clock, Ledgers, KeysKept>>
    PROVE  Atomic!CreateTask(c)
<1>1. Atomic!Asks(c, "create") /\ Atomic!Answers(c, [rows |-> 1])
  BY AtomicAnswers DEF Atomic!Asks, Op
<1> QED BY <1>1 DEF Atomic!CreateTask, Ledgers, KeysKept, TasksKept

(* A status write: of no row, or of one.                                   *)
LEMMA AtomicStatus ==
    ASSUME NEW c \in Calls, Op(c) = "status", NEW t \in Tasks, t = request[c].task,
           \/ /\ TasksKept[t] = Null /\ Replying(c, [rows |-> 0])
              /\ TasksKept' = TasksKept
           \/ /\ TasksKept[t] # Null /\ Replying(c, [rows |-> 1])
              /\ TasksKept' = [TasksKept EXCEPT ![t] = request[c].status],
           UNCHANGED <<request, disturbed, clock, Ledgers, KeysKept>>
    PROVE  Atomic!SetTaskStatus(c)
<1>1. Atomic!Asks(c, "status")
  BY DEF Atomic!Asks, Op
<1>2. TasksKept = [TasksKept EXCEPT ![t] = TasksKept[t]]
  BY DEF TasksKept
<1>3. /\ TasksKept' = [TasksKept EXCEPT ![t] = IF @ = Null THEN @ ELSE request[c].status]
      /\ Replying(c, [rows |-> IF TasksKept[t] = Null THEN 0 ELSE 1])
  <2>1. CASE TasksKept[t] = Null
    BY <1>2, <2>1
  <2>2. CASE TasksKept[t] # Null
    BY <2>2
  <2> QED BY <2>1, <2>2
<1>4. Atomic!Answers(c, [rows |-> IF TasksKept[t] = Null THEN 0 ELSE 1])
  BY <1>3, AtomicAnswers
<1> QED BY <1>1, <1>3, <1>4
        DEF Atomic!SetTaskStatus, Atomic!Null, Null, Ledgers, KeysKept, TasksKept

(* A reset.                                                                *)
LEMMA AtomicDisturb ==
    ASSUME NEW D \in SUBSET (Accounts \union {Everything}), D # {},
           disturbed' = disturbed \union D,
           Replies' = [c \in Calls |-> IF Forgot(request[c], D) THEN NoAnswer ELSE Replies[c]],
           Ledgers' = [a \in Accounts |-> IF a \in D THEN {} ELSE Ledgers[a]],
           KeysKept' = [k \in Keys |-> IF Everything \in D THEN Null ELSE KeysKept[k]],
           TasksKept' = [t \in Tasks |-> IF Owner[t] \in D THEN Null ELSE TasksKept[t]],
           UNCHANGED <<request, clock>>
    PROVE  Atomic!Disturb(D)
<1>1. \A c : Atomic!Forgotten(c, D) <=> Forgot(request[c], D)
  BY DEF Atomic!Forgotten, Forgot, Charging
<1> QED BY <1>1 DEF Atomic!Disturb, Atomic!NoAnswer, NoAnswer, Atomic!Null, Null,
                    Replies, Ledgers, KeysKept, TasksKept

-----------------------------------------------------------------------------
(* Steps that AtomicStore does not see.                                    *)
LEMMA SameReply ==
    ASSUME NEW d, pc'[d] = pc[d], request'[d] = request[d], answer'[d] = answer[d],
           Forgot(request[d], disturbed') <=> Forgot(request[d], disturbed)
    PROVE  ReplyOf(d)' = ReplyOf(d)
<1>1. Effective(d)' = Effective(d)
  BY DEF Effective, Op
<1> QED BY <1>1, ReplyForm, ReplyNext

(* Before it has taken effect a call has no answer.                        *)
LEMMA NoReply ==
    ASSUME NEW d, pc[d] \notin Committed, Op(d) # "balance", answer[d] # [rows |-> 0]
    PROVE  ReplyOf(d) = NoAnswer
BY ReplyForm DEF Effective

(* The same after a step.                                                  *)
LEMMA NoReplyNext ==
    (\A d : pc[d] \notin Committed /\ Op(d) # "balance" /\ answer[d] # [rows |-> 0]
            => ReplyOf(d) = NoAnswer)'
<1>1. \A d : pc[d] \notin Committed /\ Op(d) # "balance" /\ answer[d] # [rows |-> 0]
             => ReplyOf(d) = NoAnswer
  BY NoReply
<1> QED BY <1>1, PTL

(* The tables that AtomicStore sees are functions of the tables here.      *)
LEMMA SameStore ==
    ASSUME UNCHANGED <<tables, history>>
    PROVE  UNCHANGED <<disturbed, Ledgers, KeysKept, TasksKept>>
<1>1. \A a : LedgerOf(a)' = LedgerOf(a)
  BY LedgerSame DEF tables, history
<1> QED BY <1>1 DEF tables, history, Ledgers, KeysKept, TasksKept

(* A step of one call that writes no table.                                *)
LEMMA LocalReplies ==
    ASSUME NEW e \in Calls, UNCHANGED <<request, tables, history>>,
           \A d \in Calls \ {e} : pc'[d] = pc[d] /\ answer'[d] = answer[d]
    PROVE  Replies' = [Replies EXCEPT ![e] = ReplyOf(e)']
<1>1. \A d \in Calls \ {e} : ReplyOf(d)' = ReplyOf(d)
  BY SameReply DEF history
<1> QED BY <1>1 DEF Replies

(* If its own reply stays too, AtomicStore sees nothing.                   *)
LEMMA Stutters ==
    ASSUME NEW e \in Calls, UNCHANGED <<request, tables, history, clock>>,
           \A d \in Calls \ {e} : pc'[d] = pc[d] /\ answer'[d] = answer[d],
           ReplyOf(e)' = ReplyOf(e)
    PROVE  UNCHANGED Atomic!vars
<1>1. Replies' = Replies
  BY LocalReplies DEF Replies
<1>2. UNCHANGED <<disturbed, Ledgers, KeysKept, TasksKept>>
  BY SameStore
<1> QED BY <1>1, <1>2, AtomicVars

(* AtomicStore takes a step, or none.                                      *)
Simulated == Atomic!Next \/ UNCHANGED Atomic!vars

(* Entering a method is its invocation.                                    *)
LEMMA EnterSimulates ==
    ASSUME StoreInv, ViewInv, NEW e \in Calls, Enter(e)
    PROVE  Simulated
<1>1. PICK r \in Requests[e] : request' = [request EXCEPT ![e] = r]
  BY DEF Enter
<1>2. r \in Asked /\ TypeOK /\ Unanswered(e) /\ pc[e] = "idle"
  BY PostgresAssumption DEF StoreInv, TypeInv, ViewInv, Faithful, Enter
<1>3. request[e] = NoRequest /\ answer[e] = NoAnswer /\ answer' = answer
  BY <1>2 DEF Unanswered, Enter, Ends
<1>4. request'[e] # NoRequest /\ request' = [request EXCEPT ![e] = request'[e]]
  BY <1>1, <1>2, Fields DEF TypeOK, NoRequest
<1>5. Replies' = Replies
  <2>1. ReplyOf(e) = NoAnswer /\ ReplyOf(e)' = NoAnswer
    BY <1>3, ReplyForm, ReplyNext
  <2>2. \A d \in Calls \ {e} : ReplyOf(d)' = ReplyOf(d)
    BY <1>1, <1>2, <1>3, SameReply DEF Enter, TypeOK, history
  <2> QED BY <2>1, <2>2 DEF Replies
<1>6. UNCHANGED <<disturbed, clock, Ledgers, KeysKept, TasksKept>>
  BY SameStore DEF Enter
<1>7. Atomic!Invoke(e)
  BY <1>3, <1>4, <1>5, <1>6, AtomicInvoke
<1> QED BY <1>7 DEF Simulated, Atomic!Next

(* A step that neither answers nor commits.                                *)
LEMMA SilentSimulates ==
    ASSUME StoreInv, ViewInv, NEW e \in Calls,
           \/ Borrow(e) \/ BorrowRaises(e) \/ TransactionFails(e) \/ DeadlockDetected(e)
           \/ InsertLock(e) \/ Lock(e) \/ DeleteStarts(e) \/ DeleteRow(e) \/ Insert(e)
           \/ Find(e) \/ Update(e)
    PROVE  Simulated
<1>a. TypeOK /\ Steps
  BY DEF StoreInv, TypeInv
<1>1. UNCHANGED <<request, answer, tables, history, clock>>
  BY DEF Borrow, BorrowRaises, TransactionFails, DeadlockDetected, InsertLock, Lock,
         DeleteStarts, DeleteRow, Insert, Find, Update, txVars
<1>2. pc[e] \in {"begin"} \union Statements
  BY PostgresAssumption
     DEF Borrow, BorrowRaises, TransactionFails, DeadlockDetected, InsertLock, Lock,
         DeleteStarts, DeleteRow, Insert, Find, Update, Statements, Deleting, InTransaction
<1>3. Proceed(e) \/ pc' = pc \/ pc' = [pc EXCEPT ![e] = "raised"]
  BY DEF Borrow, BorrowRaises, TransactionFails, DeadlockDetected, InsertLock, Lock,
         DeleteStarts, DeleteRow, Insert, Find, Update, RolledBack
<1>4. \A d \in Calls \ {e} : pc'[d] = pc[d]
  BY <1>a, <1>3 DEF Proceed, TypeOK
<1>5. pc[e] \notin Committed /\ pc'[e] \notin Committed
  <2>1. CASE Proceed(e) /\ pc[e] # "commit"
    <3>1. pc'[e] = After[Op(e)][pc[e]]
      BY <1>a, <2>1 DEF Proceed, TypeOK
    <3>2. request[e] \in Asked /\ pc[e] \in DOMAIN After[Op(e)]
      BY <1>a, <1>2, <2>1 DEF Steps, Waiting
    <3>3. pc'[e] \in Statements
      BY <3>1, <3>2, Follows DEF Op
    <3> QED BY <1>2, <3>3 DEF Statements
  <2>2. CASE pc' = pc \/ pc' = [pc EXCEPT ![e] = "raised"]
    BY <1>a, <1>2, <2>2 DEF TypeOK, Statements
  <2>3. Proceed(e) => pc[e] # "commit" \/ pc' = [pc EXCEPT ![e] = "raised"]
    BY DEF Borrow, BorrowRaises, TransactionFails, DeadlockDetected, InsertLock, Lock,
           DeleteStarts, DeleteRow, Insert, Find, Update, Deleting, RolledBack
  <2> QED BY <1>3, <2>1, <2>2, <2>3
<1>6. ReplyOf(e)' = ReplyOf(e)
  <2>1. Effective(e)' = Effective(e)
    BY <1>1, <1>5 DEF Effective, Op
  <2> QED BY <1>1, <2>1, ReplyForm, ReplyNext DEF history
<1>7. UNCHANGED Atomic!vars
  BY <1>1, <1>4, <1>6, Stutters
<1> QED BY <1>7 DEF Simulated

(* Closing the pool is not seen; a tick is a tick.                         *)
LEMMA IdleSimulates ==
    ASSUME StoreInv, Close \/ Tick \/ Quiesced \/ UNCHANGED vars
    PROVE  Simulated
<1>1. UNCHANGED <<pc, txVars, tables, history>>
  BY DEF Close, Tick, Quiesced, vars
<1>2. Replies' = Replies
  <2>1. \A d \in Calls : ReplyOf(d)' = ReplyOf(d)
    BY <1>1, SameReply DEF txVars, history
  <2> QED BY <2>1 DEF Replies
<1>3. UNCHANGED <<request, disturbed, Ledgers, KeysKept, TasksKept>>
  BY <1>1, SameStore DEF txVars
<1>4. CASE clock' = clock
  <2>1. UNCHANGED Atomic!vars
    BY <1>2, <1>3, <1>4, AtomicVars
  <2> QED BY <2>1 DEF Simulated
<1>5. CASE clock' # clock
  <2>1. clock' > clock
    <3>1. clock \in Int /\ clock' = clock + 1
      BY <1>5, PostgresAssumption DEF StoreInv, TypeInv, TypeOK, Close, Tick, Quiesced, vars
    <3> QED BY <3>1
  <2>2. Atomic!Tick
    BY <1>2, <1>3, <2>1, AtomicTick
  <2> QED BY <2>2 DEF Simulated, Atomic!Next
<1> QED BY <1>4, <1>5

-----------------------------------------------------------------------------
(* Answers of different methods differ.                                    *)
LEMMA AnswersDiffer ==
    /\ NoAnswer # [rows |-> 0] /\ [rows |-> 1] # [rows |-> 0]
    /\ \A b : [balance |-> b] # [rows |-> 0]
    /\ \A b, x : [balance |-> b, degraded |-> x] # [rows |-> 0]
    /\ \A k, x : [task |-> k, created |-> x] # [rows |-> 0]
    /\ \A k, x : [task |-> k, created |-> x] # NoAnswer
<1>1. /\ DOMAIN [rows |-> 0] = {"rows"} /\ DOMAIN NoAnswer = {"answered"}
      /\ \A b : DOMAIN [balance |-> b] = {"balance"}
      /\ \A b, x : DOMAIN [balance |-> b, degraded |-> x] = {"balance", "degraded"}
      /\ \A k, x : DOMAIN [task |-> k, created |-> x] = {"task", "created"}
  BY DEF NoAnswer
<1>2. [rows |-> 1].rows # [rows |-> 0].rows
  OBVIOUS
<1>3. {"rows"} # {"answered"} /\ "balance" \notin {"rows"} /\ "task" \notin {"rows", "answered"}
  OBVIOUS
<1>4. NoAnswer # [rows |-> 0] /\ [rows |-> 1] # [rows |-> 0]
  BY <1>1, <1>2, <1>3
<1>5. \A b : [balance |-> b] # [rows |-> 0]
  BY <1>1, <1>3
<1>6. \A b, x : [balance |-> b, degraded |-> x] # [rows |-> 0]
  BY <1>1, <1>3
<1>7. \A k, x : [task |-> k, created |-> x] # [rows |-> 0]
  BY <1>1, <1>3
<1>8. \A k, x : [task |-> k, created |-> x] # NoAnswer
  BY <1>1, <1>3
<1> QED BY <1>4, <1>5, <1>6, <1>7, <1>8

(* balance() takes effect when it has summed, the others when they commit. *)
LEMMA SumSimulates ==
    ASSUME StoreInv, ViewInv, NEW e \in Calls, Sum(e)
    PROVE  Simulated
<1>a. TypeOK /\ Steps /\ Faithful(e) /\ Answering
  BY DEF ViewInv, StoreInv, TypeInv
<1>1. /\ pc[e] = "sum" /\ Proceed(e)
      /\ UNCHANGED <<request, tables, clock, history>>
      /\ answer' = [answer EXCEPT ![e] =
             IF Op(e) = "reserve"
             THEN [balance |-> Summed(e) + request[e].cost,
                   degraded |-> Summed(e) + request[e].cost >= Threshold]
             ELSE [balance |-> Summed(e)]]
  BY DEF Sum, Summed
<1>2. request[e] \in Asked /\ pc[e] \in DOMAIN After[Op(e)]
  BY <1>a, <1>1 DEF Steps, Waiting, Statements
<1>3. /\ pc'[e] \in {"insert", "commit"} /\ Op(e) \in Charging
      /\ \A d \in Calls \ {e} : pc'[d] = pc[d] /\ answer'[d] = answer[d]
  <2>1. pc'[e] = After[Op(e)][pc[e]] /\ \A d \in Calls \ {e} : pc'[d] = pc[d]
    BY <1>a, <1>1 DEF Proceed, TypeOK
  <2>2. /\ After[Op(e)]["sum"] = IF Op(e) = "reserve" THEN "insert" ELSE "commit"
        /\ Op(e) \in Charging
    BY <1>1, <1>2, StepsAfter, Orders DEF Op
  <2>3. \A d \in Calls \ {e} : answer'[d] = answer[d]
    BY <1>a, <1>1 DEF Answering
  <2> QED BY <1>1, <2>1, <2>2, <2>3
<1>4. /\ Op(e) = "reserve" => answer'[e] = [balance |-> Summed(e) + request[e].cost,
                                degraded |-> Summed(e) + request[e].cost >= Threshold]
      /\ Op(e) # "reserve" => answer'[e] = [balance |-> Summed(e)]
  BY <1>a, <1>1 DEF Answering
<1>5. answer[e] = NoAnswer /\ ReplyOf(e) = NoAnswer
  <2>1. answer[e] = NoAnswer
    BY <1>a, <1>1 DEF Faithful, Unanswered, Ends
  <2> QED BY <2>1, ReplyForm
<1>6. Op(e)' = Op(e)
  BY <1>1 DEF Op
<1>7. CASE Op(e) # "balance"
  <2>1. answer'[e] # [rows |-> 0]
    BY <1>4, AnswersDiffer
  <2>2. ReplyOf(e)' = NoAnswer
    BY <1>3, <1>6, <1>7, <2>1, NoReplyNext
  <2>3. UNCHANGED Atomic!vars
    BY <1>1, <1>3, <1>5, <2>2, Stutters
  <2> QED BY <2>3 DEF Simulated
<1>8. CASE Op(e) = "balance" /\ Account(e) \in disturbed
  <2>1. Forgot(request'[e], disturbed')
    BY <1>1, <1>3, <1>8 DEF Forgot, Op, Account, history
  <2>2. ReplyOf(e)' = NoAnswer
    BY <2>1, ReplyNext
  <2>3. UNCHANGED Atomic!vars
    BY <1>1, <1>3, <1>5, <2>2, Stutters
  <2> QED BY <2>3 DEF Simulated
<1>9. CASE Op(e) = "balance" /\ Account(e) \notin disturbed
  <2>1. ~Forgot(request'[e], disturbed')
    BY <1>1, <1>9 DEF Forgot, Op, Account, history
  <2>2. ReplyOf(e)' = [balance |-> Summed(e)]
    BY <1>4, <1>6, <1>9, <2>1, ReplyNext DEF Effective
  <2>3. Total(SeenOf(e)) = Summed(e)
    BY <1>1, <1>3, SeenTotal DEF Statements
  <2>4. SeenOf(e) \in Views(LedgerOf(Account(e)), Start)
    BY <1>3, <1>9, SeenIsView DEF Charged
  <2>5. Account(e) \in Accounts
    BY <1>2, <1>3, Fields DEF Op, Account
  <2>6. Replying(e, [balance |-> Total(SeenOf(e))])
    <3>1. Replies[e] = NoAnswer
      BY <1>5 DEF Replies
    <3>2. Replies' = [Replies EXCEPT ![e] = [balance |-> Summed(e)]]
      BY <1>1, <1>3, <2>2, LocalReplies
    <3> QED BY <2>3, <3>1, <3>2 DEF Replying
  <2>7. UNCHANGED <<disturbed, Ledgers, KeysKept, TasksKept>>
    BY <1>1, SameStore
  <2>8. Atomic!Balance(e)
    BY <1>1, <1>9, <2>4, <2>5, <2>6, <2>7, AtomicBalance
  <2> QED BY <2>8 DEF Simulated, Atomic!Next
<1> QED BY <1>7, <1>8, <1>9

(* A status write that meets no row takes effect at once.                  *)
LEMMA ClaimSimulates ==
    ASSUME StoreInv, ViewInv, NEW e \in Calls, Claim(e) \/ Select(e) \/ Upsert(e)
    PROVE  Simulated
<1>a. TypeOK /\ Steps /\ Faithful(e) /\ Answering
  BY DEF ViewInv, StoreInv, TypeInv
<1>1. /\ pc[e] \in {"claim", "select", "upsert", "set"}
      /\ UNCHANGED <<request, tables, clock, history>>
      /\ Proceed(e) \/ pc' = [pc EXCEPT ![e] = "commit"]
      /\ \A d \in Calls \ {e} : pc'[d] = pc[d] /\ answer'[d] = answer[d]
  BY <1>a DEF Claim, Select, Upsert, TypeOK, Proceed, Answering
<1>2. request[e] \in Asked /\ pc[e] \in DOMAIN After[Op(e)]
  BY <1>a, <1>1 DEF Steps, Waiting, Statements
<1>3. /\ pc[e] \in {"claim", "select"} => Op(e) = "register"
      /\ pc[e] \in {"upsert", "set"} =>
           Op(e) \in {"create", "status"} /\ request[e].task \in Tasks
      /\ pc[e] = "upsert" => Op(e) = "create"
      /\ pc[e] = "set" => Op(e) = "status"
  BY <1>2, Orders, Fields, ClaimSteps DEF Op
<1>4. pc'[e] \in Statements /\ pc'[e] \notin Committed /\ pc[e] \notin Committed
  <2>1. After[Op(e)][pc[e]] \in Statements
    BY <1>2, Follows DEF Op
  <2>2. pc'[e] \in Statements
    BY <1>a, <1>1, <2>1 DEF Proceed, TypeOK, Statements
  <2> QED BY <1>1, <2>2 DEF Statements
<1>5. answer[e] = NoAnswer /\ ReplyOf(e) = NoAnswer
  <2>1. answer[e] = NoAnswer
    BY <1>a, <1>1 DEF Faithful, Unanswered, Ends
  <2> QED BY <2>1, ReplyForm
<1>6. Op(e)' = Op(e) /\ Op(e) # "balance"
  BY <1>1, <1>3 DEF Op
<1>7. ASSUME answer'[e] # [rows |-> 0] PROVE Simulated
  <2>1. ReplyOf(e)' = NoAnswer
    BY <1>4, <1>6, <1>7, NoReplyNext
  <2>2. UNCHANGED Atomic!vars
    BY <1>1, <1>5, <2>1, Stutters
  <2> QED BY <2>2 DEF Simulated
<1>8. CASE Claim(e) \/ Select(e)
  <2>1. answer'[e] = NoAnswer \/ \E k, x : answer'[e] = [task |-> k, created |-> x]
    BY <1>a, <1>5, <1>8 DEF Claim, Select, Answering
  <2> QED BY <1>7, <2>1, AnswersDiffer
<1>9. CASE Upsert(e)
  <2> DEFINE t == request[e].task
  <2>1. answer'[e] = [rows |-> Cardinality(Wanted(e))]
    BY <1>a, <1>9 DEF Upsert, Answering
  <2>2. CASE Wanted(e) = {Row("task", t)}
    <3>1. answer'[e] = [rows |-> 1]
      BY <2>1, <2>2, FS_Singleton
    <3> QED BY <1>7, <3>1, AnswersDiffer
  <2>3. CASE Wanted(e) # {Row("task", t)}
    <3>1. Op(e) = "status" /\ tasks[t] = Null /\ Wanted(e) = {}
      BY <1>3, <1>9, <2>3 DEF Wanted, Upsert
    <3>2. answer'[e] = [rows |-> 0]
      BY <2>1, <3>1, FS_EmptySet
    <3>3. Forgot(request'[e], disturbed') <=> Owner[t] \in disturbed
      BY <1>1, <3>1 DEF Forgot, Op, Charging, history
    <3>4. CASE Owner[t] \in disturbed
      <4>1. ReplyOf(e)' = NoAnswer
        BY <3>3, <3>4, ReplyNext
      <4>2. UNCHANGED Atomic!vars
        BY <1>1, <1>5, <4>1, Stutters
      <4> QED BY <4>2 DEF Simulated
    <3>5. CASE Owner[t] \notin disturbed
      <4>1. ReplyOf(e)' = [rows |-> 0]
        BY <3>2, <3>3, <3>5, ReplyNext DEF Effective
      <4>2. Replying(e, [rows |-> 0])
        BY <1>1, <1>5, <4>1, LocalReplies DEF Replying, Replies
      <4>3. UNCHANGED <<disturbed, Ledgers, KeysKept, TasksKept>>
        BY <1>1, SameStore
      <4>4. TasksKept[t] = Null /\ t \in Tasks
        BY <1>3, <1>9, <3>1 DEF TasksKept, Upsert
      <4>5. Atomic!SetTaskStatus(e)
        BY <1>1, <3>1, <4>2, <4>3, <4>4, AtomicStatus
      <4> QED BY <4>5 DEF Simulated, Atomic!Next
    <3> QED BY <3>4, <3>5
  <2> QED BY <2>2, <2>3
<1> QED BY <1>8, <1>9

-----------------------------------------------------------------------------
(* A commit that resets nothing, in the terms of AtomicStore.              *)
LEMMA CommitKept ==
    ASSUME StoreInv, ViewInv, NEW e \in Calls, Commit(e), Op(e) \notin Resetting
    PROVE  /\ UNCHANGED <<request, disturbed, clock>>
           /\ Replies' = [Replies EXCEPT ![e] = ReplyOf(e)']
           /\ Op(e) # "register" => KeysKept' = KeysKept
           /\ Op(e) \notin {"create", "status"} => TasksKept' = TasksKept
           /\ \A k : Row("key", k) \notin gone[e]
           /\ \A t \in Tasks : Row("task", t) \notin gone[e]
<1>a. TypeOK /\ Deleters /\ GoneRows(e)
  BY DEF StoreInv, TypeInv, ViewInv, Faithful
<1>1. UNCHANGED <<request, disturbed, clock>>
  BY CommitFacts DEF Commit, Disturbs, Resetting
<1>2. \A d \in Calls \ {e} : ReplyOf(d)' = ReplyOf(d)
  BY <1>1, CommitFacts, SameReply
<1>3. Replies' = [Replies EXCEPT ![e] = ReplyOf(e)']
  BY <1>2 DEF Replies
<1>4. \A k : Row("key", k) \notin gone[e]
  <2>1. \A row \in gone[e] : row[1] # "key"
    BY <1>a DEF Deleters, Resetting
  <2> QED BY <2>1 DEF Row
<1>5. \A t \in Tasks : Row("task", t) \notin gone[e]
  BY <1>a DEF GoneRows
<1>6. Op(e) # "register" => KeysKept' = KeysKept
  <2>1. \A k \in Keys : Op(e) # "register" => idempotency'[k] = idempotency[k]
    BY <1>4 DEF Commit, KeysAfter
  <2> QED BY <1>1, <2>1 DEF KeysKept
<1>7. Op(e) \notin {"create", "status"} => TasksKept' = TasksKept
  <2>1. \A t \in Tasks : Op(e) \notin {"create", "status"} => tasks'[t] = tasks[t]
    BY <1>5 DEF Commit, TasksAfter
  <2> QED BY <1>1, <2>1 DEF TasksKept
<1> QED BY <1>1, <1>3, <1>4, <1>5, <1>6, <1>7

(* Only reservations and settlements write the ledger, of their account.   *)
LEMMA CommitLedgers ==
    ASSUME StoreInv, ViewInv, NEW e \in Calls, Commit(e), Op(e) \notin Resetting
    PROVE  /\ ~Charger(e) \/ Account(e) \in disturbed => Ledgers' = Ledgers
           /\ Charger(e) => Ledgers' = [Ledgers EXCEPT ![Account(e)] = LedgerOf(Account(e))']
           /\ Account(e) \in Accounts /\ Account(e) \notin disturbed =>
                /\ Op(e) = "reserve" =>
                     LedgerOf(Account(e))' = Charged(e) \union
                       {[id |-> charge[e], amount |-> request[e].cost, ts |-> at[e]]}
                /\ Op(e) = "settle" => LedgerOf(Account(e))' = Revalued(e)
<1>1. UNCHANGED <<request, disturbed>>
  BY CommitKept
<1>2. \A a : a \in disturbed => LedgerOf(a)' = {} /\ LedgerOf(a) = {}
  BY <1>1 DEF LedgerOf
<1>3. \A a \in Accounts : a \notin disturbed =>
        /\ ~(Charger(e) /\ Account(e) = a) => LedgerOf(a)' = LedgerOf(a)
        /\ Op(e) = "reserve" /\ Account(e) = a =>
             LedgerOf(a)' = LedgerOf(a) \union
                            {[id |-> charge[e], amount |-> request[e].cost, ts |-> at[e]]}
        /\ Op(e) = "settle" /\ Account(e) = a => LedgerOf(a)' = Revalued(e)
  BY <1>1, CommitLedger
<1> DEFINE b == Account(e)
<1>4. b' = b
  BY <1>1 DEF Account
<1>5. LedgerOf(Account(e))' = LedgerOf(b)' /\ LedgerOf(b) = Charged(e)
  BY DEF Charged
<1> HIDE DEF b
<1>6. ASSUME ~Charger(e) \/ b \in disturbed PROVE Ledgers' = Ledgers
  BY <1>2, <1>3, <1>6 DEF Ledgers, b
<1>7. Charger(e) => Ledgers' = [Ledgers EXCEPT ![b] = LedgerOf(b)']
  <2>1. \A a \in Accounts \ {b} : Charger(e) => LedgerOf(a)' = LedgerOf(a)
    BY <1>2, <1>3 DEF b
  <2>2. \A a : a = b => LedgerOf(a)' = LedgerOf(b)'
    BY <1>4
  <2> QED BY <2>1, <2>2 DEF Ledgers
<1>8. b \in Accounts /\ b \notin disturbed =>
        /\ Op(e) = "reserve" =>
             LedgerOf(b)' = LedgerOf(b) \union
               {[id |-> charge[e], amount |-> request[e].cost, ts |-> at[e]]}
        /\ Op(e) = "settle" => LedgerOf(b)' = Revalued(e)
  <2>1. \A a : a = b => LedgerOf(a)' = LedgerOf(b)' /\ LedgerOf(a) = LedgerOf(b)
    BY <1>4
  <2> QED BY <1>3, <2>1 DEF b
<1> QED BY <1>5, <1>6, <1>7, <1>8 DEF b

(* What the call answers.                                                  *)
LEMMA CommitReply ==
    ASSUME StoreInv, ViewInv, NEW e \in Calls, Commit(e), Op(e) \notin Resetting
    PROVE  /\ Forgot(request[e], disturbed) => ReplyOf(e) = NoAnswer /\ ReplyOf(e)' = NoAnswer
           /\ Op(e) = "balance" => ReplyOf(e)' = ReplyOf(e)
           /\ answer[e] = [rows |-> 0] => ReplyOf(e)' = ReplyOf(e)
           /\ Op(e) # "balance" /\ answer[e] # [rows |-> 0] => ReplyOf(e) = NoAnswer
           /\ ~Forgot(request[e], disturbed) /\ answer[e] # NoAnswer => ReplyOf(e)' = answer[e]
<1>1. UNCHANGED <<request, disturbed>> /\ answer' = answer /\ pc[e] \notin Committed
  BY CommitKept, CommitFacts
<1>2. Op(e)' = Op(e)
  BY <1>1 DEF Op
<1>3. Forgot(request[e], disturbed)' <=> Forgot(request[e], disturbed)
  BY <1>1
<1>4. answer[e] # NoAnswer => pc'[e] \in Committed
  BY DEF Commit, Outcomes, StoreInv, TypeInv, TypeOK
<1>5. ReplyOf(e) = IF Effective(e) /\ ~Forgot(request[e], disturbed)
                   THEN answer[e] ELSE NoAnswer
  BY ReplyForm
<1>6. ReplyOf(e)' = IF Effective(e)' /\ ~Forgot(request[e], disturbed)
                    THEN answer[e] ELSE NoAnswer
  BY <1>1, <1>3, ReplyNext
<1>7. /\ Effective(e) <=> Op(e) = "balance" \/ answer[e] = [rows |-> 0]
      /\ Op(e) = "balance" \/ answer[e] = [rows |-> 0] => Effective(e)'
      /\ answer[e] # NoAnswer => Effective(e)'
  BY <1>1, <1>2, <1>4 DEF Effective
<1> QED BY <1>5, <1>6, <1>7

(* A call that takes effect at its commit has not answered before.         *)
LEMMA CommitAnswers ==
    ASSUME StoreInv, ViewInv, NEW e \in Calls, Commit(e), Op(e) \notin Resetting,
           Op(e) # "balance", answer[e] # [rows |-> 0], answer[e] # NoAnswer,
           ~Forgot(request[e], disturbed)
    PROVE  Replying(e, answer[e])
<1>1. Replies[e] = NoAnswer
  BY CommitReply DEF Replies
<1>2. Replies' = [Replies EXCEPT ![e] = answer[e]]
  BY CommitReply, CommitKept
<1> QED BY <1>1, <1>2 DEF Replying

-----------------------------------------------------------------------------
(* The commits that take effect, one method at a time.                     *)
LEMMA LostSimulates ==
    ASSUME StoreInv, ViewInv, NEW e \in Calls, Commit(e), Op(e) \notin Resetting,
           ReplyOf(e)' = ReplyOf(e), ~Charger(e) \/ Account(e) \in disturbed,
           KeysKept' = KeysKept, TasksKept' = TasksKept
    PROVE  Simulated
<1>1. Replies' = Replies /\ UNCHANGED <<request, disturbed, clock>>
  BY CommitKept DEF Replies
<1>2. Ledgers' = Ledgers
  BY CommitLedgers
<1>3. UNCHANGED Atomic!vars
  BY <1>1, <1>2, AtomicVars
<1> QED BY <1>3 DEF Simulated

(* A reservation commits one charge and the balance that counts it.        *)
LEMMA ReserveSimulates ==
    ASSUME StoreInv, ViewInv, NEW e \in Calls, Commit(e), Op(e) = "reserve"
    PROVE  Simulated
<1>a. TypeOK /\ Faithful(e) /\ Apart /\ Expiry
  BY DEF ViewInv, StoreInv, TypeInv
<1>b. Op(e) \notin Resetting /\ Charger(e) /\ Inserted(e) /\ pc[e] = "commit"
  BY CommitFacts DEF Resetting, Charger, Inserted, Reserving
<1>1. Account(e) \in Accounts
  BY CommitFacts, Fields DEF Op, Account, Charging
<1>2. UNCHANGED <<request, disturbed, clock, KeysKept, TasksKept>>
  BY <1>b, CommitKept
<1>3. CASE Account(e) \in disturbed
  <2>1. Forgot(request[e], disturbed)
    BY <1>3 DEF Forgot, Op, Account, Charging
  <2>2. ReplyOf(e)' = ReplyOf(e)
    BY <1>b, <2>1, CommitReply
  <2> QED BY <1>b, <1>2, <1>3, <2>2, LostSimulates
<1>4. CASE Account(e) \notin disturbed
  <2> DEFINE h == [id |-> charge[e], amount |-> request[e].cost, ts |-> at[e]]
  <2>1. ~Forgot(request[e], disturbed)
    BY <1>4 DEF Forgot, Op, Account
  <2>2. SeenByReserve(e) /\ \A g \in Charged(e) : g.id < charge[e]
    BY <1>a, <1>b, <1>4 DEF Faithful, Viewed
  <2>3. PICK S \in Views(Charged(e), Start) :
          answer[e] = [balance |-> Total(S) + request[e].cost,
                       degraded |-> Total(S) + request[e].cost >= Threshold]
    BY <2>2 DEF SeenByReserve
  <2>4. answer[e] # [rows |-> 0] /\ answer[e] # NoAnswer
    <3>1. answer[e] # [rows |-> 0]
      BY <2>3, AnswersDiffer
    <3>2. DOMAIN answer[e] = {"balance", "degraded"} /\ DOMAIN NoAnswer = {"answered"}
      BY <2>3 DEF NoAnswer
    <3> QED BY <3>1, <3>2
  <2>5. Replying(e, answer[e])
    BY <1>b, <2>1, <2>4, CommitAnswers
  <2>6. Ledgers' = [Ledgers EXCEPT ![Account(e)] = @ \union {h}]
    BY <1>b, <1>1, <1>4, CommitLedgers DEF Ledgers, Charged
  <2>7. h.id = charge[e] /\ h.amount = request[e].cost /\ h.ts <= clock
    BY <1>a DEF Expiry
  <2>8. charge[e] \in Int
    BY <1>a DEF TypeOK
  <2> HIDE DEF h
  <2>9. h \notin Charged(e) /\ \A g \in Charged(e) : g.id < h.id
    BY <2>2, <2>7, <2>8
  <2>10. Atomic!Reserve(e)
    BY <1>1, <1>2, <2>3, <2>5, <2>6, <2>7, <2>9, AtomicReserve DEF Charged
  <2> QED BY <2>10 DEF Simulated, Atomic!Next
<1> QED BY <1>3, <1>4

(* A settlement revalues what it found, and answers the balance with it.   *)
LEMMA SettleSimulates ==
    ASSUME StoreInv, ViewInv, NEW e \in Calls, Commit(e), Op(e) = "settle"
    PROVE  Simulated
<1>a. TypeOK /\ Faithful(e) /\ Apart
  BY DEF ViewInv, StoreInv, TypeInv
<1>b. Op(e) \notin Resetting /\ Charger(e) /\ pc[e] = "commit"
  BY CommitFacts DEF Resetting, Charger
<1>1. Account(e) \in Accounts
  BY CommitFacts, Fields DEF Op, Account, Charging
<1>2. UNCHANGED <<request, disturbed, clock, KeysKept, TasksKept>>
  BY <1>b, CommitKept
<1>3. CASE Account(e) \in disturbed
  <2>1. Forgot(request[e], disturbed)
    BY <1>3 DEF Forgot, Op, Account, Charging
  <2>2. ReplyOf(e)' = ReplyOf(e)
    BY <1>b, <2>1, CommitReply
  <2> QED BY <1>b, <1>2, <1>3, <2>2, LostSimulates
<1>4. CASE Account(e) \notin disturbed
  <2>1. ~Forgot(request[e], disturbed)
    BY <1>4 DEF Forgot, Op, Account
  <2>2. PICK T \in Views(Revalued(e), Start) : answer[e] = [balance |-> Total(T)]
    BY <1>a, <1>b, <1>4 DEF Faithful, Viewed, SeenBySettle
  <2>3. PICK S \in Views(Charged(e), Start) :
             IF charge[e] = None
             THEN \A h \in Latest(S, request[e].cost) : h.ts < Start
             ELSE Latest(S, request[e].cost) = {h \in Charged(e) : h.id = charge[e]}
    BY <1>a, <1>b, <1>4 DEF Faithful, Viewed, SeenByFind
  <2>4. answer[e] # [rows |-> 0] /\ answer[e] # NoAnswer
    <3>1. answer[e] # [rows |-> 0]
      BY <2>2, AnswersDiffer
    <3>2. DOMAIN answer[e] = {"balance"} /\ DOMAIN NoAnswer = {"answered"}
      BY <2>2 DEF NoAnswer
    <3> QED BY <3>1, <3>2
  <2>5. Replying(e, [balance |-> Total(T)])
    BY <1>b, <2>1, <2>2, <2>4, CommitAnswers
  <2>6. /\ Ledgers' = [Ledgers EXCEPT ![Account(e)] = Revalued(e)]
        /\ LedgerOf(Account(e))' = Revalued(e)
    BY <1>b, <1>1, <1>4, CommitLedgers
  <2> DEFINE target == Latest(S, request[e].cost)
  <2>7. /\ target \subseteq Charged(e)
        /\ \A h \in Charged(e) : h.id \in Nat /\ h.id # None /\ h.ts \in Int
    <3>1. target \subseteq Charged(e)
      BY DEF Latest, Views
    <3>2. \A h \in Charged(e) : h.id \in 1..lastId /\ h.ts \in Int
      BY <1>a, LedgerTyped DEF Charged
    <3> HIDE DEF target
    <3> QED BY <3>1, <3>2 DEF None
  <2>8. Start \in Int
    BY <1>a, PostgresAssumption DEF Start, TypeOK
  <2>9. CASE charge[e] = None
    <3>1. Revalued(e) = Charged(e)
      <4>1. \A h \in Charged(e) : Revalue(h, charge[e], request[e].actual) = h
        BY <2>7, <2>9 DEF Revalue
      <4> QED BY <4>1 DEF Revalued
    <3>2. Ledgers' = Ledgers
      BY <2>6, <3>1 DEF Ledgers, Charged
    <3>3. \A h \in target : ~(h.ts >= Start)
      BY <2>3, <2>7, <2>8, <2>9
    <3>4. T \in Views(LedgerOf(Account(e))', Start)
      BY <2>6
    <3>5. Atomic!Settle(e)
      BY <1>1, <1>2, <2>5, <3>2, <3>3, <3>4, AtomicSettle DEF Charged
    <3> QED BY <3>5 DEF Simulated, Atomic!Next
  <2>10. CASE charge[e] # None
    <3>1. \A h \in Charged(e) : h.id = charge[e] <=> h \in target
      BY <2>3, <2>10
    <3>2. Revalued(e) = {IF h \in target THEN [h EXCEPT !.amount = request[e].actual] ELSE h :
                           h \in LedgerOf(Account(e))}
      <4> HIDE DEF target
      <4>1. \A h \in Charged(e) :
              Revalue(h, charge[e], request[e].actual) =
                IF h \in target THEN [h EXCEPT !.amount = request[e].actual] ELSE h
        BY <3>1 DEF Revalue
      <4> QED BY <4>1 DEF Revalued, Charged
    <3>3. Ledgers' = [Ledgers EXCEPT ![Account(e)] =
            {IF h \in target THEN [h EXCEPT !.amount = request[e].actual] ELSE h :
               h \in LedgerOf(Account(e))}]
      BY <2>6, <3>2
    <3>4. T \in Views(LedgerOf(Account(e))', Start)
      BY <2>6
    <3>5. Atomic!Settle(e)
      BY <1>1, <1>2, <2>5, <3>3, <3>4, AtomicSettle DEF Charged
    <3> QED BY <3>5 DEF Simulated, Atomic!Next
  <2> QED BY <2>9, <2>10
<1> QED BY <1>3, <1>4

(* A balance has taken effect already; what it prunes is not seen.         *)
LEMMA BalanceSimulates ==
    ASSUME StoreInv, ViewInv, NEW e \in Calls, Commit(e), Op(e) = "balance"
    PROVE  Simulated
<1>1. Op(e) \notin Resetting /\ ~Charger(e)
  BY DEF Resetting, Charger
<1>2. ReplyOf(e)' = ReplyOf(e) /\ KeysKept' = KeysKept /\ TasksKept' = TasksKept
  BY <1>1, CommitReply, CommitKept
<1> QED BY <1>1, <1>2, LostSimulates

(* A claim writes its row, or tells of the one there is.                   *)
LEMMA RegisterSimulates ==
    ASSUME StoreInv, ViewInv, NEW e \in Calls, Commit(e), Op(e) = "register"
    PROVE  Simulated
<1> DEFINE k == request[e].key
<1>a. TypeOK /\ Claiming(e) /\ pc[e] = "commit"
  BY CommitFacts DEF ViewInv, StoreInv, TypeInv, Faithful
<1>b. Op(e) \notin Resetting /\ ~Charger(e) /\ k \in Keys
  BY CommitFacts, Fields DEF Resetting, Charger, Op
<1>1. UNCHANGED <<request, disturbed, clock, TasksKept>> /\ Ledgers' = Ledgers
  BY <1>b, CommitKept, CommitLedgers
<1>2. Forgot(request[e], disturbed) <=> Everything \in disturbed
  BY DEF Forgot, Op, Charging
<1>3. CASE Everything \in disturbed
  <2>1. ReplyOf(e)' = ReplyOf(e)
    BY <1>b, <1>2, <1>3, CommitReply
  <2>2. KeysKept' = KeysKept
    BY <1>1, <1>3 DEF KeysKept
  <2> QED BY <1>b, <1>1, <2>1, <2>2, LostSimulates
<1>4. CASE Everything \notin disturbed
  <2>1. KeysKept[k] = idempotency[k]
    BY <1>b, <1>4 DEF KeysKept
  <2>2. CASE Row("key", k) \in held[e]
    <3>1. idempotency[k] = Null /\ answer[e] = [task |-> e, created |-> TRUE]
      BY <1>a, <2>2 DEF Claiming
    <3>2. Replying(e, [task |-> e, created |-> TRUE])
      BY <1>b, <1>2, <1>4, <3>1, AnswersDiffer, CommitAnswers
    <3>3. KeysKept' = [KeysKept EXCEPT ![k] = e]
      <4>1. \A x \in Keys : Row("key", x) \in held[e] <=> x = k
        BY <1>a, <2>2 DEF Claiming, Row
      <4>2. \A x \in Keys : idempotency'[x] = IF x = k THEN e ELSE idempotency[x]
        <5>1. \A x \in Keys : Row("key", x) \notin gone[e]
          BY <1>b, CommitKept
        <5> QED BY <4>1, <5>1 DEF Commit, KeysAfter
      <4> HIDE DEF k
      <4> QED BY <1>1, <1>4, <4>2 DEF KeysKept
    <3>4. Atomic!Register(e)
      BY <1>1, <2>1, <3>1, <3>2, <3>3, AtomicRegister
    <3> QED BY <3>4 DEF Simulated, Atomic!Next
  <2>3. CASE Row("key", k) \notin held[e]
    <3>1. /\ idempotency[k] # Null
          /\ answer[e] = [task |-> idempotency[k], created |-> FALSE]
      BY <1>a, <1>4, <2>3 DEF Claiming
    <3>2. Replying(e, [task |-> idempotency[k], created |-> FALSE])
      BY <1>b, <1>2, <1>4, <3>1, AnswersDiffer, CommitAnswers
    <3>3. KeysKept' = KeysKept
      <4>1. \A x \in Keys : Row("key", x) \notin held[e] /\ Row("key", x) \notin gone[e]
        <5>1. \A x \in Keys : Row("key", x) \notin gone[e]
          BY <1>b, CommitKept
        <5>2. held[e] = {}
          BY <1>a, <2>3 DEF Claiming
        <5> QED BY <5>1, <5>2
      <4>2. \A x \in Keys : idempotency'[x] = idempotency[x]
        BY <4>1 DEF Commit, KeysAfter
      <4> QED BY <1>1, <4>2 DEF KeysKept
    <3>4. Atomic!Register(e)
      BY <1>1, <2>1, <3>1, <3>2, <3>3, AtomicRegister
    <3> QED BY <3>4 DEF Simulated, Atomic!Next
  <2> QED BY <2>2, <2>3
<1> QED BY <1>3, <1>4

(* A creation or status write writes the row that it has locked.           *)
LEMMA TaskSimulates ==
    ASSUME StoreInv, ViewInv, NEW e \in Calls, Commit(e), Op(e) \in {"create", "status"}
    PROVE  Simulated
<1> DEFINE t == request[e].task
<1>a. TypeOK /\ Writing(e) /\ pc[e] = "commit"
  BY CommitFacts DEF ViewInv, StoreInv, TypeInv, Faithful
<1>b. Op(e) \notin Resetting /\ ~Charger(e) /\ t \in Tasks /\ request[e] \in Asked
  BY CommitFacts, Fields DEF Resetting, Charger, Op
<1>1. UNCHANGED <<request, disturbed, clock, KeysKept>> /\ Ledgers' = Ledgers
  BY <1>b, CommitKept, CommitLedgers
<1>2. Forgot(request[e], disturbed) <=> Owner[t] \in disturbed
  BY DEF Forgot, Op, Charging
<1>3. \A x \in Tasks :
        tasks'[x] = IF Row("task", x) \in held[e] THEN request[e].status ELSE tasks[x]
  <2>1. \A x \in Tasks : Row("task", x) \notin gone[e]
    BY <1>b, CommitKept
  <2> QED BY <2>1 DEF Commit, TasksAfter
<1>4. \A x \in Tasks : Row("task", x) = Row("task", t) => x = t
  BY DEF Row
<1>5. CASE held[e] = {} /\ answer[e] = [rows |-> 0]
  <2>1. ReplyOf(e)' = ReplyOf(e) /\ TasksKept' = TasksKept
    BY <1>b, <1>1, <1>3, <1>5, CommitReply DEF TasksKept
  <2> QED BY <1>b, <1>1, <2>1, LostSimulates
<1>6. CASE /\ held[e] = {Row("task", t)} /\ answer[e] = [rows |-> 1]
           /\ Op(e) = "status" => tasks[t] # Null
  <2>1. \A x \in Tasks : tasks'[x] = IF x = t THEN request[e].status ELSE tasks[x]
    BY <1>3, <1>4, <1>6
  <2>2. CASE Owner[t] \in disturbed
    <3>1. ReplyOf(e)' = ReplyOf(e)
      BY <1>b, <1>2, <2>2, CommitReply
    <3>2. TasksKept' = TasksKept
      BY <1>1, <2>1, <2>2 DEF TasksKept
    <3> QED BY <1>b, <1>1, <3>1, <3>2, LostSimulates
  <2>3. CASE Owner[t] \notin disturbed
    <3>1. Replying(e, [rows |-> 1])
      <4>1. answer[e] # NoAnswer
        <5>1. DOMAIN answer[e] = {"rows"} /\ DOMAIN NoAnswer = {"answered"}
          BY <1>6 DEF NoAnswer
        <5> QED BY <5>1
      <4> QED BY <1>b, <1>2, <1>6, <2>3, <4>1, AnswersDiffer, CommitAnswers
    <3>2. TasksKept' = [TasksKept EXCEPT ![t] = request[e].status]
      <4> HIDE DEF t
      <4> QED BY <1>1, <2>1, <2>3 DEF TasksKept
    <3>3. CASE Op(e) = "create"
      <4>1. request[e].status = "ACCEPTED"
        BY <1>b, <3>3 DEF Asked, Charging, Op
      <4>2. Atomic!CreateTask(e)
        BY <1>1, <3>1, <3>2, <3>3, <4>1, AtomicCreate
      <4> QED BY <4>2 DEF Simulated, Atomic!Next
    <3>4. CASE Op(e) = "status"
      <4>1. TasksKept[t] # Null
        BY <1>b, <1>6, <2>3, <3>4 DEF TasksKept
      <4>2. Atomic!SetTaskStatus(e)
        BY <1>b, <1>1, <3>1, <3>2, <3>4, <4>1, AtomicStatus
      <4> QED BY <4>2 DEF Simulated, Atomic!Next
    <3> QED BY <3>3, <3>4
  <2> QED BY <2>2, <2>3
<1> QED BY <1>a, <1>5, <1>6 DEF Writing

(* A reset is forgotten as a whole.                                        *)
LEMMA ResetSimulates ==
    ASSUME StoreInv, ViewInv, NEW e \in Calls, Commit(e), Op(e) \in Resetting
    PROVE  Simulated
<1> DEFINE D == Disturbs(e)
<1>a. TypeOK /\ Deleters /\ GoneRows(e) /\ Unanswered(e)
  BY DEF ViewInv, StoreInv, TypeInv, Faithful
<1>b. Op(e) = "reset" \/ (Op(e) = "reset_account" /\ Account(e) \in Accounts)
  BY CommitFacts, Fields DEF Resetting, Op, Account
<1>1. /\ D \in SUBSET (Accounts \union {Everything}) /\ D # {}
      /\ disturbed' = disturbed \union D
      /\ Op(e) = "reset" => D = Accounts \union {Everything}
      /\ Op(e) = "reset_account" => D = {Account(e)} /\ Everything \notin D
  BY <1>b, PostgresAssumption DEF Disturbs, Commit
<1>2. request' = request /\ clock' = clock /\ answer' = answer
  BY CommitFacts
<1> HIDE DEF D
<1>3. \A r : Forgot(r, disturbed') <=> Forgot(r, disturbed) \/ Forgot(r, D)
  BY <1>1 DEF Forgot
<1>4. Replies' = [c \in Calls |-> IF Forgot(request[c], D) THEN NoAnswer ELSE Replies[c]]
  <2>1. ASSUME NEW c \in Calls
        PROVE  ReplyOf(c)' = IF Forgot(request[c], D) THEN NoAnswer ELSE ReplyOf(c)
    <3>1. CASE c = e
      <4>1. answer[e] = NoAnswer /\ answer'[e] = NoAnswer
        BY <1>a, <1>2 DEF Unanswered
      <4> QED BY <3>1, <4>1, ReplyForm, ReplyNext
    <3>2. CASE c # e
      <4>1. Effective(c)' = Effective(c)
        BY <1>2, <3>2, CommitFacts DEF Effective, Op
      <4> QED BY <1>2, <1>3, <4>1, ReplyForm, ReplyNext
    <3> QED BY <3>1, <3>2
  <2> QED BY <2>1 DEF Replies
<1>5. Ledgers' = [a \in Accounts |-> IF a \in D THEN {} ELSE Ledgers[a]]
  <2>1. ~Charger(e)
    BY DEF Charger, Resetting
  <2>2. ASSUME NEW a \in Accounts
        PROVE  LedgerOf(a)' = IF a \in D THEN {} ELSE LedgerOf(a)
    <3>1. CASE a \in disturbed'
      BY <1>1, <3>1 DEF LedgerOf
    <3>2. CASE a \notin disturbed'
      BY <1>1, <2>1, <3>2, CommitLedger
    <3> QED BY <3>1, <3>2
  <2> QED BY <2>2 DEF Ledgers
<1>6. KeysKept' = [k \in Keys |-> IF Everything \in D THEN Null ELSE KeysKept[k]]
  <2>1. CASE Everything \in D
    BY <1>1, <2>1 DEF KeysKept
  <2>2. CASE Everything \notin D
    <3>1. Op(e) = "reset_account"
      BY <1>b, <1>1, <2>2
    <3>2. \A row \in gone[e] : row[1] # "key"
      BY <1>a, <3>1 DEF Deleters
    <3>3. \A k \in Keys : idempotency'[k] = idempotency[k]
      BY <3>1, <3>2 DEF Commit, KeysAfter, Row
    <3> QED BY <1>1, <2>2, <3>3 DEF KeysKept
  <2> QED BY <2>1, <2>2
<1>7. TasksKept' = [t \in Tasks |-> IF Owner[t] \in D THEN Null ELSE TasksKept[t]]
  <2>1. ASSUME NEW t \in Tasks, Owner[t] \notin D PROVE tasks'[t] = tasks[t]
    <3>1. Owner[t] \in Accounts
      BY PostgresAssumption
    <3>2. Op(e) = "reset_account" /\ Owner[t] # Account(e)
      BY <1>b, <1>1, <2>1, <3>1
    <3>3. Row("task", t) \notin gone[e]
      BY <1>a, <3>2 DEF GoneRows
    <3> QED BY <3>2, <3>3 DEF Commit, TasksAfter
  <2> QED BY <1>1, <2>1 DEF TasksKept
<1>8. PICK Q : Q = D
  OBVIOUS
<1>9. Atomic!Disturb(Q)
  BY <1>1, <1>2, <1>4, <1>5, <1>6, <1>7, <1>8, AtomicDisturb
<1> QED BY <1>1, <1>8, <1>9 DEF Simulated, Atomic!Next

-----------------------------------------------------------------------------
(* The first state stands for the first state of AtomicStore.              *)
LEMMA InitSimulates == Init => Atomic!Init
<1> SUFFICES ASSUME Init PROVE Atomic!Init
  OBVIOUS
<1>1. \A c \in Calls : ReplyOf(c) = NoAnswer
  <2>1. \A c \in Calls : answer[c] = NoAnswer
    BY DEF Init
  <2> QED BY <2>1, ReplyForm
<1>2. \A a \in Accounts : LedgerOf(a) = {}
  BY DEF Init, LedgerOf
<1>3. /\ \A k \in Keys : idempotency[k] = Null
      /\ \A t \in Tasks : tasks[t] = Null
  BY DEF Init
<1>4. request = [c \in Calls |-> NoRequest] /\ disturbed = {} /\ clock = 0
  BY DEF Init
<1> QED BY <1>1, <1>2, <1>3, <1>4
        DEF Atomic!Init, Atomic!NoRequest, NoRequest, Atomic!NoAnswer, NoAnswer, Atomic!Null, Null

(* Every step is a step of AtomicStore, or cannot be seen by it.           *)
LEMMA StepSimulates == StoreInv /\ ViewInv /\ [Next]_vars => [Atomic!Next]_(Atomic!vars)
<1> SUFFICES ASSUME StoreInv, ViewInv, [Next]_vars PROVE Simulated
  BY DEF Simulated
<1>1. CASE Close \/ Tick \/ Quiesced \/ UNCHANGED vars
  BY <1>1, IdleSimulates
<1>2. ASSUME NEW e \in Calls, Enter(e) PROVE Simulated
  BY <1>2, EnterSimulates
<1>3. ASSUME NEW e \in Calls, \/ Borrow(e) \/ BorrowRaises(e)
                              \/ TransactionFails(e) \/ DeadlockDetected(e)
      PROVE  Simulated
  BY <1>3, SilentSimulates
<1>4. ASSUME NEW e \in Calls, Commit(e) PROVE Simulated
  <2>1. Op(e) \in Charging \union {"register", "create", "status"} \union Resetting
    BY <1>4, CommitFacts DEF Asked, Op, Resetting
  <2>2. CASE Op(e) = "reserve"
    BY <1>4, <2>2, ReserveSimulates
  <2>3. CASE Op(e) = "settle"
    BY <1>4, <2>3, SettleSimulates
  <2>4. CASE Op(e) = "balance"
    BY <1>4, <2>4, BalanceSimulates
  <2>5. CASE Op(e) = "register"
    BY <1>4, <2>5, RegisterSimulates
  <2>6. CASE Op(e) \in {"create", "status"}
    BY <1>4, <2>6, TaskSimulates
  <2>7. CASE Op(e) \in Resetting
    BY <1>4, <2>7, ResetSimulates
  <2> QED BY <2>1, <2>2, <2>3, <2>4, <2>5, <2>6, <2>7 DEF Charging
<1>5. ASSUME NEW e \in Calls, Statement(e) PROVE Simulated
  <2>1. CASE InsertLock(e) \/ Lock(e) \/ DeleteStarts(e) \/ DeleteRow(e) \/ Insert(e)
             \/ Find(e) \/ Update(e)
    BY <2>1, SilentSimulates
  <2>2. CASE Sum(e)
    BY <2>2, SumSimulates
  <2>3. CASE Claim(e) \/ Select(e) \/ Upsert(e)
    BY <2>3, ClaimSimulates
  <2>4. CASE Commit(e)
    BY <1>4, <2>4
  <2> QED BY <1>5, <2>1, <2>2, <2>3, <2>4 DEF Statement
<1> QED BY <1>1, <1>2, <1>3, <1>5 DEF Next

(* Every method of the PostgreSQL store takes effect at one instant, for   *)
(* every set of calls, whatever fails: a reservation and a settlement when *)
(* they commit what they computed under the lock row of the account,       *)
(* balance() when it has summed, claims and status writes at their commit. *)
THEOREM StoreIsAtomic == Spec => ImplementsAtomicStore
<1>1. Init => StoreInv /\ ViewInv
  <2>1. Init => TypeInv /\ SerialInv /\ LockInv /\ ViewInv
    BY InitTyped, InitSerial, InitLocks, InitViews
  <2>2. Init => Answering
    BY DEF Init, Answering
  <2> QED BY <2>1, <2>2 DEF StoreInv
<1>2. StoreInv /\ ViewInv /\ [Next]_vars => (StoreInv /\ ViewInv)'
  <2>1. StoreInv /\ [Next]_vars => StoreInv'
    BY StepTyped, StepAnswering, StepSerial, StepLocks DEF StoreInv, SerialInv
  <2> QED BY <2>1, StepViews
<1>3. Init => Atomic!Init
  BY InitSimulates
<1>4. StoreInv /\ ViewInv /\ [Next]_vars => [Atomic!Next]_(Atomic!vars)
  BY StepSimulates
<1> QED BY <1>1, <1>2, <1>3, <1>4, PTL DEF Spec, ImplementsAtomicStore, Atomic!Spec

=============================================================================
