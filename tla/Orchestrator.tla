---------------------------- MODULE Orchestrator ----------------------------
(***************************************************************************)
(* Orchestrator.orchestrate() of orchestrator/core.py, called by several   *)
(* threads: it routes a task, records it in the shared UsageLedger of      *)
(* orchestrator/usage.py, and dispatches it through the shared             *)
(* ProviderRegistry of routing_matrix/providers.py.  Neither takes a lock: *)
(* a thread may be stopped between two reads or writes of shared state.    *)
(*                                                                         *)
(* A ledger object, and an adapter, is named after the call that made it.  *)
(***************************************************************************)
EXTENDS Routing, Classifier, FiniteSetsExt

CONSTANTS
    Calls,
    Requests,     \* call -> the requests it may make
    Earlier,      \* call -> the calls its thread makes before it
    Configured,   \* the tiers whose environment variable is set
    Accounts,
    Names,        \* of providers
    Factories,    \* of adapters
    Registrations \* the names, with their factories, that may be registered

DefaultAccount == "default"
DefaultProvider == "echo"
Null == "null"

(* A task, and the arguments of orchestrate() that go with it.             *)
Arguments == [account : Accounts \union {""}, prompt : Prompts, type : STRING,
              escalate : BOOLEAN, degraded : BOOLEAN, provider : Names \union {""}]

ASSUME OrchestratorAssumption ==
    /\ \A c \in Calls : Requests[c] \subseteq Arguments
    /\ Null \notin Calls /\ IsFiniteSet(Calls)
    /\ Earlier \in [Calls -> SUBSET Calls]
    /\ DefaultAccount \in Accounts /\ DefaultProvider \in Names
    /\ "EchoProvider" \in Factories /\ Null \notin Factories
    /\ Registrations \subseteq Names \X Factories

VARIABLES
    pc,           \* call -> what it does next
    task,         \* call -> its request
    tier,         \* call -> the routed tier
    accounts,     \* _accounts: account -> ledger object
    ledgers,      \* ledger object -> cell -> amount
    held,         \* call -> the ledger object it has in hand
    at,           \* call -> how many cells it has worked on
    seen,         \* call -> the amount it has read and not written yet
    snapshot,     \* call -> the usage it returns
    factories,    \* _factories: provider name -> factory
    instances,    \* _instances: provider name -> adapter
    adapter,      \* call -> the adapter it has in hand
    overlapped    \* history: calls that overlapped, names with two makers

ledgerVars == <<accounts, ledgers, held, at, seen, snapshot>>
registryVars == <<factories, instances, adapter>>
vars == <<pc, task, tier, ledgerVars, registryVars, overlapped>>

(* The fields of an AccountLedger: total_cost, call_count and, for each    *)
(* tier, its entry of tiers_used.                                          *)
Cells == {"cost", "count"} \union Tiers
Empty == [x \in Cells |-> 0]
NoAdapter == [by |-> Null, factory |-> Null]
NoTask == [account |-> Null, provider |-> Null]

Account(r) == IF r.account = "" THEN DefaultAccount ELSE r.account
Provider(r) == IF r.provider = "" THEN DefaultProvider ELSE r.provider

Recording == {"create", "fetch", "read", "write"}
Charged == {"snapshot", "copy", "look", "make", "store", "use", "done", "undispatched"}
Busy == Recording \union {"snapshot", "copy"}

Returned == {"unrouted", "done", "undispatched"}

Of(a, phases) == {c \in Calls : pc[c] \in phases /\ Account(task[c]) = a}

Adapters == [by : Calls, factory : Factories] \union {NoAdapter}

TypeOK ==
    /\ pc \in [Calls -> {"idle", "unrouted", "account"} \union Recording \union Charged]
    /\ task \in [Calls -> (UNION {Requests[c] : c \in Calls}) \union {NoTask}]
    /\ tier \in [Calls -> Tiers]
    /\ accounts \in [Accounts -> Calls \union {Null}]
    /\ ledgers \in [Calls -> [Cells -> Nat]]
    /\ held \in [Calls -> Calls \union {Null}]
    /\ \A c \in Calls : pc[c] \in {"read", "write"} => held[c] # Null
    /\ at \in [Calls -> 0..3]
    /\ seen \in [Calls -> Nat]
    /\ snapshot \in [Calls -> [Cells -> Nat]]
    /\ factories \in [Names -> Factories \union {Null}]
    /\ instances \in [Names -> Adapters]
    /\ adapter \in [Calls -> Adapters]
    /\ overlapped \subseteq Calls \union Names

Init ==
    /\ pc = [c \in Calls |-> "idle"]
    /\ task = [c \in Calls |-> NoTask]
    /\ tier = [c \in Calls |-> "standard"]
    /\ accounts = [a \in Accounts |-> Null]
    /\ ledgers = [c \in Calls |-> Empty]
    /\ held = [c \in Calls |-> Null]
    /\ at = [c \in Calls |-> 0]
    /\ seen = [c \in Calls |-> 0]
    /\ snapshot = [c \in Calls |-> Empty]
    /\ factories = [n \in Names |-> IF n = DefaultProvider THEN "EchoProvider" ELSE Null]
    /\ instances = [n \in Names |-> NoAdapter]
    /\ adapter = [c \in Calls |-> NoAdapter]
    /\ overlapped = {}

-----------------------------------------------------------------------------
Goto(c, phase) == pc' = [pc EXCEPT ![c] = phase]

(* route(): a tier without a model pointer raises, before anything is      *)
(* recorded.                                                               *)
Route(c) ==
    /\ pc[c] = "idle"
    /\ \A d \in Earlier[c] : pc[d] \in Returned
    /\ \E r \in Requests[c] :
         LET t == RouteTier(r.escalate, Classify(r.prompt, r.type), r.degraded)
         IN /\ task' = [task EXCEPT ![c] = r]
            /\ tier' = [tier EXCEPT ![c] = t]
            /\ Goto(c, IF t \in Configured THEN "account" ELSE "unrouted")
    /\ UNCHANGED <<ledgerVars, registryVars, overlapped>>

-----------------------------------------------------------------------------
(* No ledger is created.                                                   *)
KnownAlways(a) == TRUE

Known(a) == accounts[a] # Null

(* UsageLedger.account(): look, create if needed, fetch.                   *)
FindAccount(c) ==
    LET a == Account(task[c])
        others == Of(a, Busy)
    IN /\ pc[c] = "account"
       /\ Goto(c, IF Known(a) THEN "fetch" ELSE "create")
       /\ overlapped' = overlapped \union (IF others = {} THEN {} ELSE others \union {c})
       /\ UNCHANGED <<task, tier, ledgerVars, registryVars>>

(* The new ledger replaces one that another thread created meanwhile.      *)
CreateAccount(c) ==
    /\ pc[c] = "create"
    /\ accounts' = [accounts EXCEPT ![Account(task[c])] = c]
    /\ Goto(c, "fetch")
    /\ UNCHANGED <<task, tier, ledgers, held, at, seen, snapshot, registryVars, overlapped>>

FetchAccount(c) ==
    /\ pc[c] = "fetch"
    /\ held' = [held EXCEPT ![c] = accounts[Account(task[c])]]
    /\ at' = [at EXCEPT ![c] = 0]
    /\ Goto(c, "read")
    /\ UNCHANGED <<task, tier, accounts, ledgers, seen, snapshot, registryVars, overlapped>>

(* AccountLedger.record(): three updates, each a read and a write.         *)
Cell(c, i) == <<"cost", "count", tier[c]>>[i]

(* The weight of the uncapped tier is added up.                            *)
AddendUncapped(c, i) ==
    IF i > 1 THEN 1
    ELSE ProjectedCost(task[c].escalate, Classify(task[c].prompt, task[c].type))

(* A task that the degraded cap lowered costs nothing.                     *)
AddendFree(c, i) ==
    IF i > 1 THEN 1 ELSE IF task[c].degraded THEN 0 ELSE CostModel[tier[c]]

Addend(c, i) == IF i > 1 THEN 1 ELSE CostModel[tier[c]]

ReadCell(c) ==
    /\ pc[c] = "read"
    /\ seen' = [seen EXCEPT ![c] = ledgers[held[c]][Cell(c, at[c] + 1)]]
    /\ at' = [at EXCEPT ![c] = @ + 1]
    /\ Goto(c, "write")
    /\ UNCHANGED <<task, tier, accounts, ledgers, held, snapshot, registryVars, overlapped>>

WriteCell(c) ==
    /\ pc[c] = "write"
    /\ ledgers' = [ledgers EXCEPT ![held[c]][Cell(c, at[c])] = seen[c] + Addend(c, at[c])]
    /\ Goto(c, IF at[c] < 3 THEN "read" ELSE "snapshot")
    /\ seen' = [seen EXCEPT ![c] = 0]
    /\ UNCHANGED <<task, tier, accounts, held, at, snapshot, registryVars, overlapped>>

(* UsageLedger.snapshot(): the ledger is fetched again, and its fields are *)
(* copied one after the other, tiers_used as a whole.                      *)
BeginSnapshot(c) ==
    /\ pc[c] = "snapshot"
    /\ held' = [held EXCEPT ![c] = accounts[Account(task[c])]]
    /\ at' = [at EXCEPT ![c] = 0]
    /\ Goto(c, "copy")
    /\ UNCHANGED <<task, tier, accounts, ledgers, seen, snapshot, registryVars, overlapped>>

(* The entry of the routed tier only.                                      *)
CopiedOwnTier(c, i) == {Cell(c, i)}

Copied(c, i) == IF i < 3 THEN {Cell(c, i)} ELSE Tiers

CopyField(c) ==
    LET i == at[c] + 1
    IN /\ pc[c] = "copy"
       /\ snapshot' = [snapshot EXCEPT ![c] =
                         [x \in Cells |-> IF x \in Copied(c, i) THEN ledgers[held[c]][x]
                                          ELSE @[x]]]
       /\ at' = [at EXCEPT ![c] = i]
       /\ Goto(c, IF i < 3 THEN "copy" ELSE "look")
       /\ UNCHANGED <<task, tier, accounts, ledgers, held, seen, registryVars, overlapped>>

-----------------------------------------------------------------------------
(* ProviderRegistry.register(): an adapter that was made already stays.    *)
Register(n, f) ==
    /\ factories' = [factories EXCEPT ![n] = f]
    /\ UNCHANGED <<pc, task, tier, ledgerVars, instances, adapter, overlapped>>

(* An adapter is made for every call.                                      *)
MadeNever(n) == FALSE

Made(n) == instances[n] # NoAdapter

(* ProviderRegistry.get(): look, make if needed, store, fetch.             *)
FindAdapter(c) ==
    LET n == Provider(task[c])
        makers == {d \in Calls : pc[d] \in {"make", "store"} /\ Provider(task[d]) = n}
    IN /\ pc[c] = "look"
       /\ Goto(c, IF Made(n) THEN "use" ELSE "make")
       /\ overlapped' = overlapped \union
            (IF makers = {} \/ instances[n] # NoAdapter THEN {} ELSE {n})
       /\ UNCHANGED <<task, tier, ledgerVars, registryVars>>

(* A name without a factory raises: the call has been recorded by then.    *)
MakeAdapter(c) ==
    LET f == factories[Provider(task[c])]
    IN /\ pc[c] = "make"
       /\ IF f = Null
          THEN Goto(c, "undispatched") /\ UNCHANGED adapter
          ELSE /\ Goto(c, "store")
               /\ adapter' = [adapter EXCEPT ![c] = [by |-> c, factory |-> f]]
       /\ UNCHANGED <<task, tier, ledgerVars, factories, instances, overlapped>>

StoreAdapter(c) ==
    /\ pc[c] = "store"
    /\ instances' = [instances EXCEPT ![Provider(task[c])] = adapter[c]]
    /\ Goto(c, "use")
    /\ UNCHANGED <<task, tier, ledgerVars, factories, adapter, overlapped>>

UseAdapter(c) ==
    /\ pc[c] = "use"
    /\ adapter' = [adapter EXCEPT ![c] = instances[Provider(task[c])]]
    /\ Goto(c, "done")
    /\ UNCHANGED <<task, tier, ledgerVars, factories, instances, overlapped>>

-----------------------------------------------------------------------------
Next ==
    \/ \E c \in Calls :
         \/ Route(c) \/ FindAccount(c) \/ CreateAccount(c) \/ FetchAccount(c)
         \/ ReadCell(c) \/ WriteCell(c) \/ BeginSnapshot(c) \/ CopyField(c)
         \/ FindAdapter(c) \/ MakeAdapter(c) \/ StoreAdapter(c) \/ UseAdapter(c)
    \/ \E r \in Registrations : Register(r[1], r[2])

Spec == Init /\ [][Next]_vars

-----------------------------------------------------------------------------
(* What the calls of S, routed to t or all of them, add to a field.        *)
Sum(S, x) ==
    MapThenSumSet(LAMBDA c : CASE x = "cost" -> CostModel[tier[c]]
                               [] x = "count" -> 1
                               [] OTHER -> IF tier[c] = x THEN 1 ELSE 0, S)

Usage(a) == IF accounts[a] = Null THEN Empty ELSE ledgers[accounts[a]]

(* Whatever the threads do to each other, an account is never shown more   *)
(* cost, calls or uses of a tier than its own calls were routed for: no    *)
(* call counts twice, or for another account.                              *)
NeverOvercounted ==
    \A a \in Accounts : \A x \in Cells :
        Usage(a)[x] <= Sum(Of(a, {"read", "write"} \union Charged), x)

(* Only calls that overlap another one of their account can be lost from   *)
(* it: every other one is counted as soon as it has been recorded, also    *)
(* when its provider turns out to be unknown and the call raises.          *)
OnlyOverlapsAreLost ==
    \A a \in Accounts : \A x \in Cells :
        Usage(a)[x] >= Sum(Of(a, Charged) \ overlapped, x)

(* The usage returned by a call that overlapped none adds up: its tiers    *)
(* are as many as its calls, and their weights are its cost, unless an     *)
(* earlier overlap has spoilt the ledger.  The call itself is in it.       *)
SnapshotAddsUp ==
    \A a \in Accounts : overlapped \intersect Of(a, Busy \union Charged) = {} =>
        \A c \in Of(a, Charged \ {"snapshot", "copy"}) :
            LET s == snapshot[c]
            IN /\ s["count"] = MapThenSumSet(LAMBDA t : s[t], Tiers)
               /\ s["cost"] = MapThenSumSet(LAMBDA t : s[t] * CostModel[t], Tiers)
               /\ s[tier[c]] > 0

(* Calls that name the same provider are dispatched by the same adapter,   *)
(* also after its factory was replaced, unless two threads made one at the *)
(* same time.                                                              *)
OneAdapter ==
    \A c, d \in Calls :
        /\ pc[c] = "done" /\ pc[d] = "done"
        /\ Provider(task[c]) = Provider(task[d])
        /\ Provider(task[c]) \notin overlapped
        => adapter[c] = adapter[d]

(* A task that says more than another one of its type is not routed to a   *)
(* lower tier, and so it is not cheaper, whatever their lengths.           *)
MoreSignalsNeverLower ==
    \A c, d \in Calls :
        /\ pc[c] \notin {"idle"} /\ pc[d] \notin {"idle"}
        /\ ~task[c].escalate /\ ~task[d].escalate
        /\ task[c].type = task[d].type
        /\ Covers(task[c].prompt, task[d].prompt)
        => CostModel[tier[c]] >= CostModel[tier[d]]

=============================================================================
