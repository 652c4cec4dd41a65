---------------------------- MODULE AtomicStore ----------------------------
(***************************************************************************)
(* What the protocols of orchestrator/store.py (UsageStore,                *)
(* IdempotencyStore, TaskStore) promise to their callers: every call takes *)
(* effect at one instant, between its invocation and its return.  The      *)
(* answer belongs to the effect: a caller whose connection breaks may not  *)
(* hear it.                                                                *)
(*                                                                         *)
(* The ledger never forgets a charge.  A caller reads the clock before it  *)
(* is served, and others prune while it waits, so a balance counts every   *)
(* charge that is still in the window, and may count expired ones.         *)
(*                                                                         *)
(* reset() is a helper of tests and administrators: nothing is promised    *)
(* any more for an account that is reset, nor for keys once the whole      *)
(* store is; these are forgotten here (Disturb).                           *)
(***************************************************************************)
EXTENDS Integers, FiniteSets, FiniteSetsExt

CONSTANTS Calls, Accounts, Keys, Tasks, Owner, Threshold, Window, Everything

VARIABLES
    request,      \* call -> what is asked for, or NoRequest
    reply,        \* call -> its answer, or NoAnswer
    ledger,       \* account -> every charge made to it
    idempotency,  \* key -> the call it is mapped to, or Null
    tasks,        \* task -> its status, or Null
    disturbed,    \* the accounts that were reset, and Everything
    clock

vars == <<request, reply, ledger, idempotency, tasks, disturbed, clock>>
Null == "null"
NoRequest == [op |-> "none"]
NoAnswer == [answered |-> FALSE]

Live(a) == {h \in ledger[a] : h.ts >= clock - Window}
Total(S) == MapThenSumSet(LAMBDA h : h.amount, S)

(* What a caller may have seen of an account: no live charge is missing.   *)
Views(a) == {S \in SUBSET ledger[a] : Live(a) \subseteq S}

(* ORDER BY id DESC LIMIT 1, among the charges of that amount.             *)
Latest(S, amount) ==
    {h \in S : h.amount = amount /\ \A g \in S : g.amount = amount => g.id <= h.id}

Asks(c, op) == request[c].op = op

Answers(c, value) == reply[c] = NoAnswer /\ reply' = [reply EXCEPT ![c] = value]

-----------------------------------------------------------------------------
Init ==
    /\ request = [c \in Calls |-> NoRequest]
    /\ reply = [c \in Calls |-> NoAnswer]
    /\ ledger = [a \in Accounts |-> {}]
    /\ idempotency = [k \in Keys |-> Null]
    /\ tasks = [t \in Tasks |-> Null]
    /\ disturbed = {}
    /\ clock = 0

Invoke(c) ==
    /\ request[c] = NoRequest
    /\ request'[c] # NoRequest /\ request' = [request EXCEPT ![c] = request'[c]]
    /\ UNCHANGED <<reply, ledger, idempotency, tasks, disturbed, clock>>

(* The balance that is tested counts the charge that is made.              *)
Reserve(c) ==
    LET r == request[c]
        made == ledger'[r.account] \ ledger[r.account]
    IN /\ Asks(c, "reserve")
       /\ \E S \in Views(r.account) :
            LET balance == Total(S) + r.cost
            IN Answers(c, [balance |-> balance, degraded |-> balance >= Threshold])
       /\ ledger' = [ledger EXCEPT ![r.account] = @ \union made]
       /\ Cardinality(made) = 1
       /\ \A h \in made : /\ h.amount = r.cost /\ h.ts <= clock
                          /\ \A g \in ledger[r.account] : g.id < h.id
       /\ UNCHANGED <<request, idempotency, tasks, disturbed, clock>>

(* The latest charge of the reserved amount is revalued; one that expires  *)
(* meanwhile may be left as it is.                                         *)
Settle(c) ==
    LET r == request[c]
        a == r.account
    IN /\ Asks(c, "settle")
       /\ \E S \in Views(a) :
            LET target == Latest(S, r.cost)
                revalued == {IF h \in target THEN [h EXCEPT !.amount = r.actual] ELSE h :
                             h \in ledger[a]}
            IN \/ ledger' = [ledger EXCEPT ![a] = revalued]
               \/ target \cap Live(a) = {} /\ UNCHANGED ledger
       /\ \E S \in SUBSET ledger'[a] :
            /\ {h \in ledger'[a] : h.ts >= clock - Window} \subseteq S
            /\ Answers(c, [balance |-> Total(S)])
       /\ UNCHANGED <<request, idempotency, tasks, disturbed, clock>>

Balance(c) ==
    /\ Asks(c, "balance")
    /\ \E S \in Views(request[c].account) : Answers(c, [balance |-> Total(S)])
    /\ UNCHANGED <<request, ledger, idempotency, tasks, disturbed, clock>>

(* One call creates the mapping, every other one is told about it.         *)
Register(c) ==
    LET k == request[c].key
    IN /\ Asks(c, "register")
       /\ IF idempotency[k] = Null
          THEN /\ Answers(c, [task |-> c, created |-> TRUE])
               /\ idempotency' = [idempotency EXCEPT ![k] = c]
          ELSE /\ Answers(c, [task |-> idempotency[k], created |-> FALSE])
               /\ UNCHANGED idempotency
       /\ UNCHANGED <<request, ledger, tasks, disturbed, clock>>

CreateTask(c) ==
    /\ Asks(c, "create")
    /\ tasks' = [tasks EXCEPT ![request[c].task] = "ACCEPTED"]
    /\ Answers(c, [rows |-> 1])
    /\ UNCHANGED <<request, ledger, idempotency, disturbed, clock>>

(* A task that does not exist is not created by its status.  A caller is   *)
(* not told of it: the count of rows tells the two outcomes apart here.    *)
SetTaskStatus(c) ==
    LET t == request[c].task
    IN /\ Asks(c, "status")
       /\ tasks' = [tasks EXCEPT ![t] = IF @ = Null THEN @ ELSE request[c].status]
       /\ Answers(c, [rows |-> IF tasks[t] = Null THEN 0 ELSE 1])
       /\ UNCHANGED <<request, ledger, idempotency, disturbed, clock>>

-----------------------------------------------------------------------------
(* What a call is about: an account, a key or a task.                      *)
Forgotten(c, D) ==
    LET r == request[c]
    IN \/ r.op \in {"reserve", "settle", "balance"} /\ r.account \in D
       \/ r.op = "register" /\ Everything \in D
       \/ r.op \in {"create", "status"} /\ Owner[r.task] \in D

Disturb(D) ==
    /\ D # {} /\ disturbed' = disturbed \union D
    /\ reply' = [c \in Calls |-> IF Forgotten(c, D) THEN NoAnswer ELSE reply[c]]
    /\ ledger' = [a \in Accounts |-> IF a \in D THEN {} ELSE ledger[a]]
    /\ idempotency' = [k \in Keys |-> IF Everything \in D THEN Null ELSE idempotency[k]]
    /\ tasks' = [t \in Tasks |-> IF Owner[t] \in D THEN Null ELSE tasks[t]]
    /\ UNCHANGED <<request, clock>>

Tick == clock' > clock /\ UNCHANGED <<request, reply, ledger, idempotency, tasks, disturbed>>

Next ==
    \/ \E c \in Calls :
         \/ Invoke(c) \/ Reserve(c) \/ Settle(c) \/ Balance(c)
         \/ Register(c) \/ CreateTask(c) \/ SetTaskStatus(c)
    \/ \E D \in SUBSET (Accounts \union {Everything}) : Disturb(D)
    \/ Tick

Spec == Init /\ [][Next]_vars

=============================================================================
