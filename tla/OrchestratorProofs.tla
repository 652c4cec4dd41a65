------------------------- MODULE OrchestratorProofs -------------------------
(***************************************************************************)
(* Theorems about Orchestrator, for every set of calls, of accounts and of *)
(* providers, and every request.                                           *)
(***************************************************************************)
EXTENDS Orchestrator, SumLemmas

(* The classifier.                                                         *)
LEMMA Triples == \A x, y, z : IsFiniteSet({x, y, z})
<1> TAKE x, y, z
<1>1. IsFiniteSet({} \union {x})
  BY FS_EmptySet, FS_AddElement
<1>2. IsFiniteSet(({} \union {x}) \union {y})
  BY <1>1, FS_AddElement
<1>3. IsFiniteSet((({} \union {x}) \union {y}) \union {z})
  BY <1>2, FS_AddElement
<1>4. (({} \union {x}) \union {y}) \union {z} = {x, y, z}
  OBVIOUS
<1> QED BY <1>3, <1>4

LEMMA Unions == ASSUME NEW S, NEW T, IsFiniteSet(S), IsFiniteSet(T) PROVE IsFiniteSet(S \union T)
BY FS_Union

LEMMA SignalsFinite == IsFiniteSet(Keywords) /\ IsFiniteSet(Structural)
<1>1. IsFiniteSet({"refactor", "multiple files", "multi-file"}
                  \union {"cross-file", "architecture", "migration"})
  BY Triples, Unions
<1>2. IsFiniteSet({"integration", "refactoring", "concurrent"}
                  \union {"distributed", "refactor.", "refactor."})
  BY Triples, Unions
<1>3. Keywords = ({"refactor", "multiple files", "multi-file"}
                  \union {"cross-file", "architecture", "migration"})
                 \union ({"integration", "refactoring", "concurrent"}
                         \union {"distributed", "refactor.", "refactor."})
  BY DEF Keywords
<1>4. IsFiniteSet({"multiple", "several", "across"} \union {"files", "modules", "services"})
  BY Triples, Unions
<1>5. IsFiniteSet({"async", "thread", "database"} \union {"migrate", "migrate", "migrate"})
  BY Triples, Unions
<1>6. Structural = ({"multiple", "several", "across"} \union {"files", "modules", "services"})
                   \union ({"async", "thread", "database"}
                           \union {"migrate", "migrate", "migrate"})
  BY DEF Structural
<1>7. IsFiniteSet(Keywords)
  BY <1>1, <1>2, <1>3, Unions
<1>8. IsFiniteSet(Structural)
  BY <1>4, <1>5, <1>6, Unions
<1> QED BY <1>7, <1>8

(* The signals of a smaller prompt are worth less.                         *)
LEMMA Weights ==
    ASSUME NEW S, IsFiniteSet(S), NEW P, NEW Q, P \subseteq Q
    PROVE  /\ Cardinality(P \intersect S) \in Nat /\ Cardinality(Q \intersect S) \in Nat
           /\ Cardinality(P \intersect S) <= Cardinality(Q \intersect S)
<1>1. IsFiniteSet(Q \intersect S)
  BY FS_Subset, Q \intersect S \in SUBSET S
<1>2. P \intersect S \in SUBSET (Q \intersect S)
  OBVIOUS
<1>3. IsFiniteSet(P \intersect S) /\ Cardinality(P \intersect S) <= Cardinality(Q \intersect S)
  BY <1>1, <1>2, FS_Subset
<1> QED BY <1>1, <1>3, FS_CardinalityType

(* Saying more never lowers the score.                                     *)
LEMMA ScoreMonotone ==
    ASSUME NEW more \in Prompts, NEW less \in Prompts, NEW type, Covers(more, less)
    PROVE  /\ Score(less, type) \in Nat /\ Score(more, type) \in Nat
           /\ Score(less, type) <= Score(more, type)
<1> DEFINE bonus == IF type \in AdvancedTypes THEN 2 ELSE 0
<1>1. bonus \in Nat
  OBVIOUS
<1> HIDE DEF bonus
<1>2. /\ Cardinality(less.signals \intersect Keywords) \in Nat
      /\ Cardinality(more.signals \intersect Keywords) \in Nat
      /\ Cardinality(less.signals \intersect Keywords)
           <= Cardinality(more.signals \intersect Keywords)
  BY SignalsFinite, Weights DEF Covers
<1>3. /\ Cardinality(less.signals \intersect Structural) \in Nat
      /\ Cardinality(more.signals \intersect Structural) \in Nat
      /\ Cardinality(less.signals \intersect Structural)
           <= Cardinality(more.signals \intersect Structural)
  BY SignalsFinite, Weights DEF Covers
<1>4. /\ Score(less, type) = 2 * Cardinality(less.signals \intersect Keywords)
                             + Cardinality(less.signals \intersect Structural) + bonus
      /\ Score(more, type) = 2 * Cardinality(more.signals \intersect Keywords)
                             + Cardinality(more.signals \intersect Structural) + bonus
  BY DEF Score, bonus
<1> QED BY <1>1, <1>2, <1>3, <1>4

(* A prompt with more signals never gets a lower tier, however short it    *)
(* is: the early answer for plain, short prompts loses nothing.            *)
THEOREM MoreSignalsAdvance ==
    ASSUME NEW more \in Prompts, NEW less \in Prompts, NEW type, Covers(more, less),
           Classify(less, type) = "advanced"
    PROVE  Classify(more, type) = "advanced"
<1>1. /\ Score(less, type) \in Nat /\ Score(more, type) \in Nat
      /\ Score(less, type) <= Score(more, type)
  BY ScoreMonotone
<1>2. Score(less, type) >= 3
  BY DEF Classify
<1>3. Score(more, type) >= 3
  BY <1>1, <1>2
<1>4. ASSUME more.signals = {}, type \notin AdvancedTypes PROVE FALSE
  <2>1. Cardinality(more.signals \intersect Keywords) = 0
    BY <1>4, FS_EmptySet
  <2>2. Cardinality(more.signals \intersect Structural) = 0
    BY <1>4, FS_EmptySet
  <2> QED BY <1>3, <1>4, <2>1, <2>2 DEF Score
<1> QED BY <1>3, <1>4 DEF Classify

-----------------------------------------------------------------------------

(* A call that has begun has a request, and its tier is what route() said. *)
Routed ==
    \A c \in Calls : pc[c] # "idle" =>
        /\ task[c] \in Requests[c]
        /\ tier[c] = RouteTier(task[c].escalate, Classify(task[c].prompt, task[c].type),
                               task[c].degraded)

(* An account has a ledger from the moment a call fetches it.              *)
HasLedger ==
    \A c \in Calls : pc[c] \in {"fetch", "read", "write", "snapshot", "copy"} =>
        accounts[Account(task[c])] # Null

(* A call has a ledger in hand while it works on it.                       *)
Holds ==
    \A c \in Calls : /\ pc[c] \in {"read", "write", "copy"} => held[c] # Null
                     /\ pc[c] \in {"read", "copy"} => at[c] < 3
                     /\ pc[c] = "write" => at[c] > 0

TypeInv == TypeOK /\ Routed /\ HasLedger /\ Holds

Making(c) == pc[c] \in {"make", "store"}

(* One call makes the adapter of a name, or the name is an overlapped one. *)
OneMaker ==
    /\ \A c \in Calls : Making(c) =>
         /\ Provider(task[c]) \in overlapped \/ instances[Provider(task[c])] = NoAdapter
         /\ \A d \in Calls \ {c} : Making(d) /\ Provider(task[d]) = Provider(task[c]) =>
              Provider(task[c]) \in overlapped

(* The adapter of a name does not change once a call has used it.          *)
Shared ==
    \A c \in Calls :
        LET n == Provider(task[c])
        IN /\ pc[c] = "store" => adapter[c] # NoAdapter
           /\ pc[c] = "use" => instances[n] # NoAdapter
           /\ pc[c] = "done" => instances[n] # NoAdapter
           /\ pc[c] = "done" /\ n \notin overlapped => adapter[c] = instances[n]

AdapterInv == OneMaker /\ Shared

-----------------------------------------------------------------------------
(* What a request names exists.                                            *)
LEMMA ArgumentsOK ==
    ASSUME NEW c \in Calls, NEW r \in Requests[c]
    PROVE  /\ r \in Arguments
           /\ Account(r) \in Accounts /\ Provider(r) \in Names
           /\ Classify(r.prompt, r.type) \in ClassifierTiers
           /\ RouteTier(r.escalate, Classify(r.prompt, r.type), r.degraded) \in Tiers
<1>1. r \in Arguments
  BY OrchestratorAssumption
<1>2. Account(r) \in Accounts /\ Provider(r) \in Names
  BY <1>1, OrchestratorAssumption DEF Arguments, Account, Provider
<1>3. Classify(r.prompt, r.type) \in ClassifierTiers
  BY DEF Classify, ClassifierTiers
<1> QED BY <1>1, <1>2, <1>3 DEF RouteTier, DegradedCap, UncappedTier, Tiers, ClassifierTiers

LEMMA CellsOK ==
    ASSUME TypeOK, NEW c \in Calls, NEW i \in 1..3
    PROVE  Cell(c, i) \in Cells /\ Addend(c, i) \in Nat
<1>1. tier[c] \in Tiers
  BY DEF TypeOK
<1>2. Addend(c, i) \in Nat
  BY <1>1, CostModelAssumption DEF Addend
<1>3. i = 1 \/ i = 2 \/ i = 3
  OBVIOUS
<1> QED BY <1>1, <1>2, <1>3 DEF Cell, Cells

(* A call that has begun names an account and a provider.                  *)
LEMMA TaskOK ==
    ASSUME TypeInv, NEW c \in Calls, pc[c] # "idle"
    PROVE  task[c] \in Requests[c] /\ Account(task[c]) \in Accounts /\ Provider(task[c]) \in Names
BY ArgumentsOK DEF TypeInv, Routed

-----------------------------------------------------------------------------
LEMMA TypeInvInit == Init => TypeInv
<1> SUFFICES ASSUME Init PROVE TypeInv
  OBVIOUS
<1>1. task \in [Calls -> (UNION {Requests[c] : c \in Calls}) \union {NoTask}]
  <2> DEFINE T == (UNION {Requests[c] : c \in Calls}) \union {NoTask}
  <2>1. NoTask \in T
    OBVIOUS
  <2> HIDE DEF T
  <2>2. task \in [Calls -> T]
    BY <2>1 DEF Init
  <2> QED BY <2>2 DEF T
<1>2. ledgers \in [Calls -> [Cells -> Nat]] /\ snapshot \in [Calls -> [Cells -> Nat]]
  <2>1. Empty \in [Cells -> Nat]
    BY DEF Empty
  <2> QED BY <2>1 DEF Init
<1>3. factories \in [Names -> Factories \union {Null}] /\ instances \in [Names -> Adapters]
  BY OrchestratorAssumption DEF Init, Adapters
<1>4. TypeOK
  BY <1>1, <1>2, <1>3 DEF Init, TypeOK, Adapters, Tiers
<1> QED BY <1>4 DEF Init, TypeInv, Routed, HasLedger, Holds

(* The parts of TypeOK that a step of a call may change.                   *)
Rest ==
    /\ task \in [Calls -> (UNION {Requests[c] : c \in Calls}) \union {NoTask}]
    /\ tier \in [Calls -> Tiers]
    /\ accounts \in [Accounts -> Calls \union {Null}]
    /\ ledgers \in [Calls -> [Cells -> Nat]]
    /\ held \in [Calls -> Calls \union {Null}]
    /\ at \in [Calls -> 0..3]
    /\ seen \in [Calls -> Nat]
    /\ snapshot \in [Calls -> [Cells -> Nat]]

Registry ==
    /\ factories \in [Names -> Factories \union {Null}]
    /\ instances \in [Names -> Adapters]
    /\ adapter \in [Calls -> Adapters]
    /\ overlapped \subseteq Calls \union Names

Phases == {"idle", "unrouted", "account"} \union Recording \union Charged

LEMMA TypeOKParts ==
    /\ TypeInv <=> /\ pc \in [Calls -> Phases]
                   /\ Rest /\ Registry /\ Routed /\ HasLedger /\ Holds
    /\ TypeInv' <=> /\ pc' \in [Calls -> Phases]
                    /\ Rest' /\ Registry' /\ Routed' /\ HasLedger' /\ Holds'
<1>1. TypeInv <=> /\ pc \in [Calls -> Phases]
                  /\ Rest /\ Registry /\ Routed /\ HasLedger /\ Holds
  BY Zenon DEF TypeInv, TypeOK, Rest, Registry, Phases, Holds
<1>2. TypeInv' <=> /\ pc' \in [Calls -> Phases]
                   /\ Rest' /\ Registry' /\ Routed' /\ HasLedger' /\ Holds'
  BY Zenon DEF TypeInv, TypeOK, Rest, Registry, Phases, Holds
<1> QED BY <1>1, <1>2

-----------------------------------------------------------------------------
(* Every step preserves the invariant.                                     *)
LEMMA TypeInvRoute ==
    ASSUME TypeInv, NEW c \in Calls, Route(c) PROVE TypeInv'
<1> USE TypeOKParts
<1>1. PICK r \in Requests[c] :
        LET t == RouteTier(r.escalate, Classify(r.prompt, r.type), r.degraded)
        IN /\ task' = [task EXCEPT ![c] = r]
           /\ tier' = [tier EXCEPT ![c] = t]
           /\ Goto(c, IF t \in Configured THEN "account" ELSE "unrouted")
  BY DEF Route
<1> DEFINE t == RouteTier(r.escalate, Classify(r.prompt, r.type), r.degraded)
<1>2. t \in Tiers
  BY ArgumentsOK
<1>3. PICK phase \in {"account", "unrouted"} : pc' = [pc EXCEPT ![c] = phase]
  BY <1>1 DEF Goto
<1>4. UNCHANGED <<ledgerVars, registryVars, overlapped>>
  BY DEF Route
<1>5. pc' \in [Calls -> Phases]
  BY <1>3 DEF Phases
<1>6. Rest'
  <2>1. task' \in [Calls -> (UNION {Requests[d] : d \in Calls}) \union {NoTask}]
    BY <1>1 DEF Rest
  <2> QED BY <2>1, <1>1, <1>2, <1>4 DEF Rest, ledgerVars
<1>7. Registry'
  BY <1>4 DEF Registry, registryVars
<1>8. Routed'
  BY <1>1, <1>2, <1>3 DEF Routed, Rest
<1>9. HasLedger' /\ Holds'
  BY <1>1, <1>3, <1>4 DEF HasLedger, Holds, ledgerVars
<1> QED BY <1>5, <1>6, <1>7, <1>8, <1>9

(* A step of a call that has begun, and goes on to one of some phases.     *)
LEMMA GoesOn ==
    ASSUME TypeInv, NEW c \in Calls, pc[c] # "idle", NEW phase \in Phases,
           pc' = [pc EXCEPT ![c] = phase], UNCHANGED <<task, tier>>
    PROVE  pc' \in [Calls -> Phases] /\ Routed'
BY TypeOKParts DEF Routed

LEMMA TypeInvAccount ==
    ASSUME TypeInv, NEW c \in Calls,
           FindAccount(c) \/ CreateAccount(c) \/ FetchAccount(c) \/ BeginSnapshot(c)
    PROVE  TypeInv'
<1> USE TypeOKParts
<1> DEFINE a == Account(task[c])
<1>0. pc[c] # "idle"
  BY DEF FindAccount, CreateAccount, FetchAccount, BeginSnapshot
<1>1. a \in Accounts
  BY <1>0, TaskOK
<1> HIDE DEF a
<1>2. CASE FindAccount(c)
  <2>1. PICK phase \in {"fetch", "create"} :
          pc' = [pc EXCEPT ![c] = phase] /\ (phase = "fetch" => accounts[a] # Null)
    BY <1>2 DEF FindAccount, Goto, Known, a
  <2>2. UNCHANGED <<task, tier, ledgerVars, registryVars>>
    BY <1>2 DEF FindAccount
  <2>3. overlapped' \subseteq Calls \union Names
    BY <1>2 DEF FindAccount, Registry, Of
  <2>4. Rest' /\ Registry'
    BY <2>2, <2>3 DEF Rest, Registry, ledgerVars, registryVars
  <2>5. HasLedger' /\ Holds'
    BY <2>1, <2>2 DEF HasLedger, Holds, ledgerVars, a
  <2> QED BY <2>1, <2>2, <2>4, <2>5, <1>0, GoesOn DEF Phases, Recording
<1>3. CASE CreateAccount(c)
  <2>1. pc' = [pc EXCEPT ![c] = "fetch"] /\ accounts' = [accounts EXCEPT ![a] = c]
    BY <1>3 DEF CreateAccount, Goto, a
  <2>2. UNCHANGED <<task, tier, ledgers, held, at, seen, snapshot, registryVars, overlapped>>
    BY <1>3 DEF CreateAccount
  <2>3. Rest' /\ Registry'
    BY <1>1, <2>1, <2>2 DEF Rest, Registry, registryVars
  <2>4. \A b \in Accounts : accounts[b] # Null => accounts'[b] # Null
    BY <2>1, OrchestratorAssumption DEF Rest
  <2>5. accounts'[a] # Null
    BY <1>1, <2>1, OrchestratorAssumption DEF Rest
  <2>6. HasLedger'
    <3> SUFFICES ASSUME NEW d \in Calls,
                        pc'[d] \in {"fetch", "read", "write", "snapshot", "copy"}
                 PROVE  accounts'[Account(task[d])] # Null
      BY <2>2 DEF HasLedger
    <3>1. CASE d = c
      BY <3>1, <2>5 DEF a
    <3>2. CASE d # c
      <4>1. pc[d] = pc'[d]
        BY <3>2, <2>1
      <4>2. Account(task[d]) \in Accounts
        BY <4>1, TaskOK
      <4> QED BY <4>1, <4>2, <2>4 DEF HasLedger
    <3> QED BY <3>1, <3>2
  <2>7. Holds'
    BY <2>1, <2>2 DEF Holds
  <2> QED BY <2>1, <2>2, <2>3, <2>6, <2>7, <1>0, GoesOn DEF Phases, Recording
<1>4. CASE FetchAccount(c) \/ BeginSnapshot(c)
  <2>1. PICK phase \in {"read", "copy"} :
          /\ pc' = [pc EXCEPT ![c] = phase]
          /\ held' = [held EXCEPT ![c] = accounts[a]]
          /\ at' = [at EXCEPT ![c] = 0]
    BY <1>4 DEF FetchAccount, BeginSnapshot, Goto, a
  <2>2. UNCHANGED <<task, tier, accounts, ledgers, seen, snapshot, registryVars, overlapped>>
    BY <1>4 DEF FetchAccount, BeginSnapshot
  <2>3. accounts[a] # Null
    BY <1>4 DEF FetchAccount, BeginSnapshot, HasLedger, a
  <2>4. Rest' /\ Registry'
    BY <1>1, <2>1, <2>2 DEF Rest, Registry, registryVars
  <2>5. HasLedger'
    BY <2>1, <2>2, <2>3 DEF HasLedger, a
  <2>6. Holds'
    BY <2>1, <2>2, <2>3 DEF Holds, Rest
  <2> QED BY <2>1, <2>2, <2>4, <2>5, <2>6, <1>0, GoesOn DEF Phases, Recording, Charged
<1> QED BY <1>2, <1>3, <1>4

LEMMA TypeInvCells ==
    ASSUME TypeInv, NEW c \in Calls, ReadCell(c) \/ WriteCell(c) \/ CopyField(c)
    PROVE  TypeInv'
<1> USE TypeOKParts
<1>0. pc[c] # "idle"
  BY DEF ReadCell, WriteCell, CopyField
<1>1. held[c] \in Calls
  BY DEF ReadCell, WriteCell, CopyField, Holds, Rest
<1>2. at[c] \in 0..3
  BY DEF Rest
<1>3. CASE ReadCell(c)
  <2>1. at[c] + 1 \in 1..3
    BY <1>2, <1>3 DEF ReadCell, Holds
  <2>2. Cell(c, at[c] + 1) \in Cells
    BY <2>1, CellsOK DEF TypeInv
  <2>3. ledgers[held[c]][Cell(c, at[c] + 1)] \in Nat
    BY <1>1, <2>2 DEF Rest
  <2>4. /\ pc' = [pc EXCEPT ![c] = "write"]
        /\ seen' = [seen EXCEPT ![c] = ledgers[held[c]][Cell(c, at[c] + 1)]]
        /\ at' = [at EXCEPT ![c] = at[c] + 1]
        /\ UNCHANGED <<task, tier, accounts, ledgers, held, snapshot, registryVars, overlapped>>
    BY <1>3 DEF ReadCell, Goto
  <2>5. Rest'
    BY <2>1, <2>3, <2>4 DEF Rest
  <2>6. Registry' /\ HasLedger'
    BY <2>4, <1>3 DEF Registry, HasLedger, registryVars, ReadCell
  <2>7. Holds'
    BY <1>2, <1>3, <2>4 DEF Holds, Rest, ReadCell
  <2> QED BY <2>4, <2>5, <2>6, <2>7, <1>0, GoesOn DEF Phases, Recording
<1>4. CASE WriteCell(c)
  <2>1. at[c] \in 1..3
    BY <1>2, <1>4 DEF WriteCell, Holds
  <2> DEFINE x == Cell(c, at[c])  v == seen[c] + Addend(c, at[c])
  <2>2. x \in Cells /\ v \in Nat
    BY <2>1, CellsOK DEF TypeInv, Rest
  <2>3. /\ ledgers' = [ledgers EXCEPT ![held[c]][x] = v]
        /\ pc' = [pc EXCEPT ![c] = IF at[c] < 3 THEN "read" ELSE "snapshot"]
        /\ seen' = [seen EXCEPT ![c] = 0]
        /\ UNCHANGED <<task, tier, accounts, held, at, snapshot, registryVars, overlapped>>
    BY <1>4 DEF WriteCell, Goto
  <2> HIDE DEF x, v
  <2>4. ledgers' \in [Calls -> [Cells -> Nat]]
    BY <1>1, <2>2, <2>3 DEF Rest
  <2>5. Rest' /\ Registry'
    BY <2>3, <2>4 DEF Rest, Registry, registryVars
  <2>6. HasLedger'
    BY <1>4, <2>3 DEF HasLedger, WriteCell
  <2>7. Holds'
    BY <1>1, <1>2, <1>4, <2>3 DEF Holds, WriteCell, Rest
  <2>8. (IF at[c] < 3 THEN "read" ELSE "snapshot") \in Phases
    BY DEF Phases, Recording, Charged
  <2> QED BY <2>3, <2>5, <2>6, <2>7, <2>8, <1>0, GoesOn
<1>5. CASE CopyField(c)
  <2> DEFINE i == at[c] + 1
  <2>1. i \in 1..3
    BY <1>2, <1>5 DEF CopyField, Holds
  <2>2. /\ snapshot' = [snapshot EXCEPT ![c] =
                          [x \in Cells |-> IF x \in Copied(c, i) THEN ledgers[held[c]][x]
                                           ELSE snapshot[c][x]]]
        /\ pc' = [pc EXCEPT ![c] = IF i < 3 THEN "copy" ELSE "look"]
        /\ at' = [at EXCEPT ![c] = i]
        /\ UNCHANGED <<task, tier, accounts, ledgers, held, seen, registryVars, overlapped>>
    BY <1>5 DEF CopyField, Goto
  <2> HIDE DEF i
  <2>3. snapshot' \in [Calls -> [Cells -> Nat]]
    BY <1>1, <2>2 DEF Rest
  <2>4. Rest' /\ Registry'
    BY <2>1, <2>2, <2>3 DEF Rest, Registry, registryVars
  <2>5. HasLedger'
    BY <1>5, <2>2 DEF HasLedger, CopyField
  <2>6. Holds'
    BY <1>1, <1>5, <2>1, <2>2 DEF Holds, CopyField, Rest
  <2>7. (IF i < 3 THEN "copy" ELSE "look") \in Phases
    BY DEF Phases, Charged
  <2> QED BY <2>2, <2>4, <2>5, <2>6, <2>7, <1>0, GoesOn DEF Recording
<1> QED BY <1>3, <1>4, <1>5

LEMMA TypeInvAdapter ==
    ASSUME TypeInv, NEW c \in Calls,
           FindAdapter(c) \/ MakeAdapter(c) \/ StoreAdapter(c) \/ UseAdapter(c)
    PROVE  TypeInv'
<1> USE TypeOKParts
<1> DEFINE n == Provider(task[c])
<1>0. pc[c] \in {"look", "make", "store", "use"} /\ pc[c] # "idle"
  BY DEF FindAdapter, MakeAdapter, StoreAdapter, UseAdapter
<1>1. n \in Names
  BY <1>0, TaskOK
<1>2. PICK phase \in {"make", "store", "use", "done", "undispatched"} :
        pc' = [pc EXCEPT ![c] = phase]
  BY DEF FindAdapter, MakeAdapter, StoreAdapter, UseAdapter, Goto
<1>3. UNCHANGED <<task, tier, ledgerVars>>
  BY DEF FindAdapter, MakeAdapter, StoreAdapter, UseAdapter
<1>4. Rest'
  BY <1>3 DEF Rest, ledgerVars
<1>5. Registry'
  <2>1. CASE FindAdapter(c)
    BY <1>1, <2>1 DEF FindAdapter, Registry, registryVars
  <2>2. CASE MakeAdapter(c)
    <3>1. factories[n] \in Factories \union {Null}
      BY <1>1 DEF Registry
    <3>2. adapter' \in [Calls -> Adapters]
      BY <2>2, <3>1 DEF MakeAdapter, Registry, Adapters
    <3> QED BY <2>2, <3>2 DEF MakeAdapter, Registry
  <2>3. CASE StoreAdapter(c)
    BY <1>1, <2>3 DEF StoreAdapter, Registry
  <2>4. CASE UseAdapter(c)
    BY <1>1, <2>4 DEF UseAdapter, Registry
  <2> QED BY <2>1, <2>2, <2>3, <2>4
<1>6. HasLedger' /\ Holds'
  BY <1>2, <1>3 DEF HasLedger, Holds, ledgerVars
<1>7. pc' \in [Calls -> Phases] /\ Routed'
  BY <1>0, <1>2, <1>3, GoesOn DEF Phases, Charged
<1> QED BY <1>4, <1>5, <1>6, <1>7

LEMMA TypeInvRegister ==
    ASSUME TypeInv, NEW r \in Registrations, Register(r[1], r[2]) PROVE TypeInv'
<1> USE TypeOKParts
<1>1. r[1] \in Names /\ r[2] \in Factories
  BY OrchestratorAssumption
<1>2. Registry'
  BY <1>1 DEF Register, Registry
<1> QED BY <1>2 DEF Register, Rest, Routed, HasLedger, Holds, ledgerVars

LEMMA TypeInvNext == TypeInv /\ [Next]_vars => TypeInv'
<1> SUFFICES ASSUME TypeInv, [Next]_vars PROVE TypeInv'
  OBVIOUS
<1>1. ASSUME NEW c \in Calls, Route(c) PROVE TypeInv'
  BY <1>1, TypeInvRoute
<1>2. ASSUME NEW c \in Calls,
             FindAccount(c) \/ CreateAccount(c) \/ FetchAccount(c) \/ BeginSnapshot(c)
      PROVE  TypeInv'
  BY <1>2, TypeInvAccount
<1>3. ASSUME NEW c \in Calls, ReadCell(c) \/ WriteCell(c) \/ CopyField(c) PROVE TypeInv'
  BY <1>3, TypeInvCells
<1>4. ASSUME NEW c \in Calls,
             FindAdapter(c) \/ MakeAdapter(c) \/ StoreAdapter(c) \/ UseAdapter(c)
      PROVE  TypeInv'
  BY <1>4, TypeInvAdapter
<1>5. ASSUME NEW r \in Registrations, Register(r[1], r[2]) PROVE TypeInv'
  BY <1>5, TypeInvRegister
<1>6. CASE UNCHANGED vars
  BY <1>6, TypeOKParts
     DEF vars, ledgerVars, registryVars, Rest, Registry, Routed, HasLedger, Holds
<1> QED BY <1>1, <1>2, <1>3, <1>4, <1>5, <1>6 DEF Next

LEMMA TypeInvAlways == Spec => []TypeInv
BY TypeInvInit, TypeInvNext, PTL DEF Spec

(* The variables of Orchestrator keep their types: no call works on a      *)
(* ledger that does not exist, in whatever order threads create them.      *)
THEOREM OrchestratorTypes == Spec => []TypeOK
<1>1. TypeInv => TypeOK
  BY DEF TypeInv
<1> QED BY <1>1, TypeInvAlways, PTL

-----------------------------------------------------------------------------
(* A task with more signals is never routed lower, nor for less.           *)
LEMMA RoutedMonotone == TypeInv => MoreSignalsNeverLower
<1> SUFFICES ASSUME TypeInv, NEW c \in Calls, NEW d \in Calls,
                    pc[c] # "idle", pc[d] # "idle",
                    ~task[c].escalate, ~task[d].escalate, task[c].type = task[d].type,
                    Covers(task[c].prompt, task[d].prompt)
             PROVE  CostModel[tier[c]] >= CostModel[tier[d]]
  BY DEF MoreSignalsNeverLower
<1> DEFINE more == task[c].prompt  less == task[d].prompt  type == task[d].type
<1>1. more \in Prompts /\ less \in Prompts
  BY TaskOK, ArgumentsOK DEF Arguments
<1>2. tier[c] = Classify(more, type) /\ tier[d] = Classify(less, type)
  BY DEF TypeInv, Routed, RouteTier, DegradedCap, UncappedTier, Classify
<1>3. Classify(less, type) = "advanced" => Classify(more, type) = "advanced"
  BY <1>1, MoreSignalsAdvance
<1>4. /\ Classify(more, type) \in {"standard", "advanced"}
      /\ Classify(less, type) \in {"standard", "advanced"}
  BY DEF Classify
<1>5. /\ CostModel["standard"] \in Nat /\ CostModel["advanced"] \in Nat
      /\ CostModel["standard"] <= CostModel["advanced"]
  BY CostModelAssumption DEF Tiers
<1> HIDE DEF more, less, type
<1> QED BY <1>2, <1>3, <1>4, <1>5

(* However short prompts are, and whichever words count twice: a task that *)
(* says more than another one of its type gets no cheaper tier.            *)
THEOREM SayingMoreNeverCostsLess == Spec => []MoreSignalsNeverLower
BY RoutedMonotone, TypeInvAlways, PTL

-----------------------------------------------------------------------------
(* Calls share an adapter.                                                 *)
LEMMA AdapterInvInit == Init => AdapterInv
BY DEF Init, AdapterInv, OneMaker, Shared, Making

(* A step that is not one of get().                                        *)
LEMMA AdapterInvOther ==
    ASSUME TypeInv, AdapterInv, NEW c \in Calls, NEW phase,
           pc[c] \notin {"make", "store", "use", "done"},
           phase \notin {"make", "store", "use", "done"},
           pc' = [pc EXCEPT ![c] = phase],
           \A d \in Calls \ {c} : task'[d] = task[d],
           UNCHANGED <<instances, adapter>>,
           overlapped \subseteq overlapped'
    PROVE  AdapterInv'
<1>1. \A d \in Calls : pc'[d] \in {"make", "store", "use", "done"} =>
        d # c /\ pc'[d] = pc[d] /\ task'[d] = task[d]
  BY DEF TypeInv, TypeOK
<1>2. OneMaker'
  BY <1>1 DEF AdapterInv, OneMaker, Making
<1>3. Shared'
  <2> SUFFICES ASSUME NEW d \in Calls PROVE
         LET n == Provider(task'[d])
         IN /\ pc'[d] = "store" => adapter'[d] # NoAdapter
            /\ pc'[d] = "use" => instances'[n] # NoAdapter
            /\ pc'[d] = "done" => instances'[n] # NoAdapter
            /\ pc'[d] = "done" /\ n \notin overlapped' => adapter'[d] = instances'[n]
    BY DEF Shared
  <2> QED BY <1>1 DEF AdapterInv, Shared
<1> QED BY <1>2, <1>3 DEF AdapterInv

LEMMA AdapterInvGet ==
    ASSUME TypeInv, AdapterInv, NEW c \in Calls,
           FindAdapter(c) \/ MakeAdapter(c) \/ StoreAdapter(c) \/ UseAdapter(c)
    PROVE  AdapterInv'
<1> DEFINE n == Provider(task[c])
<1>0. task' = task /\ n \in Names
  BY TaskOK DEF FindAdapter, MakeAdapter, StoreAdapter, UseAdapter
<1>00. /\ pc \in [Calls -> Phases] /\ instances \in [Names -> Adapters]
       /\ adapter \in [Calls -> Adapters]
  BY TypeOKParts DEF Registry
<1>1. CASE FindAdapter(c)
  <2>1. /\ pc[c] = "look" /\ UNCHANGED <<instances, adapter>>
        /\ pc' = [pc EXCEPT ![c] = IF instances[n] # NoAdapter THEN "use" ELSE "make"]
        /\ overlapped \subseteq overlapped'
    BY <1>1 DEF FindAdapter, Goto, Made, registryVars
  <2>2. (\E d \in Calls : Making(d) /\ Provider(task[d]) = n) /\ instances[n] = NoAdapter
          => n \in overlapped'
    BY <1>1 DEF FindAdapter, Making
  <2>3. OneMaker'
    <3>1. CASE instances[n] # NoAdapter
      <4>1. \A d \in Calls : Making(d)' => d # c /\ Making(d)
        BY <1>00, <2>1, <3>1 DEF Making
      <4> QED BY <1>0, <2>1, <4>1 DEF OneMaker, AdapterInv
    <3>2. CASE instances[n] = NoAdapter
      <4>1. \A d \in Calls \ {c} : Making(d)' => Making(d)
        BY <1>00, <2>1 DEF Making
      <4>2. \A d \in Calls \ {c} : Making(d)' /\ Provider(task[d]) = n => n \in overlapped'
        BY <2>2, <3>2, <4>1
      <4> QED BY <1>0, <2>1, <3>2, <4>1, <4>2 DEF OneMaker, AdapterInv
    <3> QED BY <3>1, <3>2
  <2>4. Shared'
    BY <1>0, <1>00, <2>1 DEF Shared, AdapterInv
  <2> QED BY <2>3, <2>4 DEF AdapterInv
<1>2. CASE MakeAdapter(c)
  <2>1. pc[c] = "make" /\ UNCHANGED <<instances, overlapped>>
    BY <1>2 DEF MakeAdapter
  <2>2. \/ pc' = [pc EXCEPT ![c] = "undispatched"] /\ adapter' = adapter
        \/ /\ pc' = [pc EXCEPT ![c] = "store"]
           /\ adapter' = [adapter EXCEPT ![c] = [by |-> c, factory |-> factories[n]]]
    BY <1>2 DEF MakeAdapter, Goto
  <2>3. \A d \in Calls : Making(d)' => Making(d)
    BY <1>00, <2>1, <2>2 DEF Making
  <2>4. OneMaker'
    BY <1>0, <2>1, <2>3 DEF OneMaker, AdapterInv
  <2>5. [by |-> c, factory |-> factories[n]] # NoAdapter
    BY OrchestratorAssumption DEF NoAdapter
  <2>6. Shared'
    BY <1>0, <1>00, <2>1, <2>2, <2>5 DEF Shared, AdapterInv
  <2> QED BY <2>4, <2>6 DEF AdapterInv
<1>3. CASE StoreAdapter(c)
  <2>1. /\ pc[c] = "store" /\ UNCHANGED <<adapter, overlapped>>
        /\ pc' = [pc EXCEPT ![c] = "use"]
        /\ instances' = [instances EXCEPT ![n] = adapter[c]]
    BY <1>3 DEF StoreAdapter, Goto
  <2>2. adapter[c] # NoAdapter
    BY <2>1 DEF Shared, AdapterInv
  <2>3. \A d \in Calls : Making(d)' => d # c /\ Making(d)
    BY <1>00, <2>1 DEF Making
  <2>4. \A d \in Calls : Making(d)' /\ Provider(task[d]) = n => n \in overlapped
    BY <2>1, <2>3 DEF OneMaker, AdapterInv, Making
  <2>5. OneMaker'
    BY <1>0, <1>00, <2>1, <2>3, <2>4 DEF OneMaker, AdapterInv
  <2>6. n \in overlapped \/ instances[n] = NoAdapter
    BY <2>1 DEF OneMaker, AdapterInv, Making
  <2>7. \A m \in Names : instances[m] # NoAdapter => instances'[m] # NoAdapter
    BY <1>00, <2>1, <2>2
  <2>8. Shared'
    <3> SUFFICES ASSUME NEW d \in Calls PROVE
           LET m == Provider(task[d])
           IN /\ pc'[d] = "store" => adapter[d] # NoAdapter
              /\ pc'[d] = "use" => instances'[m] # NoAdapter
              /\ pc'[d] = "done" => instances'[m] # NoAdapter
              /\ pc'[d] = "done" /\ m \notin overlapped => adapter[d] = instances'[m]
      BY <1>0, <2>1 DEF Shared
    <3> DEFINE m == Provider(task[d])
    <3>1. pc'[d] # "idle" => m \in Names
      BY <1>00, <2>1, TaskOK
    <3>2. CASE d = c
      BY <1>0, <1>00, <2>1, <2>2, <3>2
    <3>3. CASE d # c
      <4>1. pc'[d] = pc[d]
        BY <2>1, <3>3
      <4>2. CASE m = n
        BY <1>0, <1>00, <2>1, <2>2, <2>6, <4>1, <4>2 DEF Shared, AdapterInv
      <4>3. CASE m # n
        <5>1. pc'[d] # "idle" => instances'[m] = instances[m]
          BY <1>00, <2>1, <3>1, <4>3
        <5> QED BY <4>1, <5>1 DEF Shared, AdapterInv
      <4> QED BY <4>2, <4>3
    <3> QED BY <3>2, <3>3
  <2> QED BY <2>5, <2>8 DEF AdapterInv
<1>4. CASE UseAdapter(c)
  <2>1. /\ pc[c] = "use" /\ UNCHANGED <<instances, overlapped>>
        /\ pc' = [pc EXCEPT ![c] = "done"]
        /\ adapter' = [adapter EXCEPT ![c] = instances[n]]
    BY <1>4 DEF UseAdapter, Goto
  <2>2. \A d \in Calls : Making(d)' => Making(d)
    BY <1>00, <2>1 DEF Making
  <2>3. OneMaker'
    BY <1>0, <2>1, <2>2 DEF OneMaker, AdapterInv
  <2>4. Shared'
    BY <1>0, <1>00, <2>1 DEF Shared, AdapterInv
  <2> QED BY <2>3, <2>4 DEF AdapterInv
<1> QED BY <1>1, <1>2, <1>3, <1>4

LEMMA AdapterInvNext == TypeInv /\ AdapterInv /\ [Next]_vars => AdapterInv'
<1> SUFFICES ASSUME TypeInv, AdapterInv, [Next]_vars PROVE AdapterInv'
  OBVIOUS
<1>1. ASSUME NEW c \in Calls, Route(c) PROVE AdapterInv'
  <2>1. PICK phase \in {"account", "unrouted"} : pc' = [pc EXCEPT ![c] = phase]
    BY <1>1 DEF Route, Goto
  <2>2. PICK r : task' = [task EXCEPT ![c] = r]
    BY <1>1 DEF Route
  <2>3. \A d \in Calls \ {c} : task'[d] = task[d]
    BY <2>2 DEF TypeInv, TypeOK
  <2>4. pc[c] = "idle" /\ UNCHANGED <<instances, adapter, overlapped>>
    BY <1>1 DEF Route, registryVars
  <2> QED BY <2>1, <2>3, <2>4, AdapterInvOther
<1>2. ASSUME NEW c \in Calls,
             \/ FindAccount(c) \/ CreateAccount(c) \/ FetchAccount(c) \/ BeginSnapshot(c)
             \/ ReadCell(c) \/ WriteCell(c) \/ CopyField(c)
      PROVE  AdapterInv'
  <2>1. PICK phase \in Recording \union {"snapshot", "copy", "look"} :
          pc' = [pc EXCEPT ![c] = phase]
    BY <1>2 DEF FindAccount, CreateAccount, FetchAccount, BeginSnapshot, ReadCell, WriteCell,
                CopyField, Goto, Recording
  <2>2. pc[c] \in {"account", "snapshot", "copy"} \union Recording
    BY <1>2 DEF FindAccount, CreateAccount, FetchAccount, BeginSnapshot, ReadCell, WriteCell,
                CopyField, Recording
  <2>3. UNCHANGED <<task, instances, adapter>> /\ overlapped \subseteq overlapped'
    BY <1>2 DEF FindAccount, CreateAccount, FetchAccount, BeginSnapshot, ReadCell, WriteCell,
                CopyField, registryVars
  <2> QED BY <2>1, <2>2, <2>3, AdapterInvOther DEF Recording
<1>3. ASSUME NEW c \in Calls,
             FindAdapter(c) \/ MakeAdapter(c) \/ StoreAdapter(c) \/ UseAdapter(c)
      PROVE  AdapterInv'
  BY <1>3, AdapterInvGet
<1>4. ASSUME NEW r \in Registrations, Register(r[1], r[2]) PROVE AdapterInv'
  BY <1>4 DEF Register, AdapterInv, OneMaker, Shared, Making
<1>5. CASE UNCHANGED vars
  BY <1>5 DEF vars, registryVars, AdapterInv, OneMaker, Shared, Making
<1> QED BY <1>1, <1>2, <1>3, <1>4, <1>5 DEF Next

(* Replacing a factory changes nothing for a provider that has been used,  *)
(* and no call gets an adapter of its own, unless two make one together.   *)
THEOREM CallsShareAnAdapter == Spec => []OneAdapter
<1>1. AdapterInv => OneAdapter
  BY DEF AdapterInv, Shared, OneAdapter
<1>2. Spec => []AdapterInv
  BY TypeInvAlways, AdapterInvInit, AdapterInvNext, PTL DEF Spec
<1> QED BY <1>1, <1>2, PTL

-----------------------------------------------------------------------------
(* The usage of the accounts.  How many of its three cells a call has      *)
(* written, and what it adds to a cell of an account by that.              *)
Before == {"idle", "unrouted", "account", "create"}

Written(c) == CASE pc[c] = "read" -> at[c]
                [] pc[c] = "write" -> at[c] - 1
                [] pc[c] \in Charged -> 3
                [] OTHER -> 0

Place(x) == CASE x = "cost" -> 1 [] x = "count" -> 2 [] OTHER -> 3

Weight(c, x) == CASE x = "cost" -> CostModel[tier[c]]
                  [] x = "count" -> 1
                  [] OTHER -> IF tier[c] = x THEN 1 ELSE 0

Part(a, x, c) ==
    IF Account(task[c]) = a /\ Written(c) >= Place(x) THEN Weight(c, x) ELSE 0

(* What the calls of an account have written, and what those have that     *)
(* overlapped none.                                                        *)
Most(a, x) == SumOf([c \in Calls |-> Part(a, x, c)], Calls)
Least(a, x) == SumOf([c \in Calls |-> IF c \in overlapped THEN 0 ELSE Part(a, x, c)], Calls)

(* A ledger is one of the account whose call made it.                      *)
Owned ==
    /\ \A a \in Accounts : accounts[a] # Null =>
         pc[accounts[a]] \notin Before /\ Account(task[accounts[a]]) = a
    /\ \A c \in Calls : pc[c] \in {"read", "write", "copy"} =>
         pc[held[c]] \notin Before /\ Account(task[held[c]]) = Account(task[c])
    /\ \A c \in Calls : pc[c] \in Before => ledgers[c] = Empty
    /\ \A c \in Calls : pc[c] \notin Before => accounts[Account(task[c])] # Null

(* No ledger shows, and no call is about to write, more than was written.  *)
AtMost ==
    /\ \A c \in Calls : pc[c] \notin Before =>
         \A x \in Cells : ledgers[c][x] <= Most(Account(task[c]), x)
    /\ \A c \in Calls : pc[c] = "write" =>
         seen[c] <= Most(Account(task[c]), Cell(c, at[c]))

(* A busy call that overlapped none is alone with its account.             *)
Alone ==
    \A c, d \in Calls :
        /\ c # d /\ pc[c] \in Busy /\ pc[d] \in Busy
        /\ Account(task[c]) = Account(task[d])
        => c \in overlapped

(* Whoever makes a ledger meets none but overlapped calls.                 *)
NoneBefore ==
    \A c, d \in Calls :
        /\ pc[c] = "create" /\ pc[d] \notin Before
        /\ Account(task[c]) = Account(task[d])
        => d \in overlapped

(* The ledger of an account, and those that calls have in hand, show what  *)
(* the calls have written that overlapped none.                            *)
AtLeast ==
    /\ \A a \in Accounts : accounts[a] # Null =>
         \A x \in Cells : ledgers[accounts[a]][x] >= Least(a, x)
    /\ \A c \in Calls : pc[c] \in {"read", "write"} =>
         \A x \in Cells : ledgers[held[c]][x] >= Least(Account(task[c]), x)
    /\ \A c \in Calls : pc[c] = "write" =>
         seen[c] >= Least(Account(task[c]), Cell(c, at[c]))
    /\ \A c \in Calls : pc[c] \in {"read", "write"} /\ c \notin overlapped =>
         held[c] = accounts[Account(task[c])]

(* While no calls of an account overlap, its tiers add up to its calls and *)
(* their weights to its cost, but for the cells that a call is yet to      *)
(* write.                                                                  *)
Unspoilt(a) == \A c \in Calls :
    pc[c] \in Busy \union Charged /\ Account(task[c]) = a => c \notin overlapped

Tally(l) == l["standard"] + l["advanced"] + l["frontier"]
Worth(l) == l["standard"] * CostModel["standard"] + l["advanced"] * CostModel["advanced"]
            + l["frontier"] * CostModel["frontier"]

AddsUp(l) == l["count"] = Tally(l) /\ l["cost"] = Worth(l)

Shows(c, l) ==
    /\ pc[c] \in {"read", "write"} =>
         /\ l["count"] = Tally(l) + (IF Written(c) = 2 THEN 1 ELSE 0)
         /\ l["cost"] = Worth(l) + (IF Written(c) \in {1, 2} THEN CostModel[tier[c]] ELSE 0)
    /\ pc[c] = "write" => seen[c] = l[Cell(c, at[c])]
    /\ pc[c] = "copy" =>
         /\ held[c] = accounts[Account(task[c])]
         /\ at[c] >= 1 => snapshot[c]["cost"] = l["cost"]
         /\ at[c] >= 2 => snapshot[c]["count"] = l["count"]
    /\ pc[c] \in Charged => l[tier[c]] > 0
    /\ pc[c] \in Charged \ {"snapshot", "copy"} =>
         AddsUp(snapshot[c]) /\ snapshot[c][tier[c]] > 0

Records(a, c) == pc[c] \in {"read", "write"} /\ Account(task[c]) = a

Balanced(a) ==
    /\ (\A c \in Calls : ~Records(a, c)) => AddsUp(Usage(a))
    /\ \A c \in Calls : Account(task[c]) = a => Shows(c, Usage(a))

Faithful == \A a \in Accounts : Unspoilt(a) => Balanced(a)

UsageInv == Owned /\ AtMost /\ Alone /\ NoneBefore /\ AtLeast /\ Faithful

-----------------------------------------------------------------------------
(* What the steps of a call have in common.                                *)
Acts(c) ==
    \/ Route(c) \/ FindAccount(c) \/ CreateAccount(c) \/ FetchAccount(c)
    \/ ReadCell(c) \/ WriteCell(c) \/ BeginSnapshot(c) \/ CopyField(c)
    \/ FindAdapter(c) \/ MakeAdapter(c) \/ StoreAdapter(c) \/ UseAdapter(c)

Dispatches(c) == FindAdapter(c) \/ MakeAdapter(c) \/ StoreAdapter(c) \/ UseAdapter(c)

LEMMA DispatchStep ==
    ASSUME NEW c \in Calls, Dispatches(c)
    PROVE  /\ pc[c] \in {"look", "make", "store", "use"}
           /\ \E phase \in {"make", "store", "use", "done", "undispatched"} :
                pc' = [pc EXCEPT ![c] = phase]
           /\ UNCHANGED <<task, tier, ledgerVars>> /\ overlapped \subseteq overlapped'
BY DEF Dispatches, FindAdapter, MakeAdapter, StoreAdapter, UseAdapter, Goto

LEMMA OthersKept ==
    ASSUME TypeInv, NEW c \in Calls, Acts(c)
    PROVE  \A d \in Calls \ {c} :
             /\ pc'[d] = pc[d] /\ task'[d] = task[d] /\ tier'[d] = tier[d]
             /\ held'[d] = held[d] /\ at'[d] = at[d] /\ seen'[d] = seen[d]
             /\ snapshot'[d] = snapshot[d]
<1>a. TypeOK
  BY DEF TypeInv
<1>1. CASE Route(c)
  BY <1>a, <1>1 DEF Route, Goto, ledgerVars, TypeOK
<1>2. CASE FindAccount(c) \/ CreateAccount(c) \/ FetchAccount(c) \/ BeginSnapshot(c)
  BY <1>a, <1>2
     DEF FindAccount, CreateAccount, FetchAccount, BeginSnapshot, Goto, ledgerVars, TypeOK
<1>3. CASE ReadCell(c) \/ WriteCell(c) \/ CopyField(c)
  BY <1>a, <1>3 DEF ReadCell, WriteCell, CopyField, Goto, TypeOK
<1>4. CASE Dispatches(c)
  BY <1>a, <1>4, DispatchStep DEF ledgerVars, TypeOK
<1> QED BY <1>1, <1>2, <1>3, <1>4 DEF Acts, Dispatches

LEMMA Forward ==
    ASSUME TypeInv, NEW c \in Calls, Acts(c)
    PROVE  /\ pc[c] \notin Before => pc'[c] \notin Before
           /\ pc[c] \in Busy \union Charged => pc'[c] \in Busy \union Charged
           /\ pc'[c] \in Busy => pc[c] \in Busy \/ FindAccount(c)
           /\ pc[c] # "idle" => task'[c] = task[c] /\ tier'[c] = tier[c]
           /\ ~Route(c) => pc[c] # "idle"
           /\ overlapped \subseteq overlapped'
           /\ ~WriteCell(c) => ledgers' = ledgers
           /\ ~CreateAccount(c) => accounts' = accounts
           /\ ~WriteCell(c) => Written(c)' = Written(c)
<1>a. TypeOK /\ Holds
  BY DEF TypeInv
<1> USE DEF Before, Busy, Charged, Recording
<1>1. CASE Route(c)
  <2>1. pc[c] = "idle" /\ pc'[c] \in {"account", "unrouted"}
    BY <1>a, <1>1 DEF Route, Goto, TypeOK
  <2> QED BY <1>1, <2>1 DEF Route, ledgerVars, Written, FindAccount, CreateAccount, WriteCell
<1>2. CASE FindAccount(c)
  <2>1. pc[c] = "account" /\ pc'[c] \in {"fetch", "create"}
    BY <1>a, <1>2 DEF FindAccount, Goto, TypeOK
  <2> QED BY <1>2, <2>1 DEF FindAccount, ledgerVars, Written
<1>3. CASE CreateAccount(c)
  <2>1. pc[c] = "create" /\ pc'[c] = "fetch"
    BY <1>a, <1>3 DEF CreateAccount, Goto, TypeOK
  <2> QED BY <1>3, <2>1 DEF CreateAccount, Written
<1>4. CASE FetchAccount(c)
  <2>1. pc[c] = "fetch" /\ pc'[c] = "read" /\ at'[c] = 0
    BY <1>a, <1>4 DEF FetchAccount, Goto, TypeOK
  <2> QED BY <1>4, <2>1 DEF FetchAccount, Written
<1>5. CASE ReadCell(c)
  <2>1. pc[c] = "read" /\ pc'[c] = "write" /\ at'[c] = at[c] + 1 /\ at[c] \in 0..3
    BY <1>a, <1>5 DEF ReadCell, Goto, TypeOK
  <2>2. Written(c)' = Written(c)
    BY <2>1 DEF Written
  <2> QED BY <1>5, <2>1, <2>2 DEF ReadCell
<1>6. CASE WriteCell(c)
  <2>1. pc[c] = "write" /\ pc'[c] \in {"read", "snapshot"}
    BY <1>a, <1>6 DEF WriteCell, Goto, TypeOK
  <2> QED BY <1>6, <2>1 DEF WriteCell
<1>7. CASE BeginSnapshot(c)
  <2>1. pc[c] = "snapshot" /\ pc'[c] = "copy"
    BY <1>a, <1>7 DEF BeginSnapshot, Goto, TypeOK
  <2> QED BY <1>7, <2>1 DEF BeginSnapshot, Written
<1>8. CASE CopyField(c)
  <2>1. pc[c] = "copy" /\ pc'[c] \in {"copy", "look"}
    BY <1>a, <1>8 DEF CopyField, Goto, TypeOK
  <2> QED BY <1>8, <2>1 DEF CopyField, Written
<1>9. CASE Dispatches(c)
  <2>1. /\ pc[c] \in {"look", "make", "store", "use"}
        /\ pc'[c] \in {"make", "store", "use", "done", "undispatched"}
    BY <1>a, <1>9, DispatchStep DEF TypeOK
  <2> QED BY <1>9, <2>1, DispatchStep DEF ledgerVars, Written
<1> QED BY <1>1, <1>2, <1>3, <1>4, <1>5, <1>6, <1>7, <1>8, <1>9 DEF Acts, Dispatches

(* What a call writes to a ledger.                                         *)
LEMMA WriteStep ==
    ASSUME TypeInv, NEW c \in Calls, WriteCell(c)
    PROVE  /\ pc[c] = "write" /\ at[c] \in 1..3 /\ held[c] \in Calls
           /\ at' = at /\ held' = held /\ accounts' = accounts /\ snapshot' = snapshot
           /\ task' = task /\ tier' = tier /\ overlapped' = overlapped
           /\ pc'[c] = (IF at[c] < 3 THEN "read" ELSE "snapshot")
           /\ Cell(c, at[c]) \in Cells /\ Place(Cell(c, at[c])) = at[c]
           /\ Addend(c, at[c]) = Weight(c, Cell(c, at[c]))
           /\ ledgers'[held[c]][Cell(c, at[c])] = seen[c] + Addend(c, at[c])
           /\ \A d \in Calls, x \in Cells :
                ~(d = held[c] /\ x = Cell(c, at[c])) => ledgers'[d][x] = ledgers[d][x]
<1>a. TypeOK /\ Holds
  BY DEF TypeInv
<1>1. /\ pc[c] = "write" /\ at[c] \in 1..3 /\ held[c] \in Calls
      /\ at' = at /\ held' = held /\ accounts' = accounts /\ snapshot' = snapshot
      /\ task' = task /\ tier' = tier /\ overlapped' = overlapped
      /\ pc'[c] = (IF at[c] < 3 THEN "read" ELSE "snapshot")
  BY <1>a DEF WriteCell, Goto, TypeOK, Holds, registryVars
<1>2. Cell(c, at[c]) \in Cells /\ tier[c] \in Tiers
  BY <1>a, <1>1, CellsOK DEF TypeOK
<1>3. at[c] = 1 \/ at[c] = 2 \/ at[c] = 3
  BY <1>1
<1>4. Place(Cell(c, at[c])) = at[c] /\ Addend(c, at[c]) = Weight(c, Cell(c, at[c]))
  BY <1>2, <1>3 DEF Place, Cell, Addend, Weight, Tiers
<1>5. ledgers' = [ledgers EXCEPT ![held[c]][Cell(c, at[c])] = seen[c] + Addend(c, at[c])]
  BY DEF WriteCell
<1>6. /\ ledgers'[held[c]][Cell(c, at[c])] = seen[c] + Addend(c, at[c])
      /\ \A d \in Calls, x \in Cells :
           ~(d = held[c] /\ x = Cell(c, at[c])) => ledgers'[d][x] = ledgers[d][x]
  <2> DEFINE h == held[c]  y == Cell(c, at[c])  v == seen[c] + Addend(c, at[c])
  <2>1. ledgers' = [ledgers EXCEPT ![h][y] = v] /\ h \in Calls /\ y \in Cells
    BY <1>1, <1>2, <1>5
  <2>2. ledgers \in [Calls -> [Cells -> Nat]]
    BY <1>a DEF TypeOK
  <2> HIDE DEF h, y, v
  <2>3. ledgers'[h][y] = v
    BY <2>1, <2>2
  <2>4. \A d \in Calls, x \in Cells : ~(d = h /\ x = y) => ledgers'[d][x] = ledgers[d][x]
    BY <2>1, <2>2
  <2> QED BY <2>3, <2>4 DEF h, y, v
<1> QED BY <1>1, <1>2, <1>4, <1>6

-----------------------------------------------------------------------------
(* The sums.                                                               *)
LEMMA PartType ==
    ASSUME TypeOK
    PROVE  \A c \in Calls : \A a, x : Weight(c, x) \in Nat /\ Part(a, x, c) \in Nat
<1>1. \A c \in Calls : \A x : Weight(c, x) \in Nat
  BY CostModelAssumption DEF TypeOK, Weight
<1> QED BY <1>1 DEF Part

LEMMA SumsType ==
    ASSUME TypeOK, NEW a, NEW x
    PROVE  Most(a, x) \in Nat /\ Least(a, x) \in Nat
<1> DEFINE f == [c \in Calls |-> Part(a, x, c)]
           g == [c \in Calls |-> IF c \in overlapped THEN 0 ELSE Part(a, x, c)]
<1>1. \A c \in Calls : f[c] \in Nat /\ g[c] \in Nat
  BY PartType
<1>2. IsFiniteSet(Calls)
  BY OrchestratorAssumption
<1> HIDE DEF f, g
<1>3. SumOf(f, Calls) \in Nat /\ SumOf(g, Calls) \in Nat
  BY <1>1, <1>2, SumType
<1> QED BY <1>3 DEF f, g, Most, Least

(* A step that writes no cell.                                             *)
LEMMA SumsKept ==
    ASSUME TypeOK, TypeOK', overlapped \subseteq overlapped',
           \A c \in Calls : \A a, x : Part(a, x, c)' = Part(a, x, c)
    PROVE  \A a, x : /\ Most(a, x)' = Most(a, x) /\ Least(a, x)' <= Least(a, x)
                     /\ Least(a, x)' \in Nat
<1> SUFFICES ASSUME NEW a, NEW x
             PROVE  /\ Most(a, x)' = Most(a, x) /\ Least(a, x)' <= Least(a, x)
                    /\ Least(a, x)' \in Nat
  OBVIOUS
<1> DEFINE g == [c \in Calls |-> IF c \in overlapped THEN 0 ELSE Part(a, x, c)]
           h == [c \in Calls |-> IF c \in overlapped' THEN 0 ELSE Part(a, x, c)]
<1>1. [c \in Calls |-> Part(a, x, c)'] = [c \in Calls |-> Part(a, x, c)]
  OBVIOUS
<1>2. [c \in Calls |-> IF c \in overlapped' THEN 0 ELSE Part(a, x, c)'] = h
  OBVIOUS
<1>3. \A c \in Calls : g[c] \in Nat /\ h[c] \in Nat /\ h[c] <= g[c]
  BY PartType
<1>4. Most(a, x)' = Most(a, x)
  BY <1>1 DEF Most
<1>5. Least(a, x) = SumOf(g, Calls) /\ Least(a, x)' = SumOf(h, Calls)
  BY <1>2 DEF Least
<1>6. IsFiniteSet(Calls)
  BY OrchestratorAssumption
<1> HIDE DEF g, h
<1>7. SumOf(h, Calls) <= SumOf(g, Calls) /\ SumOf(h, Calls) \in Nat
  BY <1>3, <1>6, SumMonotone, SumType
<1> QED BY <1>4, <1>5, <1>7

LEMMA PartsKept ==
    ASSUME TypeInv, NEW c \in Calls, Acts(c), ~WriteCell(c)
    PROVE  \A d \in Calls : \A a, x : Part(a, x, d)' = Part(a, x, d)
<1> SUFFICES ASSUME NEW d \in Calls, NEW a, NEW x PROVE Part(a, x, d)' = Part(a, x, d)
  OBVIOUS
<1>1. CASE d # c
  <2>1. /\ pc'[d] = pc[d] /\ task'[d] = task[d] /\ tier'[d] = tier[d] /\ at'[d] = at[d]
    BY <1>1, OthersKept
  <2>2. Written(d)' = Written(d) /\ Weight(d, x)' = Weight(d, x)
    BY <2>1 DEF Written, Weight
  <2> QED BY <2>1, <2>2 DEF Part
<1>2. CASE d = c /\ pc[c] # "idle"
  <2>1. task'[c] = task[c] /\ tier'[c] = tier[c] /\ Written(c)' = Written(c)
    BY <1>2, Forward
  <2>2. Weight(c, x)' = Weight(c, x)
    BY <2>1 DEF Weight
  <2> QED BY <1>2, <2>1, <2>2 DEF Part
<1>3. CASE d = c /\ pc[c] = "idle"
  <2>1. Written(c) = 0 /\ Written(c)' = 0
    BY <1>3, Forward DEF Written, Charged
  <2>2. Place(x) \in {1, 2, 3}
    BY DEF Place
  <2> QED BY <1>3, <2>1, <2>2 DEF Part
<1> QED BY <1>1, <1>2, <1>3

(* A cell of an account is written.                                        *)
LEMMA SumsWritten ==
    ASSUME TypeInv, TypeInv', NEW c \in Calls, WriteCell(c),
           NEW a \in Accounts, NEW x \in Cells
    PROVE  LET more == IF a = Account(task[c]) /\ x = Cell(c, at[c])
                       THEN Addend(c, at[c]) ELSE 0
           IN /\ Most(a, x)' = Most(a, x) + more
              /\ Least(a, x)' = Least(a, x) + (IF c \in overlapped THEN 0 ELSE more)
<1> DEFINE more == IF a = Account(task[c]) /\ x = Cell(c, at[c])
                   THEN Addend(c, at[c]) ELSE 0
           sure == IF c \in overlapped THEN 0 ELSE more
           f == [d \in Calls |-> Part(a, x, d)]
           f1 == [d \in Calls |-> Part(a, x, d)']
           g == [d \in Calls |-> IF d \in overlapped THEN 0 ELSE Part(a, x, d)]
           g1 == [d \in Calls |-> IF d \in overlapped THEN 0 ELSE Part(a, x, d)']
<1>1. Acts(c) /\ overlapped' = overlapped
  BY WriteStep DEF Acts
<1>2. \A d \in Calls \ {c} : Part(a, x, d)' = Part(a, x, d)
  <2> SUFFICES ASSUME NEW d \in Calls \ {c} PROVE Part(a, x, d)' = Part(a, x, d)
    OBVIOUS
  <2>1. pc'[d] = pc[d] /\ task'[d] = task[d] /\ tier'[d] = tier[d] /\ at'[d] = at[d]
    BY <1>1, OthersKept
  <2>2. Written(d)' = Written(d) /\ Weight(d, x)' = Weight(d, x)
    BY <2>1 DEF Written, Weight
  <2> QED BY <2>1, <2>2 DEF Part
<1>3. Part(a, x, c)' = Part(a, x, c) + more
  <2>1. /\ pc[c] = "write" /\ at[c] \in 1..3 /\ at' = at /\ task' = task /\ tier' = tier
        /\ pc'[c] = (IF at[c] < 3 THEN "read" ELSE "snapshot")
        /\ Cell(c, at[c]) \in Cells /\ Place(Cell(c, at[c])) = at[c]
        /\ Addend(c, at[c]) = Weight(c, Cell(c, at[c]))
    BY WriteStep
  <2>2. Written(c) = at[c] - 1 /\ Written(c)' = at[c]
    BY <2>1 DEF Written, Charged
  <2>3. Weight(c, x)' = Weight(c, x) /\ Place(x) \in {1, 2, 3} /\ Weight(c, x) \in Nat
    BY <2>1, PartType DEF Weight, Place, TypeInv
  <2>4. CASE Account(task[c]) # a
    BY <2>1, <2>4 DEF Part
  <2>5. CASE Account(task[c]) = a /\ x = Cell(c, at[c])
    <3>1. Part(a, x, c) = 0 /\ Part(a, x, c)' = Weight(c, x)
      BY <2>1, <2>2, <2>3, <2>5 DEF Part
    <3> QED BY <2>1, <2>3, <2>5, <3>1
  <2>6. CASE Account(task[c]) = a /\ x # Cell(c, at[c])
    <3>1. Place(x) # at[c] \/ Weight(c, x) = 0
      <4>1. tier[c] \in Tiers
        BY DEF TypeInv, TypeOK
      <4>2. at[c] = 1 \/ at[c] = 2 \/ at[c] = 3
        BY <2>1
      <4> QED BY <2>6, <4>1, <4>2 DEF Place, Cell, Cells, Weight, Tiers
    <3> QED BY <2>1, <2>2, <2>3, <2>6, <3>1 DEF Part
  <2> QED BY <2>4, <2>5, <2>6
<1>4. \A d \in Calls : f[d] \in Nat /\ g[d] \in Nat
  BY PartType DEF TypeInv
<1>5. more \in Nat
  BY WriteStep, PartType DEF TypeInv
<1>6. /\ \A d \in Calls \ {c} : f1[d] = f[d] /\ g1[d] = g[d]
      /\ f1[c] = f[c] + more /\ g1[c] = g[c] + sure
  <2> HIDE DEF more
  <2>1. Part(a, x, c) \in Nat
    BY PartType DEF TypeInv
  <2> QED BY <1>2, <1>3, <1>5, <2>1
<1>7. \A d \in Calls : f1[d] \in Nat /\ g1[d] \in Nat
  <2> HIDE DEF f, g, f1, g1, more
  <2> QED BY <1>4, <1>5, <1>6
<1>8. /\ Most(a, x) = SumOf(f, Calls) /\ Most(a, x)' = SumOf(f1, Calls)
      /\ Least(a, x) = SumOf(g, Calls) /\ Least(a, x)' = SumOf(g1, Calls)
  BY <1>1 DEF Most, Least
<1>9. Most(a, x) \in Nat /\ Least(a, x) \in Nat
  BY SumsType DEF TypeInv
<1>10. IsFiniteSet(Calls)
  BY OrchestratorAssumption
<1>11. f[c] \in Nat /\ g[c] \in Nat /\ sure \in Nat
  BY <1>4, <1>5
<1> HIDE DEF f, g, f1, g1, more, sure
<1>12. /\ SumOf(f1, Calls) = SumOf(f, Calls) + (f1[c] - f[c])
       /\ SumOf(g1, Calls) = SumOf(g, Calls) + (g1[c] - g[c])
  BY <1>4, <1>6, <1>7, <1>10, SumChange
<1>13. Most(a, x)' = Most(a, x) + more /\ Least(a, x)' = Least(a, x) + sure
  BY <1>5, <1>6, <1>8, <1>9, <1>11, <1>12
<1> QED BY <1>13 DEF more, sure

(* Nobody has written, or only calls that overlapped another one.          *)
LEMMA LeastZero ==
    ASSUME TypeOK, NEW a, NEW x,
           \A c \in Calls : pc[c] \notin Before /\ Account(task[c]) = a => c \in overlapped
    PROVE  Least(a, x) = 0
<1> DEFINE g == [c \in Calls |-> IF c \in overlapped THEN 0 ELSE Part(a, x, c)]
<1>1. \A c \in Calls : g[c] = 0
  <2> SUFFICES ASSUME NEW c \in Calls, c \notin overlapped PROVE Part(a, x, c) = 0
    OBVIOUS
  <2>1. Account(task[c]) = a => Written(c) = 0
    BY DEF Written, Before, Charged
  <2>2. Place(x) \in {1, 2, 3}
    BY DEF Place
  <2> QED BY <2>1, <2>2 DEF Part
<1>2. IsFiniteSet(Calls)
  BY OrchestratorAssumption
<1>3. Least(a, x) = SumOf(g, Calls)
  BY DEF Least
<1> HIDE DEF g
<1>4. SumOf(g, Calls) = SumOf(g, {})
  BY <1>1, <1>2, SumSupport
<1> QED BY <1>3, <1>4, SumEmpty

-----------------------------------------------------------------------------
(* Every step keeps the parts of the invariant.                            *)
LEMMA OwnedStep ==
    ASSUME TypeInv, TypeInv', Owned, NEW c \in Calls, Acts(c)
    PROVE  Owned'
<1>a. TypeOK /\ TypeOK' /\ Routed'
  BY DEF TypeInv
<1>b. \A d \in Calls : pc[d] \notin Before => pc'[d] \notin Before /\ task'[d] = task[d]
  BY OthersKept, Forward DEF Before
<1>c. \A d \in Calls : pc[d] \notin Before => Account(task[d]) \in Accounts
  BY TaskOK DEF Before
<1>1. ASSUME NEW a \in Accounts, accounts'[a] # Null
      PROVE  pc'[accounts'[a]] \notin Before /\ Account(task'[accounts'[a]]) = a
  <2>1. CASE accounts'[a] = accounts[a]
    <3>1. accounts[a] \in Calls
      BY <1>a, <1>1, <2>1 DEF TypeOK
    <3> QED BY <1>1, <1>b, <2>1, <3>1 DEF Owned
  <2>2. CASE accounts'[a] # accounts[a]
    <3>1. CreateAccount(c)
      BY <2>2, Forward
    <3>2. /\ accounts' = [accounts EXCEPT ![Account(task[c])] = c]
          /\ pc'[c] = "fetch" /\ task' = task
      BY <1>a, <3>1 DEF CreateAccount, Goto, TypeOK
    <3>3. a = Account(task[c]) /\ accounts'[a] = c
      BY <1>a, <2>2, <3>2 DEF TypeOK
    <3> QED BY <3>2, <3>3 DEF Before
  <2> QED BY <2>1, <2>2
<1>2. ASSUME NEW d \in Calls, pc'[d] \in {"read", "write", "copy"}
      PROVE  pc'[held'[d]] \notin Before /\ Account(task'[held'[d]]) = Account(task'[d])
  <2>1. CASE pc[d] \in {"read", "write", "copy"} /\ held'[d] = held[d]
    <3>1. held[d] \in Calls
      BY <1>a, <2>1 DEF TypeOK, TypeInv, Holds
    <3> QED BY <1>b, <2>1, <3>1 DEF Owned, Before
  <2>2. CASE ~(pc[d] \in {"read", "write", "copy"} /\ held'[d] = held[d])
    <3>1. d = c
      BY <1>2, <2>2, OthersKept
    <3>2. FetchAccount(c) \/ BeginSnapshot(c)
      <4>1. ~Dispatches(c)
        BY <1>a, <1>2, <3>1, DispatchStep DEF TypeOK
      <4>2. ~Route(c) /\ ~FindAccount(c) /\ ~CreateAccount(c)
        BY <1>a, <1>2, <3>1 DEF Route, FindAccount, CreateAccount, Goto, TypeOK
      <4>3. ~ReadCell(c) /\ ~WriteCell(c) /\ ~CopyField(c)
        BY <2>2, <3>1 DEF ReadCell, WriteCell, CopyField
      <4> QED BY <4>1, <4>2, <4>3 DEF Acts, Dispatches
    <3>3. /\ held'[c] = accounts[Account(task[c])] /\ pc[c] \in {"fetch", "snapshot"}
          /\ accounts' = accounts /\ task' = task
      BY <1>a, <3>2 DEF FetchAccount, BeginSnapshot, TypeOK
    <3>4. Account(task[c]) \in Accounts /\ held'[c] # Null
      BY <1>c, <3>3 DEF Owned, Before
    <3> QED BY <1>1, <3>1, <3>3, <3>4
  <2> QED BY <2>1, <2>2
<1>3. ASSUME NEW d \in Calls, pc'[d] \in Before PROVE ledgers'[d] = Empty
  <2>1. pc[d] \in Before /\ ledgers[d] = Empty
    BY <1>3, <1>b DEF Owned
  <2>2. CASE ~WriteCell(c)
    BY <2>1, <2>2, Forward
  <2>3. CASE WriteCell(c)
    <3>1. d # held[c]
      BY <2>1, <2>3, WriteStep DEF Owned
    <3>2. \A x \in Cells : ledgers'[d][x] = ledgers[d][x]
      BY <2>3, <3>1, WriteStep
    <3>3. ledgers[d] \in [Cells -> Nat] /\ ledgers'[d] \in [Cells -> Nat]
      BY <1>a DEF TypeOK
    <3> QED BY <2>1, <3>2, <3>3 DEF Empty
  <2> QED BY <2>2, <2>3
<1>4. ASSUME NEW d \in Calls, pc'[d] \notin Before PROVE accounts'[Account(task'[d])] # Null
  <2>1. \A a \in Accounts : accounts[a] # Null => accounts'[a] # Null
    <3>1. CASE CreateAccount(c)
      BY <1>a, <3>1, OrchestratorAssumption DEF CreateAccount, TypeOK
    <3>2. CASE ~CreateAccount(c)
      BY <3>2, Forward
    <3> QED BY <3>1, <3>2
  <2>2. CASE pc[d] \notin Before
    BY <1>b, <1>c, <2>1, <2>2 DEF Owned
  <2>3. CASE pc[d] \in Before
    <3>1. d = c
      BY <1>4, <2>3, OthersKept
    <3>2. FindAccount(c) \/ CreateAccount(c)
      <4>1. ~Dispatches(c)
        BY <2>3, <3>1, DispatchStep DEF Before
      <4>2. ~Route(c)
        BY <1>a, <1>4, <3>1 DEF Route, Goto, TypeOK, Before
      <4>3. ~(ReadCell(c) \/ WriteCell(c) \/ CopyField(c) \/ FetchAccount(c) \/ BeginSnapshot(c))
        BY <2>3, <3>1 DEF ReadCell, WriteCell, CopyField, FetchAccount, BeginSnapshot, Before
      <4> QED BY <4>1, <4>2, <4>3 DEF Acts, Dispatches
    <3>3. task'[c] = task[c] /\ Account(task[c]) \in Accounts
      BY <3>2, Forward, TaskOK DEF FindAccount, CreateAccount
    <3>4. CASE FindAccount(c)
      BY <1>a, <1>4, <3>1, <3>3, <3>4 DEF FindAccount, Known, Goto, TypeOK, Before, ledgerVars
    <3>5. CASE CreateAccount(c)
      BY <1>a, <3>1, <3>3, <3>5, OrchestratorAssumption DEF CreateAccount, TypeOK
    <3> QED BY <3>2, <3>4, <3>5
  <2> QED BY <2>2, <2>3
<1> QED BY <1>1, <1>2, <1>3, <1>4 DEF Owned

LEMMA AloneStep ==
    ASSUME TypeInv, Alone, NEW c \in Calls, Acts(c)
    PROVE  Alone'
<1> SUFFICES ASSUME NEW d \in Calls, NEW e \in Calls, d # e, pc'[d] \in Busy, pc'[e] \in Busy,
                    Account(task'[d]) = Account(task'[e])
             PROVE  d \in overlapped'
  BY DEF Alone
<1>1. overlapped \subseteq overlapped'
  BY Forward
<1>2. \A b \in Calls : pc'[b] \in Busy /\ pc[b] \in Busy => task'[b] = task[b]
  BY OthersKept, Forward DEF Busy, Recording
<1>3. CASE pc[d] \in Busy /\ pc[e] \in Busy
  BY <1>1, <1>2, <1>3 DEF Alone
<1>4. CASE ~(pc[d] \in Busy /\ pc[e] \in Busy)
  <2>1. FindAccount(c) /\ (c = d \/ c = e)
    BY <1>4, OthersKept, Forward
  <2>2. task' = task /\ pc[c] = "account"
    BY <2>1 DEF FindAccount
  <2>3. \A b \in Calls : b # c /\ pc'[b] \in Busy => pc[b] \in Busy
    BY OthersKept
  <2>4. Of(Account(task[c]), Busy) # {} =>
          c \in overlapped' /\ Of(Account(task[c]), Busy) \subseteq overlapped'
    BY <2>1 DEF FindAccount
  <2> QED BY <2>1, <2>2, <2>3, <2>4 DEF Of
<1> QED BY <1>3, <1>4

LEMMA NoneBeforeStep ==
    ASSUME TypeInv, Owned, Alone, NoneBefore, NEW c \in Calls, Acts(c)
    PROVE  NoneBefore'
<1> SUFFICES ASSUME NEW d \in Calls, NEW e \in Calls, pc'[d] = "create", pc'[e] \notin Before,
                    Account(task'[d]) = Account(task'[e])
             PROVE  e \in overlapped'
  BY DEF NoneBefore
<1>a. TypeOK
  BY DEF TypeInv
<1>1. overlapped \subseteq overlapped'
  BY Forward
<1>2. \A b \in Calls : pc[b] # "idle" => task'[b] = task[b]
  BY OthersKept, Forward
<1>3. pc[d] = "create" \/ (d = c /\ FindAccount(c) /\ pc[c] = "account"
                           /\ accounts[Account(task[c])] = Null)
  <2>1. CASE d # c
    BY <2>1, OthersKept
  <2>2. CASE d = c
    <3>1. FindAccount(c)
      <4>1. ~Dispatches(c)
        BY <1>a, <2>2, DispatchStep DEF TypeOK
      <4>2. ~(Route(c) \/ CreateAccount(c) \/ ReadCell(c) \/ WriteCell(c) \/ CopyField(c)
              \/ FetchAccount(c) \/ BeginSnapshot(c))
        BY <1>a, <2>2 DEF Route, CreateAccount, ReadCell, WriteCell, CopyField, FetchAccount,
                          BeginSnapshot, Goto, TypeOK
      <4> QED BY <4>1, <4>2 DEF Acts, Dispatches
    <3> QED BY <1>a, <2>2, <3>1 DEF FindAccount, Goto, Known, TypeOK
  <2> QED BY <2>1, <2>2
<1>4. pc[e] \notin Before \/ (e = c /\ pc[e] # "idle"
                              /\ (FindAccount(c) \/ (CreateAccount(c) /\ pc[c] = "create")))
  <2>1. CASE e # c
    BY <2>1, OthersKept
  <2>2. CASE e = c /\ pc[e] \in Before
    <3>1. ~Dispatches(c)
      BY <2>2, DispatchStep DEF Before
    <3>2. ~Route(c)
      BY <1>a, <2>2 DEF Route, Goto, TypeOK, Before
    <3>3. ~(ReadCell(c) \/ WriteCell(c) \/ CopyField(c) \/ FetchAccount(c) \/ BeginSnapshot(c))
      BY <2>2 DEF ReadCell, WriteCell, CopyField, FetchAccount, BeginSnapshot, Before
    <3>4. FindAccount(c) \/ CreateAccount(c)
      BY <3>1, <3>2, <3>3 DEF Acts, Dispatches
    <3> QED BY <2>2, <3>4 DEF FindAccount, CreateAccount
  <2> QED BY <2>1, <2>2
<1>5. pc[d] # "idle" /\ pc[e] # "idle" /\ Account(task[d]) = Account(task[e])
  <2>1. pc[d] # "idle" /\ pc[e] # "idle"
    BY <1>3, <1>4 DEF Before
  <2> QED BY <1>2, <2>1
<1>6. d # e
  BY DEF Before
<1>7. CASE pc[d] = "create"
  <2>1. CASE pc[e] \notin Before
    BY <1>1, <1>5, <1>7, <2>1 DEF NoneBefore
  <2>2. CASE e = c /\ FindAccount(c)
    <3>1. d \in Of(Account(task[c]), Busy)
      BY <1>5, <1>7, <2>2 DEF Of, Busy, Recording
    <3> QED BY <2>2, <3>1 DEF FindAccount
  <2>3. CASE e = c /\ pc[c] = "create"
    BY <1>1, <1>5, <1>6, <1>7, <2>3 DEF Alone, Busy, Recording
  <2> QED BY <1>4, <2>1, <2>2, <2>3
<1>8. CASE d = c /\ FindAccount(c) /\ accounts[Account(task[c])] = Null
  <2>1. pc[e] \notin Before
    BY <1>4, <1>6, <1>8
  <2> QED BY <1>5, <1>8, <2>1 DEF Owned
<1> QED BY <1>3, <1>7, <1>8

LEMMA AtMostStep ==
    ASSUME TypeInv, TypeInv', Owned, AtMost, NEW c \in Calls, Acts(c)
    PROVE  AtMost'
<1>a. TypeOK /\ TypeOK'
  BY DEF TypeInv
<1>b. \A d \in Calls : pc[d] # "idle" => task'[d] = task[d] /\ tier'[d] = tier[d]
  BY OthersKept, Forward
<1>c. \A a, x : Most(a, x) \in Nat
  BY <1>a, SumsType
<1>d. \A d \in Calls : pc[d] # "idle" => Account(task[d]) \in Accounts
  BY TaskOK
<1>1. CASE WriteCell(c)
  <2> DEFINE A == Account(task[c])  X == Cell(c, at[c])  n == Addend(c, at[c])
  <2>1. /\ pc[c] = "write" /\ held[c] \in Calls /\ at' = at /\ X \in Cells
        /\ task' = task /\ tier' = tier /\ n \in Nat
        /\ ledgers'[held[c]][X] = seen[c] + n
        /\ \A d \in Calls, x \in Cells :
             ~(d = held[c] /\ x = X) => ledgers'[d][x] = ledgers[d][x]
    BY <1>1, <1>a, WriteStep, PartType
  <2>2. \A a \in Accounts, x \in Cells :
          Most(a, x)' = Most(a, x) + (IF a = A /\ x = X THEN n ELSE 0)
    BY <1>1, SumsWritten
  <2>3. A \in Accounts /\ Account(task[held[c]]) = A /\ pc[held[c]] \notin Before
    BY <2>1, <1>d DEF Owned
  <2>4. seen[c] <= Most(A, X) /\ seen[c] \in Nat
    BY <1>a, <2>1 DEF AtMost, TypeOK
  <2>5. \A d \in Calls : pc'[d] \notin Before => pc[d] \notin Before
    BY <2>1, OthersKept DEF Before
  <2>6. \A d \in Calls : pc'[d] = "write" => /\ pc[d] = "write" /\ seen'[d] = seen[d]
                                             /\ Cell(d, at[d])' = Cell(d, at[d])
                                             /\ Cell(d, at[d]) \in Cells
    <3> SUFFICES ASSUME NEW d \in Calls, pc'[d] = "write"
                 PROVE  /\ pc[d] = "write" /\ seen'[d] = seen[d]
                        /\ Cell(d, at[d])' = Cell(d, at[d]) /\ Cell(d, at[d]) \in Cells
      OBVIOUS
    <3>1. d # c
      BY <1>1, WriteStep
    <3>2. pc[d] = "write" /\ seen'[d] = seen[d]
      BY <3>1, OthersKept
    <3>3. at[d] \in 1..3
      BY <1>a, <3>2 DEF TypeInv, Holds, TypeOK
    <3> QED BY <1>a, <2>1, <3>2, <3>3, CellsOK DEF Cell
  <2>7. ASSUME NEW d \in Calls, pc'[d] \notin Before, NEW x \in Cells
        PROVE  ledgers'[d][x] <= Most(Account(task[d]), x)'
    <3>1. /\ ledgers[d][x] <= Most(Account(task[d]), x) /\ ledgers[d][x] \in Nat
          /\ Account(task[d]) \in Accounts
      BY <1>a, <1>d, <2>5, <2>7 DEF AtMost, TypeOK, Before
    <3>2. CASE d = held[c] /\ x = X
      <4> HIDE DEF A, X, n
      <4> QED BY <1>c, <2>1, <2>2, <2>3, <2>4, <3>2
    <3>3. CASE ~(d = held[c] /\ x = X)
      <4>1. ledgers'[d][x] = ledgers[d][x]
        BY <2>1, <3>3
      <4> DEFINE B == Account(task[d])
      <4>2. B' = B /\ B \in Accounts /\ ledgers[d][x] <= Most(B, x) /\ ledgers[d][x] \in Nat
        BY <2>1, <3>1
      <4>3. Most(B, x)' = Most(B, x) + (IF B = A /\ x = X THEN n ELSE 0)
        BY <2>2, <4>2
      <4> HIDE DEF A, X, n, B
      <4>4. ledgers'[d][x] <= Most(B, x)'
        BY <1>c, <2>1, <4>1, <4>2, <4>3
      <4> QED BY <4>4 DEF B
    <3> QED BY <3>2, <3>3
  <2>8. ASSUME NEW d \in Calls, pc'[d] = "write"
        PROVE  seen'[d] <= Most(Account(task[d]), Cell(d, at[d]))'
    <3> DEFINE B == Account(task[d])  Y == Cell(d, at[d])
    <3>1. /\ seen'[d] = seen[d] /\ seen[d] <= Most(B, Y) /\ seen[d] \in Nat
          /\ B \in Accounts /\ Y \in Cells /\ Y' = Y /\ B' = B
      BY <1>a, <1>d, <2>1, <2>6, <2>8 DEF AtMost, TypeOK
    <3>2. Most(B, Y)' = Most(B, Y) + (IF B = A /\ Y = X THEN n ELSE 0)
      BY <2>2, <3>1
    <3> HIDE DEF A, X, n, B, Y
    <3>3. seen'[d] <= Most(B, Y)'
      BY <1>c, <2>1, <3>1, <3>2
    <3> QED BY <3>3 DEF B, Y
  <2> QED BY <2>1, <2>7, <2>8 DEF AtMost
<1>2. CASE ~WriteCell(c)
  <2>1. \A a, x : Most(a, x)' = Most(a, x)
    BY <1>2, <1>a, PartsKept, SumsKept, Forward
  <2>2. ledgers' = ledgers
    BY <1>2, Forward
  <2>3. ASSUME NEW d \in Calls, pc'[d] \notin Before, NEW x \in Cells
        PROVE  ledgers'[d][x] <= Most(Account(task'[d]), x)
    <3>1. CASE pc[d] \notin Before
      <4>1. task'[d] = task[d]
        BY <1>b, <3>1 DEF Before
      <4> QED BY <2>2, <3>1, <4>1 DEF AtMost
    <3>2. CASE pc[d] \in Before
      <4>1. ledgers[d][x] = 0
        BY <3>2 DEF Owned, Empty
      <4> QED BY <1>c, <2>2, <4>1
    <3> QED BY <3>1, <3>2
  <2>4. ASSUME NEW d \in Calls, pc'[d] = "write"
        PROVE  seen'[d] <= Most(Account(task'[d]), Cell(d, at[d])')
    <3>1. CASE d # c
      <4>1. /\ pc[d] = "write" /\ seen'[d] = seen[d] /\ task'[d] = task[d]
            /\ Cell(d, at[d])' = Cell(d, at[d])
        BY <2>4, <3>1, OthersKept DEF Cell
      <4> QED BY <4>1 DEF AtMost
    <3>2. CASE d = c
      <4>1. ReadCell(c)
        <5>1. ~Dispatches(c)
          BY <1>a, <2>4, <3>2, DispatchStep DEF TypeOK
        <5>2. ~(Route(c) \/ FindAccount(c) \/ CreateAccount(c) \/ CopyField(c)
                \/ FetchAccount(c) \/ BeginSnapshot(c))
          BY <1>a, <2>4, <3>2 DEF Route, FindAccount, CreateAccount, CopyField, FetchAccount,
                                  BeginSnapshot, Goto, TypeOK
        <5> QED BY <1>2, <5>1, <5>2 DEF Acts, Dispatches
      <4>2. /\ pc[c] = "read" /\ at'[c] = at[c] + 1 /\ task' = task /\ tier' = tier
            /\ seen'[c] = ledgers[held[c]][Cell(c, at[c] + 1)]
        BY <1>a, <4>1 DEF ReadCell, TypeOK
      <4>0. held[c] # Null /\ at[c] < 3
        BY <4>2 DEF TypeInv, Holds
      <4>3. held[c] \in Calls /\ at[c] + 1 \in 1..3
        <5>1. held[c] \in Calls \union {Null} /\ at[c] \in 0..3
          BY <1>a DEF TypeOK
        <5> QED BY <4>0, <5>1
      <4>4. Cell(c, at[c])' = Cell(c, at[c] + 1) /\ Cell(c, at[c] + 1) \in Cells
        BY <1>a, <4>2, <4>3, CellsOK DEF Cell
      <4>5. pc[held[c]] \notin Before /\ Account(task[held[c]]) = Account(task[c])
        BY <4>2 DEF Owned
      <4>6. ledgers[held[c]][Cell(c, at[c] + 1)]
              <= Most(Account(task[c]), Cell(c, at[c] + 1))
        BY <4>3, <4>4, <4>5 DEF AtMost
      <4> QED BY <3>2, <4>2, <4>4, <4>6
    <3> QED BY <3>1, <3>2
  <2>5. \A d \in Calls : pc'[d] \notin Before =>
          \A x \in Cells : ledgers'[d][x] <= Most(Account(task[d]), x)'
    BY <2>1, <2>3
  <2>6. \A d \in Calls : pc'[d] = "write" =>
          seen'[d] <= Most(Account(task[d]), Cell(d, at[d]))'
    BY <2>1, <2>4
  <2> QED BY <2>5, <2>6 DEF AtMost
<1> QED BY <1>1, <1>2

(* What a call reads, and what it fetches.                                 *)
LEMMA ReadStep ==
    ASSUME TypeInv, NEW c \in Calls, ReadCell(c)
    PROVE  /\ pc[c] = "read" /\ pc'[c] = "write" /\ held[c] \in Calls
           /\ at[c] \in 0..2 /\ at'[c] = at[c] + 1
           /\ seen'[c] = ledgers[held[c]][Cell(c, at[c] + 1)]
           /\ Cell(c, at[c])' = Cell(c, at[c] + 1) /\ Cell(c, at[c] + 1) \in Cells
           /\ UNCHANGED <<task, tier, accounts, ledgers, held, snapshot, overlapped>>
<1>a. TypeOK
  BY DEF TypeInv
<1>1. pc[c] = "read" /\ held[c] # Null /\ at[c] < 3
  BY DEF ReadCell, TypeInv, Holds
<1>2. held[c] \in Calls /\ at[c] \in 0..2
  <2>1. held[c] \in Calls \union {Null} /\ at[c] \in 0..3
    BY <1>a DEF TypeOK
  <2> QED BY <1>1, <2>1
<1>3. /\ pc'[c] = "write" /\ at'[c] = at[c] + 1
      /\ seen'[c] = ledgers[held[c]][Cell(c, at[c] + 1)]
      /\ UNCHANGED <<task, tier, accounts, ledgers, held, snapshot, overlapped>>
  BY <1>a DEF ReadCell, Goto, TypeOK
<1>4. at[c] + 1 \in 1..3
  BY <1>2
<1>5. Cell(c, at[c])' = Cell(c, at[c] + 1) /\ Cell(c, at[c] + 1) \in Cells
  BY <1>a, <1>3, <1>4, CellsOK DEF Cell
<1> QED BY <1>1, <1>2, <1>3, <1>5

LEMMA CellAt ==
    ASSUME TypeInv, NEW c \in Calls, pc[c] = "write" PROVE Cell(c, at[c]) \in Cells
<1>1. at[c] > 0 /\ at[c] \in 0..3
  BY DEF TypeInv, Holds, TypeOK
<1>2. at[c] \in 1..3
  BY <1>1
<1> QED BY <1>2, CellsOK DEF TypeInv

(* Which steps begin the phases in which a call works on a ledger.         *)
LEMMA PhaseBegins ==
    ASSUME TypeInv, NEW c \in Calls, Acts(c)
    PROVE  /\ pc'[c] = "create" => FindAccount(c)
           /\ pc'[c] = "write" => ReadCell(c)
           /\ pc'[c] = "read" => FetchAccount(c) \/ WriteCell(c)
           /\ pc'[c] = "snapshot" => WriteCell(c)
           /\ pc'[c] = "copy" => BeginSnapshot(c) \/ CopyField(c)
           /\ pc'[c] = "fetch" => FindAccount(c) \/ CreateAccount(c)
           /\ pc'[c] = "look" => CopyField(c)
<1>a. TypeOK
  BY DEF TypeInv
<1>1. Dispatches(c) => pc'[c] \in {"make", "store", "use", "done", "undispatched"}
  BY <1>a, DispatchStep DEF TypeOK
<1>2. Route(c) => pc'[c] \in {"account", "unrouted"}
  BY <1>a DEF Route, Goto, TypeOK
<1>3. FindAccount(c) => pc'[c] \in {"create", "fetch"}
  BY <1>a DEF FindAccount, Goto, TypeOK
<1>4. CreateAccount(c) => pc'[c] = "fetch"
  BY <1>a DEF CreateAccount, Goto, TypeOK
<1>5. FetchAccount(c) => pc'[c] = "read"
  BY <1>a DEF FetchAccount, Goto, TypeOK
<1>6. ReadCell(c) => pc'[c] = "write"
  BY <1>a DEF ReadCell, Goto, TypeOK
<1>7. WriteCell(c) => pc'[c] \in {"read", "snapshot"}
  BY <1>a DEF WriteCell, Goto, TypeOK
<1>8. BeginSnapshot(c) => pc'[c] = "copy"
  BY <1>a DEF BeginSnapshot, Goto, TypeOK
<1>9. CopyField(c) => pc'[c] \in {"copy", "look"}
  BY <1>a DEF CopyField, Goto, TypeOK
<1> QED BY <1>1, <1>2, <1>3, <1>4, <1>5, <1>6, <1>7, <1>8, <1>9 DEF Acts, Dispatches

LEMMA AtLeastWrite ==
    ASSUME TypeInv, TypeInv', Owned, Owned', Alone, AtLeast, NEW c \in Calls, WriteCell(c)
    PROVE  AtLeast'
<1> DEFINE A == Account(task[c])  X == Cell(c, at[c])  n == Addend(c, at[c])
<1>a. TypeOK
  BY DEF TypeInv
<1>1. /\ pc[c] = "write" /\ held[c] \in Calls /\ X \in Cells /\ n \in Nat
      /\ at' = at /\ held' = held /\ accounts' = accounts
      /\ task' = task /\ tier' = tier /\ overlapped' = overlapped
      /\ ledgers'[held[c]][X] = seen[c] + n
      /\ \A d \in Calls, x \in Cells :
           ~(d = held[c] /\ x = X) => ledgers'[d][x] = ledgers[d][x]
  BY <1>a, WriteStep, PartType
<1>2. \A a \in Accounts, x \in Cells :
        Least(a, x)' = Least(a, x)
                       + (IF c \in overlapped THEN 0 ELSE IF a = A /\ x = X THEN n ELSE 0)
  BY SumsWritten
<1>3. /\ A \in Accounts /\ Account(task[held[c]]) = A
      /\ seen[c] >= Least(A, X) /\ seen[c] \in Nat
      /\ c \notin overlapped => held[c] = accounts[A]
  BY <1>a, <1>1, TaskOK DEF Owned, AtLeast, TypeOK
<1>4. \A a, x : Least(a, x) \in Nat
  BY <1>a, SumsType
<1>5. A' = A
  BY <1>1
(* The cell that is written shows enough, and the others what they did, as *)
(* long as no other call of the account writes without having overlapped.  *)
<1>6. ASSUME NEW a \in Accounts, NEW h \in Calls, NEW x \in Cells,
             ledgers[h][x] >= Least(a, x), Account(task[h]) = a,
             c \in overlapped \/ a # A \/ h = held[c]
      PROVE  ledgers'[h][x] >= Least(a, x)'
  <2>1. ledgers[h][x] \in Nat
    BY <1>a DEF TypeOK
  <2>2. CASE h = held[c] /\ x = X
    <3>1. a = A
      BY <1>3, <1>6, <2>2
    <3>2. Least(a, x)' = Least(a, x) + (IF c \in overlapped THEN 0 ELSE n)
      BY <1>2, <2>2, <3>1
    <3> HIDE DEF A, X, n
    <3> QED BY <1>1, <1>3, <1>4, <2>2, <3>1, <3>2
  <2>3. CASE ~(h = held[c] /\ x = X)
    <3>1. ledgers'[h][x] = ledgers[h][x]
      BY <1>1, <2>3
    <3>2. Least(a, x)' = Least(a, x)
                         + (IF c \in overlapped THEN 0 ELSE IF a = A /\ x = X THEN n ELSE 0)
      BY <1>2
    <3> HIDE DEF A, X, n
    <3>3. CASE c \in overlapped \/ a # A
      BY <1>4, <1>6, <3>1, <3>2, <3>3
    <3>4. CASE h = held[c]
      BY <1>4, <1>6, <2>3, <3>1, <3>2, <3>4
    <3> QED BY <1>6, <3>3, <3>4
  <2> QED BY <2>2, <2>3
<1>7. ASSUME NEW a \in Accounts, accounts'[a] # Null, NEW x \in Cells
      PROVE  ledgers'[accounts'[a]][x] >= Least(a, x)'
  <2>1. accounts[a] \in Calls
    BY <1>a, <1>1, <1>7 DEF TypeOK
  <2>2. ledgers[accounts[a]][x] >= Least(a, x) /\ Account(task[accounts[a]]) = a
    BY <1>1, <1>7 DEF AtLeast, Owned
  <2>3. c \in overlapped \/ a # A \/ accounts[a] = held[c]
    BY <1>3
  <2> QED BY <1>1, <1>6, <2>1, <2>2, <2>3
<1>8. ASSUME NEW d \in Calls, pc'[d] \in {"read", "write"}
      PROVE  /\ pc[d] \in {"read", "write"}
             /\ c \in overlapped \/ Account(task[d]) # A \/ d = c
  <2>1. pc[d] \in {"read", "write"}
    BY <1>1, <1>8, OthersKept DEF Acts
  <2>2. d # c /\ Account(task[d]) = A => c \in overlapped
    BY <1>1, <2>1 DEF Alone, Busy, Recording
  <2> QED BY <2>1, <2>2
<1>9. ASSUME NEW d \in Calls, pc'[d] \in {"read", "write"}, NEW x \in Cells
      PROVE  ledgers'[held'[d]][x] >= Least(Account(task[d]), x)'
  <2> DEFINE B == Account(task[d])
  <2>1. held[d] \in Calls
    BY <1>a, <1>8, <1>9 DEF TypeInv, Holds, TypeOK
  <2>2. /\ ledgers[held[d]][x] >= Least(B, x) /\ Account(task[held[d]]) = B
        /\ B \in Accounts /\ B' = B
    BY <1>1, <1>8, <1>9, TaskOK DEF AtLeast, Owned
  <2>3. c \in overlapped \/ B # A \/ held[d] = held[c]
    BY <1>8, <1>9
  <2> HIDE DEF B
  <2>4. ledgers'[held[d]][x] >= Least(B, x)'
    BY <1>6, <2>1, <2>2, <2>3
  <2>5. held'[d] = held[d]
    BY <1>1
  <2> QED BY <2>4, <2>5 DEF B
<1>10. ASSUME NEW d \in Calls, pc'[d] = "write"
       PROVE  seen'[d] >= Least(Account(task[d]), Cell(d, at[d]))'
  <2> DEFINE B == Account(task[d])  Y == Cell(d, at[d])
  <2>1. d # c
    BY <1>10, WriteStep
  <2>2. /\ pc[d] = "write" /\ seen'[d] = seen[d] /\ seen[d] \in Nat
        /\ B \in Accounts /\ B' = B /\ Y' = Y /\ Y \in Cells
    BY <1>a, <1>1, <1>10, <2>1, OthersKept, TaskOK, CellAt DEF Acts, TypeOK, Cell
  <2>3. seen[d] >= Least(B, Y) /\ (c \in overlapped \/ B # A)
    BY <1>8, <1>10, <2>1, <2>2 DEF AtLeast
  <2>4. Least(B, Y)' = Least(B, Y)
                       + (IF c \in overlapped THEN 0 ELSE IF B = A /\ Y = X THEN n ELSE 0)
    BY <1>2, <2>2
  <2> HIDE DEF A, B, X, Y, n
  <2>5. Least(B, Y)' = Least(B, Y)
    BY <1>4, <2>3, <2>4
  <2>6. seen'[d] >= Least(B, Y)'
    BY <2>2, <2>3, <2>5
  <2> QED BY <2>6 DEF B, Y
<1>11. \A d \in Calls : pc'[d] \in {"read", "write"} /\ d \notin overlapped' =>
         held'[d] = accounts'[Account(task'[d])]
  BY <1>1, <1>8 DEF AtLeast
<1> QED BY <1>7, <1>9, <1>10, <1>11 DEF AtLeast

LEMMA AtLeastStep ==
    ASSUME TypeInv, TypeInv', Owned, Owned', Alone, NoneBefore, AtLeast,
           NEW c \in Calls, Acts(c)
    PROVE  AtLeast'
<1>a. TypeOK /\ TypeOK'
  BY DEF TypeInv
<1>1. CASE WriteCell(c)
  BY <1>1, AtLeastWrite
<1>2. CASE ~WriteCell(c)
  <2>1. \A a, x : Least(a, x)' <= Least(a, x) /\ Least(a, x)' \in Nat
    BY <1>2, <1>a, PartsKept, SumsKept, Forward
  <2>2. \A a, x : Least(a, x) \in Nat /\ Least(a, x)' \in Nat
    BY <1>a, <2>1, SumsType
  <2>3. ledgers' = ledgers /\ overlapped \subseteq overlapped'
    BY <1>2, Forward
  <2>4. \A h \in Calls, x \in Cells : ledgers[h][x] \in Nat
    BY <1>a DEF TypeOK
  <2>b. \A d \in Calls : pc[d] # "idle" => task'[d] = task[d]
    BY OthersKept, Forward
  <2>5. ASSUME NEW a \in Accounts, accounts'[a] # Null, NEW x \in Cells
        PROVE  ledgers'[accounts'[a]][x] >= Least(a, x)'
    <3>1. CASE accounts'[a] = accounts[a]
      <4>1. accounts[a] \in Calls /\ ledgers[accounts[a]][x] >= Least(a, x)
        BY <1>a, <2>5, <3>1 DEF AtLeast, TypeOK
      <4>2. ledgers[accounts[a]][x] \in Nat
        BY <2>4, <4>1
      <4>3. Least(a, x)' <= Least(a, x) /\ Least(a, x) \in Nat /\ Least(a, x)' \in Nat
        BY <2>1, <2>2
      <4> QED BY <2>3, <3>1, <4>1, <4>2, <4>3
    <3>2. CASE accounts'[a] # accounts[a]
      <4>1. CreateAccount(c)
        BY <3>2, Forward
      <4>2. a = Account(task[c]) /\ accounts'[a] = c /\ pc[c] = "create"
        BY <1>a, <3>2, <4>1 DEF CreateAccount, TypeOK
      <4>3. Least(a, x) = 0
        BY <1>a, <4>2, LeastZero DEF NoneBefore
      <4>4. ledgers[c][x] = 0
        BY <4>2 DEF Owned, Before, Empty
      <4>5. Least(a, x)' <= Least(a, x) /\ Least(a, x)' \in Nat
        BY <2>1, <2>2
      <4> QED BY <2>3, <4>2, <4>3, <4>4, <4>5
    <3> QED BY <3>1, <3>2
  <2>6. ASSUME NEW d \in Calls, pc'[d] \in {"read", "write"}
        PROVE  /\ task'[d] = task[d]
               /\ \A x \in Cells : ledgers[held'[d]][x] >= Least(Account(task[d]), x)
               /\ d \notin overlapped' => held'[d] = accounts'[Account(task[d])]
    <3>1. CASE FetchAccount(c) /\ d = c
      <4>1. /\ held'[d] = accounts[Account(task[d])] /\ pc[d] = "fetch"
            /\ accounts' = accounts /\ task' = task
        BY <1>a, <3>1 DEF FetchAccount, TypeOK
      <4>2. accounts[Account(task[d])] # Null /\ Account(task[d]) \in Accounts
        BY <4>1, TaskOK DEF Owned, Before
      <4> QED BY <4>1, <4>2 DEF AtLeast
    <3>2. CASE ~(FetchAccount(c) /\ d = c)
      <4>1. pc[d] \in {"read", "write"} /\ held'[d] = held[d] /\ task'[d] = task[d]
        <5>1. CASE d # c
          BY <2>6, <5>1, OthersKept
        <5>2. CASE d = c
          <6>1. ReadCell(c)
            BY <1>2, <2>6, <3>2, <5>2, PhaseBegins
          <6> QED BY <5>2, <6>1, ReadStep
        <5> QED BY <5>1, <5>2
      <4>2. d \notin overlapped => held[d] = accounts[Account(task[d])]
        BY <4>1 DEF AtLeast
      <4>3. \A x \in Cells : ledgers[held'[d]][x] >= Least(Account(task[d]), x)
        BY <4>1 DEF AtLeast
      <4>4. d \notin overlapped => accounts'[Account(task[d])] = accounts[Account(task[d])]
        <5>1. CASE CreateAccount(c)
          <6>1. accounts' = [accounts EXCEPT ![Account(task[c])] = c] /\ pc[c] = "create"
            BY <5>1 DEF CreateAccount
          <6>2. d \notin overlapped => Account(task[c]) # Account(task[d])
            BY <4>1, <6>1 DEF Alone, Busy, Recording
          <6> QED BY <1>a, <6>1, <6>2 DEF TypeOK
        <5>2. CASE ~CreateAccount(c)
          BY <5>2, Forward
        <5> QED BY <5>1, <5>2
      <4> QED BY <2>3, <4>1, <4>2, <4>3, <4>4
    <3> QED BY <3>1, <3>2
  <2>7. ASSUME NEW d \in Calls, pc'[d] \in {"read", "write"}, NEW x \in Cells
        PROVE  ledgers'[held'[d]][x] >= Least(Account(task[d]), x)'
    <3> DEFINE B == Account(task[d])
    <3>1. B' = B /\ ledgers[held'[d]][x] >= Least(B, x)
      BY <2>6, <2>7
    <3>2. held'[d] \in Calls
      BY <1>a, <2>7 DEF TypeInv, Holds, TypeOK
    <3>3. ledgers[held'[d]][x] \in Nat
      BY <2>4, <3>2
    <3> HIDE DEF B
    <3>4. Least(B, x)' <= Least(B, x) /\ Least(B, x) \in Nat /\ Least(B, x)' \in Nat
      BY <2>1, <2>2, <3>1
    <3>5. ledgers'[held'[d]][x] >= Least(B, x)'
      BY <2>3, <3>1, <3>3, <3>4
    <3> QED BY <3>5 DEF B
  <2>8. ASSUME NEW d \in Calls, pc'[d] = "write"
        PROVE  seen'[d] >= Least(Account(task[d]), Cell(d, at[d]))'
    <3> DEFINE B == Account(task[d])  Y == Cell(d, at[d])
    <3>1. B' = B /\ seen'[d] >= Least(B, Y') /\ seen'[d] \in Nat
      <4>1. CASE d # c
        <5>1. /\ pc[d] = "write" /\ seen'[d] = seen[d] /\ task'[d] = task[d]
              /\ at'[d] = at[d] /\ tier'[d] = tier[d]
          BY <2>8, <4>1, OthersKept
        <5> QED BY <1>a, <5>1 DEF AtLeast, Cell, TypeOK
      <4>2. CASE d = c
        <5>1. ReadCell(c)
          BY <2>8, <4>2, PhaseBegins
        <5>2. /\ pc[c] = "read" /\ held[c] \in Calls /\ Y' \in Cells /\ task' = task
              /\ seen'[c] = ledgers[held[c]][Y']
          BY <4>2, <5>1, ReadStep
        <5> QED BY <1>a, <4>2, <5>2 DEF AtLeast, TypeOK
      <4> QED BY <4>1, <4>2
    <3> HIDE DEF B, Y
    <3>2. Least(B, Y)' <= Least(B, Y') /\ Least(B, Y') \in Nat /\ Least(B, Y)' \in Nat
      BY <2>1, <2>2, <3>1
    <3>3. seen'[d] >= Least(B, Y)'
      BY <3>1, <3>2
    <3> QED BY <3>3 DEF B, Y
  <2>9. \A d \in Calls : pc'[d] \in {"read", "write"} /\ d \notin overlapped' =>
          held'[d] = accounts'[Account(task'[d])]
    BY <2>6
  <2> QED BY <2>5, <2>7, <2>8, <2>9 DEF AtLeast
<1> QED BY <1>1, <1>2

-----------------------------------------------------------------------------
(* What keeps the usage of an account adding up.                           *)
LEMMA UsageType ==
    ASSUME TypeOK, NEW a \in Accounts
    PROVE  Usage(a) \in [Cells -> Nat]
<1>1. accounts[a] \in Calls \union {Null}
  BY DEF TypeOK
<1>2. Empty \in [Cells -> Nat]
  BY DEF Empty
<1> QED BY <1>1, <1>2 DEF Usage, TypeOK

LEMMA UsageTypeNext ==
    ASSUME TypeOK', NEW a \in Accounts
    PROVE  Usage(a)' \in [Cells -> Nat]
<1>1. accounts'[a] \in Calls \union {Null}
  BY DEF TypeOK
<1>2. Empty \in [Cells -> Nat]
  BY DEF Empty
<1> QED BY <1>1, <1>2 DEF Usage, TypeOK

(* A step changes the usage of the account of its call at most, and only   *)
(* when it creates the ledger or writes a cell.                            *)
LEMMA UsageKept ==
    ASSUME TypeInv, Owned, NEW c \in Calls, Acts(c), NEW a \in Accounts,
           Account(task[c]) # a \/ ~(CreateAccount(c) \/ WriteCell(c))
    PROVE  Usage(a)' = Usage(a) /\ accounts'[a] = accounts[a]
<1>a. TypeOK
  BY DEF TypeInv
<1>1. CASE CreateAccount(c)
  <2>1. accounts' = [accounts EXCEPT ![Account(task[c])] = c] /\ ledgers' = ledgers
    BY <1>1 DEF CreateAccount
  <2>2. accounts'[a] = accounts[a]
    BY <1>a, <1>1, <2>1 DEF TypeOK
  <2> QED BY <2>1, <2>2 DEF Usage
<1>2. CASE WriteCell(c)
  <2>1. accounts' = accounts
    BY <1>2, WriteStep
  <2>2. CASE accounts[a] = Null
    BY <2>1, <2>2 DEF Usage
  <2>3. CASE accounts[a] # Null
    <3>1. accounts[a] \in Calls /\ accounts[a] # held[c]
      BY <1>a, <1>2, <2>3, WriteStep DEF TypeOK, Owned
    <3>2. \A x \in Cells : ledgers'[accounts[a]][x] = ledgers[accounts[a]][x]
      BY <1>2, <3>1, WriteStep
    <3>3. ledgers[accounts[a]] \in [Cells -> Nat]
      BY <1>a, <3>1 DEF TypeOK
    <3>4. ledgers' = [ledgers EXCEPT ![held[c]][Cell(c, at[c])] = seen[c] + Addend(c, at[c])]
      BY <1>2 DEF WriteCell
    <3>5. ledgers'[accounts[a]] = ledgers[accounts[a]]
      BY <1>a, <3>1, <3>4 DEF TypeOK
    <3> QED BY <2>1, <2>3, <3>5 DEF Usage
  <2> QED BY <2>2, <2>3
<1>3. CASE ~CreateAccount(c) /\ ~WriteCell(c)
  BY <1>3, Forward DEF Usage
<1> QED BY <1>1, <1>2, <1>3

(* A call that does not act goes on to show what it showed, as long as the *)
(* usage stays, or it is done with it and no tier is used less.            *)
LEMMA OthersShow ==
    ASSUME TypeInv, TypeInv', NEW c \in Calls, Acts(c), NEW a \in Accounts,
           NEW d \in Calls, d # c, Account(task[d]) = a, Shows(d, Usage(a)),
           \/ Usage(a)' = Usage(a) /\ accounts'[a] = accounts[a]
           \/ pc[d] \notin Busy /\ \A t \in Tiers : Usage(a)'[t] >= Usage(a)[t]
    PROVE  Shows(d, Usage(a))'
<1> DEFINE l == Usage(a)  l1 == Usage(a)'
<1>1. /\ pc'[d] = pc[d] /\ task'[d] = task[d] /\ tier'[d] = tier[d]
      /\ held'[d] = held[d] /\ at'[d] = at[d] /\ seen'[d] = seen[d]
      /\ snapshot'[d] = snapshot[d]
  BY OthersKept
<1>2. Written(d)' = Written(d) /\ Cell(d, at[d])' = Cell(d, at[d])
  BY <1>1 DEF Written, Cell
<1>3. CASE l1 = l /\ accounts'[a] = accounts[a]
  <2> HIDE DEF l, l1
  <2>1. Shows(d, l)
    BY DEF l
  <2>2. AddsUp(l)' = AddsUp(l) /\ AddsUp(snapshot[d])' = AddsUp(snapshot[d])
    BY <1>1, <1>3 DEF AddsUp, Tally, Worth, l, l1
  <2>3. Shows(d, l)'
    BY <1>1, <1>2, <1>3, <2>1, <2>2 DEF Shows, AddsUp, Tally, Worth, l, l1
  <2> QED BY <2>3 DEF l
<1>4. CASE pc[d] \notin Busy /\ \A t \in Tiers : l1[t] >= l[t]
  <2>1. pc[d] \notin {"read", "write", "copy", "snapshot"}
    BY <1>4 DEF Busy, Recording
  <2>2. tier[d] \in Tiers
    BY DEF TypeInv, TypeOK
  <2>3. l[tier[d]] \in Nat /\ l1[tier[d]] \in Nat
    BY <2>2, UsageType, UsageTypeNext DEF TypeInv, Cells
  <2>4. l1[tier[d]] >= l[tier[d]]
    BY <1>4, <2>2
  <2> HIDE DEF l, l1
  <2>5. pc[d] \in Charged =>
          l[tier[d]] > 0 /\ AddsUp(snapshot[d]) /\ snapshot[d][tier[d]] > 0
    BY <2>1 DEF Shows, l
  <2>6. pc[d] \in Charged => l1[tier[d]] > 0
    BY <2>3, <2>4, <2>5
  <2>7. AddsUp(snapshot[d])' = AddsUp(snapshot[d])
    BY <1>1 DEF AddsUp, Tally, Worth
  <2> QED BY <1>1, <2>1, <2>5, <2>6, <2>7 DEF Shows, l1
<1> QED BY <1>3, <1>4

(* An account is as unspoilt as it was.                                    *)
LEMMA UnspoiltStep ==
    ASSUME TypeInv, NEW c \in Calls, Acts(c), NEW a, Unspoilt(a)'
    PROVE  Unspoilt(a)
<1> SUFFICES ASSUME NEW d \in Calls, pc[d] \in Busy \union Charged, Account(task[d]) = a
             PROVE  d \notin overlapped
  BY DEF Unspoilt
<1>1. pc'[d] \in Busy \union Charged /\ task'[d] = task[d] /\ overlapped \subseteq overlapped'
  BY OthersKept, Forward DEF Busy, Recording, Charged
<1> QED BY <1>1 DEF Unspoilt

(* A step that changes nothing about an account: of a call of another one, *)
(* or of one that is not at work yet, or not any more.                     *)
LEMMA BalancedElsewhere ==
    ASSUME TypeInv, TypeInv', Owned, NEW c \in Calls, Acts(c), NEW a \in Accounts, Balanced(a),
           Usage(a)' = Usage(a), accounts'[a] = accounts[a],
           ~Records(a, c), Account(task'[c]) = a => Shows(c, Usage(a))'
    PROVE  Balanced(a)'
<1>1. ASSUME NEW d \in Calls, Account(task'[d]) = a PROVE Shows(d, Usage(a))'
  <2>1. CASE d = c
    BY <1>1, <2>1
  <2>2. CASE d # c
    <3>1. Account(task[d]) = a
      BY <1>1, <2>2, OthersKept
    <3> QED BY <2>2, <3>1, OthersShow DEF Balanced
  <2> QED BY <2>1, <2>2
<1>2. (\A d \in Calls : ~Records(a, d)') => AddsUp(Usage(a))'
  <2>1. SUFFICES ASSUME \A d \in Calls : ~Records(a, d)' PROVE AddsUp(Usage(a))'
    OBVIOUS
  <2>2. \A d \in Calls : ~Records(a, d)
    BY <2>1, OthersKept DEF Records
  <2>3. AddsUp(Usage(a))
    BY <2>2 DEF Balanced
  <2> QED BY <2>3 DEF AddsUp, Tally, Worth
<1> QED BY <1>1, <1>2 DEF Balanced

(* A call that has not overlapped works on the ledger of its account, and  *)
(* nobody else of the account does.                                        *)
LEMMA WorksAlone ==
    ASSUME TypeInv, Alone, NEW c \in Calls, pc[c] \in Busy,
           c \notin overlapped
    PROVE  \A d \in Calls \ {c} : Account(task[d]) = Account(task[c]) =>
             pc[d] \notin Busy /\ ~Records(Account(task[c]), d)
BY DEF Alone, Records, Busy, Recording

LEMMA BalancedCreate ==
    ASSUME TypeInv, TypeInv', Owned, NoneBefore, NEW c \in Calls, CreateAccount(c),
           NEW a \in Accounts, a = Account(task[c]), Unspoilt(a)
    PROVE  Balanced(a)'
<1>a. TypeOK
  BY DEF TypeInv
<1>1. /\ pc[c] = "create" /\ pc' = [pc EXCEPT ![c] = "fetch"] /\ ledgers' = ledgers
      /\ accounts' = [accounts EXCEPT ![a] = c] /\ task' = task
  BY DEF CreateAccount, Goto
<1>2. accounts'[a] = c /\ c # Null /\ ledgers[c] = Empty
  BY <1>a, <1>1, OrchestratorAssumption DEF TypeOK, Owned, Before
<1>3. Usage(a)' = Empty
  BY <1>1, <1>2 DEF Usage
<1>4. AddsUp(Empty)
  BY CostModelAssumption DEF AddsUp, Tally, Worth, Empty, Cells, Tiers
<1>5. AddsUp(Usage(a))'
  BY <1>3, <1>4 DEF AddsUp, Tally, Worth
<1>6. ASSUME NEW d \in Calls, Account(task'[d]) = a PROVE Shows(d, Usage(a))'
  <2>1. d = c => pc'[d] = "fetch"
    BY <1>a, <1>1 DEF TypeOK
  <2>2. d # c => pc'[d] = pc[d] /\ pc[d] \notin {"read", "write"} \union Charged
    BY <1>a, <1>1, <1>6 DEF NoneBefore, Unspoilt, Before, Busy, Charged, TypeOK
  <2>3. pc'[d] \notin {"read", "write"} \union Charged
    BY <2>1, <2>2 DEF Charged
  <2> QED BY <2>3 DEF Shows, Charged
<1> QED BY <1>5, <1>6 DEF Balanced

(* The others of the account are neither reading nor writing, so that what *)
(* the acting call shows afterwards decides.                               *)
LEMMA BalancedHere ==
    ASSUME TypeInv, TypeInv', NEW c \in Calls, Acts(c), Alone, pc[c] \in Busy,
           c \notin overlapped, NEW a \in Accounts, a = Account(task[c]), Balanced(a),
           \A t \in Tiers : Usage(a)'[t] >= Usage(a)[t],
           Shows(c, Usage(a))', ~Records(a, c)' => AddsUp(Usage(a))'
    PROVE  Balanced(a)'
<1>1. task'[c] = task[c]
  BY Forward DEF Busy, Recording
<1>2. ASSUME NEW d \in Calls, Account(task'[d]) = a PROVE Shows(d, Usage(a))'
  <2>1. CASE d = c
    BY <2>1
  <2>2. CASE d # c
    <3>1. Account(task[d]) = a
      BY <1>2, <2>2, OthersKept
    <3>2. pc[d] \notin Busy
      BY <2>2, <3>1, WorksAlone
    <3> QED BY <2>2, <3>1, <3>2, OthersShow DEF Balanced
  <2> QED BY <2>1, <2>2
<1>3. (\A d \in Calls : ~Records(a, d)') => AddsUp(Usage(a))'
  OBVIOUS
<1> QED BY <1>2, <1>3 DEF Balanced

LEMMA BalancedFetch ==
    ASSUME TypeInv, TypeInv', Owned, Alone, NEW c \in Calls,
           FetchAccount(c) \/ BeginSnapshot(c), c \notin overlapped,
           NEW a \in Accounts, a = Account(task[c]), Balanced(a)
    PROVE  Balanced(a)'
<1>a. TypeOK
  BY DEF TypeInv
<1>1. /\ pc[c] \in {"fetch", "snapshot"} /\ task' = task /\ accounts' = accounts
      /\ pc' = [pc EXCEPT ![c] = IF pc[c] = "fetch" THEN "read" ELSE "copy"]
      /\ held'[c] = accounts[a] /\ at'[c] = 0 /\ tier' = tier
  BY <1>a DEF FetchAccount, BeginSnapshot, Goto, TypeOK
<1>2. Acts(c) /\ pc[c] \in Busy /\ ~Records(a, c)
  BY <1>1 DEF Acts, Busy, Recording, Records
<1>3. Usage(a)' = Usage(a)
  BY <1>1, <1>2, UsageKept DEF CreateAccount, WriteCell
<1>4. \A d \in Calls : ~Records(a, d)
  BY <1>2, WorksAlone DEF Records
<1>5. AddsUp(Usage(a))
  BY <1>4 DEF Balanced
<1>6. AddsUp(Usage(a))'
  BY <1>3, <1>5 DEF AddsUp, Tally, Worth
<1>7. \A x \in Cells : Usage(a)[x] \in Nat
  BY <1>a, UsageType
<1>8. Shows(c, Usage(a))'
  <2>1. CASE pc[c] = "fetch"
    <3>0. pc'[c] = "read" /\ at'[c] = 0
      BY <1>a, <1>1, <2>1 DEF TypeOK
    <3>1. pc'[c] = "read" /\ Written(c)' = 0
      BY <3>0 DEF Written, Charged
    <3>2. Usage(a)["count"] \in Nat /\ Usage(a)["cost"] \in Nat
      BY <1>7 DEF Cells
    <3>3. /\ Usage(a)["count"] = Tally(Usage(a)) + 0
          /\ Usage(a)["cost"] = Worth(Usage(a)) + 0
      BY <1>5, <3>2 DEF AddsUp
    <3>4. Tally(Usage(a))' = Tally(Usage(a)) /\ Worth(Usage(a))' = Worth(Usage(a))
      BY <1>3 DEF Tally, Worth
    <3> QED BY <1>3, <3>1, <3>3, <3>4 DEF Shows, Charged
  <2>2. CASE pc[c] = "snapshot"
    <3>1. pc'[c] = "copy"
      BY <1>a, <1>1, <2>2 DEF TypeOK
    <3>2. Usage(a)[tier[c]] > 0
      BY <2>2 DEF Balanced, Shows, Charged
    <3> QED BY <1>1, <1>3, <3>1, <3>2 DEF Shows, Charged
  <2> QED BY <1>1, <2>1, <2>2
<1>9. \A t \in Tiers : Usage(a)'[t] >= Usage(a)[t]
  <2> DEFINE l == Usage(a)  l1 == Usage(a)'
  <2>1. l1 = l /\ \A t \in Tiers : l[t] \in Nat
    BY <1>3, <1>7 DEF Cells
  <2> HIDE DEF l, l1
  <2>2. \A t \in Tiers : l1[t] >= l[t]
    BY <2>1
  <2> QED BY <2>2 DEF l, l1
<1> QED BY <1>2, <1>6, <1>8, <1>9, BalancedHere

(* The ledger that such a call has in hand is the one of its account.      *)
LEMMA InHand ==
    ASSUME TypeInv, Owned, AtLeast, NEW c \in Calls, pc[c] \in {"read", "write"},
           c \notin overlapped
    PROVE  held[c] = accounts[Account(task[c])] /\ held[c] \in Calls
           /\ Usage(Account(task[c])) = ledgers[held[c]]
<1>1. held[c] = accounts[Account(task[c])]
  BY DEF AtLeast
<1>2. held[c] \in Calls \union {Null} /\ held[c] # Null
  BY DEF TypeInv, TypeOK, Holds
<1> QED BY <1>1, <1>2 DEF Usage

LEMMA BalancedRead ==
    ASSUME TypeInv, TypeInv', Owned, Alone, AtLeast, NEW c \in Calls, ReadCell(c),
           c \notin overlapped, NEW a \in Accounts, a = Account(task[c]), Balanced(a)
    PROVE  Balanced(a)'
<1>a. TypeOK
  BY DEF TypeInv
<1>1. /\ pc[c] = "read" /\ pc'[c] = "write" /\ held[c] \in Calls
      /\ at[c] \in 0..2 /\ at'[c] = at[c] + 1
      /\ seen'[c] = ledgers[held[c]][Cell(c, at[c] + 1)]
      /\ Cell(c, at[c])' = Cell(c, at[c] + 1)
      /\ UNCHANGED <<task, tier, accounts, ledgers, held, snapshot, overlapped>>
  BY ReadStep
<1>2. Acts(c) /\ pc[c] \in Busy
  BY <1>1 DEF Acts, Busy, Recording
<1>3. Usage(a)' = Usage(a)
  BY <1>1, <1>2, UsageKept DEF CreateAccount, WriteCell
<1>4. Written(c)' = Written(c)
  BY <1>1, <1>2, Forward DEF WriteCell
<1>5. seen'[c] = Usage(a)[Cell(c, at[c])']
  BY <1>1, InHand
<1>6. /\ Usage(a)["count"] = Tally(Usage(a)) + (IF Written(c) = 2 THEN 1 ELSE 0)
      /\ Usage(a)["cost"] = Worth(Usage(a))
                            + (IF Written(c) \in {1, 2} THEN CostModel[tier[c]] ELSE 0)
  BY <1>1 DEF Balanced, Shows
<1>7. Tally(Usage(a))' = Tally(Usage(a)) /\ Worth(Usage(a))' = Worth(Usage(a))
  BY <1>3 DEF Tally, Worth
<1>8. Shows(c, Usage(a))'
  BY <1>1, <1>3, <1>4, <1>5, <1>6, <1>7 DEF Shows, Charged
<1>9. Records(a, c)'
  BY <1>1 DEF Records
<1>10. \A t \in Tiers : Usage(a)'[t] >= Usage(a)[t]
  <2> DEFINE l == Usage(a)  l1 == Usage(a)'
  <2>1. l1 = l /\ \A t \in Tiers : l[t] \in Nat
    BY <1>a, <1>3, UsageType DEF Cells
  <2> HIDE DEF l, l1
  <2>2. \A t \in Tiers : l1[t] >= l[t]
    BY <2>1
  <2> QED BY <2>2 DEF l, l1
<1> QED BY <1>2, <1>8, <1>9, <1>10, BalancedHere

(* The weights of a ledger, when one call more is counted in a tier.       *)
LEMMA OneMore ==
    ASSUME NEW l \in [Cells -> Nat], NEW m \in [Cells -> Nat], NEW t \in Tiers,
           m[t] = l[t] + 1, \A x \in Tiers \ {t} : m[x] = l[x]
    PROVE  Tally(m) = Tally(l) + 1 /\ Worth(m) = Worth(l) + CostModel[t]
<1> DEFINE p(x) == l[x] * CostModel[x]
           q(x) == m[x] * CostModel[x]
<1>1. \A x \in Tiers : l[x] \in Nat /\ m[x] \in Nat /\ CostModel[x] \in Nat
  BY CostModelAssumption DEF Cells
<1>2. \A i, n \in Nat : (i + 1) * n = i * n + n /\ i * n \in Nat
  OBVIOUS
<1>3. \A x \in Tiers : p(x) \in Nat
  BY <1>1, <1>2
<1>4. q(t) = p(t) + CostModel[t] /\ \A x \in Tiers \ {t} : q(x) = p(x)
  BY <1>1, <1>2
<1>5. Worth(l) = p("standard") + p("advanced") + p("frontier")
      /\ Worth(m) = q("standard") + q("advanced") + q("frontier")
  BY DEF Worth
<1> HIDE DEF p, q
<1>6. Worth(m) = Worth(l) + CostModel[t]
  BY <1>1, <1>3, <1>4, <1>5 DEF Tiers
<1>7. Tally(m) = Tally(l) + 1
  BY <1>1 DEF Tally, Tiers
<1> QED BY <1>6, <1>7

LEMMA BalancedWrite ==
    ASSUME TypeInv, TypeInv', Owned, Alone, AtLeast, NEW c \in Calls, WriteCell(c),
           c \notin overlapped, NEW a \in Accounts, a = Account(task[c]), Balanced(a)
    PROVE  Balanced(a)'
<1> DEFINE l == Usage(a)  m == Usage(a)'  X == Cell(c, at[c])
<1>a. TypeOK
  BY DEF TypeInv
<1>1. /\ pc[c] = "write" /\ at[c] \in 1..3 /\ held[c] \in Calls
      /\ at' = at /\ held' = held /\ accounts' = accounts /\ snapshot' = snapshot
      /\ task' = task /\ tier' = tier /\ overlapped' = overlapped
      /\ pc'[c] = (IF at[c] < 3 THEN "read" ELSE "snapshot")
      /\ X \in Cells /\ Addend(c, at[c]) = Weight(c, X)
      /\ ledgers'[held[c]][X] = seen[c] + Addend(c, at[c])
      /\ \A x \in Cells \ {X} : ledgers'[held[c]][x] = ledgers[held[c]][x]
  BY WriteStep
<1>2. Acts(c) /\ pc[c] \in Busy /\ Records(a, c)
  BY <1>1 DEF Acts, Busy, Recording, Records
<1>3. l = ledgers[held[c]] /\ m = ledgers'[held[c]]
  <2>1. held[c] = accounts[a] /\ l = ledgers[held[c]]
    BY <1>1, InHand
  <2>2. m = ledgers'[held[c]]
    BY <1>1, <2>1, OrchestratorAssumption DEF Usage
  <2> QED BY <2>1, <2>2
<1>4. l \in [Cells -> Nat] /\ m \in [Cells -> Nat]
  BY UsageType, UsageTypeNext DEF TypeInv
<1>5. /\ l["count"] = Tally(l) + (IF Written(c) = 2 THEN 1 ELSE 0)
      /\ l["cost"] = Worth(l) + (IF Written(c) \in {1, 2} THEN CostModel[tier[c]] ELSE 0)
      /\ seen[c] = l[X] /\ Written(c) = at[c] - 1
  <2>1. Written(c) = at[c] - 1
    BY <1>1 DEF Written, Charged
  <2>2. Shows(c, l)
    BY DEF Balanced
  <2> HIDE DEF l
  <2> QED BY <1>1, <2>1, <2>2 DEF Shows
<1>6. tier[c] \in Tiers /\ CostModel[tier[c]] \in Nat
  BY <1>a, CostModelAssumption DEF TypeOK
<1>7. m[X] = l[X] + Addend(c, at[c]) /\ \A x \in Cells \ {X} : m[x] = l[x]
  BY <1>1, <1>3, <1>5
<1>8. /\ l["count"] \in Nat /\ l["cost"] \in Nat
      /\ l["standard"] \in Nat /\ l["advanced"] \in Nat /\ l["frontier"] \in Nat
  BY <1>4 DEF Cells, Tiers
<1>9. Worth(l) \in Nat /\ Tally(l) \in Nat
  BY <1>8, CostModelAssumption DEF Worth, Tally, Tiers
<1>10. CASE at[c] \in {1, 2}
  <2>1. pc'[c] = "read" /\ Written(c)' = at[c]
    <3>1. pc'[c] = "read" /\ at'[c] = at[c]
      BY <1>1, <1>10
    <3> QED BY <3>1 DEF Written, Charged
  <2>2. X = (IF at[c] = 1 THEN "cost" ELSE "count")
        /\ Addend(c, at[c]) = (IF at[c] = 1 THEN CostModel[tier[c]] ELSE 1)
    BY <1>10 DEF Cell, Addend
  <2>3. \A t \in Tiers : m[t] = l[t]
    BY <1>7, <2>2 DEF Cells, Tiers
  <2>4. Tally(m) = Tally(l) /\ Worth(m) = Worth(l)
    BY <2>3 DEF Tally, Worth, Tiers
  <2>5. m["count"] = l["count"] + (IF at[c] = 2 THEN 1 ELSE 0)
        /\ m["cost"] = l["cost"] + (IF at[c] = 1 THEN CostModel[tier[c]] ELSE 0)
    BY <1>7, <1>8, <1>10, <2>2 DEF Cells
  <2> HIDE DEF l, m, X
  <2>6. m["count"] = Tally(m) + (IF at[c] = 2 THEN 1 ELSE 0)
    BY <1>5, <1>8, <1>9, <1>10, <2>4, <2>5
  <2>7. m["cost"] = Worth(m) + (IF at[c] \in {1, 2} THEN CostModel[tier[c]] ELSE 0)
    BY <1>5, <1>6, <1>8, <1>9, <1>10, <2>4, <2>5
  <2>8. Tally(l)' = Tally(m) /\ Worth(l)' = Worth(m)
    BY DEF Tally, Worth, l, m
  <2>9. Shows(c, l)'
    BY <1>1, <2>1, <2>6, <2>7, <2>8 DEF Shows, Charged, l, m
  <2>10. \A t \in Tiers : m[t] >= l[t]
    BY <1>8, <2>3 DEF Tiers
  <2>11. Records(a, c)'
    BY <1>1, <2>1 DEF Records
  <2> QED BY <1>2, <2>9, <2>10, <2>11, BalancedHere DEF l, m
<1>11. CASE at[c] = 3
  <2>1. pc'[c] = "snapshot"
    BY <1>1, <1>11
  <2>2. X = tier[c] /\ Addend(c, at[c]) = 1
    BY <1>11 DEF Cell, Addend
  <2>3. /\ m[tier[c]] = l[tier[c]] + 1 /\ \A t \in Tiers \ {tier[c]} : m[t] = l[t]
        /\ m["count"] = l["count"] /\ m["cost"] = l["cost"]
    BY <1>6, <1>7, <2>2 DEF Cells, Tiers
  <2> HIDE DEF l, m, X
  <2>4. Tally(m) = Tally(l) + 1 /\ Worth(m) = Worth(l) + CostModel[tier[c]]
    BY <1>4, <1>6, <2>3, OneMore
  <2>5. AddsUp(m)
    BY <1>5, <1>6, <1>8, <1>9, <1>11, <2>3, <2>4 DEF AddsUp
  <2>6. AddsUp(l)'
    BY <2>5 DEF AddsUp, Tally, Worth, l, m
  <2>7. \A t \in Tiers : l[t] \in Nat
    BY <1>4 DEF Cells
  <2>8. \A t \in Tiers : m[t] >= l[t]
    BY <2>3, <2>7
  <2>9. m[tier[c]] > 0
    BY <1>6, <2>3, <2>7
  <2>10. Shows(c, l)'
    BY <1>1, <2>1, <2>9 DEF Shows, Charged, l, m
  <2> QED BY <1>2, <2>6, <2>8, <2>10, BalancedHere DEF l, m
<1>12. at[c] \in {1, 2} \/ at[c] = 3
  BY <1>1
<1> QED BY <1>10, <1>11, <1>12

LEMMA BalancedCopy ==
    ASSUME TypeInv, TypeInv', Owned, Alone, NEW c \in Calls, CopyField(c),
           c \notin overlapped, NEW a \in Accounts, a = Account(task[c]), Balanced(a)
    PROVE  Balanced(a)'
<1> DEFINE l == Usage(a)  s == snapshot[c]  s1 == snapshot'[c]
<1>a. TypeOK
  BY DEF TypeInv
<1>1. /\ pc[c] = "copy" /\ pc'[c] = (IF at[c] + 1 < 3 THEN "copy" ELSE "look")
      /\ at'[c] = at[c] + 1 /\ at[c] \in {0, 1, 2}
      /\ UNCHANGED <<task, tier, accounts, ledgers, held>>
      /\ s1 = [x \in Cells |-> IF x \in Copied(c, at[c] + 1) THEN ledgers[held[c]][x] ELSE s[x]]
  <2>1. pc[c] = "copy" /\ at[c] < 3 /\ at[c] \in 0..3
    BY <1>a DEF CopyField, TypeInv, Holds, TypeOK
  <2> QED BY <1>a, <2>1 DEF CopyField, Goto, TypeOK
<1>2. Acts(c) /\ pc[c] \in Busy /\ ~Records(a, c)
  BY <1>1 DEF Acts, Busy, Recording, Records
<1>3. Usage(a)' = l
  BY <1>1, <1>2, UsageKept DEF CreateAccount, WriteCell
<1>4. \A d \in Calls : ~Records(a, d)
  BY <1>2, WorksAlone DEF Records
<1>5. AddsUp(l)
  BY <1>4 DEF Balanced
<1>6. AddsUp(Usage(a))'
  BY <1>3, <1>5 DEF AddsUp, Tally, Worth
<1>7. /\ held[c] = accounts[a] /\ l[tier[c]] > 0
      /\ at[c] >= 1 => s["cost"] = l["cost"]
      /\ at[c] >= 2 => s["count"] = l["count"]
  <2>1. Shows(c, l)
    BY DEF Balanced
  <2> HIDE DEF l
  <2> QED BY <1>1, <2>1 DEF Shows, Charged
<1>8. l = ledgers[held[c]] /\ \A x \in Cells : l[x] \in Nat
  BY <1>a, <1>1, <1>7, UsageType DEF Usage, TypeInv, Holds
<1>9. tier[c] \in Tiers
  BY <1>a DEF TypeOK
<1>10. \A x \in Cells : s1[x] = IF x \in Copied(c, at[c] + 1) THEN l[x] ELSE s[x]
  BY <1>1, <1>8
<1> HIDE DEF l, s, s1
<1>11. /\ at[c] = 0 => s1["cost"] = l["cost"]
       /\ at[c] = 1 => s1["count"] = l["count"] /\ s1["cost"] = s["cost"]
       /\ at[c] = 2 => /\ s1["cost"] = s["cost"] /\ s1["count"] = s["count"]
                       /\ \A t \in Tiers : s1[t] = l[t]
  BY <1>10 DEF Copied, Cell, Cells, Tiers
<1>12. Shows(c, l)'
  <2>1. CASE at[c] \in {0, 1}
    <3>1. pc'[c] = "copy" /\ at'[c] \in {1, 2} /\ (at'[c] >= 2 => at[c] = 1)
      BY <1>1, <2>1
    <3>2. s1["cost"] = l["cost"] /\ (at'[c] >= 2 => s1["count"] = l["count"])
      BY <1>7, <1>11, <2>1, <3>1
    <3> QED BY <1>1, <1>3, <1>7, <3>1, <3>2 DEF Shows, Charged, l, s1
  <2>2. CASE at[c] = 2
    <3>1. pc'[c] = "look"
      BY <1>1, <2>2
    <3>2. /\ s1["count"] = l["count"] /\ s1["cost"] = l["cost"]
          /\ \A t \in Tiers : s1[t] = l[t]
      BY <1>7, <1>11, <2>2
    <3>3. AddsUp(s1)
      BY <1>5, <3>2 DEF AddsUp, Tally, Worth, Tiers
    <3>4. AddsUp(snapshot[c])' /\ s1[tier[c]] > 0
      BY <1>7, <1>9, <3>2, <3>3 DEF AddsUp, Tally, Worth, s1
    <3> QED BY <1>1, <1>3, <1>7, <3>1, <3>4 DEF Shows, Charged, l, s1
  <2> QED BY <1>1, <2>1, <2>2
<1>13. \A t \in Tiers : Usage(a)'[t] >= l[t]
  <2>1. \A t \in Tiers : l[t] \in Nat
    BY <1>8 DEF Cells
  <2> QED BY <1>3, <2>1
<1> QED BY <1>2, <1>6, <1>12, <1>13, BalancedHere DEF l

(* What a dispatch shows is its snapshot.                                  *)
LEMMA BalancedDispatch ==
    ASSUME TypeInv, TypeInv', Owned, NEW c \in Calls, Dispatches(c),
           NEW a \in Accounts, a = Account(task[c]), Balanced(a)
    PROVE  Balanced(a)'
<1> DEFINE l == Usage(a)
<1>1. /\ pc[c] \in {"look", "make", "store", "use"}
      /\ pc'[c] \in {"make", "store", "use", "done", "undispatched"}
      /\ snapshot' = snapshot /\ tier' = tier
  BY DispatchStep DEF ledgerVars, TypeInv, TypeOK
<1>2. Acts(c) /\ ~Records(a, c)
  BY <1>1 DEF Acts, Dispatches, Records
<1>3. ~(CreateAccount(c) \/ WriteCell(c))
  BY <1>1 DEF CreateAccount, WriteCell
<1>4. Usage(a)' = l /\ accounts'[a] = accounts[a]
  BY <1>2, <1>3, UsageKept
<1>5. l[tier[c]] > 0 /\ AddsUp(snapshot[c]) /\ snapshot[c][tier[c]] > 0
  <2>1. Shows(c, l)
    BY DEF Balanced
  <2> HIDE DEF l
  <2> QED BY <1>1, <2>1 DEF Shows, Charged
<1>6. AddsUp(snapshot[c])'
  BY <1>1, <1>5 DEF AddsUp, Tally, Worth
<1> HIDE DEF l
<1>7. Shows(c, l)'
  BY <1>1, <1>4, <1>5, <1>6 DEF Shows, Charged, l
<1> QED BY <1>2, <1>4, <1>7, BalancedElsewhere DEF l

LEMMA FaithfulStep ==
    ASSUME TypeInv, TypeInv', Owned, Alone, NoneBefore, AtLeast, Faithful,
           NEW c \in Calls, Acts(c)
    PROVE  Faithful'
<1> SUFFICES ASSUME NEW a \in Accounts, Unspoilt(a)' PROVE Balanced(a)'
  BY DEF Faithful
<1>a. TypeOK
  BY DEF TypeInv
<1>1. Unspoilt(a) /\ Balanced(a)
  BY UnspoiltStep DEF Faithful
<1>2. CASE Route(c) \/ FindAccount(c)
  <2>1. /\ pc[c] \in {"idle", "account"}
        /\ pc'[c] \in {"account", "unrouted", "create", "fetch"}
    BY <1>a, <1>2 DEF Route, FindAccount, Goto, TypeOK
  <2>2. ~(CreateAccount(c) \/ WriteCell(c)) /\ ~Records(a, c)
    BY <2>1 DEF CreateAccount, WriteCell, Records
  <2>3. Shows(c, Usage(a))'
    BY <2>1 DEF Shows, Charged
  <2>4. Usage(a)' = Usage(a) /\ accounts'[a] = accounts[a]
    BY <2>2, UsageKept
  <2> QED BY <1>1, <2>2, <2>3, <2>4, BalancedElsewhere
<1>3. CASE ~(Route(c) \/ FindAccount(c)) /\ Account(task[c]) # a
  <2>1. task'[c] = task[c] /\ ~Records(a, c)
    BY <1>3, Forward DEF Records
  <2>2. Usage(a)' = Usage(a) /\ accounts'[a] = accounts[a]
    BY <1>3, UsageKept
  <2> QED BY <1>1, <1>3, <2>1, <2>2, BalancedElsewhere
<1>4. CASE ~(Route(c) \/ FindAccount(c)) /\ Account(task[c]) = a /\ ~Dispatches(c)
  <2>1. pc[c] \in Busy
    BY <1>4 DEF Acts, Dispatches, CreateAccount, FetchAccount, ReadCell, WriteCell,
                BeginSnapshot, CopyField, Busy, Recording
  <2>2. c \notin overlapped
    BY <1>1, <1>4, <2>1 DEF Unspoilt
  <2>3. \/ CreateAccount(c) \/ FetchAccount(c) \/ BeginSnapshot(c) \/ ReadCell(c)
        \/ WriteCell(c) \/ CopyField(c)
    BY <1>4 DEF Acts, Dispatches
  <2>4. CASE CreateAccount(c)
    BY <1>1, <1>4, <2>4, BalancedCreate
  <2>5. CASE FetchAccount(c) \/ BeginSnapshot(c)
    BY <1>1, <1>4, <2>2, <2>5, BalancedFetch
  <2>6. CASE ReadCell(c)
    BY <1>1, <1>4, <2>2, <2>6, BalancedRead
  <2>7. CASE WriteCell(c)
    BY <1>1, <1>4, <2>2, <2>7, BalancedWrite
  <2>8. CASE CopyField(c)
    BY <1>1, <1>4, <2>2, <2>8, BalancedCopy
  <2> QED BY <2>3, <2>4, <2>5, <2>6, <2>7, <2>8
<1>5. CASE Account(task[c]) = a /\ Dispatches(c)
  BY <1>1, <1>5, BalancedDispatch
<1> QED BY <1>2, <1>3, <1>4, <1>5

-----------------------------------------------------------------------------
LEMMA UsageInvInit == Init => UsageInv
<1> SUFFICES ASSUME Init PROVE UsageInv
  OBVIOUS
<1>1. TypeOK /\ \A c \in Calls : pc[c] = "idle" /\ ledgers[c] = Empty
  BY TypeInvInit DEF Init, TypeInv
<1>2. \A a \in Accounts : accounts[a] = Null
  BY DEF Init
<1>3. Owned
  BY <1>1, <1>2 DEF Owned, Before
<1>4. AtMost /\ AtLeast
  BY <1>1, <1>2 DEF AtMost, AtLeast, Before
<1>5. Alone /\ NoneBefore
  BY <1>1 DEF Alone, NoneBefore, Busy, Recording
<1>6. Faithful
  <2>1. AddsUp(Empty)
    BY CostModelAssumption DEF AddsUp, Tally, Worth, Empty, Cells, Tiers
  <2>2. \A a \in Accounts : AddsUp(Usage(a))
    BY <1>2, <2>1 DEF Usage
  <2>3. \A c \in Calls : \A l : Shows(c, l)
    BY <1>1 DEF Shows, Charged
  <2> QED BY <2>2, <2>3 DEF Faithful, Balanced
<1> QED BY <1>3, <1>4, <1>5, <1>6 DEF UsageInv

(* No other step touches what the invariant is about.                      *)
LEMMA UsageInvKept ==
    ASSUME UNCHANGED <<pc, task, tier, ledgerVars, overlapped>>, UsageInv
    PROVE  UsageInv'
<1> USE DEF ledgerVars
<1>1. Owned' /\ Alone' /\ NoneBefore'
  BY DEF UsageInv, Owned, Alone, NoneBefore
<1>2. \A c, x : Weight(c, x)' = Weight(c, x) /\ Written(c)' = Written(c)
  BY DEF Weight, Written
<1>3. \A a, x, c : Part(a, x, c)' = Part(a, x, c)
  BY <1>2 DEF Part
<1>4. \A a, x : Most(a, x)' = Most(a, x) /\ Least(a, x)' = Least(a, x)
  BY <1>3 DEF Most, Least
<1>5. AtMost' /\ AtLeast'
  BY <1>4 DEF UsageInv, AtMost, AtLeast, Cell
<1>6. \A a : Unspoilt(a)' = Unspoilt(a) /\ Usage(a)' = Usage(a)
  BY DEF Unspoilt, Usage
<1>7. \A a : Balanced(a)' = Balanced(a)
  BY <1>2, <1>6 DEF Balanced, Records, Shows, AddsUp, Tally, Worth, Cell
<1>8. Faithful'
  BY <1>6, <1>7 DEF UsageInv, Faithful
<1> QED BY <1>1, <1>5, <1>8 DEF UsageInv

LEMMA UsageInvNext == TypeInv /\ TypeInv' /\ UsageInv /\ [Next]_vars => UsageInv'
<1> SUFFICES ASSUME TypeInv, TypeInv', UsageInv, [Next]_vars PROVE UsageInv'
  OBVIOUS
<1>1. ASSUME NEW c \in Calls, Acts(c) PROVE UsageInv'
  <2>1. Owned'
    BY <1>1, OwnedStep DEF UsageInv
  <2> QED BY <1>1, <2>1, AtMostStep, AloneStep, NoneBeforeStep, AtLeastStep, FaithfulStep
          DEF UsageInv
<1>2. ASSUME NEW r \in Registrations, Register(r[1], r[2]) PROVE UsageInv'
  BY <1>2, UsageInvKept DEF Register
<1>3. CASE UNCHANGED vars
  BY <1>3, UsageInvKept DEF vars
<1> QED BY <1>1, <1>2, <1>3 DEF Next, Acts

-----------------------------------------------------------------------------
(* The sums that the properties speak of are sums of the values of a       *)
(* function.                                                               *)
WeightsOf(x) == [c \in Calls |-> Weight(c, x)]

LEMMA WeightsAddUp ==
    ASSUME NEW S, S \subseteq Calls, IsFiniteSet(S), NEW x
    PROVE  Sum(S, x) = SumOf(WeightsOf(x), S)
<1> DEFINE W == WeightsOf(x)
           A(it) == it = [s \in SUBSET S |-> IF s = {} THEN 0
                             ELSE (CASE x = "cost" -> CostModel[tier[Some(s)]]
                                     [] x = "count" -> 1
                                     [] OTHER -> IF tier[Some(s)] = x THEN 1 ELSE 0)
                                  + it[s \ {Some(s)}]]
           sum == CHOOSE it : A(it)
<1>1. PICK i : IsSum(i, W, S) /\ SumOf(W, S) = i[S]
  BY SumUnfold
<1>2. \A s \in SUBSET S : s # {} =>
        W[Some(s)] = CASE x = "cost" -> CostModel[tier[Some(s)]]
                       [] x = "count" -> 1
                       [] OTHER -> IF tier[Some(s)] = x THEN 1 ELSE 0
  BY DEF Some, WeightsOf, Weight
<1>3. A(i)
  BY <1>1, <1>2 DEF IsSum
<1>4. A(sum)
  BY <1>3
<1>5. Sum(S, x) = sum[S]
  BY DEF Sum, MapThenSumSet, MapThenFoldSet, Some
<1>6. IsSum(sum, W, S)
  <2> HIDE DEF sum
  <2> QED BY <1>2, <1>4 DEF IsSum
<1>7. \A T \in SUBSET S : sum[T] = SumOf(W, T)
  <2> HIDE DEF sum
  <2> QED BY <1>6, SumOfParts
<1> QED BY <1>5, <1>7

LEMMA SumOverTiers ==
    ASSUME NEW f, \A t \in Tiers : f[t] \in Nat
    PROVE  /\ IsFiniteSet(Tiers)
           /\ SumOf(f, Tiers) = f["standard"] + f["advanced"] + f["frontier"]
<1> DEFINE one == {"standard"}  two == one \union {"advanced"}
<1>1. IsFiniteSet({}) /\ IsFiniteSet(one) /\ IsFiniteSet(two)
  BY FS_EmptySet, FS_AddElement
<1>2. /\ f["standard"] \in Nat /\ f["advanced"] \in Nat /\ f["frontier"] \in Nat
  BY DEF Tiers
<1>3. SumOf(f, one) = f["standard"] + SumOf(f, {})
  <2>1. SumOf(f, {} \union {"standard"}) = f["standard"] + SumOf(f, {})
    BY <1>1, <1>2, SumAdd
  <2>2. {} \union {"standard"} = one
    OBVIOUS
  <2> HIDE DEF one
  <2> QED BY <2>1, <2>2
<1>4. SumOf(f, two) = f["advanced"] + SumOf(f, one)
  BY <1>1, <1>2, SumAdd
<1>5. SumOf(f, two \union {"frontier"}) = f["frontier"] + SumOf(f, two)
  BY <1>1, <1>2, SumAdd
<1>6. two \union {"frontier"} = Tiers
  BY DEF Tiers
<1>7. SumOf(f, {}) = 0
  BY SumEmpty
<1> HIDE DEF one, two
<1>8. IsFiniteSet(Tiers)
  BY <1>1, <1>6, FS_AddElement
<1>9. SumOf(f, Tiers) = f["frontier"] + SumOf(f, two)
  BY <1>5, <1>6
<1> QED BY <1>2, <1>3, <1>4, <1>7, <1>8, <1>9

LEMMA TiersAddUp ==
    ASSUME NEW s \in [Cells -> Nat]
    PROVE  /\ MapThenSumSet(LAMBDA t : s[t], Tiers) = Tally(s)
           /\ MapThenSumSet(LAMBDA t : s[t] * CostModel[t], Tiers) = Worth(s)
<1> DEFINE W == [t \in Tiers |-> s[t] * CostModel[t]]
           A(it) == it = [r \in SUBSET Tiers |-> IF r = {} THEN 0
                             ELSE s[Some(r)] * CostModel[Some(r)] + it[r \ {Some(r)}]]
           sum == CHOOSE it : A(it)
<1>1. \A t \in Tiers : s[t] \in Nat /\ W[t] \in Nat
  BY CostModelAssumption DEF Cells
<1>0. IsFiniteSet(Tiers)
  BY <1>1, SumOverTiers
<1>2. MapThenSumSet(LAMBDA t : s[t], Tiers) = SumOf(s, Tiers)
  BY DEF SumOf
<1>3. SumOf(s, Tiers) = Tally(s)
  BY <1>1, SumOverTiers DEF Tally
<1>4. PICK i : IsSum(i, W, Tiers) /\ SumOf(W, Tiers) = i[Tiers]
  BY <1>0, SumUnfold
<1>5. \A r \in SUBSET Tiers : r # {} => W[Some(r)] = s[Some(r)] * CostModel[Some(r)]
  BY DEF Some
<1>6. A(i)
  <2> HIDE DEF W
  <2> QED BY <1>4, <1>5 DEF IsSum
<1>7. A(sum)
  BY <1>6
<1>8. MapThenSumSet(LAMBDA t : s[t] * CostModel[t], Tiers) = sum[Tiers]
  BY DEF MapThenSumSet, MapThenFoldSet, Some
<1>9. IsSum(sum, W, Tiers)
  <2> HIDE DEF sum, W
  <2> QED BY <1>5, <1>7 DEF IsSum
<1>10. sum[Tiers] = SumOf(W, Tiers)
  <2> HIDE DEF sum, W
  <2> QED BY <1>0, <1>9, SumOfParts
<1>11. SumOf(W, Tiers) = Worth(s)
  <2>1. SumOf(W, Tiers) = W["standard"] + W["advanced"] + W["frontier"]
    <3> HIDE DEF W
    <3> QED BY <1>1, SumOverTiers
  <2>2. /\ W["standard"] = s["standard"] * CostModel["standard"]
        /\ W["advanced"] = s["advanced"] * CostModel["advanced"]
        /\ W["frontier"] = s["frontier"] * CostModel["frontier"]
    BY DEF Tiers
  <2> QED BY <2>1, <2>2 DEF Worth
<1> QED BY <1>2, <1>3, <1>8, <1>10, <1>11

(* A call has written no more than its weights, and all of them when it    *)
(* has been recorded.                                                      *)
LEMMA MostBounded ==
    ASSUME TypeOK, NEW a \in Accounts, NEW x
    PROVE  Most(a, x) <= Sum(Of(a, {"read", "write"} \union Charged), x)
<1> DEFINE f == [c \in Calls |-> Part(a, x, c)]
           W == WeightsOf(x)
           R == Of(a, {"read", "write"} \union Charged)
<1>1. IsFiniteSet(Calls) /\ R \in SUBSET Calls
  BY OrchestratorAssumption DEF Of
<1>2. \A c \in Calls : f[c] \in Nat /\ W[c] \in Nat /\ f[c] <= W[c]
  BY PartType DEF Part, WeightsOf
<1>3. \A c \in Calls \ R : f[c] = 0
  <2> SUFFICES ASSUME NEW c \in Calls \ R, Account(task[c]) = a PROVE Part(a, x, c) = 0
    BY DEF Part
  <2>1. Written(c) = 0
    BY DEF Of, Written
  <2>2. Place(x) \in {1, 2, 3}
    BY DEF Place
  <2> QED BY <2>1, <2>2 DEF Part
<1>4. Most(a, x) = SumOf(f, Calls)
  BY DEF Most
<1> HIDE DEF f, W, R
<1>5. IsFiniteSet(R)
  BY <1>1, FS_Subset
<1>6. SumOf(f, Calls) = SumOf(f, R)
  BY <1>1, <1>2, <1>3, SumSupport
<1>7. SumOf(f, R) <= SumOf(W, R)
  BY <1>1, <1>2, <1>5, SumMonotone
<1>8. Sum(R, x) = SumOf(W, R)
  BY <1>1, <1>5, WeightsAddUp DEF W
<1> QED BY <1>4, <1>6, <1>7, <1>8 DEF R

LEMMA LeastBounds ==
    ASSUME TypeOK, NEW a \in Accounts, NEW x
    PROVE  /\ Least(a, x) >= Sum(Of(a, Charged) \ overlapped, x)
           /\ Sum(Of(a, Charged) \ overlapped, x) \in Nat
<1> DEFINE g == [c \in Calls |-> IF c \in overlapped THEN 0 ELSE Part(a, x, c)]
           W == WeightsOf(x)
           R == Of(a, Charged) \ overlapped
<1>1. IsFiniteSet(Calls) /\ R \in SUBSET Calls
  BY OrchestratorAssumption DEF Of
<1>2. \A c \in Calls : g[c] \in Nat
  BY PartType
<1>3. \A c \in R : g[c] = W[c]
  <2> SUFFICES ASSUME NEW c \in R PROVE Part(a, x, c) = Weight(c, x) /\ c \in Calls
    BY DEF WeightsOf
  <2>1. Written(c) = 3 /\ Account(task[c]) = a /\ c \in Calls
    BY DEF Of, Written, Charged
  <2>2. Place(x) \in {1, 2, 3}
    BY DEF Place
  <2> QED BY <2>1, <2>2 DEF Part
<1>4. Least(a, x) = SumOf(g, Calls)
  BY DEF Least
<1> HIDE DEF g, W, R
<1>5. IsFiniteSet(R)
  BY <1>1, FS_Subset
<1>6. SumOf(g, R) <= SumOf(g, Calls)
  BY <1>1, <1>2, SumSubset
<1>7. SumOf(g, R) = SumOf(W, R)
  BY <1>3, <1>5, SumSame
<1>8. Sum(R, x) = SumOf(W, R)
  BY <1>1, <1>5, WeightsAddUp DEF W
<1>9. SumOf(g, R) \in Nat /\ SumOf(g, Calls) \in Nat
  BY <1>1, <1>2, <1>5, SumType
<1> QED BY <1>4, <1>6, <1>7, <1>8, <1>9 DEF R

LEMMA UsageAlways == Spec => [](TypeInv /\ UsageInv)
BY TypeInvInit, TypeInvNext, UsageInvInit, UsageInvNext, PTL DEF Spec

-----------------------------------------------------------------------------
(* An account never shows more than its calls were routed for, however     *)
(* the threads interleave.                                                 *)
THEOREM UsageNeverOvercounted == Spec => []NeverOvercounted
<1>1. TypeInv /\ UsageInv => NeverOvercounted
  <2> SUFFICES ASSUME TypeInv, UsageInv, NEW a \in Accounts, NEW x \in Cells
               PROVE  Usage(a)[x] <= Sum(Of(a, {"read", "write"} \union Charged), x)
    BY DEF NeverOvercounted
  <2>a. TypeOK
    BY DEF TypeInv
  <2> DEFINE total == Sum(Of(a, {"read", "write"} \union Charged), x)
  <2>1. Most(a, x) <= total /\ Most(a, x) \in Nat
    BY <2>a, MostBounded, SumsType
  <2>2. Usage(a)[x] <= Most(a, x) /\ Usage(a)[x] \in Nat
    <3>1. CASE accounts[a] = Null
      BY <2>1, <3>1 DEF Usage, Empty
    <3>2. CASE accounts[a] # Null
      <4>1. accounts[a] \in Calls
        BY <2>a, <3>2 DEF TypeOK
      <4>2. pc[accounts[a]] \notin Before /\ Account(task[accounts[a]]) = a
        BY <3>2 DEF UsageInv, Owned
      <4>3. ledgers[accounts[a]][x] <= Most(a, x) /\ ledgers[accounts[a]][x] \in Nat
        BY <2>a, <4>1, <4>2 DEF UsageInv, AtMost, TypeOK
      <4> QED BY <3>2, <4>3 DEF Usage
    <3> QED BY <3>1, <3>2
  <2>3. total \in Int
    <3>1. Of(a, {"read", "write"} \union Charged) \in SUBSET Calls
      BY DEF Of
    <3>2. IsFiniteSet(Of(a, {"read", "write"} \union Charged))
      BY <3>1, OrchestratorAssumption, FS_Subset
    <3>3. \A c \in Calls : WeightsOf(x)[c] \in Nat
      BY <2>a, PartType DEF WeightsOf
    <3> QED BY <3>1, <3>2, <3>3, WeightsAddUp, SumType
  <2> HIDE DEF total
  <2>4. Usage(a)[x] <= total
    BY <2>1, <2>2, <2>3
  <2> QED BY <2>4 DEF total
<1> QED BY <1>1, UsageAlways, PTL

(* A recorded call that overlapped no other one of its account is in the   *)
(* usage of the account, for good.                                         *)
THEOREM OnlyOverlapsLost == Spec => []OnlyOverlapsAreLost
<1>1. TypeInv /\ UsageInv => OnlyOverlapsAreLost
  <2> SUFFICES ASSUME TypeInv, UsageInv, NEW a \in Accounts, NEW x \in Cells
               PROVE  Usage(a)[x] >= Sum(Of(a, Charged) \ overlapped, x)
    BY DEF OnlyOverlapsAreLost
  <2>a. TypeOK
    BY DEF TypeInv
  <2> DEFINE total == Sum(Of(a, Charged) \ overlapped, x)
  <2>1. Least(a, x) >= total /\ total \in Nat /\ Least(a, x) \in Nat
    BY <2>a, LeastBounds, SumsType
  <2>2. Usage(a)[x] >= Least(a, x) /\ Usage(a)[x] \in Nat
    <3>1. CASE accounts[a] = Null
      <4>1. \A c \in Calls : ~(pc[c] \notin Before /\ Account(task[c]) = a)
        BY <3>1 DEF UsageInv, Owned
      <4>2. Least(a, x) = 0
        BY <2>a, <4>1, LeastZero
      <4> QED BY <3>1, <4>2 DEF Usage, Empty
    <3>2. CASE accounts[a] # Null
      <4>1. accounts[a] \in Calls
        BY <2>a, <3>2 DEF TypeOK
      <4>2. ledgers[accounts[a]][x] >= Least(a, x) /\ ledgers[accounts[a]][x] \in Nat
        BY <2>a, <3>2, <4>1 DEF UsageInv, AtLeast, TypeOK
      <4> QED BY <3>2, <4>2 DEF Usage
    <3> QED BY <3>1, <3>2
  <2> HIDE DEF total
  <2>3. Usage(a)[x] >= total
    BY <2>1, <2>2
  <2> QED BY <2>3 DEF total
<1> QED BY <1>1, UsageAlways, PTL

(* What a call returns adds up, as long as no calls of its account have    *)
(* overlapped.                                                             *)
THEOREM SnapshotsAddUp == Spec => []SnapshotAddsUp
<1>1. TypeInv /\ UsageInv => SnapshotAddsUp
  <2> SUFFICES ASSUME TypeInv, UsageInv, NEW a \in Accounts,
                      overlapped \intersect Of(a, Busy \union Charged) = {},
                      NEW c \in Of(a, Charged \ {"snapshot", "copy"})
               PROVE  LET s == snapshot[c]
                      IN /\ s["count"] = MapThenSumSet(LAMBDA t : s[t], Tiers)
                         /\ s["cost"] = MapThenSumSet(LAMBDA t : s[t] * CostModel[t], Tiers)
                         /\ s[tier[c]] > 0
    BY DEF SnapshotAddsUp
  <2> DEFINE s == snapshot[c]
  <2>1. /\ c \in Calls /\ Account(task[c]) = a
        /\ pc[c] \in Charged \ {"snapshot", "copy"}
    BY DEF Of
  <2>2. Unspoilt(a)
    BY DEF Unspoilt, Of
  <2>3. Shows(c, Usage(a))
    BY <2>1, <2>2 DEF UsageInv, Faithful, Balanced
  <2>4. AddsUp(s) /\ s[tier[c]] > 0
    BY <2>1, <2>3 DEF Shows
  <2>5. s \in [Cells -> Nat]
    BY <2>1 DEF TypeInv, TypeOK
  <2> HIDE DEF s
  <2>6. /\ MapThenSumSet(LAMBDA t : s[t], Tiers) = Tally(s)
        /\ MapThenSumSet(LAMBDA t : s[t] * CostModel[t], Tiers) = Worth(s)
    BY <2>5, TiersAddUp
  <2>7. /\ s["count"] = MapThenSumSet(LAMBDA t : s[t], Tiers)
        /\ s["cost"] = MapThenSumSet(LAMBDA t : s[t] * CostModel[t], Tiers)
    BY <2>4, <2>6 DEF AddsUp
  <2> QED BY <2>4, <2>7 DEF s
<1> QED BY <1>1, UsageAlways, PTL

=============================================================================
