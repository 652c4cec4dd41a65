-------------------------- MODULE TaskLedgerProofs --------------------------
(***************************************************************************)
(* Theorems about what TaskWorkflow adds up: the rolling budget, the       *)
(* ledger of the charges, the spend of the breaker and the repetitions of  *)
(* an effect.                                                              *)
(***************************************************************************)
EXTENDS TaskWorkflowProofs, SumLemmas

Amount == [c \in Charges |-> c.amount]

LEMMA BalanceIsSum ==
    ASSUME NEW cs, cs \subseteq Charges, IsFiniteSet(cs), NEW a
    PROVE  Balance(cs, a) = SumOf(Amount, {c \in cs : c.account = a})
<1> DEFINE S == {c \in cs : c.account = a}
           A(it) == it = [s \in SUBSET S |-> IF s = {} THEN 0
                             ELSE Some(s).amount + it[s \ {Some(s)}]]
           sum == CHOOSE it : A(it)
<1>1. IsFiniteSet(S) /\ S \subseteq Charges
  BY FS_Subset
<1>2. PICK i : IsSum(i, Amount, S) /\ SumOf(Amount, S) = i[S]
  BY <1>1, SumUnfold
<1>3. \A s \in SUBSET S : s # {} => Amount[Some(s)] = Some(s).amount
  BY <1>1 DEF Some, Amount
<1>4. A(i)
  BY <1>2, <1>3 DEF IsSum
<1>5. A(sum)
  BY <1>4
<1>6. Balance(cs, a) = sum[S]
  BY DEF Balance, MapThenSumSet, MapThenFoldSet, Some
<1>7. IsSum(sum, Amount, S)
  <2> HIDE DEF sum
  <2> QED BY <1>3, <1>5 DEF IsSum
<1>8. \A T \in SUBSET S : sum[T] = SumOf(Amount, T)
  <2> HIDE DEF sum, S
  <2> QED BY <1>1, <1>7, SumOfParts
<1> QED BY <1>6, <1>8

LEMMA AmountsAddUp ==
    ASSUME NEW cs, cs \subseteq Charges, IsFiniteSet(cs)
    PROVE  /\ \A c \in cs : Amount[c] \in Nat /\ Amount[c] = c.amount
           /\ SumOf(Amount, cs) \in Nat
           /\ \A a : /\ IsFiniteSet({c \in cs : c.account = a})
                     /\ {c \in cs : c.account = a} \subseteq Charges
                     /\ Balance(cs, a) \in Nat
<1>1. \A c \in cs : Amount[c] \in Nat /\ Amount[c] = c.amount
  BY DEF Amount, Charges
<1>2. SumOf(Amount, cs) \in Nat
  BY <1>1, SumType
<1>3. ASSUME NEW a
      PROVE  /\ IsFiniteSet({c \in cs : c.account = a})
             /\ {c \in cs : c.account = a} \subseteq Charges
             /\ Balance(cs, a) \in Nat
  <2> DEFINE S == {c \in cs : c.account = a}
  <2>1. IsFiniteSet(S) /\ S \subseteq cs
    BY FS_Subset
  <2>2. Balance(cs, a) = SumOf(Amount, S)
    BY BalanceIsSum
  <2> HIDE DEF S
  <2>3. SumOf(Amount, S) \in Nat
    BY <1>1, <2>1, SumType
  <2> QED BY <2>1, <2>2, <2>3 DEF S
<1> QED BY <1>1, <1>2, <1>3

-----------------------------------------------------------------------------
(* RollingBudget.  The charges of an account that it is about, and what it *)
(* says of a table at some time.                                           *)
Passed(cs, a, now) == {c \in cs : c.account = a /\ ~c.degraded /\ c.ts >= now - Window}

Budget(cs, now) ==
    \A a \in Accounts : Passed(cs, a, now) # {} =>
        SumOf(Amount, Passed(cs, a, now)) < Threshold

LEMMA PassedOK ==
    ASSUME NEW cs, cs \subseteq Charges, IsFiniteSet(cs), NEW a, NEW now
    PROVE  /\ IsFiniteSet(Passed(cs, a, now)) /\ Passed(cs, a, now) \subseteq Charges
           /\ SumOf(Amount, Passed(cs, a, now)) \in Nat
           /\ Balance(Passed(cs, a, now), a) = SumOf(Amount, Passed(cs, a, now))
<1> DEFINE P == Passed(cs, a, now)
<1>1. IsFiniteSet(P) /\ P \subseteq Charges
  BY FS_Subset DEF Passed
<1>2. {c \in P : c.account = a} = P
  BY DEF Passed
<1> HIDE DEF P
<1>3. SumOf(Amount, P) \in Nat
  BY <1>1, AmountsAddUp
<1>4. Balance(P, a) = SumOf(Amount, {c \in P : c.account = a})
  BY <1>1, BalanceIsSum
<1> QED BY <1>1, <1>2, <1>3, <1>4 DEF P

(* What passes is what passed before, or less.                             *)
LEMMA BudgetShrinks ==
    ASSUME NEW cs, cs \subseteq Charges, IsFiniteSet(cs), NEW now, NEW a,
           Passed(cs, a, now) # {} => SumOf(Amount, Passed(cs, a, now)) < Threshold,
           NEW P, P \subseteq Passed(cs, a, now), P # {}
    PROVE  SumOf(Amount, P) < Threshold
<1> DEFINE Q == Passed(cs, a, now)
<1>1. IsFiniteSet(Q) /\ Q \subseteq Charges /\ SumOf(Amount, Q) \in Nat
  BY PassedOK
<1>2. P \in SUBSET Q /\ SumOf(Amount, Q) < Threshold
  OBVIOUS
<1> HIDE DEF Q
<1>3. \A c \in Q : Amount[c] \in Nat
  BY <1>1, AmountsAddUp
<1>4. SumOf(Amount, P) <= SumOf(Amount, Q)
  BY <1>1, <1>2, <1>3, SumSubset
<1>5. SumOf(Amount, P) \in Nat
  <2>1. IsFiniteSet(P)
    BY <1>1, <1>2, FS_Subset
  <2> QED BY <1>2, <1>3, <2>1, SumType
<1> QED BY <1>1, <1>2, <1>4, <1>5, TaskWorkflowAssumption

(* reserve(): the clock it prunes with is not ahead of now, so whatever it *)
(* drops is older than the window, and what it tests includes all that     *)
(* passes.                                                                 *)
LEMMA ReserveKeepsBudget ==
    ASSUME NEW cs, cs \subseteq Charges, IsFiniteSet(cs), NEW now \in Nat, Budget(cs, now),
           NEW at \in Nat, at <= now, NEW account \in Accounts, NEW cost \in Nat,
           NEW charge \in Charges, charge.account = account, charge.amount = cost,
           charge.degraded <=> OverThreshold(Prune(cs, account, at), account, cost)
    PROVE  Budget(Prune(cs, account, at) \union {charge}, now)
<1> DEFINE pruned == Prune(cs, account, at)
           next == pruned \union {charge}
<1>1. pruned \subseteq cs /\ IsFiniteSet(pruned)
  BY FS_Subset DEF Prune
<1>2. next \subseteq Charges /\ IsFiniteSet(next)
  BY <1>1, FS_AddElement
<1>w. Window \in Nat /\ Threshold \in Nat
  BY TaskWorkflowAssumption
<1> SUFFICES ASSUME NEW a \in Accounts, Passed(next, a, now) # {}
             PROVE  SumOf(Amount, Passed(next, a, now)) < Threshold
  BY DEF Budget
<1>3. CASE charge \notin Passed(next, a, now)
  <2>1. Passed(next, a, now) \subseteq Passed(cs, a, now)
    BY <1>1, <1>3 DEF Passed
  <2> HIDE DEF next, pruned
  <2> QED BY <2>1, BudgetShrinks DEF Budget
<1>4. CASE charge \in Passed(next, a, now)
  <2> DEFINE P == Passed(next, a, now)
             R == P \ {charge}
             S == {c \in pruned : c.account = a}
  <2>1. a = account /\ ~charge.degraded
    BY <1>4 DEF Passed
  <2>2. Balance(pruned, a) + cost < Threshold
    <3>1. Balance(pruned, a) \in Nat
      <4> HIDE DEF pruned
      <4> QED BY <1>1, AmountsAddUp
    <3>2. ~(Balance(pruned, a) + cost >= Threshold)
      BY <2>1 DEF OverThreshold
    <3> QED BY <3>1, <3>2, <1>w
  <2>3. IsFiniteSet(P) /\ P \subseteq Charges
    <3> HIDE DEF next
    <3> QED BY <1>2, PassedOK
  <2>4. R \subseteq S
    BY DEF Passed
  <2>5. Balance(pruned, a) = SumOf(Amount, S) /\ Balance(pruned, a) \in Nat
    <3> HIDE DEF pruned
    <3> QED BY <1>1, BalanceIsSum, AmountsAddUp
  <2>6. IsFiniteSet(S) /\ S \subseteq Charges
    BY <1>1, FS_Subset
  <2>7. charge \in P
    BY <1>4
  <2>8. \A c \in Charges : Amount[c] \in Nat
    BY DEF Amount, Charges
  <2>9. Amount[charge] = cost
    BY DEF Amount
  <2> HIDE DEF P, R, S, next, pruned
  <2>10. SumOf(Amount, P) = Amount[charge] + SumOf(Amount, R)
    BY <2>3, <2>7, <2>8, SumRemove DEF R
  <2>11. SumOf(Amount, R) <= SumOf(Amount, S)
    BY <2>4, <2>6, <2>8, SumSubset
  <2>12. SumOf(Amount, R) \in Nat
    <3>1. IsFiniteSet(R) /\ R \subseteq Charges
      BY <2>4, <2>6, FS_Subset
    <3> QED BY <3>1, <2>8, SumType
  <2> QED BY <2>2, <2>5, <2>9, <2>10, <2>11, <2>12, <1>w DEF P
<1> QED BY <1>3, <1>4

(* settle(): no amount is raised.                                          *)
LEMMA RevalueImage ==
    ASSUME NEW cs, cs \subseteq Charges, IsFiniteSet(cs), NEW targets,
           NEW reserved \in Nat, NEW actual \in Nat,
           \A c \in targets : c.amount = reserved
    PROVE  \E h : /\ Revalue(cs, targets, actual) = ImageOf(h, cs)
                  /\ \A c \in cs : /\ h[c] \in Charges
                                   /\ h[c].id = c.id /\ h[c].account = c.account
                                   /\ h[c].ts = c.ts /\ h[c].by = c.by
                                   /\ h[c].degraded = c.degraded
                                   /\ h[c].amount = IF c \in targets THEN actual
                                                    ELSE c.amount
<1> DEFINE V(c) == IF c \in targets THEN [c EXCEPT !.amount = actual] ELSE c
           h == [c \in cs |-> V(c)]
<1>1. Revalue(cs, targets, actual) = ImageOf(h, cs)
  BY DEF Revalue, ImageOf
<1>2. ASSUME NEW c \in cs
      PROVE  /\ h[c] \in Charges
             /\ h[c].id = c.id /\ h[c].account = c.account
             /\ h[c].ts = c.ts /\ h[c].by = c.by
             /\ h[c].degraded = c.degraded
             /\ h[c].amount = IF c \in targets THEN actual ELSE c.amount
  <2>1. h[c] = V(c) /\ c \in Charges
    OBVIOUS
  <2> HIDE DEF h
  <2>2. CASE c \in targets
    <3>1. h[c] = [c EXCEPT !.amount = actual]
      BY <2>1, <2>2
    <3> QED BY <2>1, <2>2, <3>1 DEF Charges
  <2>3. CASE c \notin targets
    <3>1. h[c] = c
      BY <2>1, <2>3
    <3> QED BY <2>1, <2>3, <3>1
  <2> QED BY <2>2, <2>3
<1> HIDE DEF h
<1> QED BY <1>1, <1>2

LEMMA SettleKeepsBudget ==
    ASSUME NEW cs, cs \subseteq Charges, IsFiniteSet(cs), NEW now \in Nat, Budget(cs, now),
           NEW pruned, pruned \subseteq cs, NEW targets,
           NEW reserved \in Nat, NEW actual \in Nat, actual <= reserved,
           \A c \in targets : c.amount = reserved
    PROVE  /\ Budget(Revalue(pruned, targets, actual), now)
           /\ IsFiniteSet(Revalue(pruned, targets, actual))
<1> DEFINE next == Revalue(pruned, targets, actual)
<1>1. IsFiniteSet(pruned) /\ pruned \subseteq Charges
  BY FS_Subset
<1>2. PICK h : /\ next = ImageOf(h, pruned)
               /\ \A c \in pruned : /\ h[c] \in Charges
                                    /\ h[c].id = c.id /\ h[c].account = c.account
                                    /\ h[c].ts = c.ts /\ h[c].by = c.by
                                    /\ h[c].degraded = c.degraded
                                    /\ h[c].amount = IF c \in targets THEN actual
                                                     ELSE c.amount
  BY <1>1, RevalueImage
<1>3. \A c \in pruned : /\ Amount[c] \in Nat
                        /\ Amount[h[c]] \in Nat /\ Amount[h[c]] <= Amount[c]
  <2>1. SUFFICES ASSUME NEW c \in pruned
                 PROVE  /\ Amount[c] \in Nat
                        /\ Amount[h[c]] \in Nat /\ Amount[h[c]] <= Amount[c]
    OBVIOUS
  <2>2. c \in Charges /\ h[c] \in Charges
    BY <1>1, <1>2
  <2>3. Amount[c] = c.amount /\ Amount[h[c]] = h[c].amount /\ c.amount \in Nat
    BY <2>2 DEF Amount, Charges
  <2>4. h[c].amount = IF c \in targets THEN actual ELSE c.amount
    BY <1>2
  <2> QED BY <2>3, <2>4
<1>4. IsFiniteSet(ImageOf(h, pruned))
  BY <1>1, <1>3, SumImage
<1> HIDE DEF next
<1>5. ASSUME NEW a \in Accounts, Passed(next, a, now) # {}
      PROVE  SumOf(Amount, Passed(next, a, now)) < Threshold
  <2> DEFINE P == Passed(pruned, a, now)
  <2>1. Passed(next, a, now) = ImageOf(h, P)
    BY <1>2 DEF Passed, ImageOf
  <2>2. P \subseteq pruned /\ P \subseteq Passed(cs, a, now) /\ P # {}
    BY <1>5, <2>1 DEF Passed, ImageOf
  <2>3. IsFiniteSet(P)
    BY <1>1, <2>2, FS_Subset
  <2>4. SumOf(Amount, P) < Threshold
    <3> HIDE DEF P
    <3> QED BY <2>2, BudgetShrinks DEF Budget
  <2>5. SumOf(Amount, P) \in Nat
    BY <1>1, PassedOK
  <2> HIDE DEF P
  <2>6. \A c \in P : /\ Amount[c] \in Nat
                     /\ Amount[h[c]] \in Nat /\ Amount[h[c]] <= Amount[c]
    BY <1>3, <2>2
  <2>7. IsFiniteSet(ImageOf(h, P)) /\ SumOf(Amount, ImageOf(h, P)) <= SumOf(Amount, P)
    BY <2>3, <2>6, SumImage
  <2>8. \A d \in ImageOf(h, P) : Amount[d] \in Nat
    BY <2>6 DEF ImageOf
  <2>9. SumOf(Amount, ImageOf(h, P)) \in Nat
    BY <2>7, <2>8, SumType
  <2> QED BY <2>1, <2>4, <2>5, <2>7, <2>9, TaskWorkflowAssumption
<1> QED BY <1>2, <1>4, <1>5 DEF Budget, next

(* RollingBudget is inductive once it is known that the table is finite    *)
(* and that no task is routed to a tier dearer than its reservation.       *)
PricedInv == \A t \in Tasks : local[t].tier \in Tiers => Actual(t) <= Projected(t)

BudgetInv ==
    /\ IsFiniteSet(charges)
    /\ PricedInv
    /\ Budget(charges, clock)

LEMMA RoutedNotDearer ==
    ASSUME NEW t \in Tasks, NEW degraded
    PROVE  CostModel[RouteTier(t \in Escalate, Classified[t], degraded)] <= Projected(t)
<1>1. UncappedTier(t \in Escalate, Classified[t]) \in Tiers
  BY TaskWorkflowAssumption DEF UncappedTier, ClassifierTiers, Tiers
<1>2. \A s \in Tiers : CostModel[s] \in Nat
  BY CostModelAssumption
<1> DEFINE u == UncappedTier(t \in Escalate, Classified[t])
<1>3. \/ DegradedCap(degraded, u) = u
      \/ u = "frontier" /\ DegradedCap(degraded, u) = "advanced"
  BY DEF DegradedCap
<1>4. "advanced" \in Tiers /\ "frontier" \in Tiers
  BY DEF Tiers
<1>5. RouteTier(t \in Escalate, Classified[t], degraded) = DegradedCap(degraded, u)
  BY DEF RouteTier
<1>6. Projected(t) = CostModel[u]
  BY DEF Projected, ProjectedCost
<1> HIDE DEF u
<1> QED BY <1>1, <1>2, <1>3, <1>4, <1>5, <1>6, CostModelAssumption DEF u

LEMMA PricedInvNext ==
    ASSUME TypeInv, PricedInv, [Next]_vars
    PROVE  PricedInv'
<1> SUFFICES ASSUME NEW t \in Tasks, local'[t].tier \in Tiers
             PROVE  CostModel[local'[t].tier] <= Projected(t)
  BY DEF PricedInv, Actual, Projected
<1>1. CASE local'[t].tier = local[t].tier
  BY <1>1 DEF PricedInv, Actual
<1>2. CASE Routed(t)
  BY <1>2, RoutedNotDearer DEF Routed
<1> QED BY <1>1, <1>2, NextMoves
     DEF Moves, StaysOrFails, Same, Reserved, Consulted, MovesOn

(* The table is only written by reserve() and settle().                    *)
LEMMA ChargesFrom ==
    ASSUME [Next]_vars
    PROVE  \/ UNCHANGED charges
           \/ \E b \in bodies : ReserveUsage(b) \/ SettleUsage(b)
<1>1. ASSUME NEW b \in bodies, Body(b)
      PROVE  UNCHANGED charges \/ ReserveUsage(b) \/ SettleUsage(b)
  BY <1>1 DEF Body, MarkRunning, MarkCompleted, MarkFailed, MarkStatus, CheckRateLimit,
     CircuitBreakerEffective, RouteTask, CircuitBreakerRecord, DispatchTask, RaiseError,
     storeVars
<1> QED
  BY <1>1 DEF Next, PickUp, EnterBody, StartToCloseTimeout, ScheduleToStartTimeout,
     WorkerCrash, ResetBreaker, Tick, Quiesced, vars, storeVars

LEMMA ClockNext ==
    ASSUME TypeInv, [Next]_vars
    PROVE  clock \in Nat /\ (UNCHANGED clock \/ (clock' = clock + 1 /\ UNCHANGED charges))
<1>1. clock \in Nat
  BY TaskWorkflowAssumption DEF TypeInv, TypeOK
<1>2. ASSUME NEW b \in bodies, Body(b) PROVE UNCHANGED clock
  BY <1>2 DEF Body, MarkRunning, MarkCompleted, MarkFailed, MarkStatus, CheckRateLimit,
     ReserveUsage, CircuitBreakerEffective, RouteTask, SettleUsage, CircuitBreakerRecord,
     DispatchTask, RaiseError
<1> QED
  BY <1>1, <1>2 DEF Next, PickUp, EnterBody, StartToCloseTimeout, ScheduleToStartTimeout,
     WorkerCrash, ResetBreaker, Tick, Quiesced, vars, storeVars

(* What a body that reserves, or settles, does to the table.               *)
LEMMA ReserveCharge ==
    ASSUME TypeInv, NEW b \in bodies, ReserveUsage(b)
    PROVE  \E charge \in Charges :
             /\ charge.id = lastId + 1 /\ charge.account = Owner[b.task]
             /\ charge.ts = b.at /\ charge.amount = Projected(b.task)
             /\ charge.by = b.task
             /\ charge.degraded = OverThreshold(Prune(charges, Owner[b.task], b.at),
                                     Owner[b.task], Projected(b.task))
             /\ charges' = Prune(charges, Owner[b.task], b.at) \union {charge}
             /\ lastId' = lastId + 1
             /\ b.at \in 0..MaxClock
<1> DEFINE t == b.task
           over == OverThreshold(Prune(charges, Owner[t], b.at), Owner[t], Projected(t))
           charge == [id |-> lastId + 1, account |-> Owner[t], ts |-> b.at,
                      amount |-> Projected(t), by |-> t, degraded |-> over]
<1>1. t \in Tasks /\ b.at \in 0..MaxClock /\ lastId \in Nat
  BY DEF ReserveUsage, Runs, TypeInv, TypeOK, Bodies
<1>2. Projected(t) \in Nat /\ Owner[t] \in Accounts
  BY <1>1, ProjectedOK, TaskWorkflowAssumption
<1>3. over \in BOOLEAN
  BY DEF OverThreshold
<1>4. /\ charges' = Prune(charges, Owner[t], b.at) \union {charge}
      /\ lastId' = lastId + 1
  BY DEF ReserveUsage
<1> HIDE DEF over
<1>5. charge \in Charges
  BY <1>1, <1>2, <1>3 DEF Charges
<1> HIDE DEF charge
<1>6. /\ charge.id = lastId + 1 /\ charge.account = Owner[t] /\ charge.ts = b.at
      /\ charge.amount = Projected(t) /\ charge.by = t /\ charge.degraded = over
  BY DEF charge
<1> QED BY <1>1, <1>4, <1>5, <1>6 DEF over

LEMMA SettleCharges ==
    ASSUME TypeInv, NEW b \in bodies, SettleUsage(b)
    PROVE  /\ b.task \in Tasks /\ Owner[b.task] \in Accounts /\ b.at \in 0..MaxClock
           /\ local[b.task].tier \in Tiers
           /\ Projected(b.task) \in Nat /\ Actual(b.task) \in Nat
           /\ charges' = Revalue(Prune(charges, Owner[b.task], b.at),
                           SettleTarget(Prune(charges, Owner[b.task], b.at),
                                        Owner[b.task], Projected(b.task)),
                           Actual(b.task))
           /\ UNCHANGED lastId
<1>1. b.task \in Tasks /\ b.at \in 0..MaxClock
  BY DEF SettleUsage, Runs, TypeInv, TypeOK, Bodies
<1>2. local[b.task].tier \in Tiers
  BY <1>1 DEF SettleUsage, Runs, TypeInv, TierKnown, RoutedSteps
<1>3. Projected(b.task) \in Nat /\ Actual(b.task) \in Nat /\ Owner[b.task] \in Accounts
  BY <1>1, <1>2, ProjectedOK, ActualOK, TaskWorkflowAssumption
<1> QED BY <1>1, <1>2, <1>3 DEF SettleUsage

LEMMA BudgetInvNext ==
    ASSUME TypeInv, TypeInv', TimesInv, BudgetInv, [Next]_vars
    PROVE  BudgetInv'
<1>1. PricedInv'
  BY PricedInvNext DEF BudgetInv
<1>2. charges \subseteq Charges /\ IsFiniteSet(charges) /\ clock \in Nat /\ Window \in Nat
  BY TaskWorkflowAssumption, ClockNext DEF TypeInv, TypeOK, BudgetInv
<1>3. CASE UNCHANGED charges
  <2>1. clock' \in Nat /\ clock <= clock'
    BY <1>2, ClockNext
  <2>2. \A c \in charges : c.ts \in Nat
    BY <1>2 DEF Charges
  <2>3. ASSUME NEW a \in Accounts, Passed(charges, a, clock') # {}
        PROVE  SumOf(Amount, Passed(charges, a, clock')) < Threshold
    <3>1. Passed(charges, a, clock') \subseteq Passed(charges, a, clock)
      BY <1>2, <2>1, <2>2 DEF Passed
    <3> QED BY <1>2, <2>3, <3>1, BudgetShrinks DEF BudgetInv, Budget
  <2> QED BY <1>1, <1>2, <1>3, <2>3 DEF BudgetInv, Budget
<1>4. ASSUME NEW b \in bodies, ReserveUsage(b) PROVE BudgetInv'
  <2>1. UNCHANGED clock
    BY <1>4 DEF ReserveUsage
  <2> DEFINE account == Owner[b.task]
             pruned == Prune(charges, account, b.at)
  <2>2. PICK charge \in Charges :
             /\ charge.account = Owner[b.task]
             /\ charge.amount = Projected(b.task)
             /\ charge.degraded = OverThreshold(Prune(charges, Owner[b.task], b.at),
                                     Owner[b.task], Projected(b.task))
             /\ charges' = Prune(charges, Owner[b.task], b.at) \union {charge}
             /\ b.at \in 0..MaxClock
    BY <1>4, ReserveCharge
  <2>3. b.at \in Nat /\ b.at <= clock
    BY <2>2 DEF TimesInv
  <2>4. b.task \in Tasks
    BY DEF TypeInv, TypeOK, Bodies
  <2>5. account \in Accounts /\ Projected(b.task) \in Nat
    BY <2>4, ProjectedOK, TaskWorkflowAssumption
  <2>6. IsFiniteSet(charges')
    <3>1. IsFiniteSet(pruned)
      BY <1>2, FS_Subset DEF Prune
    <3> HIDE DEF pruned
    <3> QED BY <2>2, <3>1, FS_AddElement DEF pruned
  <2>7. Budget(charges', clock)
    BY <1>2, <2>2, <2>3, <2>5, ReserveKeepsBudget DEF BudgetInv
  <2> QED BY <1>1, <2>1, <2>6, <2>7 DEF BudgetInv
<1>5. ASSUME NEW b \in bodies, SettleUsage(b) PROVE BudgetInv'
  <2> DEFINE account == Owner[b.task]
             pruned == Prune(charges, account, b.at)
             targets == SettleTarget(pruned, account, Projected(b.task))
  <2>1. /\ charges' = Revalue(pruned, targets, Actual(b.task))
        /\ Projected(b.task) \in Nat /\ Actual(b.task) \in Nat
        /\ b.task \in Tasks /\ local[b.task].tier \in Tiers
    BY <1>5, SettleCharges
  <2>2. UNCHANGED clock
    BY <1>5 DEF SettleUsage
  <2>3. Actual(b.task) <= Projected(b.task)
    BY <2>1 DEF BudgetInv, PricedInv
  <2>4. pruned \subseteq charges /\ \A c \in targets : c.amount = Projected(b.task)
    BY DEF Prune, SettleTarget
  <2> HIDE DEF pruned, targets
  <2>5. Budget(charges', clock) /\ IsFiniteSet(charges')
    BY <1>2, <2>1, <2>3, <2>4, SettleKeepsBudget DEF BudgetInv
  <2> QED BY <1>1, <2>2, <2>5 DEF BudgetInv
<1> QED BY <1>3, <1>4, <1>5, ChargesFrom

(* What the table holds of the reservations of an account that were        *)
(* answered "not degraded" and are younger than the window never adds up   *)
(* to the threshold, however many tasks, workers and accounts there are,   *)
(* and whatever is lost, repeated, late, settled or forgotten in a crash.  *)
(* The sum is over the amounts in the table, some of which the settlements *)
(* of other tasks may have lowered: what was given is bounded by           *)
(* FrontierBelowThreshold, under its assumptions.                          *)
THEOREM BudgetRolls == Spec => []RollingBudget
<1>1. Init => BudgetInv
  <2> SUFFICES ASSUME Init PROVE BudgetInv
    OBVIOUS
  <2>1. IsFiniteSet(charges)
    BY FS_EmptySet DEF Init
  <2>2. PricedInv
    BY DEF Init, PricedInv, Tiers, Null
  <2>3. Budget(charges, clock)
    BY DEF Init, Budget, Passed
  <2> QED BY <2>1, <2>2, <2>3 DEF BudgetInv
<1>2. Init => TimesInv
  BY DEF Init, TimesInv
<1>3. TypeInv /\ TimesInv /\ [Next]_vars => TimesInv'
  BY TimesInvNext
<1>4. TypeInv /\ TypeInv' /\ TimesInv /\ BudgetInv /\ [Next]_vars => BudgetInv'
  BY BudgetInvNext
<1>5. TypeInv /\ BudgetInv => RollingBudget
  <2> SUFFICES ASSUME TypeInv, BudgetInv, NEW a \in Accounts,
                      Passed(charges, a, clock) # {}
               PROVE  Balance(Passed(charges, a, clock), a) < Threshold
    BY DEF RollingBudget, Passed
  <2>1. charges \subseteq Charges /\ IsFiniteSet(charges)
    BY DEF TypeInv, TypeOK, BudgetInv
  <2>2. SumOf(Amount, Passed(charges, a, clock)) < Threshold
    BY DEF BudgetInv, Budget
  <2> QED BY <2>1, <2>2, PassedOK
<1> QED
  BY <1>1, <1>2, <1>3, <1>4, <1>5, TypeInvInit, TypeInvNext, PTL DEF Spec

-----------------------------------------------------------------------------
(* EffectsBounded.  How many attempts at step s of a task the server has   *)
(* handed out at most; the effects there have been and the bodies that may *)
(* still have one are together no more.                                    *)
Before(s) ==
    IF s = "reserve_usage" THEN {"mark_running", "check_rate_limit"}
    ELSE {"mark_running", "check_rate_limit", "reserve_usage",
          "circuit_breaker_effective", "route_task", "settle_usage",
          "circuit_breaker_record"}

HandedOut(t, s) ==
    IF step[t] = s THEN IF phase[t] = "scheduled" THEN attempt[t] - 1 ELSE attempt[t]
    ELSE IF step[t] \in Before(s) THEN 0 ELSE MaxAttempts

Pending(t, s) == {b \in bodies : b.task = t /\ b.step = s}

ChargesBy(t) == {c \in charges : c.by = t}

EffectsInv ==
    /\ IsFiniteSet(charges) /\ IsFiniteSet(bodies)
    /\ \A t \in Tasks :
         /\ Cardinality(ChargesBy(t)) + Cardinality(Pending(t, "reserve_usage"))
              <= HandedOut(t, "reserve_usage")
         /\ dispatches[t] + Cardinality(Pending(t, "dispatch_task"))
              <= HandedOut(t, "dispatch_task")

(* What one step does to the attempts of one task.                         *)
Retried(t) ==
    /\ step'[t] = step[t] /\ phase'[t] = "scheduled"
    /\ attempt[t] < MaxAttempts /\ attempt'[t] = attempt[t] + 1

Fresh(t) ==
    /\ step'[t] # step[t] /\ attempt'[t] = 1
    /\ phase'[t] = IF step'[t] \in Ends THEN "closed" ELSE "scheduled"

SameAttempt(t) ==
    step'[t] = step[t] /\ phase'[t] = phase[t] /\ attempt'[t] = attempt[t]

LEMMA FailsAttempt ==
    ASSUME TypeInv, NEW u \in Tasks, phase[u] # "closed",
           AttemptFails(u) \/ ActivityFails(u), NEW t \in Tasks
    PROVE  SameAttempt(t) \/ Retried(t) \/ Fresh(t)
<1>1. step[u] # "failed"
  BY DEF TypeInv, TypeOK, ClosedMeansEnded, Ends
<1>2. CASE ActivityFails(u)
  <2>1. \E s \in {"mark_failed", "failed"} : Goto(u, s) /\ s # step[u]
    BY <1>1, <1>2 DEF ActivityFails
  <2> QED BY <2>1 DEF Goto, SameAttempt, Fresh, TypeInv, TypeOK
<1>3. CASE /\ attempt[u] < MaxAttempts
           /\ attempt' = [attempt EXCEPT ![u] = @ + 1]
           /\ phase' = [phase EXCEPT ![u] = "scheduled"]
           /\ UNCHANGED <<step, local>>
  BY <1>3 DEF SameAttempt, Retried, TypeInv, TypeOK
<1> QED BY <1>2, <1>3 DEF AttemptFails

LEMMA BodyAttempt ==
    ASSUME TypeInv, NEW b \in bodies, Body(b), NEW t \in Tasks
    PROVE  SameAttempt(t) \/ Retried(t) \/ Fresh(t)
<1>1. b.task \in Tasks
  BY DEF TypeInv, TypeOK, Bodies
<1>2. CASE RaiseError(b)
  BY <1>1, <1>2, FailsAttempt DEF RaiseError, Current, workflowVars, SameAttempt
<1>3. CASE ~RaiseError(b)
  <2>1. ASSUME NEW next, NEW locals, Return(b, next, locals), next # b.step
        PROVE  SameAttempt(t) \/ Fresh(t)
    <3>1. CASE UNCHANGED workflowVars
      BY <3>1 DEF workflowVars, SameAttempt
    <3>2. CASE Current(b) /\ Goto(b.task, next)
      BY <1>1, <2>1, <3>2 DEF Current, Goto, SameAttempt, Fresh, TypeInv, TypeOK
    <3> QED BY <2>1, <3>1, <3>2 DEF Return
  <2>2. CASE MarkRunning(b) \/ MarkCompleted(b) \/ MarkFailed(b)
    BY <2>1, <2>2 DEF MarkRunning, MarkCompleted, MarkFailed, MarkStatus, Runs
  <2>3. CASE CheckRateLimit(b)
    BY <2>1, <2>3 DEF CheckRateLimit, Runs
  <2>4. CASE ReserveUsage(b) \/ CircuitBreakerEffective(b) \/ RouteTask(b)
    BY <2>1, <2>4 DEF ReserveUsage, CircuitBreakerEffective, RouteTask, Runs
  <2>5. CASE SettleUsage(b) \/ CircuitBreakerRecord(b) \/ DispatchTask(b)
    BY <2>1, <2>5 DEF SettleUsage, CircuitBreakerRecord, DispatchTask, Runs
  <2> QED BY <1>3, <2>2, <2>3, <2>4, <2>5 DEF Body
<1> QED BY <1>2, <1>3

LEMMA AttemptNext ==
    ASSUME TypeInv, [Next]_vars, NEW t \in Tasks
    PROVE  SameAttempt(t) \/ Retried(t) \/ Fresh(t) \/ \E w \in Workers : PickUp(t, w)
<1>1. CASE UNCHANGED <<step, phase, attempt>>
  BY <1>1 DEF SameAttempt
<1>2. ASSUME NEW b \in bodies, Body(b)
      PROVE  SameAttempt(t) \/ Retried(t) \/ Fresh(t)
  BY <1>2, BodyAttempt
<1>3. ASSUME NEW u \in Tasks, StartToCloseTimeout(u) \/ ScheduleToStartTimeout(u)
      PROVE  SameAttempt(t) \/ Retried(t) \/ Fresh(t)
  BY <1>3, FailsAttempt DEF StartToCloseTimeout, ScheduleToStartTimeout
<1>4. ASSUME NEW u \in Tasks, NEW w \in Workers, PickUp(u, w), u # t
      PROVE  SameAttempt(t)
  BY <1>4 DEF PickUp, SameAttempt, TypeInv, TypeOK
<1> QED
  BY <1>1, <1>2, <1>3, <1>4
     DEF Next, EnterBody, WorkerCrash, ResetBreaker, Tick, Quiesced, vars, workflowVars

(* The attempts that were handed out never become fewer, and one more is   *)
(* handed out by PickUp.                                                   *)
LEMMA HandedOutOK ==
    ASSUME TypeInv, NEW t \in Tasks, NEW s
    PROVE  HandedOut(t, s) \in 0..MaxAttempts
BY TaskWorkflowAssumption DEF HandedOut, TypeInv, TypeOK

LEMMA HandedOutNext ==
    ASSUME TypeInv, TypeInv', [Next]_vars, NEW t \in Tasks,
           NEW s \in {"reserve_usage", "dispatch_task"}
    PROVE  /\ HandedOut(t, s) <= HandedOut(t, s)'
           /\ \A w \in Workers : PickUp(t, w) /\ step[t] = s
                 => HandedOut(t, s)' = HandedOut(t, s) + 1
<1>1. /\ HandedOut(t, s) \in 0..MaxAttempts /\ HandedOut(t, s)' \in 0..MaxAttempts
      /\ attempt[t] \in 1..MaxAttempts /\ MaxAttempts \in Nat
  <2>1. HandedOut(t, s)' \in 0..MaxAttempts
    BY TaskWorkflowAssumption DEF HandedOut, TypeInv, TypeOK
  <2> QED BY <2>1, HandedOutOK, TaskWorkflowAssumption DEF TypeInv, TypeOK
<1>2. ASSUME NEW w \in Workers, PickUp(t, w)
      PROVE  /\ step[t] = s => HandedOut(t, s)' = HandedOut(t, s) + 1
             /\ step[t] # s => HandedOut(t, s)' = HandedOut(t, s)
  <2>1. /\ step'[t] = step[t] /\ attempt'[t] = attempt[t]
        /\ phase[t] = "scheduled" /\ phase'[t] = "running"
    BY <1>2 DEF PickUp, TypeInv, TypeOK
  <2> QED BY <1>1, <2>1 DEF HandedOut
<1>3. ASSUME SameAttempt(t) PROVE HandedOut(t, s) <= HandedOut(t, s)'
  BY <1>1, <1>3 DEF SameAttempt, HandedOut
<1>4. ASSUME Retried(t) PROVE HandedOut(t, s) <= HandedOut(t, s)'
  BY <1>1, <1>4 DEF Retried, HandedOut
<1>5. ASSUME Fresh(t) PROVE HandedOut(t, s) <= HandedOut(t, s)'
  <2>1. CASE HandedOut(t, s)' = MaxAttempts
    BY <1>1, <2>1
  <2>2. CASE HandedOut(t, s)' # MaxAttempts
    <3>1. step'[t] = s \/ step'[t] \in Before(s)
      BY <2>2 DEF HandedOut
    <3>2. step'[t] # "mark_failed" /\ step'[t] # "failed"
      BY <3>1 DEF Before
    <3>3. step[t] \in Before(s) /\ step[t] # s
      <4>1. CASE Reserved(t) \/ Consulted(t) \/ Routed(t) \/ MovesOn(t)
        BY <3>1, <4>1 DEF Before, Reserved, Consulted, Routed, MovesOn, PlainMoves
      <4>2. CASE StaysOrFails(t)
        BY <1>5, <3>2, <4>2 DEF Fresh, StaysOrFails
      <4> QED BY <4>1, <4>2, NextMoves DEF Moves
    <3>4. HandedOut(t, s) = 0
      BY <3>3 DEF HandedOut
    <3> QED BY <1>1, <3>4
  <2> QED BY <2>1, <2>2
<1>6. ASSUME NEW w \in Workers, PickUp(t, w) PROVE HandedOut(t, s) <= HandedOut(t, s)'
  BY <1>1, <1>2, <1>6
<1>7. HandedOut(t, s) <= HandedOut(t, s)'
  BY <1>3, <1>4, <1>5, <1>6, AttemptNext
<1> QED BY <1>2, <1>7

(* The bodies that may still have the effect: one more by PickUp, one less *)
(* when the body has run.                                                  *)
LEMMA ReplaceCardinality ==
    ASSUME NEW S, IsFiniteSet(S), NEW x \in S, NEW y
    PROVE  /\ IsFiniteSet((S \ {x}) \union {y})
           /\ Cardinality((S \ {x}) \union {y}) <= Cardinality(S)
<1> DEFINE R == S \ {x}
<1>1. IsFiniteSet(R) /\ Cardinality(R) = Cardinality(S) - 1 /\ Cardinality(S) \in Nat
  BY FS_RemoveElement, FS_CardinalityType
<1> HIDE DEF R
<1>2. /\ IsFiniteSet(R \union {y})
      /\ Cardinality(R \union {y}) = IF y \in R THEN Cardinality(R) ELSE Cardinality(R) + 1
  BY <1>1, FS_AddElement
<1> QED BY <1>1, <1>2 DEF R

LEMMA PendingNext ==
    ASSUME TypeInv, IsFiniteSet(bodies), [Next]_vars
    PROVE  /\ IsFiniteSet(bodies')
           /\ \A t \in Tasks, s \in Activities :
                /\ IsFiniteSet(Pending(t, s))
                /\ Cardinality(Pending(t, s)) \in Nat /\ Cardinality(Pending(t, s)') \in Nat
                /\ \/ Cardinality(Pending(t, s)') <= Cardinality(Pending(t, s))
                   \/ /\ \E w \in Workers : PickUp(t, w)
                      /\ step[t] = s
                      /\ Cardinality(Pending(t, s)') <= Cardinality(Pending(t, s)) + 1
                /\ \A b \in bodies : Body(b) /\ b.task = t /\ b.step = s =>
                     Cardinality(Pending(t, s)') = Cardinality(Pending(t, s)) - 1
<1>1. ASSUME bodies' \subseteq bodies PROVE IsFiniteSet(bodies')
  BY <1>1, FS_Subset
<1>2. ASSUME NEW u \in Tasks, NEW w \in Workers, PickUp(u, w)
      PROVE  \E n : /\ n.task = u /\ n.step = step[u]
                    /\ bodies' = bodies \union {n}
  <2> DEFINE n == [task |-> u, step |-> step[u], attempt |-> attempt[u],
                   worker |-> w, at |-> Unread]
  <2>1. n.task = u /\ n.step = step[u] /\ bodies' = bodies \union {n}
    BY <1>2 DEF PickUp
  <2> HIDE DEF n
  <2> QED BY <2>1
<1>3. ASSUME NEW b \in bodies, EnterBody(b)
      PROVE  \E n : /\ n.task = b.task /\ n.step = b.step
                    /\ bodies' = (bodies \ {b}) \union {n}
  <2> DEFINE n == [b EXCEPT !.at = clock]
  <2>1. n.task = b.task /\ n.step = b.step /\ bodies' = (bodies \ {b}) \union {n}
    BY <1>3 DEF EnterBody, TypeInv, TypeOK, Bodies
  <2> HIDE DEF n
  <2> QED BY <2>1
<1>4. ASSUME NEW b \in bodies, Body(b) PROVE bodies' = bodies \ {b}
  BY <1>4, BodyOnly
<1>5. \/ bodies' \subseteq bodies
      \/ \E u \in Tasks, w \in Workers : PickUp(u, w)
      \/ \E b \in bodies : EnterBody(b)
  BY <1>4 DEF Next, StartToCloseTimeout, ScheduleToStartTimeout,
     WorkerCrash, ResetBreaker, Tick, Quiesced, vars
<1>6. IsFiniteSet(bodies')
  <2>1. ASSUME NEW u \in Tasks, NEW w \in Workers, PickUp(u, w) PROVE IsFiniteSet(bodies')
    BY <1>2, <2>1, FS_AddElement
  <2>2. ASSUME NEW b \in bodies, EnterBody(b) PROVE IsFiniteSet(bodies')
    <3>1. PICK n : bodies' = (bodies \ {b}) \union {n}
      BY <1>3, <2>2
    <3>2. IsFiniteSet((bodies \ {b}) \union {n})
      BY ReplaceCardinality
    <3> QED BY <3>1, <3>2
  <2> QED BY <1>1, <1>5, <2>1, <2>2
<1>7. ASSUME NEW t \in Tasks, NEW s \in Activities
      PROVE  /\ IsFiniteSet(Pending(t, s)) /\ IsFiniteSet(Pending(t, s)')
             /\ Cardinality(Pending(t, s)) \in Nat /\ Cardinality(Pending(t, s)') \in Nat
  <2>1. IsFiniteSet(Pending(t, s)) /\ IsFiniteSet(Pending(t, s)')
    BY <1>6, FS_Subset DEF Pending
  <2> QED BY <2>1, FS_CardinalityType
<1>8. ASSUME NEW t \in Tasks, NEW s \in Activities, bodies' \subseteq bodies
      PROVE  Cardinality(Pending(t, s)') <= Cardinality(Pending(t, s))
  <2>1. Pending(t, s)' \subseteq Pending(t, s)
    BY <1>8 DEF Pending
  <2> QED BY <1>7, <2>1, FS_Subset
<1>9. ASSUME NEW t \in Tasks, NEW s \in Activities,
             NEW u \in Tasks, NEW w \in Workers, PickUp(u, w)
      PROVE  \/ Cardinality(Pending(t, s)') <= Cardinality(Pending(t, s))
             \/ /\ t = u /\ step[t] = s
                /\ Cardinality(Pending(t, s)') <= Cardinality(Pending(t, s)) + 1
  <2>1. PICK n : n.task = u /\ n.step = step[u] /\ bodies' = bodies \union {n}
    BY <1>2, <1>9
  <2>2. CASE t = u /\ step[t] = s
    <3>1. Pending(t, s)' = Pending(t, s) \union {n}
      BY <2>1, <2>2 DEF Pending
    <3> DEFINE P == Pending(t, s)
               Q == Pending(t, s)'
    <3>2. IsFiniteSet(P) /\ Q = P \union {n} /\ Cardinality(P) \in Nat
      BY <1>7, <3>1
    <3> HIDE DEF P, Q
    <3>3. Cardinality(Q) <= Cardinality(P) + 1
      <4>1. Cardinality(P \union {n}) = IF n \in P THEN Cardinality(P) ELSE Cardinality(P) + 1
        BY <3>2, FS_AddElement
      <4> QED BY <3>2, <4>1
    <3> QED BY <2>2, <3>3 DEF P, Q
  <2>3. CASE ~(t = u /\ step[t] = s)
    <3>1. Pending(t, s)' = Pending(t, s)
      BY <2>1, <2>3 DEF Pending
    <3> QED BY <1>7, <3>1
  <2> QED BY <2>2, <2>3
<1>10. ASSUME NEW t \in Tasks, NEW s \in Activities, NEW b \in bodies, EnterBody(b)
       PROVE  Cardinality(Pending(t, s)') <= Cardinality(Pending(t, s))
  <2>1. PICK n : /\ n.task = b.task /\ n.step = b.step
                 /\ bodies' = (bodies \ {b}) \union {n}
    BY <1>3, <1>10
  <2>2. CASE b \in Pending(t, s)
    <3>1. Pending(t, s)' = (Pending(t, s) \ {b}) \union {n}
      BY <2>1, <2>2 DEF Pending
    <3> DEFINE P == Pending(t, s)
               Q == Pending(t, s)'
    <3>2. IsFiniteSet(P) /\ Q = (P \ {b}) \union {n} /\ b \in P
      BY <1>7, <2>2, <3>1
    <3> HIDE DEF P, Q
    <3>3. Cardinality(Q) <= Cardinality(P)
      BY <3>2, ReplaceCardinality
    <3> QED BY <3>3 DEF P, Q
  <2>3. CASE b \notin Pending(t, s)
    <3>1. Pending(t, s)' = Pending(t, s)
      BY <2>1, <2>3 DEF Pending
    <3> QED BY <1>7, <3>1
  <2> QED BY <2>2, <2>3
<1>11. ASSUME NEW t \in Tasks, NEW s \in Activities,
              NEW b \in bodies, Body(b), b.task = t, b.step = s
       PROVE  Cardinality(Pending(t, s)') = Cardinality(Pending(t, s)) - 1
  <2>1. Pending(t, s)' = Pending(t, s) \ {b} /\ b \in Pending(t, s)
    BY <1>4, <1>11 DEF Pending
  <2> DEFINE P == Pending(t, s)
             Q == Pending(t, s)'
  <2>2. IsFiniteSet(P) /\ Q = P \ {b} /\ b \in P
    BY <1>7, <2>1
  <2> HIDE DEF P, Q
  <2>3. Cardinality(Q) = Cardinality(P) - 1
    BY <2>2, FS_RemoveElement
  <2> QED BY <2>3 DEF P, Q
<1>12. ASSUME NEW t \in Tasks, NEW s \in Activities
       PROVE  \/ Cardinality(Pending(t, s)') <= Cardinality(Pending(t, s))
              \/ /\ \E w \in Workers : PickUp(t, w)
                 /\ step[t] = s
                 /\ Cardinality(Pending(t, s)') <= Cardinality(Pending(t, s)) + 1
  BY <1>5, <1>8, <1>9, <1>10
<1> QED BY <1>6, <1>7, <1>11, <1>12

(* The charges of a task: one more by its reservation, no more otherwise.  *)
LEMMA ImageCardinality ==
    ASSUME NEW S, IsFiniteSet(S), NEW h
    PROVE  IsFiniteSet(ImageOf(h, S)) /\ Cardinality(ImageOf(h, S)) <= Cardinality(S)
<1> DEFINE f == [x \in S |-> h[x]]
           T == ImageOf(h, S)
<1>1. f \in Surjection(S, T)
  BY DEF Surjection, ImageOf
<1> HIDE DEF f, T
<1>2. IsFiniteSet(T) /\ Cardinality(T) <= Cardinality(S)
  BY <1>1, FS_Surjection
<1> QED BY <1>2 DEF T

LEMMA ChargesByNext ==
    ASSUME TypeInv, IsFiniteSet(charges), [Next]_vars
    PROVE  /\ IsFiniteSet(charges')
           /\ \A t \in Tasks :
                /\ Cardinality(ChargesBy(t)) \in Nat /\ Cardinality(ChargesBy(t)') \in Nat
                /\ \/ Cardinality(ChargesBy(t)') <= Cardinality(ChargesBy(t))
                   \/ /\ \E b \in bodies : ReserveUsage(b) /\ b.task = t
                      /\ Cardinality(ChargesBy(t)') <= Cardinality(ChargesBy(t)) + 1
<1>1. charges \subseteq Charges
  BY DEF TypeInv, TypeOK
<1>2. ASSUME NEW t
      PROVE  IsFiniteSet(ChargesBy(t)) /\ Cardinality(ChargesBy(t)) \in Nat
  BY FS_Subset, FS_CardinalityType DEF ChargesBy
<1>3. ASSUME NEW b \in bodies, ReserveUsage(b), NEW t
      PROVE  /\ IsFiniteSet(charges')
             /\ \/ Cardinality(ChargesBy(t)') <= Cardinality(ChargesBy(t))
                \/ b.task = t /\ Cardinality(ChargesBy(t)') <= Cardinality(ChargesBy(t)) + 1
  <2> DEFINE pruned == Prune(charges, Owner[b.task], b.at)
             kept == {c \in pruned : c.by = t}
  <2>1. PICK charge : charges' = pruned \union {charge} /\ charge.by = b.task
    BY <1>3, ReserveCharge
  <2>2. pruned \subseteq charges
    BY DEF Prune
  <2>3. IsFiniteSet(pruned) /\ IsFiniteSet(kept) /\ kept \subseteq ChargesBy(t)
    BY <2>2, FS_Subset DEF ChargesBy
  <2>4. ChargesBy(t)' = IF b.task = t THEN kept \union {charge} ELSE kept
    BY <2>1 DEF ChargesBy
  <2> DEFINE old == ChargesBy(t)
             new == ChargesBy(t)'
  <2>5. new = IF b.task = t THEN kept \union {charge} ELSE kept
    BY <2>4
  <2>6. IsFiniteSet(old) /\ kept \subseteq old
    BY <1>2, <2>3
  <2> HIDE DEF pruned, kept, old, new
  <2>7. Cardinality(kept) <= Cardinality(old) /\ Cardinality(kept) \in Nat
        /\ Cardinality(old) \in Nat
    BY <2>3, <2>6, FS_Subset, FS_CardinalityType
  <2>8. Cardinality(kept \union {charge}) <= Cardinality(kept) + 1
    <3>1. Cardinality(kept \union {charge})
            = IF charge \in kept THEN Cardinality(kept) ELSE Cardinality(kept) + 1
      BY <2>3, FS_AddElement
    <3> QED BY <2>7, <3>1
  <2>9. Cardinality(kept \union {charge}) \in Nat
    BY <2>3, FS_AddElement, FS_CardinalityType
  <2>10. \/ Cardinality(new) <= Cardinality(old)
         \/ b.task = t /\ Cardinality(new) <= Cardinality(old) + 1
    BY <2>5, <2>7, <2>8, <2>9
  <2>11. IsFiniteSet(charges')
    BY <2>1, <2>3, FS_AddElement
  <2> QED BY <2>10, <2>11 DEF old, new
<1>4. ASSUME NEW b \in bodies, SettleUsage(b), NEW t
      PROVE  /\ IsFiniteSet(charges')
             /\ Cardinality(ChargesBy(t)') <= Cardinality(ChargesBy(t))
  <2> DEFINE pruned == Prune(charges, Owner[b.task], b.at)
             targets == SettleTarget(pruned, Owner[b.task], Projected(b.task))
             kept == {c \in pruned : c.by = t}
  <2>1. /\ charges' = Revalue(pruned, targets, Actual(b.task))
        /\ Projected(b.task) \in Nat /\ Actual(b.task) \in Nat
    BY <1>4, SettleCharges
  <2>2. pruned \subseteq Charges /\ IsFiniteSet(pruned) /\ kept \subseteq ChargesBy(t)
        /\ IsFiniteSet(kept)
    <3>1. pruned \subseteq charges
      BY DEF Prune
    <3> QED BY <1>1, <3>1, FS_Subset DEF ChargesBy
  <2>3. \A c \in targets : c.amount = Projected(b.task)
    BY DEF SettleTarget
  <2>4. PICK h : charges' = ImageOf(h, pruned) /\ \A c \in pruned : h[c].by = c.by
    <3> HIDE DEF pruned, targets
    <3> QED BY <2>1, <2>2, <2>3, RevalueImage
  <2>5. ChargesBy(t)' = ImageOf(h, kept)
    BY <2>4 DEF ChargesBy, ImageOf
  <2> DEFINE old == ChargesBy(t)
             new == ChargesBy(t)'
  <2>6. new = ImageOf(h, kept) /\ IsFiniteSet(old) /\ kept \subseteq old
    BY <1>2, <2>2, <2>5
  <2> HIDE DEF pruned, targets, kept, old, new
  <2>7. Cardinality(new) <= Cardinality(kept) /\ Cardinality(new) \in Nat
    BY <2>2, <2>6, ImageCardinality, FS_CardinalityType
  <2>8. Cardinality(kept) <= Cardinality(old) /\ Cardinality(kept) \in Nat
        /\ Cardinality(old) \in Nat
    BY <2>2, <2>6, FS_Subset, FS_CardinalityType
  <2>9. Cardinality(new) <= Cardinality(old)
    BY <2>7, <2>8
  <2>10. IsFiniteSet(charges')
    BY <2>2, <2>4, ImageCardinality
  <2> QED BY <2>9, <2>10 DEF old, new
<1>5. IsFiniteSet(charges')
  BY <1>3, <1>4, ChargesFrom
<1>6. ASSUME NEW t \in Tasks
      PROVE  /\ Cardinality(ChargesBy(t)) \in Nat /\ Cardinality(ChargesBy(t)') \in Nat
             /\ \/ Cardinality(ChargesBy(t)') <= Cardinality(ChargesBy(t))
                \/ /\ \E b \in bodies : ReserveUsage(b) /\ b.task = t
                   /\ Cardinality(ChargesBy(t)') <= Cardinality(ChargesBy(t)) + 1
  <2>1. Cardinality(ChargesBy(t)') \in Nat
    BY <1>5, FS_Subset, FS_CardinalityType DEF ChargesBy
  <2>2. CASE UNCHANGED charges
    <3>1. ChargesBy(t)' = ChargesBy(t)
      BY <2>2 DEF ChargesBy
    <3> QED BY <1>2, <2>1, <3>1
  <2>3. CASE \E b \in bodies : ReserveUsage(b)
    BY <1>2, <1>3, <2>1, <2>3
  <2>4. CASE \E b \in bodies : SettleUsage(b)
    BY <1>2, <1>4, <2>1, <2>4
  <2> QED BY <2>2, <2>3, <2>4, ChargesFrom
<1> QED BY <1>5, <1>6

LEMMA DispatchesNext ==
    ASSUME TypeInv, [Next]_vars, NEW t \in Tasks
    PROVE  \/ dispatches'[t] = dispatches[t]
           \/ /\ dispatches'[t] = dispatches[t] + 1
              /\ \E b \in bodies : DispatchTask(b) /\ b.task = t
<1>1. CASE UNCHANGED dispatches
  BY <1>1
<1>2. ASSUME NEW b \in bodies, DispatchTask(b)
      PROVE  \/ dispatches'[t] = dispatches[t]
             \/ b.task = t /\ dispatches'[t] = dispatches[t] + 1
  BY <1>2 DEF DispatchTask, TypeInv, TypeOK
<1>3. ASSUME NEW b \in bodies, Body(b) PROVE UNCHANGED dispatches \/ DispatchTask(b)
  BY <1>3 DEF Body, MarkRunning, MarkCompleted, MarkFailed, MarkStatus, CheckRateLimit,
     ReserveUsage, CircuitBreakerEffective, RouteTask, SettleUsage, CircuitBreakerRecord,
     RaiseError
<1> QED
  BY <1>1, <1>2, <1>3 DEF Next, PickUp, EnterBody, StartToCloseTimeout,
     ScheduleToStartTimeout, WorkerCrash, ResetBreaker, Tick, Quiesced, vars

LEMMA EffectsInvNext ==
    ASSUME TypeInv, TypeInv', EffectsInv, [Next]_vars
    PROVE  EffectsInv'
<1>1. IsFiniteSet(bodies') /\ IsFiniteSet(charges')
  BY PendingNext, ChargesByNext DEF EffectsInv
<1> SUFFICES ASSUME NEW t \in Tasks
             PROVE  /\ Cardinality(ChargesBy(t)') + Cardinality(Pending(t, "reserve_usage")')
                         <= HandedOut(t, "reserve_usage")'
                    /\ dispatches'[t] + Cardinality(Pending(t, "dispatch_task")')
                         <= HandedOut(t, "dispatch_task")'
  BY <1>1 DEF EffectsInv, ChargesBy, Pending, HandedOut
<1>2. Cardinality(ChargesBy(t)') + Cardinality(Pending(t, "reserve_usage")')
        <= HandedOut(t, "reserve_usage")'
  <2> DEFINE s == "reserve_usage"
             N(b) == ReserveUsage(b) /\ b.task = t
             P(w) == PickUp(t, w) /\ step[t] = s
             charged == Cardinality(ChargesBy(t))
             charged1 == Cardinality(ChargesBy(t)')
             pending == Cardinality(Pending(t, s))
             pending1 == Cardinality(Pending(t, s)')
             handed == HandedOut(t, s)
             handed1 == HandedOut(t, s)'
  <2>1. s \in Activities
    BY DEF Activities
  <2>2. /\ charged \in Nat /\ charged1 \in Nat /\ pending \in Nat /\ pending1 \in Nat
        /\ handed \in Nat /\ handed1 \in Nat
    <3>1. handed1 \in Nat
      BY TaskWorkflowAssumption DEF HandedOut, TypeInv, TypeOK
    <3>2. handed \in Nat
      BY HandedOutOK
    <3> QED BY <2>1, <3>1, <3>2, PendingNext, ChargesByNext DEF EffectsInv
  <2>3. charged + pending <= handed
    BY DEF EffectsInv
  <2>4. charged1 <= charged \/ (charged1 <= charged + 1 /\ \E b \in bodies : N(b))
    BY ChargesByNext DEF EffectsInv
  <2>5. pending1 <= pending \/ (pending1 <= pending + 1 /\ \E w \in Workers : P(w))
    BY <2>1, PendingNext DEF EffectsInv
  <2>6. (\E b \in bodies : N(b)) => pending1 = pending - 1
    <3>1. \A b \in bodies : N(b) => Body(b) /\ b.task = t /\ b.step = s
      BY DEF Body, ReserveUsage, Runs
    <3> QED BY <2>1, <3>1, PendingNext DEF EffectsInv
  <2>7. handed <= handed1 /\ ((\E w \in Workers : P(w)) => handed1 = handed + 1)
    BY HandedOutNext
  <2>8. (\E w \in Workers : P(w)) => charged1 <= charged
    <3>1. ASSUME NEW w \in Workers, PickUp(t, w) PROVE ChargesBy(t)' = ChargesBy(t)
      BY <3>1 DEF PickUp, storeVars, ChargesBy
    <3> QED BY <2>2, <3>1
  <2> HIDE DEF N, P, charged, charged1, pending, pending1, handed, handed1
  <2>9. charged1 + pending1 <= handed1
    BY <2>2, <2>3, <2>4, <2>5, <2>6, <2>7, <2>8
  <2> QED BY <2>9 DEF charged1, pending1, handed1
<1>3. dispatches'[t] + Cardinality(Pending(t, "dispatch_task")')
        <= HandedOut(t, "dispatch_task")'
  <2> DEFINE s == "dispatch_task"
             N(b) == DispatchTask(b) /\ b.task = t
             P(w) == PickUp(t, w) /\ step[t] = s
             done == dispatches[t]
             done1 == dispatches'[t]
             pending == Cardinality(Pending(t, s))
             pending1 == Cardinality(Pending(t, s)')
             handed == HandedOut(t, s)
             handed1 == HandedOut(t, s)'
  <2>1. s \in Activities
    BY DEF Activities
  <2>2. /\ done \in Nat /\ done1 \in Nat /\ pending \in Nat /\ pending1 \in Nat
        /\ handed \in Nat /\ handed1 \in Nat
    <3>1. handed1 \in Nat
      BY TaskWorkflowAssumption DEF HandedOut, TypeInv, TypeOK
    <3>2. handed \in Nat
      BY HandedOutOK
    <3>3. done \in Nat /\ done1 \in Nat
      BY DEF TypeInv, TypeOK
    <3> QED BY <2>1, <3>1, <3>2, <3>3, PendingNext DEF EffectsInv
  <2>3. done + pending <= handed
    BY DEF EffectsInv
  <2>4. done1 = done \/ (done1 = done + 1 /\ \E b \in bodies : N(b))
    BY DispatchesNext
  <2>5. pending1 <= pending \/ (pending1 <= pending + 1 /\ \E w \in Workers : P(w))
    BY <2>1, PendingNext DEF EffectsInv
  <2>6. (\E b \in bodies : N(b)) => pending1 = pending - 1
    <3>1. \A b \in bodies : N(b) => Body(b) /\ b.task = t /\ b.step = s
      BY DEF Body, DispatchTask, Runs
    <3> QED BY <2>1, <3>1, PendingNext DEF EffectsInv
  <2>7. handed <= handed1 /\ ((\E w \in Workers : P(w)) => handed1 = handed + 1)
    BY HandedOutNext
  <2>8. (\E w \in Workers : P(w)) => done1 = done
    BY DEF PickUp
  <2> HIDE DEF N, P, done, done1, pending, pending1, handed, handed1
  <2>9. done1 + pending1 <= handed1
    BY <2>2, <2>3, <2>4, <2>5, <2>6, <2>7, <2>8
  <2> QED BY <2>9 DEF done1, pending1, handed1
<1> QED BY <1>2, <1>3

LEMMA EffectsInvInit == Init => EffectsInv
<1> SUFFICES ASSUME Init PROVE EffectsInv
  OBVIOUS
<1>1. IsFiniteSet(charges) /\ IsFiniteSet(bodies)
  BY FS_EmptySet DEF Init
<1>2. ASSUME NEW t \in Tasks
      PROVE  /\ Cardinality(ChargesBy(t)) = 0
             /\ Cardinality(Pending(t, "reserve_usage")) = 0
             /\ Cardinality(Pending(t, "dispatch_task")) = 0
  <2>1. /\ ChargesBy(t) = {} /\ Pending(t, "reserve_usage") = {}
        /\ Pending(t, "dispatch_task") = {}
    BY DEF Init, ChargesBy, Pending
  <2> QED BY <2>1, FS_EmptySet
<1>3. ASSUME NEW t \in Tasks
      PROVE  /\ HandedOut(t, "reserve_usage") = 0 /\ HandedOut(t, "dispatch_task") = 0
             /\ dispatches[t] = 0
  BY DEF Init, HandedOut, Before
<1> QED BY <1>1, <1>2, <1>3 DEF EffectsInv

(* Whatever is lost, late or forgotten in a crash, the charges that a task *)
(* has made and the times it was dispatched are at most as many as the     *)
(* retry policy grants attempts.                                           *)
THEOREM RepetitionBounded == Spec => []EffectsBounded
<1>1. Init => EffectsInv
  BY EffectsInvInit
<1>2. TypeInv /\ TypeInv' /\ EffectsInv /\ [Next]_vars => EffectsInv'
  BY EffectsInvNext
<1>3. TypeInv /\ EffectsInv => EffectsBounded
  <2> SUFFICES ASSUME TypeInv, EffectsInv, NEW t \in Tasks
               PROVE  /\ Cardinality(ChargesBy(t)) <= MaxAttempts
                      /\ dispatches[t] <= MaxAttempts
    BY DEF EffectsBounded, ChargesBy
  <2>1. /\ Cardinality(ChargesBy(t)) \in Nat
        /\ Cardinality(Pending(t, "reserve_usage")) \in Nat
        /\ Cardinality(Pending(t, "dispatch_task")) \in Nat
    BY FS_Subset, FS_CardinalityType DEF EffectsInv, ChargesBy, Pending
  <2>2. HandedOut(t, "reserve_usage") \in 0..MaxAttempts
        /\ HandedOut(t, "dispatch_task") \in 0..MaxAttempts
    BY HandedOutOK
  <2>3. dispatches[t] \in Nat /\ MaxAttempts \in Nat
    BY TaskWorkflowAssumption DEF TypeInv, TypeOK
  <2>4. /\ Cardinality(ChargesBy(t)) + Cardinality(Pending(t, "reserve_usage"))
              <= HandedOut(t, "reserve_usage")
        /\ dispatches[t] + Cardinality(Pending(t, "dispatch_task"))
              <= HandedOut(t, "dispatch_task")
    BY DEF EffectsInv
  <2> QED BY <2>1, <2>2, <2>3, <2>4
<1> QED
  BY <1>1, <1>2, <1>3, TypeInvInit, TypeInvNext, PTL DEF Spec

-----------------------------------------------------------------------------
(* BreakerCountsDispatched.  The tasks that are past circuit_breaker_record *)
(* and may reach the provider, or have: what they cost has been counted.   *)
RecordedSteps == {"dispatch_task", "mark_completed", "completed"}

Recorded ==
    {t \in Tasks : \/ step[t] \in RecordedSteps
                   \/ dispatches[t] > 0
                   \/ Pending(t, "dispatch_task") # {}}

Cost == [t \in Tasks |-> Actual(t)]

BreakerInv ==
    /\ IsFiniteSet(Recorded)
    /\ \A t \in Recorded : local[t].tier \in Tiers
    /\ \A w \in Workers :
         /\ SumOf(Cost, Recorded) <= spend[w]
         /\ tripped[w] <=> spend[w] > 0 /\ spend[w] >= BreakerLimit

LEMMA ActualsAddUp ==
    ASSUME NEW S, S \subseteq Tasks, IsFiniteSet(S)
    PROVE  MapThenSumSet(Actual, S) = SumOf(Cost, S)
<1> DEFINE A(it) == it = [s \in SUBSET S |-> IF s = {} THEN 0
                             ELSE Actual(Some(s)) + it[s \ {Some(s)}]]
           sum == CHOOSE it : A(it)
<1>1. PICK i : IsSum(i, Cost, S) /\ SumOf(Cost, S) = i[S]
  BY SumUnfold
<1>2. \A s \in SUBSET S : s # {} => Cost[Some(s)] = Actual(Some(s))
  BY DEF Some, Cost
<1>3. A(i)
  BY <1>1, <1>2 DEF IsSum
<1>4. A(sum)
  BY <1>3
<1>5. MapThenSumSet(Actual, S) = sum[S]
  BY DEF MapThenSumSet, MapThenFoldSet, Some
<1>6. IsSum(sum, Cost, S)
  <2> HIDE DEF sum
  <2> QED BY <1>2, <1>4 DEF IsSum
<1>7. \A T \in SUBSET S : sum[T] = SumOf(Cost, T)
  <2> HIDE DEF sum
  <2> QED BY <1>6, SumOfParts
<1> QED BY <1>5, <1>7

(* run() moves on only when the body of its step has returned.             *)
LEMMA MovedByBody ==
    ASSUME TypeInv, [Next]_vars, NEW t \in Tasks,
           step'[t] \notin {step[t], "mark_failed", "failed"}
    PROVE  \E b \in bodies : /\ b.task = t /\ b.step = step[t]
                             /\ Body(b) /\ ~RaiseError(b)
<1>1. ~UNCHANGED <<step, local>>
  OBVIOUS
<1>2. ASSUME NEW u \in Tasks, StartToCloseTimeout(u) \/ ScheduleToStartTimeout(u)
      PROVE  FALSE
  BY <1>2, AttemptFailsMoves, ActivityFailsMoves
     DEF StartToCloseTimeout, ScheduleToStartTimeout, StaysOrFails
<1>3. PICK b \in bodies : Body(b)
  BY <1>1, <1>2
     DEF Next, PickUp, EnterBody, WorkerCrash, ResetBreaker, Tick, Quiesced, vars, workflowVars
<1>4. b.task \in Tasks
  BY DEF TypeInv, TypeOK, Bodies
<1>5. ~RaiseError(b)
  BY <1>1, <1>4, AttemptFailsMoves DEF RaiseError, workflowVars, StaysOrFails
<1>6. ASSUME NEW next, NEW locals, Return(b, next, locals)
      PROVE  b.task = t /\ b.step = step[t]
  BY <1>6, ReturnMoves
<1>7. CASE MarkRunning(b) \/ MarkCompleted(b) \/ MarkFailed(b)
  BY <1>3, <1>5, <1>6, <1>7 DEF MarkRunning, MarkCompleted, MarkFailed, MarkStatus
<1>8. CASE CheckRateLimit(b)
  BY <1>3, <1>5, <1>6, <1>8 DEF CheckRateLimit
<1>9. CASE ReserveUsage(b) \/ CircuitBreakerEffective(b) \/ RouteTask(b)
  BY <1>3, <1>5, <1>6, <1>9 DEF ReserveUsage, CircuitBreakerEffective, RouteTask
<1>10. CASE SettleUsage(b) \/ CircuitBreakerRecord(b) \/ DispatchTask(b)
  BY <1>3, <1>5, <1>6, <1>10 DEF SettleUsage, CircuitBreakerRecord, DispatchTask
<1> QED BY <1>3, <1>5, <1>7, <1>8, <1>9, <1>10 DEF Body

LEMMA BodyOfStep ==
    ASSUME NEW b, Body(b), ~RaiseError(b)
    PROVE  /\ b.step = "circuit_breaker_record" => CircuitBreakerRecord(b)
           /\ b.step = "reserve_usage" => ReserveUsage(b)
           /\ b.step = "settle_usage" => SettleUsage(b)
<1>1. CASE MarkRunning(b) \/ MarkCompleted(b) \/ MarkFailed(b) \/ CheckRateLimit(b)
  BY <1>1 DEF MarkRunning, MarkCompleted, MarkFailed, CheckRateLimit, Runs
<1>2. CASE CircuitBreakerEffective(b) \/ RouteTask(b) \/ DispatchTask(b)
  BY <1>2 DEF CircuitBreakerEffective, RouteTask, DispatchTask, Runs
<1>3. CASE ReserveUsage(b) \/ SettleUsage(b) \/ CircuitBreakerRecord(b)
  BY <1>3 DEF ReserveUsage, SettleUsage, CircuitBreakerRecord, Runs
<1> QED BY <1>1, <1>2, <1>3 DEF Body

(* A task gets into Recorded only through circuit_breaker_record.          *)
LEMMA RecordedNext ==
    ASSUME TypeInv, [Next]_vars
    PROVE  \A t \in Recorded' : \/ t \in Recorded
                                \/ \E b \in bodies : b.task = t /\ CircuitBreakerRecord(b)
<1> SUFFICES ASSUME NEW t \in Recorded', t \notin Recorded
             PROVE  \E b \in bodies : b.task = t /\ CircuitBreakerRecord(b)
  OBVIOUS
<1>1. /\ t \in Tasks /\ step[t] \notin RecordedSteps
      /\ ~(dispatches[t] > 0)
      /\ \A b \in bodies : ~(b.task = t /\ b.step = "dispatch_task")
  BY DEF Recorded, Pending
<1>2. dispatches'[t] = dispatches[t]
  BY <1>1, DispatchesFrom
<1>3. \A c \in bodies' : ~(c.task = t /\ c.step = "dispatch_task")
  BY <1>1, BodiesFrom DEF RecordedSteps
<1>4. step'[t] \in RecordedSteps
  BY <1>1, <1>2, <1>3 DEF Recorded, Pending
<1>5. step[t] = "circuit_breaker_record" /\ step'[t] = "dispatch_task"
  BY <1>1, <1>4, NextMoves
     DEF RecordedSteps, Moves, StaysOrFails, Reserved, Consulted, Routed, MovesOn, PlainMoves
<1>6. PICK b \in bodies : b.task = t /\ b.step = step[t] /\ Body(b) /\ ~RaiseError(b)
  BY <1>1, <1>5, MovedByBody
<1> QED BY <1>5, <1>6, BodyOfStep

(* The tier of a recorded task is not touched again.                       *)
LEMMA RecordedKeepsTier ==
    ASSUME TypeInv, EffectsInv, [Next]_vars, NEW t \in Recorded
    PROVE  local'[t].tier = local[t].tier
<1>1. t \in Tasks
  BY DEF Recorded
<1>2. ~Routed(t)
  <2> SUFFICES ASSUME step[t] = "route_task" PROVE FALSE
    BY DEF Routed
  <2>1. HandedOut(t, "dispatch_task") = 0
    BY DEF HandedOut, Before
  <2>2. IsFiniteSet(Pending(t, "dispatch_task"))
    BY FS_Subset DEF EffectsInv, Pending
  <2>3. /\ dispatches[t] \in Nat /\ Cardinality(Pending(t, "dispatch_task")) \in Nat
        /\ dispatches[t] + Cardinality(Pending(t, "dispatch_task")) <= 0
    BY <1>1, <2>1, <2>2, FS_CardinalityType DEF EffectsInv, TypeInv, TypeOK
  <2>4. dispatches[t] = 0 /\ Cardinality(Pending(t, "dispatch_task")) = 0
    BY <2>3
  <2>5. Pending(t, "dispatch_task") = {}
    BY <2>2, <2>4, FS_EmptySet
  <2> QED BY <2>4, <2>5 DEF Recorded, RecordedSteps
<1> QED BY <1>1, <1>2, NextMoves
     DEF Moves, StaysOrFails, Same, Reserved, Consulted, MovesOn

(* Without crashes and resets a breaker only changes when it records.      *)
LEMMA BreakerNext ==
    ASSUME TypeInv, [Next]_vars, "crash" \notin Adversity, "reset" \notin Adversity
    PROVE  UNCHANGED <<spend, tripped>> \/ \E b \in bodies : CircuitBreakerRecord(b)
<1>1. ASSUME NEW b \in bodies, Body(b), ~CircuitBreakerRecord(b)
      PROVE  UNCHANGED <<spend, tripped>>
  BY <1>1 DEF Body, MarkRunning, MarkCompleted, MarkFailed, MarkStatus, CheckRateLimit,
     ReserveUsage, CircuitBreakerEffective, RouteTask, SettleUsage, DispatchTask,
     RaiseError, breakerVars
<1> QED
  BY <1>1 DEF Next, PickUp, EnterBody, StartToCloseTimeout, ScheduleToStartTimeout,
     WorkerCrash, ResetBreaker, Tick, Quiesced, vars, breakerVars

LEMMA BreakerInvNext ==
    ASSUME TypeInv, TypeInv', EffectsInv, BreakerInv, [Next]_vars,
           \A v, w \in Workers : v = w, "crash" \notin Adversity, "reset" \notin Adversity
    PROVE  BreakerInv'
<1> DEFINE R == Recorded
           R1 == Recorded'
           f == Cost
           f1 == Cost'
<1>1. R \subseteq Tasks /\ R1 \subseteq Tasks /\ IsFiniteSet(R)
  BY DEF Recorded, BreakerInv
<1>2. \A t \in R : f[t] \in Nat /\ f1[t] = f[t] /\ local'[t].tier \in Tiers
  <2>1. SUFFICES ASSUME NEW t \in R
                 PROVE  f[t] \in Nat /\ f1[t] = f[t] /\ local'[t].tier \in Tiers
    OBVIOUS
  <2>2. t \in Tasks /\ local'[t].tier = local[t].tier /\ local[t].tier \in Tiers
    BY <1>1, RecordedKeepsTier DEF BreakerInv
  <2> QED BY <2>2, ActualOK DEF Cost, Actual
<1>3. \A w \in Workers : spend[w] \in Nat /\ spend'[w] \in Nat
  BY DEF TypeInv, TypeOK
<1>4. BreakerLimit \in Nat
  BY TaskWorkflowAssumption
<1>5. CASE \A b \in bodies : ~CircuitBreakerRecord(b)
  <2>1. UNCHANGED <<spend, tripped>>
    BY <1>5, BreakerNext
  <2>2. R1 \subseteq R
    BY <1>5, RecordedNext
  <2>3. IsFiniteSet(R1)
    BY <1>1, <2>2, FS_Subset
  <2> HIDE DEF R, R1, f, f1
  <2>4. SumOf(f1, R1) = SumOf(f, R1)
    BY <1>2, <2>2, <2>3, SumSame
  <2>5. SumOf(f, R1) <= SumOf(f, R)
    BY <1>1, <1>2, <2>2, SumSubset
  <2>6. SumOf(f, R) \in Nat /\ SumOf(f, R1) \in Nat
    BY <1>1, <1>2, <2>2, <2>3, SumType
  <2>7. \A w \in Workers : SumOf(f1, R1) <= spend'[w]
    BY <1>3, <2>1, <2>4, <2>5, <2>6 DEF BreakerInv, R, f
  <2> QED BY <1>2, <2>1, <2>2, <2>3, <2>7 DEF BreakerInv, R, R1, f1
<1>6. ASSUME NEW b \in bodies, CircuitBreakerRecord(b) PROVE BreakerInv'
  <2> DEFINE t == b.task
             w == b.worker
  <2>1. t \in Tasks /\ w \in Workers /\ local[t].tier \in Tiers
    BY <1>6 DEF CircuitBreakerRecord, Runs, TypeInv, TypeOK, TierKnown, RoutedSteps, Bodies
  <2>2. Actual(t) \in Nat \ {0}
    BY <2>1, ActualOK
  <2>3. /\ spend'[w] = spend[w] + Actual(t)
        /\ tripped'[w] = (tripped[w] \/ spend[w] + Actual(t) >= BreakerLimit)
    BY <1>6, <2>1 DEF CircuitBreakerRecord, TypeInv, TypeOK
  <2>4. local'[t].tier = local[t].tier
    <3>1. Return(b, "dispatch_task", local[t])
      BY <1>6 DEF CircuitBreakerRecord
    <3> QED BY <2>1, <3>1, ReturnMoves
  <2>5. \A u \in R1 : u \in R \/ u = t
    <3>1. ASSUME NEW c \in bodies, CircuitBreakerRecord(c) PROVE c.task = t
      <4>1. bodies' = bodies \ {b} /\ bodies' = bodies \ {c}
        BY <1>6, <3>1 DEF CircuitBreakerRecord, Return
      <4> QED BY <4>1
    <3> QED BY <3>1, RecordedNext
  <2>6. f[t] = Actual(t) /\ f1[t] = f[t]
    BY <2>1, <2>4 DEF Cost, Actual
  <2> DEFINE U == R \union {t}
  <2>7. IsFiniteSet(U) /\ R1 \subseteq U
    BY <1>1, <2>5, FS_AddElement
  <2>8. IsFiniteSet(R1)
    BY <2>7, FS_Subset
  <2>9. \A u \in U : f[u] \in Nat /\ f1[u] = f[u] /\ local'[u].tier \in Tiers
    BY <1>2, <2>1, <2>2, <2>4, <2>6
  <2> HIDE DEF R, R1, f, f1, t, w
  <2>10. SumOf(f, R) \in Nat
    BY <1>1, <1>2, SumType
  <2>11. SumOf(f, U) <= SumOf(f, R) + Actual(t) /\ SumOf(f, U) \in Nat
    <3>1. CASE t \in R
      <4>1. U = R
        BY <3>1
      <4> HIDE DEF U
      <4>2. SumOf(f, U) = SumOf(f, R)
        BY <4>1
      <4> QED BY <2>2, <2>10, <4>2
    <3>2. CASE t \notin R
      <4>1. SumOf(f, U) = f[t] + SumOf(f, R)
        BY <1>1, <2>9, <3>2, SumAdd
      <4> QED BY <2>2, <2>6, <2>10, <4>1
    <3> QED BY <3>1, <3>2
  <2> HIDE DEF U
  <2>12. SumOf(f1, R1) = SumOf(f, R1)
    BY <2>7, <2>8, <2>9, SumSame
  <2>13. SumOf(f, R1) <= SumOf(f, U)
    BY <2>7, <2>9, SumSubset
  <2>14. SumOf(f, R1) \in Nat
    BY <2>7, <2>8, <2>9, SumType
  <2>15. SumOf(f, R) <= spend[w] /\ spend[w] \in Nat
    BY <1>3, <2>1 DEF BreakerInv, R, f
  <2>16. SumOf(f1, R1) <= spend'[w]
    BY <2>2, <2>3, <2>10, <2>11, <2>12, <2>13, <2>14, <2>15
  <2>17. tripped'[w] <=> spend'[w] > 0 /\ spend'[w] >= BreakerLimit
    <3>1. spend'[w] > 0
      BY <2>2, <2>3, <2>15
    <3>2. tripped[w] <=> spend[w] > 0 /\ spend[w] >= BreakerLimit
      BY <2>1 DEF BreakerInv
    <3>3. CASE tripped[w]
      <4>1. spend'[w] >= BreakerLimit
        BY <1>4, <2>2, <2>3, <2>15, <3>2, <3>3
      <4> QED BY <2>3, <3>1, <3>3, <4>1
    <3>4. CASE ~tripped[w]
      <4>1. tripped'[w] <=> spend[w] + Actual(t) >= BreakerLimit
        BY <2>3, <3>4
      <4> QED BY <2>3, <3>1, <4>1
    <3> QED BY <3>3, <3>4
  <2>18. \A v \in Workers : v = w
    BY <2>1
  <2> QED BY <2>7, <2>8, <2>9, <2>16, <2>17, <2>18 DEF BreakerInv, R1, f1
<1> QED BY <1>5, <1>6

(* On one worker that does not crash and whose breaker is not reset, the   *)
(* breaker has counted at least the cost of every task that reached the    *)
(* provider, late bodies included, and it is tripped exactly when what it  *)
(* counted is at its limit.                                                *)
THEOREM BreakerCounts ==
    ASSUME \A v, w \in Workers : v = w, "crash" \notin Adversity, "reset" \notin Adversity
    PROVE  Spec => []BreakerCountsDispatched
<1>1. Init => BreakerInv
  <2> SUFFICES ASSUME Init PROVE BreakerInv
    OBVIOUS
  <2>1. Recorded = {}
    BY DEF Init, Recorded, RecordedSteps, Pending
  <2>2. IsFiniteSet(Recorded) /\ SumOf(Cost, Recorded) = 0
    BY <2>1, FS_EmptySet, SumEmpty
  <2>3. \A w \in Workers : spend[w] = 0 /\ ~tripped[w]
    BY DEF Init
  <2> QED BY <2>1, <2>2, <2>3 DEF BreakerInv
<1>2. Init => EffectsInv
  BY EffectsInvInit
<1>3. TypeInv /\ TypeInv' /\ EffectsInv /\ [Next]_vars => EffectsInv'
  BY EffectsInvNext
<1>4. TypeInv /\ TypeInv' /\ EffectsInv /\ BreakerInv /\ [Next]_vars => BreakerInv'
  BY BreakerInvNext
<1>5. TypeInv /\ BreakerInv => BreakerCountsDispatched
  <2> SUFFICES ASSUME TypeInv, BreakerInv
               PROVE  MapThenSumSet(Actual, {t \in Tasks : dispatches[t] > 0})
                        <= SumOf(Cost, Recorded)
                      /\ SumOf(Cost, Recorded) \in Nat
                      /\ MapThenSumSet(Actual, {t \in Tasks : dispatches[t] > 0}) \in Nat
                      /\ \A w \in Workers : spend[w] \in Nat
    BY DEF BreakerInv, BreakerCountsDispatched
  <2> DEFINE D == {t \in Tasks : dispatches[t] > 0}
  <2>1. D \subseteq Recorded /\ D \subseteq Tasks /\ Recorded \subseteq Tasks
    BY DEF Recorded
  <2>2. IsFiniteSet(Recorded) /\ \A t \in Recorded : local[t].tier \in Tiers
    BY DEF BreakerInv
  <2>3. \A t \in Recorded : Cost[t] \in Nat
    BY <2>1, <2>2, ActualOK DEF Cost
  <2>4. IsFiniteSet(D)
    BY <2>1, <2>2, FS_Subset
  <2>5. \A w \in Workers : spend[w] \in Nat
    BY DEF TypeInv, TypeOK
  <2> HIDE DEF D
  <2>6. MapThenSumSet(Actual, D) = SumOf(Cost, D)
    BY <2>1, <2>4, ActualsAddUp
  <2>7. SumOf(Cost, D) <= SumOf(Cost, Recorded)
    BY <2>1, <2>2, <2>3, SumSubset
  <2>8. SumOf(Cost, Recorded) \in Nat /\ SumOf(Cost, D) \in Nat
    BY <2>1, <2>2, <2>3, <2>4, SumType
  <2> QED BY <2>5, <2>6, <2>7, <2>8 DEF D
<1> QED
  BY <1>1, <1>2, <1>3, <1>4, <1>5, TypeInvInit, TypeInvNext, PTL DEF Spec

-----------------------------------------------------------------------------
(* LedgerExact.  What a task has reached in run(), by the step it failed   *)
(* in if it has, decides what it owes.                                     *)
SettledSteps == {"circuit_breaker_record", "dispatch_task", "mark_completed", "completed"}
ChargedSteps == {"circuit_breaker_effective", "route_task", "settle_usage"}
                  \union SettledSteps

Reachable == (Activities \ {"mark_failed"}) \union {"completed"}

LEMMA ProgramDistinct ==
    /\ \A i \in 1..9 : Program[i] # "completed"
    /\ \A i, k \in 1..9 : Program[i] = Program[k] => i = k
<1>1. \A i \in 1..9 : i = 1 \/ i = 2 \/ i = 3 \/ i = 4 \/ i = 5 \/ i = 6 \/ i = 7 \/ i = 8 \/ i = 9
  OBVIOUS
<1>2. /\ Program[1] = "mark_running" /\ Program[2] = "check_rate_limit"
      /\ Program[3] = "reserve_usage" /\ Program[4] = "circuit_breaker_effective"
      /\ Program[5] = "route_task" /\ Program[6] = "settle_usage"
      /\ Program[7] = "circuit_breaker_record" /\ Program[8] = "dispatch_task"
      /\ Program[9] = "mark_completed"
  BY DEF Program
<1> QED BY <1>1, <1>2

(* The place of an activity in run().                                      *)
LEMMA PositionOf == \A k \in 1..9 : Position(Program[k]) = k
<1> SUFFICES ASSUME NEW k \in 1..9 PROVE Position(Program[k]) = k
  OBVIOUS
<1> DEFINE P(i) == IF i = 0 THEN Program[k] = "completed" ELSE Program[i] = Program[k]
<1>1. P(k) /\ k \in 0..9
  OBVIOUS
<1>2. \A i \in 0..9 : P(i) => i = k
  BY ProgramDistinct
<1>3. Position(Program[k]) = CHOOSE i \in 0..9 : P(i)
  BY DEF Position
<1> HIDE DEF P
<1> QED BY <1>1, <1>2, <1>3

LEMMA PastSteps ==
    ASSUME NEW t \in Tasks, Reached(t) \in Reachable
    PROVE  /\ Past(t, "reserve_usage") <=> Reached(t) \in ChargedSteps
           /\ Past(t, "settle_usage") <=> Reached(t) \in SettledSteps
<1>1. /\ Position("mark_running") = 1 /\ Position("check_rate_limit") = 2
      /\ Position("reserve_usage") = 3 /\ Position("circuit_breaker_effective") = 4
      /\ Position("route_task") = 5 /\ Position("settle_usage") = 6
      /\ Position("circuit_breaker_record") = 7 /\ Position("dispatch_task") = 8
      /\ Position("mark_completed") = 9
  BY PositionOf DEF Program
<1> QED BY <1>1 DEF Past, Reachable, Activities, ChargedSteps, SettledSteps

Reasons == ReasonInv /\ \A t \in Tasks : local[t].reason # "mark_failed"

LEMMA ReachedReachable ==
    ASSUME TypeInv, Reasons, NEW t \in Tasks
    PROVE  Reached(t) \in Reachable
<1>1. /\ step[t] \in Activities \union Ends
      /\ local[t].reason \in Activities \union {Null} /\ local[t].reason # "mark_failed"
      /\ step[t] \in FailedSteps <=> local[t].reason # Null
  BY DEF TypeInv, TypeOK, Locals, Reasons, ReasonInv
<1>2. Reached(t) \in {local[t].reason, step[t]}
  BY DEF Reached
<1> QED BY <1>1, <1>2 DEF Reached, Reachable, Ends, FailedSteps

(* A workflow gets to its except block through ActivityFails only.         *)
LEMMA FailsFrom ==
    ASSUME TypeInv, [Next]_vars, NEW t \in Tasks,
           step'[t] = "mark_failed", step[t] # "mark_failed"
    PROVE  local'[t].reason = step[t]
<1>1. ASSUME NEW u \in Tasks, AttemptFails(u) \/ ActivityFails(u)
      PROVE  local'[t].reason = step[t]
  <2>1. ActivityFails(u)
    BY <1>1 DEF AttemptFails
  <2>2. CASE Goto(u, "failed")
    BY <2>2 DEF Goto, TypeInv, TypeOK
  <2>3. CASE Goto(u, "mark_failed") /\ local' = [local EXCEPT ![u].reason = step[u]]
    BY <2>3 DEF Goto, TypeInv, TypeOK, Locals
  <2> QED BY <2>1, <2>2, <2>3 DEF ActivityFails
<1>2. ASSUME NEW b \in bodies, Body(b) PROVE local'[t].reason = step[t]
  <2>1. CASE RaiseError(b)
    BY <1>1, <2>1 DEF RaiseError, TypeInv, TypeOK, Bodies, workflowVars
  <2>2. ASSUME NEW next, NEW locals, Return(b, next, locals), next # "mark_failed"
        PROVE FALSE
    BY <2>2, ReturnMoves
  <2> QED BY <1>2, <2>1, <2>2 DEF Body, MarkRunning, MarkCompleted, MarkFailed, MarkStatus,
       CheckRateLimit, ReserveUsage, CircuitBreakerEffective, RouteTask, SettleUsage,
       CircuitBreakerRecord, DispatchTask
<1> QED
  BY <1>1, <1>2 DEF Next, PickUp, EnterBody, StartToCloseTimeout, ScheduleToStartTimeout,
     WorkerCrash, ResetBreaker, Tick, Quiesced, vars, workflowVars

(* What a workflow has reached only changes when run() moves on.           *)
LEMMA ReachedNext ==
    ASSUME TypeInv, Reasons, [Next]_vars, NEW t \in Tasks
    PROVE  /\ local'[t].reason # "mark_failed"
           /\ step'[t] \in FailedSteps <=> local'[t].reason # Null
           /\ \/ Reached(t)' = Reached(t)
              \/ /\ step'[t] \notin {step[t], "mark_failed", "failed"}
                 /\ Reached(t) = step[t] /\ Reached(t)' = step'[t]
<1>1. KeepsReason(t) \/ GetsReason(t)
  BY NextReason
<1>2. /\ step[t] \in FailedSteps <=> local[t].reason # Null
      /\ local[t].reason # "mark_failed"
  BY DEF Reasons, ReasonInv
<1>3. CASE KeepsReason(t)
  <2>1. CASE step'[t] = step[t]
    BY <1>2, <1>3, <2>1 DEF KeepsReason, Reached
  <2>2. CASE step'[t] # step[t]
    <3>1. step'[t] \in {"mark_failed", "failed"} <=> step'[t] \in FailedSteps
      BY DEF FailedSteps
    <3> QED BY <1>2, <1>3, <2>2, <3>1 DEF KeepsReason, Reached
  <2> QED BY <2>1, <2>2
<1>4. CASE GetsReason(t)
  <2>1. /\ step[t] \notin FailedSteps /\ step'[t] = "mark_failed" /\ local'[t].reason # Null
        /\ local[t].reason = Null
    BY <1>2, <1>4 DEF GetsReason
  <2>2. local'[t].reason = step[t]
    BY <2>1, FailsFrom DEF FailedSteps
  <2> QED BY <2>1, <2>2 DEF Reached, FailedSteps
<1> QED BY <1>1, <1>3, <1>4

Owing == {t \in Tasks : Reached(t) \in ChargedSteps}

Owes == [t \in Tasks |-> IF Reached(t) \in SettledSteps THEN Actual(t) ELSE Projected(t)]

(* Every charge stands for one task that owes it: the task that made it,   *)
(* or another one of that account and amount whose charge settle() found   *)
(* in its place.                                                           *)
StandsFor(who, cs, owing, owes) ==
    /\ who \in [cs -> owing]
    /\ \A c \in cs : Owner[who[c]] = c.account /\ owes[who[c]] = c.amount
    /\ \A c, d \in cs : who[c] = who[d] => c = d
    /\ \A t \in owing : \E c \in cs : who[c] = t

LedgerInv ==
    /\ Reasons
    /\ IsFiniteSet(charges)
    /\ \A c \in charges : c.id <= lastId
    /\ \A c, d \in charges : c.id = d.id => c = d
    /\ \E who : StandsFor(who, charges, Owing, Owes)

(* A step moves a task in the ledger only by reserving or settling it.     *)
LEMMA OwingNext ==
    ASSUME TypeInv, Reasons, [Next]_vars, NEW t \in Tasks
    PROVE  \/ /\ t \in Owing' <=> t \in Owing
              /\ t \in Owing => Owes'[t] = Owes[t]
           \/ \E b \in bodies : b.task = t /\ (ReserveUsage(b) \/ SettleUsage(b))
<1>1. Moves(t)
  BY NextMoves
<1>2. \/ Reached(t)' = Reached(t)
      \/ /\ step'[t] \notin {step[t], "mark_failed", "failed"}
         /\ Reached(t) = step[t] /\ Reached(t)' = step'[t]
  BY ReachedNext
<1>3. \/ local'[t].tier = local[t].tier
      \/ step[t] = "route_task" /\ step'[t] = "settle_usage"
  BY <1>1 DEF Moves, StaysOrFails, Same, Reserved, Consulted, Routed, MovesOn
<1>4. ASSUME Reached(t)' \in ChargedSteps <=> Reached(t) \in ChargedSteps,
             Reached(t)' \in SettledSteps <=> Reached(t) \in SettledSteps,
             Reached(t) \in SettledSteps => local'[t].tier = local[t].tier
      PROVE  /\ t \in Owing' <=> t \in Owing
             /\ t \in Owing => Owes'[t] = Owes[t]
  BY <1>4 DEF Owing, Owes, Actual, Projected
<1>5. CASE Reached(t)' = Reached(t)
  <2>1. step[t] = "route_task" => Reached(t) = "route_task"
    BY DEF Reasons, ReasonInv, Reached, FailedSteps
  <2>2. "route_task" \notin SettledSteps
    BY DEF SettledSteps
  <2> QED BY <1>3, <1>4, <1>5, <2>1, <2>2
<1>6. CASE /\ step'[t] \notin {step[t], "mark_failed", "failed"}
           /\ Reached(t) = step[t] /\ Reached(t)' = step'[t]
  <2>1. PICK b \in bodies : b.task = t /\ b.step = step[t] /\ Body(b) /\ ~RaiseError(b)
    BY <1>6, MovedByBody
  <2>2. CASE step[t] \in {"reserve_usage", "settle_usage"}
    BY <2>1, <2>2, BodyOfStep
  <2>3. CASE step[t] \notin {"reserve_usage", "settle_usage"}
    <3>1. \/ Consulted(t) \/ Routed(t) \/ MovesOn(t)
      BY <1>1, <1>6, <2>3 DEF Moves, StaysOrFails, Reserved
    <3>2. /\ step'[t] \in ChargedSteps <=> step[t] \in ChargedSteps
          /\ step'[t] \in SettledSteps <=> step[t] \in SettledSteps
          /\ step[t] \in SettledSteps => step[t] # "route_task"
      BY <1>6, <2>3, <3>1
         DEF Consulted, Routed, MovesOn, PlainMoves, ChargedSteps, SettledSteps
    <3> QED BY <1>3, <1>4, <1>6, <3>2
  <2> QED BY <2>2, <2>3
<1> QED BY <1>2, <1>5, <1>6

(* A body that reserves or settles is the only one that does, and when its *)
(* report is not lost its task moves on.                                   *)
LEMMA LedgerBody ==
    ASSUME TypeInv, LateFree, Reasons, [Next]_vars, NEW b \in bodies,
           b.step \notin Unacked \/ ~UNCHANGED workflowVars,
           ReserveUsage(b) \/ SettleUsage(b)
    PROVE  /\ b.task \in Tasks
           /\ \A u \in Tasks \ {b.task} : /\ u \in Owing' <=> u \in Owing
                                          /\ u \in Owing => Owes'[u] = Owes[u]
           /\ ReserveUsage(b) => /\ b.task \notin Owing /\ b.task \in Owing'
                                 /\ Owes'[b.task] = Projected(b.task)
           /\ SettleUsage(b) => /\ b.task \in Owing /\ b.task \in Owing'
                                /\ Owes[b.task] = Projected(b.task)
                                /\ Owes'[b.task] = Actual(b.task)
<1> DEFINE t == b.task
<1>1. t \in Tasks
  BY DEF TypeInv, TypeOK, Bodies
<1>2. Body(b)
  BY DEF Body
<1>3. \A u \in Tasks \ {t} : step'[u] = step[u] /\ local'[u] = local[u]
  BY <1>2, BodyOnly DEF Only
<1>4. \A u \in Tasks \ {t} : /\ u \in Owing' <=> u \in Owing
                             /\ u \in Owing => Owes'[u] = Owes[u]
  BY <1>3 DEF Owing, Owes, Reached, Actual, Projected
<1>5. Current(b)
  BY DEF LateFree
<1>6. step[t] = b.step /\ b.step \in {"reserve_usage", "settle_usage"}
  BY <1>5 DEF Current, ReserveUsage, SettleUsage, Runs
<1>7. local[t].reason = Null
  BY <1>1, <1>6 DEF Reasons, ReasonInv, FailedSteps
<1>8. local'[t].reason = Null
  <2>1. KeepsReason(t) \/ GetsReason(t)
    BY <1>1, NextReason
  <2>2. step'[t] # "mark_failed"
    BY <1>1, <1>5, <1>6
       DEF ReserveUsage, SettleUsage, Runs, Return, Goto, TypeInv, TypeOK
  <2> QED BY <1>7, <2>1, <2>2 DEF KeepsReason, GetsReason
<1>9. Reached(t) = step[t] /\ Reached(t)' = step'[t]
  BY <1>7, <1>8 DEF Reached
<1>10. CASE ReserveUsage(b)
  <2>1. step[t] = "reserve_usage" /\ step'[t] = "circuit_breaker_effective"
    BY <1>1, <1>5, <1>6, <1>10 DEF ReserveUsage, Runs, Return, Goto, TypeInv, TypeOK
  <2>2. ~SettleUsage(b)
    BY <1>10 DEF ReserveUsage, SettleUsage, Runs
  <2>3. t \notin Owing /\ t \in Owing' /\ Owes'[t] = Projected(t)
    BY <1>1, <1>9, <2>1 DEF Owing, Owes, ChargedSteps, SettledSteps, Projected
  <2> QED BY <1>1, <1>4, <2>2, <2>3
<1>11. CASE SettleUsage(b)
  <2>1. step[t] = "settle_usage" /\ step'[t] = "circuit_breaker_record"
    BY <1>1, <1>5, <1>6, <1>11 DEF SettleUsage, Runs, Return, Goto, TypeInv, TypeOK
  <2>2. ~ReserveUsage(b)
    BY <1>11 DEF ReserveUsage, SettleUsage, Runs
  <2>3. local'[t] = local[t]
    BY <1>1, <1>11, ReturnMoves, <2>1 DEF SettleUsage
  <2>4. t \in Owing /\ t \in Owing' /\ Owes[t] = Projected(t) /\ Owes'[t] = Actual(t)
    BY <1>1, <1>9, <2>1, <2>3 DEF Owing, Owes, ChargedSteps, SettledSteps, Actual
  <2> QED BY <1>1, <1>4, <2>2, <2>4
<1> QED BY <1>10, <1>11

LEMMA LatestCharge ==
    ASSUME NEW cs, cs \subseteq Charges, IsFiniteSet(cs), cs # {}
    PROVE  \E m \in cs : \A d \in cs : d.id <= m.id
<1> DEFINE HasLatest(T) == T # {} => \E m \in T : \A d \in T : d.id <= m.id
           Good == {T \in SUBSET cs : HasLatest(T)}
<1>1. \A c \in cs : c.id \in Nat
  BY DEF Charges
<1>2. ASSUME NEW T \in SUBSET cs, \A x \in T : T \ {x} \in Good PROVE T \in Good
  <2> SUFFICES ASSUME T # {} PROVE HasLatest(T)
    OBVIOUS
  <2>1. PICK x \in T : TRUE
    OBVIOUS
  <2>2. HasLatest(T \ {x})
    BY <1>2
  <2>3. CASE T = {x}
    BY <1>1, <2>3
  <2>4. CASE T # {x}
    <3>1. PICK m \in T \ {x} : \A d \in T \ {x} : d.id <= m.id
      BY <2>1, <2>2, <2>4
    <3>2. m.id \in Nat /\ x.id \in Nat /\ \A d \in T : d.id \in Nat
      BY <1>1
    <3>3. CASE x.id <= m.id
      BY <3>1, <3>2, <3>3
    <3>4. CASE m.id <= x.id
      BY <2>1, <3>1, <3>2, <3>4
    <3> QED BY <3>2, <3>3, <3>4
  <2> QED BY <2>3, <2>4
<1> HIDE DEF Good
<1>3. \A T \in SUBSET cs : T \in Good
  BY <1>2, FiniteSetInduction
<1> QED BY <1>3 DEF Good

(* settle() finds exactly one charge when there is one of that amount, and *)
(* revalues it.                                                            *)
LEMMA SettleOne ==
    ASSUME NEW cs, cs \subseteq Charges, IsFiniteSet(cs), NEW a, NEW x, NEW y \in Nat,
           \A c, d \in cs : c.id = d.id => c = d,
           \E c \in cs : c.account = a /\ c.amount = x
    PROVE  \E m \in cs : /\ m.account = a /\ m.amount = x
                         /\ Revalue(cs, SettleTarget(cs, a, x), y)
                              = (cs \ {m}) \union {[m EXCEPT !.amount = y]}
<1> DEFINE same == {c \in cs : c.account = a /\ c.amount = x}
<1>1. same \subseteq cs /\ IsFiniteSet(same) /\ same # {}
  BY FS_Subset
<1>2. SettleTarget(cs, a, x) = {c \in same : \A d \in same : d.id <= c.id}
  BY DEF SettleTarget
<1>3. \A m \in same : m \in cs /\ m.account = a /\ m.amount = x
  OBVIOUS
<1> HIDE DEF same
<1>4. PICK m \in same : \A d \in same : d.id <= m.id
  BY <1>1, LatestCharge
<1>5. \A c \in cs : c.id \in Nat
  BY DEF Charges
<1>6. SettleTarget(cs, a, x) = {m}
  BY <1>1, <1>2, <1>4, <1>5
<1>7. Revalue(cs, {m}, y) = (cs \ {m}) \union {[m EXCEPT !.amount = y]}
  <2> DEFINE n == [m EXCEPT !.amount = y]
  <2>1. Revalue(cs, {m}, y) = {IF c \in {m} THEN [c EXCEPT !.amount = y] ELSE c : c \in cs}
    BY DEF Revalue
  <2>2. \A c \in cs : (IF c \in {m} THEN [c EXCEPT !.amount = y] ELSE c)
                        = IF c = m THEN n ELSE c
    OBVIOUS
  <2>3. Revalue(cs, {m}, y) = {IF c = m THEN n ELSE c : c \in cs}
    BY <2>1, <2>2
  <2> HIDE DEF n
  <2> QED BY <1>1, <2>3 DEF n
<1> QED BY <1>1, <1>3, <1>6, <1>7

(* What reserve() and settle() do to the matching of charges and tasks.    *)
LEMMA ReserveKeepsLedger ==
    ASSUME TypeInv, TypeInv', LedgerInv, LateFree, MaxClock <= Window, [Next]_vars,
           "reserve_usage" \notin Unacked, "settle_usage" \notin Unacked,
           NEW b \in bodies, ReserveUsage(b)
    PROVE  /\ IsFiniteSet(charges')
           /\ \A c \in charges' : c.id <= lastId'
           /\ \A c, d \in charges' : c.id = d.id => c = d
           /\ \E who : StandsFor(who, charges', Owing', Owes')
<1> DEFINE t == b.task
<1>1. Prune(charges, Owner[t], b.at) = charges
  BY NothingExpires DEF ReserveUsage, Runs
<1>2. PICK n \in Charges : /\ n.id = lastId + 1 /\ n.account = Owner[t]
                           /\ n.amount = Projected(t)
                           /\ charges' = charges \union {n} /\ lastId' = lastId + 1
  BY <1>1, ReserveCharge
<1>3. /\ lastId \in Nat /\ \A c \in charges : c.id \in Nat /\ c.id <= lastId
      /\ \A c, d \in charges : c.id = d.id => c = d
  BY DEF TypeInv, TypeOK, Charges, LedgerInv
<1>4. n \notin charges /\ \A c \in charges : c.id # n.id
  BY <1>2, <1>3
<1>5. IsFiniteSet(charges')
  BY <1>2, FS_AddElement DEF LedgerInv
<1>6. \A c \in charges' : c.id <= lastId'
  BY <1>2, <1>3
<1>7. \A c, d \in charges' : c.id = d.id => c = d
  BY <1>2, <1>3, <1>4
<1>8. PICK who : StandsFor(who, charges, Owing, Owes)
  BY DEF LedgerInv
<1>9. /\ t \in Tasks /\ t \notin Owing /\ t \in Owing' /\ Owes'[t] = Projected(t)
      /\ \A u \in Tasks \ {t} : /\ u \in Owing' <=> u \in Owing
                                /\ u \in Owing => Owes'[u] = Owes[u]
  BY LedgerBody DEF LedgerInv, ReserveUsage, Runs
<1>10. Owing' = Owing \union {t} /\ Owing \subseteq Tasks \ {t}
  <2>1. Owing \subseteq Tasks /\ Owing' \subseteq Tasks
    BY DEF Owing
  <2> QED BY <1>9, <2>1
<1> DEFINE next == [c \in charges' |-> IF c = n THEN t ELSE who[c]]
<1> HIDE DEF t
<1>11. /\ \A c \in charges : /\ who[c] \in Owing /\ Owner[who[c]] = c.account
                             /\ Owes[who[c]] = c.amount
       /\ \A c, d \in charges : who[c] = who[d] => c = d
       /\ \A u \in Owing : \E c \in charges : who[c] = u
  BY <1>8 DEF StandsFor
<1>12. next[n] = t /\ \A c \in charges : next[c] = who[c]
  BY <1>2, <1>4
<1>13. next \in [charges' -> Owing']
  BY <1>2, <1>10, <1>11
<1> HIDE DEF next
<1>14. \A c \in charges' : Owner[next[c]] = c.account /\ Owes'[next[c]] = c.amount
  BY <1>2, <1>9, <1>10, <1>11, <1>12
<1>15. \A c, d \in charges' : next[c] = next[d] => c = d
  BY <1>2, <1>10, <1>11, <1>12
<1>16. \A u \in Owing' : \E c \in charges' : next[c] = u
  BY <1>2, <1>10, <1>11, <1>12
<1>17. StandsFor(next, charges', Owing', Owes')
  BY <1>13, <1>14, <1>15, <1>16 DEF StandsFor
<1> QED BY <1>5, <1>6, <1>7, <1>17

LEMMA SettleKeepsLedger ==
    ASSUME TypeInv, TypeInv', LedgerInv, LateFree, MaxClock <= Window, [Next]_vars,
           "reserve_usage" \notin Unacked, "settle_usage" \notin Unacked,
           NEW b \in bodies, SettleUsage(b)
    PROVE  /\ IsFiniteSet(charges')
           /\ \A c \in charges' : c.id <= lastId'
           /\ \A c, d \in charges' : c.id = d.id => c = d
           /\ \E who : StandsFor(who, charges', Owing', Owes')
<1> DEFINE t == b.task
           a == Owner[t]
           x == Projected(t)
           y == Actual(t)
<1>1. Prune(charges, a, b.at) = charges
  BY NothingExpires DEF SettleUsage, Runs
<1>2. /\ charges' = Revalue(charges, SettleTarget(charges, a, x), y)
      /\ lastId' = lastId /\ x \in Nat /\ y \in Nat
  BY <1>1, SettleCharges
<1>3. /\ charges \subseteq Charges /\ IsFiniteSet(charges)
      /\ \A c \in charges : c.id <= lastId
      /\ \A c, d \in charges : c.id = d.id => c = d
  BY DEF TypeInv, TypeOK, LedgerInv
<1>4. PICK who : StandsFor(who, charges, Owing, Owes)
  BY DEF LedgerInv
<1>5. /\ t \in Tasks /\ t \in Owing /\ t \in Owing' /\ Owes[t] = x /\ Owes'[t] = y
      /\ \A u \in Tasks \ {t} : /\ u \in Owing' <=> u \in Owing
                                /\ u \in Owing => Owes'[u] = Owes[u]
  BY LedgerBody DEF LedgerInv, SettleUsage, Runs
<1>6. Owing' = Owing /\ Owing \subseteq Tasks
  <2>1. Owing \subseteq Tasks /\ Owing' \subseteq Tasks
    BY DEF Owing
  <2> QED BY <1>5, <2>1
<1>7. /\ \A c \in charges : /\ who[c] \in Owing /\ Owner[who[c]] = c.account
                            /\ Owes[who[c]] = c.amount
      /\ \A c, d \in charges : who[c] = who[d] => c = d
      /\ \A u \in Owing : \E c \in charges : who[c] = u
  BY <1>4 DEF StandsFor
<1>8. PICK own \in charges : who[own] = t
  BY <1>5, <1>7
<1>9. own.account = a /\ own.amount = x
  BY <1>5, <1>7, <1>8
<1> HIDE DEF a, x, y
<1>10. PICK m \in charges : /\ m.account = a /\ m.amount = x
                            /\ charges' = (charges \ {m}) \union {[m EXCEPT !.amount = y]}
  BY <1>2, <1>3, <1>8, <1>9, SettleOne
<1> DEFINE n == [m EXCEPT !.amount = y]
           next == [c \in charges' |-> IF c = n THEN t ELSE IF c = own THEN who[m] ELSE who[c]]
<1>11. n.id = m.id /\ n.account = a /\ n.amount = y
  BY <1>3, <1>10 DEF Charges
<1>12. charges' = (charges \ {m}) \union {n}
  BY <1>10
<1> HIDE DEF n, t
<1>13. \A c \in charges \ {m} : c # n /\ c.id # n.id
  BY <1>3, <1>11
<1>14. IsFiniteSet(charges')
  BY <1>3, <1>12, FS_AddElement, FS_RemoveElement
<1>15. \A c \in charges' : c.id <= lastId'
  BY <1>2, <1>3, <1>11, <1>12
<1>16. \A c, d \in charges' : c.id = d.id => c = d
  BY <1>3, <1>12, <1>13
<1>17. /\ n \in charges' /\ next[n] = t
       /\ \A c \in charges \ {m} : /\ c \in charges'
                                   /\ next[c] = IF c = own THEN who[m] ELSE who[c]
  BY <1>12, <1>13
<1>18. next \in [charges' -> Owing']
  BY <1>5, <1>6, <1>7, <1>12
<1> HIDE DEF next
<1>19. \A c \in charges \ {m} : /\ next[c] # t
                                /\ Owner[next[c]] = c.account
                                /\ Owes[next[c]] = c.amount
  BY <1>7, <1>8, <1>9, <1>10, <1>17
<1>20. \A c \in charges' : Owner[next[c]] = c.account /\ Owes'[next[c]] = c.amount
  <2>1. Owner[t] = a
    BY DEF a, t
  <2>2. ASSUME NEW c \in charges \ {m}
        PROVE  Owner[next[c]] = c.account /\ Owes'[next[c]] = c.amount
    <3>1. next[c] \in Owing /\ next[c] \in Tasks \ {t}
      BY <1>6, <1>18, <1>17, <1>19
    <3>2. Owes'[next[c]] = Owes[next[c]]
      BY <1>5, <3>1
    <3> QED BY <1>19, <3>2
  <2>3. Owner[next[n]] = n.account /\ Owes'[next[n]] = n.amount
    BY <1>5, <1>11, <1>17, <2>1
  <2> QED BY <1>12, <2>2, <2>3
<1>21. \A c, d \in charges' : next[c] = next[d] => c = d
  <2>1. \A c, d \in charges \ {m} : next[c] = next[d] => c = d
    BY <1>7, <1>10, <1>17
  <2> QED BY <1>12, <1>17, <1>19, <2>1
<1>22. ASSUME NEW u \in Owing PROVE \E c \in charges' : next[c] = u
  <2>1. CASE u = t
    BY <1>17, <2>1
  <2>2. CASE u # t
    <3>1. PICK c \in charges : who[c] = u
      BY <1>7
    <3>2. c # own
      BY <1>8, <2>2, <3>1
    <3>3. CASE c = m
      BY <1>8, <1>17, <3>1, <3>2, <3>3
    <3>4. CASE c # m
      BY <1>17, <3>1, <3>2, <3>4
    <3> QED BY <3>3, <3>4
  <2> QED BY <2>1, <2>2
<1>23. StandsFor(next, charges', Owing', Owes')
  BY <1>6, <1>18, <1>20, <1>21, <1>22 DEF StandsFor
<1> QED BY <1>14, <1>15, <1>16, <1>23

(* Without a reservation or a settlement, nothing changes in the ledger.   *)
LEMMA NothingWritten ==
    ASSUME TypeInv, [Next]_vars, ~\E b \in bodies : ReserveUsage(b) \/ SettleUsage(b)
    PROVE  UNCHANGED <<charges, lastId>>
<1>1. UNCHANGED charges
  BY ChargesFrom
<1>2. ASSUME NEW b \in bodies, Body(b) PROVE UNCHANGED lastId
  BY <1>2 DEF Body, MarkRunning, MarkCompleted, MarkFailed, MarkStatus,
     CheckRateLimit, CircuitBreakerEffective, RouteTask, CircuitBreakerRecord,
     DispatchTask, RaiseError, storeVars
<1> QED
  BY <1>1, <1>2 DEF Next, PickUp, EnterBody, StartToCloseTimeout,
     ScheduleToStartTimeout, WorkerCrash, ResetBreaker, Tick, Quiesced, vars, storeVars

LEMMA NothingOwed ==
    ASSUME TypeInv, Reasons, [Next]_vars,
           ~\E b \in bodies : ReserveUsage(b) \/ SettleUsage(b)
    PROVE  Owing' = Owing /\ \A t \in Owing : Owes'[t] = Owes[t]
<1>1. \A t \in Tasks : /\ t \in Owing' <=> t \in Owing
                       /\ t \in Owing => Owes'[t] = Owes[t]
  BY OwingNext
<1>2. Owing \subseteq Tasks /\ Owing' \subseteq Tasks
  BY DEF Owing
<1> QED
  BY <1>1, <1>2

LEMMA LedgerInvNext ==
    ASSUME TypeInv, TypeInv', LedgerInv, LateFree, MaxClock <= Window, [Next]_vars,
           "reserve_usage" \notin Unacked, "settle_usage" \notin Unacked
    PROVE  LedgerInv'
<1>1. Reasons'
  <2>1. Reasons
    BY DEF LedgerInv
  <2>2. \A t \in Tasks : /\ local'[t].reason # "mark_failed"
                         /\ step'[t] \in FailedSteps <=> local'[t].reason # Null
    BY <2>1, ReachedNext
  <2> QED BY <2>2 DEF Reasons, ReasonInv
<1>2. CASE \E b \in bodies : ReserveUsage(b)
  BY <1>1, <1>2, ReserveKeepsLedger DEF LedgerInv
<1>3. CASE \E b \in bodies : SettleUsage(b)
  BY <1>1, <1>3, SettleKeepsLedger DEF LedgerInv
<1>4. CASE ~\E b \in bodies : ReserveUsage(b) \/ SettleUsage(b)
  <2>1. UNCHANGED <<charges, lastId>>
    BY <1>4, NothingWritten
  <2>4. Owing' = Owing /\ \A t \in Owing : Owes'[t] = Owes[t]
    BY <1>4, NothingOwed DEF LedgerInv
  <2>5. PICK who : StandsFor(who, charges, Owing, Owes)
    BY DEF LedgerInv
  <2>6. StandsFor(who, charges', Owing', Owes')
    BY <2>1, <2>4, <2>5 DEF StandsFor
  <2> QED BY <1>1, <2>1, <2>6 DEF LedgerInv
<1> QED BY <1>2, <1>3, <1>4

LEMMA OwedAddsUp ==
    ASSUME TypeInv, Reasons, NEW S, S \subseteq Tasks, IsFiniteSet(S)
    PROVE  MapThenSumSet(LAMBDA t : IF Past(t, "settle_usage") THEN Actual(t)
                                                             ELSE Projected(t), S)
             = SumOf(Owes, S)
<1> DEFINE Owed(t) == IF Past(t, "settle_usage") THEN Actual(t) ELSE Projected(t)
           A(it) == it = [s \in SUBSET S |-> IF s = {} THEN 0
                             ELSE Owed(Some(s)) + it[s \ {Some(s)}]]
           sum == CHOOSE it : A(it)
<1>1. PICK i : IsSum(i, Owes, S) /\ SumOf(Owes, S) = i[S]
  BY SumUnfold
<1>2. \A s \in SUBSET S : s # {} => Owes[Some(s)] = Owed(Some(s))
  <2>1. \A t \in Tasks : Owes[t] = Owed(t)
    BY ReachedReachable, PastSteps DEF Owes
  <2>2. \A s \in SUBSET S : s # {} => Some(s) \in Tasks
    BY DEF Some
  <2> QED BY <2>1, <2>2
<1>3. A(i)
  <2> HIDE DEF Owed
  <2> QED BY <1>1, <1>2 DEF IsSum
<1>4. A(sum)
  BY <1>3
<1>5. MapThenSumSet(LAMBDA t : IF Past(t, "settle_usage") THEN Actual(t)
                                                          ELSE Projected(t), S) = sum[S]
  BY DEF MapThenSumSet, MapThenFoldSet, Some
<1>6. IsSum(sum, Owes, S)
  <2> HIDE DEF sum, Owed
  <2> QED BY <1>2, <1>4 DEF IsSum
<1>7. \A T \in SUBSET S : sum[T] = SumOf(Owes, T)
  <2> HIDE DEF sum
  <2> QED BY <1>6, SumOfParts
<1> QED BY <1>5, <1>7

(* Whatever settle() mixes up among charges of the same amount, every      *)
(* account's balance is the sum of what its tasks owe, as long as no       *)
(* report of a reservation or settlement is lost, no body outlives its     *)
(* timeout and no charge expires.  Crashes, failing bodies and lost        *)
(* reports of the other steps are allowed.                                 *)
THEOREM LedgerAddsUp ==
    ASSUME "reserve_usage" \notin Unacked, "settle_usage" \notin Unacked,
           MaxLate = 0, MaxClock <= Window
    PROVE  Spec => []LedgerExact
<1>1. Init => LedgerInv /\ LateFree
  <2> SUFFICES ASSUME Init PROVE LedgerInv /\ LateFree
    OBVIOUS
  <2>1. LateFree
    BY FS_EmptySet DEF Init, LateFree
  <2>2. Reasons
    BY DEF Init, Reasons, ReasonInv, FailedSteps, Null
  <2>3. charges = {} /\ IsFiniteSet(charges)
    BY FS_EmptySet DEF Init
  <2>4. Owing = {}
    BY DEF Init, Owing, Reached, ChargedSteps, SettledSteps
  <2>5. StandsFor([c \in {} |-> c], charges, Owing, Owes)
    BY <2>3, <2>4 DEF StandsFor
  <2> QED BY <2>1, <2>2, <2>3, <2>5 DEF LedgerInv
<1>2. TypeInv /\ LateFree /\ [Next]_vars => LateFree'
  BY LateFreeNext
<1>3. TypeInv /\ TypeInv' /\ LateFree /\ LedgerInv /\ [Next]_vars => LedgerInv'
  BY LedgerInvNext
<1>4. TypeInv /\ LedgerInv => LedgerExact
  <2> SUFFICES ASSUME TypeInv, LedgerInv, NEW a \in Accounts
               PROVE  Balance(charges, a) = MapThenSumSet(
                        LAMBDA t : IF Past(t, "settle_usage") THEN Actual(t) ELSE Projected(t),
                        {t \in Tasks : Owner[t] = a /\ Past(t, "reserve_usage")})
    BY DEF LedgerExact
  <2> DEFINE S == {c \in charges : c.account = a}
             T == {t \in Tasks : Owner[t] = a /\ Past(t, "reserve_usage")}
  <2>1. charges \subseteq Charges /\ IsFiniteSet(charges) /\ Reasons
    BY DEF TypeInv, TypeOK, LedgerInv
  <2>2. Balance(charges, a) = SumOf(Amount, S)
    BY <2>1, BalanceIsSum
  <2>3. IsFiniteSet(S)
    BY <2>1, FS_Subset
  <2>4. \A c \in S : Amount[c] \in Nat /\ Amount[c] = c.amount
    BY <2>1 DEF Amount, Charges
  <2>5. PICK who : StandsFor(who, charges, Owing, Owes)
    BY DEF LedgerInv
  <2>6. \A t \in Tasks : t \in T <=> Owner[t] = a /\ t \in Owing
    BY <2>1, ReachedReachable, PastSteps DEF Owing
  <2>7. ImageOf(who, S) = T
    <3>1. \A c \in charges : who[c] \in Owing /\ who[c] \in Tasks
      BY <2>5 DEF StandsFor, Owing
    <3>2. \A c \in S : who[c] \in T
      BY <2>5, <2>6, <3>1 DEF StandsFor
    <3>3. ASSUME NEW t \in T PROVE \E c \in S : who[c] = t
      <4>1. t \in Owing /\ Owner[t] = a
        BY <2>6
      <4> QED BY <2>5, <4>1 DEF StandsFor
    <3> HIDE DEF S, T
    <3> QED BY <3>2, <3>3 DEF ImageOf
  <2>8. /\ \A c \in S : Owes[who[c]] = Amount[c]
        /\ \A c, d \in S : who[c] = who[d] => c = d
    BY <2>4, <2>5 DEF StandsFor
  <2>9. T \subseteq Tasks
    OBVIOUS
  <2> HIDE DEF S, T
  <2>10. SumOf(Owes, T) = SumOf(Amount, S)
    BY <2>3, <2>4, <2>7, <2>8, SumInjective
  <2>11. IsFiniteSet(T)
    <3>1. \A c \in S : Owes[who[c]] \in Nat /\ Owes[who[c]] <= Amount[c]
      BY <2>4, <2>8
    <3> QED BY <2>3, <2>4, <2>7, <3>1, SumImage
  <2>12. MapThenSumSet(LAMBDA t : IF Past(t, "settle_usage") THEN Actual(t)
                                                            ELSE Projected(t), T)
          = SumOf(Owes, T)
    BY <2>1, <2>9, <2>11, OwedAddsUp
  <2> QED BY <2>2, <2>10, <2>12 DEF T
<1> QED
  BY <1>1, <1>2, <1>3, <1>4, TypeInvInit, TypeInvNext, PTL DEF Spec

-----------------------------------------------------------------------------
(* FrontierSpendBelowThreshold.  A reservation whose report got lost is    *)
(* made again, and its charge stays.  So there may be more charges than    *)
(* debts, but every debt has a charge of its amount to itself: a balance   *)
(* is not less than what the tasks of the account owe.                     *)
Covers(of, cs, owing, owes) ==
    /\ of \in [owing -> cs]
    /\ \A t \in owing : of[t].account = Owner[t] /\ of[t].amount = owes[t]
    /\ \A t, u \in owing : of[t] = of[u] => t = u

CoverInv ==
    /\ Reasons
    /\ IsFiniteSet(charges)
    /\ \A c \in charges : c.id <= lastId
    /\ \A c, d \in charges : c.id = d.id => c = d
    /\ \E of : Covers(of, charges, Owing, Owes)

LEMMA ReserveKeepsCover ==
    ASSUME TypeInv, TypeInv', CoverInv, LateFree, MaxClock <= Window, [Next]_vars,
           NEW b \in bodies, ReserveUsage(b)
    PROVE  /\ IsFiniteSet(charges')
           /\ \A c \in charges' : c.id <= lastId'
           /\ \A c, d \in charges' : c.id = d.id => c = d
           /\ \E of : Covers(of, charges', Owing', Owes')
<1> DEFINE t == b.task
<1>1. Prune(charges, Owner[t], b.at) = charges
  BY NothingExpires DEF ReserveUsage, Runs
<1>2. PICK n \in Charges : /\ n.id = lastId + 1 /\ n.account = Owner[t]
                           /\ n.amount = Projected(t)
                           /\ charges' = charges \union {n} /\ lastId' = lastId + 1
  BY <1>1, ReserveCharge
<1>3. /\ lastId \in Nat /\ \A c \in charges : c.id \in Nat /\ c.id <= lastId
      /\ \A c, d \in charges : c.id = d.id => c = d
  BY DEF TypeInv, TypeOK, Charges, CoverInv
<1>4. n \notin charges /\ \A c \in charges : c.id # n.id
  BY <1>2, <1>3
<1>5. IsFiniteSet(charges')
  BY <1>2, FS_AddElement DEF CoverInv
<1>6. \A c \in charges' : c.id <= lastId'
  BY <1>2, <1>3
<1>7. \A c, d \in charges' : c.id = d.id => c = d
  BY <1>2, <1>3, <1>4
<1>8. PICK of : Covers(of, charges, Owing, Owes)
  BY DEF CoverInv
<1>9. CASE UNCHANGED workflowVars
  <2>1. Owing' = Owing /\ Owes' = Owes
    BY <1>9 DEF workflowVars, Owing, Owes, Reached, Actual, Projected
  <2>2. Covers(of, charges', Owing', Owes')
    BY <1>2, <1>8, <2>1 DEF Covers
  <2> QED BY <1>5, <1>6, <1>7, <2>2
<1>10. CASE ~UNCHANGED workflowVars
  <2>1. /\ t \in Tasks /\ t \notin Owing /\ t \in Owing' /\ Owes'[t] = Projected(t)
        /\ \A u \in Tasks \ {t} : /\ u \in Owing' <=> u \in Owing
                                  /\ u \in Owing => Owes'[u] = Owes[u]
    BY <1>10, LedgerBody DEF CoverInv
  <2>2. Owing' = Owing \union {t} /\ Owing \subseteq Tasks \ {t}
    <3>1. Owing \subseteq Tasks /\ Owing' \subseteq Tasks
      BY DEF Owing
    <3> QED BY <2>1, <3>1
  <2> DEFINE next == [u \in Owing' |-> IF u = t THEN n ELSE of[u]]
  <2> HIDE DEF t
  <2>3. /\ \A u \in Owing : /\ of[u] \in charges /\ of[u].account = Owner[u]
                            /\ of[u].amount = Owes[u]
        /\ \A u, v \in Owing : of[u] = of[v] => u = v
    BY <1>8 DEF Covers
  <2>4. next[t] = n /\ \A u \in Owing : next[u] = of[u]
    BY <2>2
  <2>5. next \in [Owing' -> charges']
    BY <1>2, <2>2, <2>3
  <2> HIDE DEF next
  <2>6. \A u \in Owing' : next[u].account = Owner[u] /\ next[u].amount = Owes'[u]
    BY <1>2, <2>1, <2>2, <2>3, <2>4
  <2>7. \A u, v \in Owing' : next[u] = next[v] => u = v
    BY <1>4, <2>2, <2>3, <2>4
  <2>8. Covers(next, charges', Owing', Owes')
    BY <2>5, <2>6, <2>7 DEF Covers
  <2> QED BY <1>5, <1>6, <1>7, <2>8
<1> QED BY <1>9, <1>10

(* A settlement that finds another task's charge leaves its own in place   *)
(* of it.                                                                  *)
LEMMA SettleKeepsCover ==
    ASSUME TypeInv, TypeInv', CoverInv, LateFree, MaxClock <= Window, [Next]_vars,
           "settle_usage" \notin Unacked, NEW b \in bodies, SettleUsage(b)
    PROVE  /\ IsFiniteSet(charges')
           /\ \A c \in charges' : c.id <= lastId'
           /\ \A c, d \in charges' : c.id = d.id => c = d
           /\ \E of : Covers(of, charges', Owing', Owes')
<1> DEFINE t == b.task
           a == Owner[t]
           x == Projected(t)
           y == Actual(t)
<1>1. Prune(charges, a, b.at) = charges
  BY NothingExpires DEF SettleUsage, Runs
<1>2. /\ charges' = Revalue(charges, SettleTarget(charges, a, x), y)
      /\ lastId' = lastId /\ x \in Nat /\ y \in Nat
  BY <1>1, SettleCharges
<1>3. /\ charges \subseteq Charges /\ IsFiniteSet(charges)
      /\ \A c \in charges : c.id <= lastId
      /\ \A c, d \in charges : c.id = d.id => c = d
  BY DEF TypeInv, TypeOK, CoverInv
<1>4. PICK of : Covers(of, charges, Owing, Owes)
  BY DEF CoverInv
<1>5. /\ t \in Tasks /\ t \in Owing /\ t \in Owing' /\ Owes[t] = x /\ Owes'[t] = y
      /\ \A u \in Tasks \ {t} : /\ u \in Owing' <=> u \in Owing
                                /\ u \in Owing => Owes'[u] = Owes[u]
  BY LedgerBody DEF CoverInv, SettleUsage, Runs
<1>6. Owing' = Owing /\ Owing \subseteq Tasks
  <2>1. Owing \subseteq Tasks /\ Owing' \subseteq Tasks
    BY DEF Owing
  <2> QED BY <1>5, <2>1
<1>7. /\ \A u \in Owing : /\ of[u] \in charges /\ of[u].account = Owner[u]
                          /\ of[u].amount = Owes[u]
      /\ \A u, v \in Owing : of[u] = of[v] => u = v
  BY <1>4 DEF Covers
<1> DEFINE own == of[t]
<1>8. own \in charges /\ own.account = a /\ own.amount = x
  BY <1>5, <1>7
<1>9. a = Owner[t]
  OBVIOUS
<1> HIDE DEF a, x, y
<1>10. PICK m \in charges : /\ m.account = a /\ m.amount = x
                            /\ charges' = (charges \ {m}) \union {[m EXCEPT !.amount = y]}
  BY <1>2, <1>3, <1>8, SettleOne
<1> DEFINE n == [m EXCEPT !.amount = y]
           next == [u \in Owing' |-> IF u = t THEN n ELSE IF of[u] = m THEN own ELSE of[u]]
<1>11. n.id = m.id /\ n.account = a /\ n.amount = y
  BY <1>3, <1>10 DEF Charges
<1>12. charges' = (charges \ {m}) \union {n}
  BY <1>10
<1> HIDE DEF n, t
<1>13. \A c \in charges \ {m} : c # n /\ c.id # n.id
  BY <1>3, <1>11
<1>14. IsFiniteSet(charges')
  BY <1>3, <1>12, FS_AddElement, FS_RemoveElement
<1>15. \A c \in charges' : c.id <= lastId'
  BY <1>2, <1>3, <1>11, <1>12
<1>16. \A c, d \in charges' : c.id = d.id => c = d
  BY <1>3, <1>12, <1>13
<1>17. /\ next[t] = n
       /\ \A u \in Owing \ {t} : next[u] = IF of[u] = m THEN own ELSE of[u]
  BY <1>5, <1>6
<1>18. \A u \in Owing \ {t} : of[u] # own
  BY <1>5, <1>7
<1> HIDE DEF next, own
<1>19. ASSUME NEW u \in Owing \ {t}
       PROVE  /\ next[u] \in charges \ {m} /\ next[u].account = Owner[u]
              /\ next[u].amount = Owes[u]
  <2>1. CASE of[u] = m
    BY <1>7, <1>8, <1>10, <1>17, <1>18, <2>1
  <2>2. CASE of[u] # m
    BY <1>7, <1>17, <2>2
  <2> QED BY <2>1, <2>2
<1>20. next \in [Owing' -> charges']
  <2>1. DOMAIN next = Owing' /\ next = [u \in Owing' |-> next[u]]
    BY DEF next
  <2>2. \A u \in Owing' : next[u] \in charges'
    BY <1>6, <1>12, <1>17, <1>19
  <2> QED BY <2>1, <2>2
<1>21. \A u \in Owing' : next[u].account = Owner[u] /\ next[u].amount = Owes'[u]
  <2>1. \A u \in Owing \ {t} : u \in Tasks \ {t} /\ Owes'[u] = Owes[u]
    BY <1>5, <1>6
  <2> QED BY <1>5, <1>6, <1>9, <1>11, <1>17, <1>19, <2>1
<1>22. \A u, v \in Owing' : next[u] = next[v] => u = v
  <2>1. \A u, v \in Owing \ {t} : next[u] = next[v] => u = v
    BY <1>7, <1>17, <1>18
  <2> QED BY <1>6, <1>13, <1>17, <1>19, <2>1
<1>23. Covers(next, charges', Owing', Owes')
  BY <1>20, <1>21, <1>22 DEF Covers
<1> QED BY <1>14, <1>15, <1>16, <1>23

LEMMA CoverInvNext ==
    ASSUME TypeInv, TypeInv', CoverInv, LateFree, MaxClock <= Window, [Next]_vars,
           "settle_usage" \notin Unacked
    PROVE  CoverInv'
<1>1. Reasons'
  <2>1. Reasons
    BY DEF CoverInv
  <2>2. \A t \in Tasks : /\ local'[t].reason # "mark_failed"
                         /\ step'[t] \in FailedSteps <=> local'[t].reason # Null
    BY <2>1, ReachedNext
  <2> QED BY <2>2 DEF Reasons, ReasonInv
<1>2. CASE \E b \in bodies : ReserveUsage(b)
  BY <1>1, <1>2, ReserveKeepsCover DEF CoverInv
<1>3. CASE \E b \in bodies : SettleUsage(b)
  BY <1>1, <1>3, SettleKeepsCover DEF CoverInv
<1>4. CASE ~\E b \in bodies : ReserveUsage(b) \/ SettleUsage(b)
  <2>1. UNCHANGED <<charges, lastId>>
    BY <1>4, NothingWritten
  <2>2. Owing' = Owing /\ \A t \in Owing : Owes'[t] = Owes[t]
    BY <1>4, NothingOwed DEF CoverInv
  <2>3. PICK of : Covers(of, charges, Owing, Owes)
    BY DEF CoverInv
  <2>4. Covers(of, charges', Owing', Owes')
    BY <2>1, <2>2, <2>3 DEF Covers
  <2> QED BY <1>1, <2>1, <2>4 DEF CoverInv
<1> QED BY <1>2, <1>3, <1>4

OwingOf(a) == {t \in Owing : Owner[t] = a}

LEMMA BalanceCovers ==
    ASSUME TypeInv, CoverInv, NEW a
    PROVE  /\ IsFiniteSet(OwingOf(a)) /\ \A t \in OwingOf(a) : Owes[t] \in Nat
           /\ SumOf(Owes, OwingOf(a)) <= Balance(charges, a)
           /\ SumOf(Owes, OwingOf(a)) \in Nat /\ Balance(charges, a) \in Nat
<1> DEFINE T == OwingOf(a)
           S == {c \in charges : c.account = a}
<1>1. charges \subseteq Charges /\ IsFiniteSet(charges)
  BY DEF TypeInv, TypeOK, CoverInv
<1>2. PICK of : Covers(of, charges, Owing, Owes)
  BY DEF CoverInv
<1> DEFINE R == {of[t] : t \in T}
           back == [c \in R |-> CHOOSE t \in T : of[t] = c]
<1>3. IsFiniteSet(S) /\ R \subseteq S
  BY <1>1, <1>2, FS_Subset DEF Covers, OwingOf
<1>4. IsFiniteSet(R)
  BY <1>3, FS_Subset
<1>5. \A c \in S : Amount[c] \in Nat /\ Amount[c] = c.amount
  BY <1>1 DEF Amount, Charges
<1>6. \A t \in T : of[t] \in R /\ Owes[t] = Amount[of[t]]
  <2>1. \A t \in T : of[t] \in S /\ of[t].amount = Owes[t]
    BY <1>2, <1>3 DEF Covers, OwingOf
  <2> HIDE DEF S
  <2> QED BY <1>5, <2>1
<1>7. \A c \in R : back[c] \in T /\ of[back[c]] = c
  OBVIOUS
<1>8. \A t \in T : back[of[t]] = t
  <2>1. \A t, u \in T : of[t] = of[u] => t = u
    BY <1>2 DEF Covers, OwingOf
  <2> QED BY <1>6, <1>7, <2>1
<1>9. ImageOf(back, R) = T
  <2> HIDE DEF back, T, S
  <2> QED BY <1>7, <1>8 DEF ImageOf
<1>10. \A c \in R : Amount[c] \in Nat /\ Owes[back[c]] = Amount[c]
  <2> HIDE DEF back, T, S
  <2> QED BY <1>3, <1>5, <1>6, <1>7
<1>11. \A c, d \in R : back[c] = back[d] => c = d
  <2> HIDE DEF back, T, S
  <2> QED BY <1>7
<1>12. \A t \in T : Owes[t] \in Nat
  <2> HIDE DEF back, T, S
  <2> QED BY <1>3, <1>5, <1>6
<1>13. Balance(charges, a) = SumOf(Amount, S) /\ Balance(charges, a) \in Nat
  BY <1>1, BalanceIsSum, AmountsAddUp
<1> HIDE DEF back, T, S, R
<1>14. SumOf(Owes, T) = SumOf(Amount, R)
  BY <1>4, <1>9, <1>10, <1>11, SumInjective
<1>15. IsFiniteSet(T)
  <2>1. \A c \in R : Owes[back[c]] \in Nat /\ Owes[back[c]] <= Amount[c]
    BY <1>10
  <2> QED BY <1>4, <1>9, <1>10, <2>1, SumImage
<1>16. SumOf(Amount, R) <= SumOf(Amount, S)
  BY <1>3, <1>5, SumSubset
<1>17. SumOf(Owes, T) \in Nat
  BY <1>12, <1>15, SumType
<1> QED BY <1>12, <1>13, <1>14, <1>15, <1>16, <1>17 DEF T

(* Who may still go, or has gone, to the frontier tier on the headroom     *)
(* that its reservation was given.                                         *)
Granted(a) ==
    {t \in OwingOf(a) : t \in Escalate /\ ~local[t].degraded
                        /\ local[t].tier \in {Null, "frontier"}}

Asked == [t \in Tasks |-> Projected(t)]

Unrouted == {"mark_running", "check_rate_limit", "reserve_usage",
             "circuit_breaker_effective", "route_task"}

HeadInv ==
    /\ \A t \in Tasks : step[t] \in Unrouted => local[t].tier = Null
    /\ \A t \in Tasks : step[t] = "route_task" /\ local[t].degraded => local[t].effective
    /\ \A t \in Tasks : Reached(t) \in {"settle_usage"} \union SettledSteps
                          => local[t].tier \in Tiers
    /\ \A t \in Tasks : local[t].tier = "frontier" => t \in Granted(Owner[t])
    /\ \A a \in Accounts : Granted(a) # {} => SumOf(Asked, Granted(a)) < Threshold

(* On those tasks, what is owed is what was asked for.                     *)
LEMMA GrantedOwe ==
    ASSUME TypeInv, HeadInv, CoverInv, NEW a
    PROVE  /\ IsFiniteSet(Granted(a)) /\ Granted(a) \subseteq Tasks
           /\ \A t \in Granted(a) : Asked[t] \in Nat
           /\ SumOf(Asked, Granted(a)) \in Nat
           /\ SumOf(Asked, Granted(a)) <= Balance(charges, a)
<1> DEFINE G == Granted(a)
           T == OwingOf(a)
<1>1. G \subseteq T /\ T \subseteq Tasks
  BY DEF Granted, OwingOf, Owing
<1>2. /\ IsFiniteSet(T) /\ \A t \in T : Owes[t] \in Nat
      /\ SumOf(Owes, T) <= Balance(charges, a)
      /\ SumOf(Owes, T) \in Nat /\ Balance(charges, a) \in Nat
  BY BalanceCovers
<1>3. ASSUME NEW t \in G PROVE Asked[t] = Owes[t]
  <2>1. t \in Tasks /\ t \in Escalate /\ local[t].tier \in {Null, "frontier"}
    BY <1>1 DEF Granted
  <2>2. Asked[t] = CostModel["frontier"] /\ Asked[t] = Projected(t)
    BY <2>1 DEF Asked, Projected, ProjectedCost, UncappedTier
  <2>3. CASE Reached(t) \in SettledSteps
    <3>1. local[t].tier = "frontier"
      BY <2>1, <2>3 DEF HeadInv, Tiers, Null
    <3> QED BY <2>1, <2>2, <2>3, <3>1 DEF Owes, Actual
  <2>4. CASE Reached(t) \notin SettledSteps
    BY <2>1, <2>2, <2>4 DEF Owes
  <2> QED BY <2>3, <2>4
<1>4. IsFiniteSet(G)
  BY <1>1, <1>2, FS_Subset
<1> HIDE DEF G, T
<1>5. SumOf(Asked, G) = SumOf(Owes, G)
  BY <1>3, <1>4, SumSame
<1>6. SumOf(Owes, G) <= SumOf(Owes, T)
  BY <1>1, <1>2, SumSubset
<1>7. \A t \in G : Asked[t] \in Nat
  BY <1>1, <1>2, <1>3
<1>8. SumOf(Asked, G) \in Nat
  BY <1>4, <1>7, SumType
<1> QED BY <1>1, <1>2, <1>4, <1>5, <1>6, <1>7, <1>8 DEF G

LEMMA NewlyGranted ==
    ASSUME TypeInv, TypeInv', HeadInv, CoverInv, LateFree, MaxClock <= Window, [Next]_vars,
           NEW b \in bodies, ReserveUsage(b), ~UNCHANGED workflowVars,
           NEW a \in Accounts, Granted(a)' # {}
    PROVE  SumOf(Asked, Granted(a)') < Threshold
<1> DEFINE t == b.task
           G == Granted(a)
<1>1. /\ t \in Tasks /\ t \notin Owing /\ t \in Owing'
      /\ \A u \in Tasks \ {t} : u \in Owing' <=> u \in Owing
  BY LedgerBody DEF CoverInv
<1>2. \A u \in Tasks \ {t} : step'[u] = step[u] /\ local'[u] = local[u]
  <2>1. Body(b)
    BY DEF Body
  <2> QED BY <2>1, BodyOnly DEF Only
<1>3. Granted(a)' \subseteq G \union {t} /\ t \notin G
  BY <1>1, <1>2 DEF Granted, OwingOf, Owing
<1>4. /\ IsFiniteSet(G) /\ G \subseteq Tasks /\ \A u \in G : Asked[u] \in Nat
      /\ SumOf(Asked, G) \in Nat /\ SumOf(Asked, G) <= Balance(charges, a)
  BY GrantedOwe
<1>5. Threshold \in Nat
  BY TaskWorkflowAssumption
<1>6. Asked[t] \in Nat /\ Asked[t] = Projected(t)
  BY <1>1, ProjectedOK DEF Asked
<1>7. CASE t \notin Granted(a)'
  <2>1. Granted(a)' \in SUBSET G /\ G # {}
    BY <1>3, <1>7
  <2> HIDE DEF G
  <2>2. SumOf(Asked, Granted(a)') <= SumOf(Asked, G)
    BY <1>4, <2>1, SumSubset
  <2>3. IsFiniteSet(Granted(a)') /\ \A u \in Granted(a)' : Asked[u] \in Nat
    BY <1>4, <2>1, FS_Subset
  <2>4. SumOf(Asked, Granted(a)') \in Nat
    BY <2>3, SumType
  <2>5. SumOf(Asked, G) < Threshold
    BY <2>1 DEF G, HeadInv
  <2> QED BY <1>4, <1>5, <2>2, <2>4, <2>5
<1>8. CASE t \in Granted(a)'
  <2>1. Owner[t] = a /\ ~local'[t].degraded
    BY <1>8 DEF Granted, OwingOf
  <2>2. Prune(charges, Owner[t], b.at) = charges
    BY NothingExpires DEF ReserveUsage, Runs
  <2>3. step'[t] # step[t]
    <3>1. Reached(t)' # Reached(t)
      BY <1>1 DEF Owing
    <3> QED BY <1>1, <3>1, ReachedNext DEF CoverInv
  <2>4. local'[t].degraded = OverThreshold(charges, Owner[t], Projected(t))
    <3> DEFINE over == OverThreshold(charges, Owner[t], Projected(t))
    <3>1. Return(b, "circuit_breaker_effective", [local[t] EXCEPT !.degraded = over])
      BY <2>2 DEF ReserveUsage
    <3>2. local[t] \in Locals
      BY <1>1 DEF TypeInv, TypeOK
    <3> HIDE DEF over
    <3>3. [local[t] EXCEPT !.degraded = over].degraded = over
      BY <3>2 DEF Locals
    <3>4. local'[t] = [local[t] EXCEPT !.degraded = over]
      BY <1>1, <2>3, <3>1, ReturnMoves
    <3> QED BY <3>3, <3>4 DEF over
  <2>5. ~(Balance(charges, a) + Projected(t) >= Threshold) /\ Balance(charges, a) \in Nat
    BY <2>1, <2>4, BalanceCovers DEF OverThreshold
  <2> DEFINE U == G \union {t}
  <2> HIDE DEF G
  <2>6. IsFiniteSet(U) /\ \A u \in U : Asked[u] \in Nat
    BY <1>4, <1>6, FS_AddElement
  <2>7. SumOf(Asked, U) = Asked[t] + SumOf(Asked, G)
    BY <1>3, <1>4, <2>6, SumAdd
  <2>8. Granted(a)' \in SUBSET U
    BY <1>3
  <2> HIDE DEF U, t
  <2>9. SumOf(Asked, Granted(a)') <= SumOf(Asked, U)
    BY <2>6, <2>8, SumSubset
  <2>10. IsFiniteSet(Granted(a)') /\ \A u \in Granted(a)' : Asked[u] \in Nat
    BY <2>6, <2>8, FS_Subset
  <2>11. SumOf(Asked, Granted(a)') \in Nat
    BY <2>10, SumType
  <2> QED BY <1>4, <1>5, <1>6, <2>5, <2>7, <2>9, <2>11
<1> QED BY <1>7, <1>8

(* Without a new reservation nobody is granted anything.                   *)
LEMMA NobodyGranted ==
    ASSUME TypeInv, HeadInv, CoverInv, LateFree, [Next]_vars, "settle_usage" \notin Unacked,
           UNCHANGED workflowVars \/ ~\E b \in bodies : ReserveUsage(b), NEW a
    PROVE  Granted(a)' \subseteq Granted(a)
<1>1. CASE UNCHANGED workflowVars
  BY <1>1 DEF workflowVars, Granted, OwingOf, Owing, Reached
<1>2. CASE ~\E b \in bodies : ReserveUsage(b)
  <2> SUFFICES ASSUME NEW t \in Granted(a)' PROVE t \in Granted(a)
    OBVIOUS
  <2>1. /\ t \in Tasks /\ t \in Owing' /\ Owner[t] = a /\ t \in Escalate
        /\ ~local'[t].degraded /\ local'[t].tier \in {Null, "frontier"}
    BY DEF Granted, OwingOf, Owing
  <2>2. t \in Owing
    <3>1. ASSUME NEW b \in bodies, b.task = t, SettleUsage(b) PROVE t \in Owing
      BY <3>1, LedgerBody DEF CoverInv, SettleUsage, Runs
    <3> QED BY <1>2, <2>1, <3>1, OwingNext DEF CoverInv
  <2>3. Moves(t)
    BY <2>1, NextMoves
  <2>4. ~Reserved(t)
    <3>1. ASSUME Reserved(t) PROVE \E b \in bodies : ReserveUsage(b)
      <4>1. step'[t] \notin {step[t], "mark_failed", "failed"} /\ step[t] = "reserve_usage"
        BY <3>1 DEF Reserved
      <4>2. PICK b \in bodies : b.step = step[t] /\ Body(b) /\ ~RaiseError(b)
        BY <2>1, <4>1, MovedByBody
      <4> QED BY <4>1, <4>2, BodyOfStep
    <3> QED BY <1>2, <3>1
  <2>5. ~local[t].degraded
    BY <2>1, <2>3, <2>4 DEF Moves, StaysOrFails, Same, Consulted, Routed, MovesOn
  <2>6. local[t].tier \in {Null, "frontier"}
    <3>1. CASE Routed(t)
      BY <2>1, <3>1 DEF Routed, HeadInv, Unrouted
    <3>2. CASE ~Routed(t)
      BY <2>1, <2>3, <2>4, <3>2 DEF Moves, StaysOrFails, Same, Consulted, MovesOn
    <3> QED BY <3>1, <3>2
  <2> QED BY <2>1, <2>2, <2>5, <2>6 DEF Granted, OwingOf
<1> QED BY <1>1, <1>2

LEMMA HeadroomKept ==
    ASSUME TypeInv, TypeInv', HeadInv, CoverInv, LateFree, MaxClock <= Window, [Next]_vars,
           "settle_usage" \notin Unacked, NEW a \in Accounts, Granted(a)' # {}
    PROVE  SumOf(Asked, Granted(a)') < Threshold
<1> DEFINE G == Granted(a)
<1>1. CASE \E b \in bodies : ReserveUsage(b) /\ ~UNCHANGED workflowVars
  BY <1>1, NewlyGranted
<1>2. CASE ~\E b \in bodies : ReserveUsage(b) /\ ~UNCHANGED workflowVars
  <2>1. UNCHANGED workflowVars \/ ~\E b \in bodies : ReserveUsage(b)
    BY <1>2
  <2>2. Granted(a)' \in SUBSET G /\ G # {}
    BY <2>1, NobodyGranted
  <2>3. /\ IsFiniteSet(G) /\ \A u \in G : Asked[u] \in Nat
        /\ SumOf(Asked, G) \in Nat
    BY GrantedOwe
  <2>4. SumOf(Asked, G) < Threshold
    BY <2>2 DEF HeadInv
  <2> HIDE DEF G
  <2>5. SumOf(Asked, Granted(a)') <= SumOf(Asked, G)
    BY <2>2, <2>3, SumSubset
  <2>6. IsFiniteSet(Granted(a)') /\ \A u \in Granted(a)' : Asked[u] \in Nat
    BY <2>2, <2>3, FS_Subset
  <2>7. SumOf(Asked, Granted(a)') \in Nat
    BY <2>6, SumType
  <2> QED BY <2>3, <2>4, <2>5, <2>7, TaskWorkflowAssumption
<1> QED BY <1>1, <1>2

LEMMA HeadInvNext ==
    ASSUME TypeInv, TypeInv', HeadInv, CoverInv, CoverInv', LateFree, MaxClock <= Window,
           [Next]_vars, "settle_usage" \notin Unacked
    PROVE  HeadInv'
<1> SUFFICES ASSUME NEW t \in Tasks
             PROVE  /\ step'[t] \in Unrouted => local'[t].tier = Null
                    /\ step'[t] = "route_task" /\ local'[t].degraded => local'[t].effective
                    /\ Reached(t)' \in {"settle_usage"} \union SettledSteps
                         => local'[t].tier \in Tiers
                    /\ local'[t].tier = "frontier" => t \in Granted(Owner[t])'
  BY HeadroomKept DEF HeadInv, Asked, Projected
<1>1. /\ step[t] \in Unrouted => local[t].tier = Null
      /\ step[t] = "route_task" /\ local[t].degraded => local[t].effective
      /\ Reached(t) \in {"settle_usage"} \union SettledSteps => local[t].tier \in Tiers
      /\ local[t].tier = "frontier" => t \in Granted(Owner[t])
  BY DEF HeadInv
<1>2. Moves(t) /\ Reasons
  BY NextMoves DEF CoverInv
<1>3. \/ Reached(t)' = Reached(t)
      \/ /\ step'[t] \notin {step[t], "mark_failed", "failed"}
         /\ Reached(t) = step[t] /\ Reached(t)' = step'[t]
  BY <1>2, ReachedNext
<1>4. local[t].effective \in BOOLEAN
  BY DEF TypeInv, TypeOK, Locals
<1>5. Routed(t) => local'[t].tier \in Tiers
  BY <1>4, RouteTierOK DEF Routed
<1>6. step'[t] \in Unrouted => local'[t].tier = Null
  BY <1>1, <1>2 DEF Moves, StaysOrFails, Same, Reserved, Consulted, Routed, MovesOn,
     PlainMoves, Unrouted
<1>7. step'[t] = "route_task" /\ local'[t].degraded => local'[t].effective
  BY <1>1, <1>2 DEF Moves, StaysOrFails, Same, Reserved, Consulted, Routed, MovesOn,
     PlainMoves
<1>8. Reached(t)' \in {"settle_usage"} \union SettledSteps => local'[t].tier \in Tiers
  <2>1. CASE Routed(t)
    BY <1>5, <2>1
  <2>2. CASE ~Routed(t)
    <3>1. local'[t].tier = local[t].tier
      BY <1>2, <2>2 DEF Moves, StaysOrFails, Same, Reserved, Consulted, MovesOn
    <3>2. CASE Reached(t)' = Reached(t)
      BY <1>1, <3>1, <3>2
    <3>3. CASE /\ step'[t] \notin {step[t], "mark_failed", "failed"}
               /\ Reached(t) = step[t] /\ Reached(t)' = step'[t]
      BY <1>1, <1>2, <2>2, <3>1, <3>3
         DEF Moves, StaysOrFails, Reserved, Consulted, MovesOn, PlainMoves, SettledSteps
    <3> QED BY <1>3, <3>2, <3>3
  <2> QED BY <2>1, <2>2
<1>9. t \in Owing => t \in Owing'
  <2>1. ASSUME NEW b \in bodies, b.task = t, SettleUsage(b) PROVE t \in Owing'
    BY <1>2, <2>1, LedgerBody DEF SettleUsage, Runs
  <2>2. ASSUME NEW b \in bodies, b.task = t, ReserveUsage(b), ~UNCHANGED workflowVars
        PROVE  t \in Owing'
    BY <1>2, <2>2, LedgerBody
  <2>3. CASE UNCHANGED workflowVars
    BY <2>3 DEF workflowVars, Owing, Reached
  <2> QED BY <1>2, <2>1, <2>2, <2>3, OwingNext
<1>10. ASSUME local'[t].tier = "frontier" PROVE t \in Granted(Owner[t])'
  <2>1. CASE Routed(t)
    <3>1. t \in Escalate /\ ~local[t].effective
      BY <1>10, <2>1, OnlyEscalatedFrontier DEF Routed
    <3>2. ~local'[t].degraded
      BY <1>1, <2>1, <3>1 DEF Routed
    <3>3. t \in Owing
      <4>1. Reached(t) = "route_task"
        BY <1>2, <2>1 DEF Routed, Reached, Reasons, ReasonInv, FailedSteps
      <4> QED BY <4>1 DEF Owing, ChargedSteps
    <3> QED BY <1>9, <1>10, <3>1, <3>2, <3>3 DEF Granted, OwingOf
  <2>2. CASE ~Routed(t)
    <3>1. local[t].tier = "frontier"
      BY <1>2, <1>10, <2>2 DEF Moves, StaysOrFails, Same, Reserved, Consulted, MovesOn
    <3>2. t \in Owing /\ t \in Escalate /\ ~local[t].degraded
      BY <1>1, <3>1 DEF Granted, OwingOf
    <3>3. ~Reserved(t)
      BY <1>1, <3>1 DEF Reserved, Unrouted, Null
    <3>4. ~local'[t].degraded
      BY <1>2, <2>2, <3>2, <3>3 DEF Moves, StaysOrFails, Same, Consulted, MovesOn
    <3> QED BY <1>9, <1>10, <3>2, <3>4 DEF Granted, OwingOf
  <2> QED BY <2>1, <2>2
<1> QED BY <1>6, <1>7, <1>8, <1>10

(* While no settlement is repeated after its report got lost, no body      *)
(* outlives its timeout and no charge expires, concurrent tasks of one     *)
(* account cannot both pass the degradation threshold: what is routed to   *)
(* the frontier tier stays below it. Crashes, failing bodies, repeated     *)
(* reservations and lost reports of all other steps are allowed, and       *)
(* settle() may mix up the charges of any tasks.                           *)
THEOREM FrontierBelowThreshold ==
    ASSUME "settle_usage" \notin Unacked, MaxLate = 0, MaxClock <= Window
    PROVE  Spec => []FrontierSpendBelowThreshold
<1>1. Init => LateFree /\ CoverInv /\ HeadInv
  <2> SUFFICES ASSUME Init PROVE LateFree /\ CoverInv /\ HeadInv
    OBVIOUS
  <2>1. LateFree
    BY FS_EmptySet DEF Init, LateFree
  <2>2. Reasons
    BY DEF Init, Reasons, ReasonInv, FailedSteps, Null
  <2>3. charges = {} /\ IsFiniteSet(charges)
    BY FS_EmptySet DEF Init
  <2>4. \A t \in Tasks : Reached(t) = "mark_running" /\ local[t].tier = Null
    BY DEF Init, Reached
  <2>5. Owing = {}
    BY <2>4 DEF Owing, ChargedSteps, SettledSteps
  <2>6. Covers([t \in {} |-> t], charges, Owing, Owes)
    BY <2>3, <2>5 DEF Covers
  <2>7. CoverInv
    BY <2>2, <2>3, <2>6 DEF CoverInv
  <2>8. HeadInv
    BY <2>4, <2>5 DEF Init, HeadInv, Granted, OwingOf, SettledSteps, Null
  <2> QED BY <2>1, <2>7, <2>8
<1>2. TypeInv /\ LateFree /\ [Next]_vars => LateFree'
  BY LateFreeNext
<1>3. TypeInv /\ TypeInv' /\ LateFree /\ CoverInv /\ [Next]_vars => CoverInv'
  BY CoverInvNext
<1>4. /\ TypeInv /\ TypeInv' /\ LateFree /\ CoverInv /\ CoverInv' /\ HeadInv
      /\ [Next]_vars
      => HeadInv'
  BY HeadInvNext
<1>5. TypeInv /\ CoverInv /\ HeadInv => FrontierSpendBelowThreshold
  <2> SUFFICES ASSUME TypeInv, CoverInv, HeadInv, NEW a \in Accounts,
                      {t \in Tasks : Owner[t] = a /\ local[t].tier = "frontier"} # {}
               PROVE  MapThenSumSet(Actual,
                        {t \in Tasks : Owner[t] = a /\ local[t].tier = "frontier"})
                        < Threshold
    BY DEF FrontierSpendBelowThreshold
  <2> DEFINE F == {t \in Tasks : Owner[t] = a /\ local[t].tier = "frontier"}
             G == Granted(a)
  <2>1. F \in SUBSET G /\ F \subseteq Tasks /\ G # {}
    BY DEF HeadInv
  <2>2. /\ IsFiniteSet(G) /\ \A t \in G : Asked[t] \in Nat
        /\ SumOf(Asked, G) \in Nat
    BY GrantedOwe
  <2>3. SumOf(Asked, G) < Threshold
    BY <2>1 DEF HeadInv
  <2>4. \A t \in F : Cost[t] = Asked[t]
    <3> SUFFICES ASSUME NEW t \in F PROVE Cost[t] = Asked[t]
      OBVIOUS
    <3>1. t \in Tasks /\ t \in Escalate /\ local[t].tier = "frontier"
      BY <2>1 DEF Granted
    <3> QED BY <3>1 DEF Cost, Actual, Asked, Projected, ProjectedCost, UncappedTier
  <2> HIDE DEF F, G
  <2>5. IsFiniteSet(F) /\ \A t \in F : Asked[t] \in Nat
    BY <2>1, <2>2, FS_Subset
  <2>6. MapThenSumSet(Actual, F) = SumOf(Cost, F)
    BY <2>1, <2>5, ActualsAddUp
  <2>7. SumOf(Cost, F) = SumOf(Asked, F)
    BY <2>4, <2>5, SumSame
  <2>8. SumOf(Asked, F) <= SumOf(Asked, G) /\ SumOf(Asked, F) \in Nat
    BY <2>1, <2>2, <2>5, SumSubset, SumType
  <2>9. MapThenSumSet(Actual, F) < Threshold
    BY <2>2, <2>3, <2>6, <2>7, <2>8, TaskWorkflowAssumption
  <2> QED BY <2>9 DEF F
<1> QED
  BY <1>1, <1>2, <1>3, <1>4, <1>5, TypeInvInit, TypeInvNext, PTL DEF Spec

=============================================================================
