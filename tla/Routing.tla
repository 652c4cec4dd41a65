------------------------------ MODULE Routing ------------------------------
(***************************************************************************)
(* The decision part of routing_matrix: tiers, their costs, the tier that  *)
(* route() chooses and the cost that costing.project_cost() reserves for   *)
(* it beforehand.  There is no state here; the state machines of the       *)
(* orchestrator are built from these operators.                            *)
(*                                                                         *)
(* Costs are natural numbers, in units of 0.0001.                          *)
(***************************************************************************)
EXTENDS Integers

CONSTANT CostModel        \* tier -> the cost of one routed task

Tiers == {"standard", "advanced", "frontier"}

(* model.py gives the three weights in increasing order, none of them zero *)
ASSUME CostModelAssumption ==
    /\ CostModel \in [Tiers -> Nat \ {0}]
    /\ CostModel["standard"] <= CostModel["advanced"]
    /\ CostModel["advanced"] <= CostModel["frontier"]

(* The heuristic classifier never answers "frontier".                      *)
ClassifierTiers == {"standard", "advanced"}

-----------------------------------------------------------------------------
(* Escalation takes precedence over the classifier.                        *)
UncappedTier(escalate, classified) ==
    IF escalate THEN "frontier" ELSE classified

(* The degraded cap is dropped: every task keeps the tier it asked for.    *)
DegradedCapIgnored(degraded, tier) == tier

(* The degraded cap: never frontier, whatever asked for it.                *)
DegradedCap(degraded, tier) ==
    IF degraded /\ tier = "frontier" THEN "advanced" ELSE tier

RouteTier(escalate, classified, degraded) ==
    DegradedCap(degraded, UncappedTier(escalate, classified))

(* The reservation is projected on the capped tier of a degraded account.  *)
ProjectedCostCapped(escalate, classified) ==
    CostModel[DegradedCap(TRUE, UncappedTier(escalate, classified))]

(* The reservation made before routing, on the uncapped tier.              *)
ProjectedCost(escalate, classified) ==
    CostModel[UncappedTier(escalate, classified)]

=============================================================================
