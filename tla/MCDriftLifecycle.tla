-------------------------- MODULE MCDriftLifecycle --------------------------
(* Small instances of DriftLifecycle: one divergence per leg; the scheduled    *)
(* drift workflow and the plan-only testbed.                                   *)
EXTENDS DriftLifecycleRefinement

CONSTANTS p, i, c, drift, testbed, none

MCLeg(f) == CASE f = p -> "plan" [] f = c -> "control" [] f = i -> "inventory"

MCThree == {p, i, c}
MCLegOfThree == [f \in MCThree |-> MCLeg(f)]

MCPlanInventory == {p, i}
MCLegOfPlanInventory == [f \in MCPlanInventory |-> MCLeg(f)]
=============================================================================
