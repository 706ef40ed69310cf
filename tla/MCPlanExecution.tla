--------------------------- MODULE MCPlanExecution --------------------------
(* PlanExecution with the symmetry of its interchangeable handlers.        *)
EXTENDS PlanExecution, TLC

Symmetry == Permutations(Request)
=============================================================================
