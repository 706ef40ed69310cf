------------------------- MODULE MCPlanVerification -------------------------
(* PlanVerification for plans whose steps all have valid params: a step    *)
(* that is never sent fails like one whose adapter is missing.             *)
EXTENDS PlanVerification, TLC

MCInit == VInit /\ shape.malformed = {}
MCSpec == MCInit /\ [][VNext]_allVars /\ VFairness
=============================================================================
