-------------------------- MODULE MCPlanExecution --------------------------
(***************************************************************************)
(* PlanExecution on small instances.                                       *)
(***************************************************************************)
EXTENDS PlanExecution
=============================================================================
