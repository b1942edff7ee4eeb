---------------------------- MODULE MCAgentHost ----------------------------
(***************************************************************************)
(* AgentHost on small instances.                                           *)
(***************************************************************************)
EXTENDS AgentHost, TLC

\* With every input injectable the inputs are interchangeable, and so are the
\* delivery loops.
Symmetry == Permutations(Inputs) \cup Permutations(Deliverers)
=============================================================================
