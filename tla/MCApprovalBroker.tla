-------------------------- MODULE MCApprovalBroker --------------------------
(* Tool approvals of one session: requests, decisions and remote approvers   *)
(* are interchangeable.                                                      *)
EXTENDS ApprovalBroker, TLC

Symmetry ==
    Permutations(Requests) \cup Permutations(Decisions) \cup Permutations(Approvers)
=============================================================================
