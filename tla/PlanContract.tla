---------------------------- MODULE PlanContract ----------------------------
(***************************************************************************)
(* What approving a Plan or Goal means to the user of a session: proposals *)
(* are decided once, an approved one is run at most once, one run goes on  *)
(* at a time, and the record of an execution is written once and never     *)
(* better than the run was.                                                *)
(***************************************************************************)
EXTENDS FiniteSets

CONSTANT Proposals

VARIABLES
  decision,  \* "none", "open", "approved" or "refused"
  run,       \* "no", "started", then how it ended
  record     \* "open", then "completed" or "interrupted"

contractVars == <<decision, run, record>>

Ends == {"completed", "error", "aborted"}

Init ==
  /\ decision = [p \in Proposals |-> "none"]
  /\ run = [p \in Proposals |-> "no"]
  /\ record = [p \in Proposals |-> "open"]

Propose(p) ==
  /\ decision[p] = "none"
  /\ \A q \in Proposals : decision[q] # "open"
  /\ decision' = [decision EXCEPT ![p] = "open"]
  /\ UNCHANGED <<run, record>>

\* Approval waits until the record of every earlier contract is closed.
Approve(p) ==
  /\ decision[p] = "open"
  /\ \A q \in Proposals : decision[q] = "approved" => record[q] # "open"
  /\ decision' = [decision EXCEPT ![p] = "approved"]
  /\ UNCHANGED <<run, record>>

\* Rejected, expired, aborted, or interrupted with the records of a crash.
Close(refused, interrupted) ==
  /\ \A p \in refused : decision[p] = "open"
  /\ \A p \in interrupted : decision[p] = "approved" /\ record[p] = "open"
  /\ decision' = [p \in Proposals |-> IF p \in refused THEN "refused" ELSE decision[p]]
  /\ record' = [p \in Proposals |-> IF p \in interrupted THEN "interrupted" ELSE record[p]]
  /\ UNCHANGED run

Start(p) ==
  /\ decision[p] = "approved" /\ run[p] = "no"
  /\ \A q \in Proposals : run[q] # "started"
  /\ run' = [run EXCEPT ![p] = "started"]
  /\ UNCHANGED <<decision, record>>

Stop(p, end) ==
  /\ run[p] = "started"
  /\ run' = [run EXCEPT ![p] = end]
  /\ UNCHANGED <<decision, record>>

Complete(p) ==
  /\ record[p] = "open" /\ run[p] = "completed"
  /\ record' = [record EXCEPT ![p] = "completed"]
  /\ UNCHANGED <<decision, run>>

Next ==
  \/ \E p \in Proposals : Propose(p) \/ Approve(p) \/ Start(p) \/ Complete(p)
  \/ \E p \in Proposals, end \in Ends : Stop(p, end)
  \/ \E refused, interrupted \in SUBSET Proposals : Close(refused, interrupted)

Spec == Init /\ [][Next]_contractVars
=============================================================================
