----------------------------- MODULE PlanStore -----------------------------
(***************************************************************************)
(* The Plan and Goal contracts of one session as host-core keeps them      *)
(* (crates/host-core/src/plans): the rows of plan_approvals, the mode of   *)
(* the session and its running turn.  host-core serves one request at a    *)
(* time under its state lock, so every operation is one action on these    *)
(* variables; the module that composes it with the process in front says   *)
(* when it is called.                                                      *)
(*                                                                         *)
(* Proposals and turns are numbered in the order of their creation.  A     *)
(* pending row whose deadline has passed is "overdue" until some operation *)
(* looks, which is when expire_pending_approvals turns it into "expired".  *)
(* A row's version moves with every change of its status, so a stale       *)
(* version is always a status that is no longer pending.                   *)
(***************************************************************************)
EXTENDS Naturals, FiniteSets

CONSTANTS
  Kinds,         \* the contract modes, "plan" and "goal" in the source
  MaxProposals,  \* bound: proposals of the session
  MaxTurns,      \* bound: durable turns of the session
  None

ASSUME PlanStoreAssumption ==
  /\ "agent" \notin Kinds /\ None \notin Kinds
  /\ MaxProposals \in Nat /\ MaxTurns \in Nat /\ None \notin Nat

VARIABLES
  mode,      \* sessions.mode: "agent" or a kind
  proposal,  \* plan_approvals.status of every proposal, "none" before it exists
  kindOf,    \* plan_approvals.kind
  exec,      \* plan_approvals.execution_state, "none" for NULL
  dbTurn,    \* the running row of turns, None if there is none
  turns      \* how many turns were begun

storeVars == <<mode, proposal, kindOf, exec, dbTurn, turns>>

Proposals == 1 .. MaxProposals
Turns == 1 .. MaxTurns

ProposalStates == {"none", "pending", "overdue", "approved", "rejected", "expired", "interrupted"}
ExecStates == {"none", "queued", "running", "completed", "interrupted"}

StoreTypeOK ==
  /\ mode \in {"agent"} \cup Kinds
  /\ proposal \in [Proposals -> ProposalStates]
  /\ kindOf \in [Proposals -> Kinds \cup {None}]
  /\ exec \in [Proposals -> ExecStates]
  /\ dbTurn \in Turns \cup {None}
  /\ turns \in 0 .. MaxTurns

StoreInit ==
  /\ mode = "agent"
  /\ proposal = [p \in Proposals |-> "none"]
  /\ kindOf = [p \in Proposals |-> None]
  /\ exec = [p \in Proposals |-> "none"]
  /\ dbTurn = None
  /\ turns = 0

Active(p) == exec[p] \in {"queued", "running"}
ExecutionActive == \E p \in Proposals : Active(p)

\* expire_pending_approvals, the first thing most operations do: what was
\* overdue is expired whatever the operation answers.
Fresh == [p \in Proposals |-> IF proposal[p] = "overdue" THEN "expired" ELSE proposal[p]]
Pending == {p \in Proposals : Fresh[p] = "pending"}

Deadline(p) ==
  /\ proposal[p] = "pending"
  /\ proposal' = [proposal EXCEPT ![p] = "overdue"]
  /\ UNCHANGED <<mode, kindOf, exec, dbTurn, turns>>

\* begin_turn: one running turn per session, AGENT_BUSY otherwise.
CanBegin == dbTurn = None /\ turns < MaxTurns

\* Mutant of BeginTurn: the row carries the number of the turn before.
BeginTurnBefore ==
  /\ CanBegin
  /\ turns' = turns + 1
  /\ dbTurn' = turns
  /\ UNCHANGED <<mode, proposal, kindOf, exec>>

BeginTurn ==
  /\ CanBegin
  /\ turns' = turns + 1
  /\ dbTurn' = turns + 1
  /\ UNCHANGED <<mode, proposal, kindOf, exec>>

\* end_turn_settling changes a running row only.
EndTurn(t) ==
  /\ dbTurn' = IF dbTurn = t THEN None ELSE dbTurn
  /\ UNCHANGED <<mode, proposal, kindOf, exec, turns>>

\* The tools EnterPlanMode and EnterGoalMode of turn t; the call that reports
\* the new planning state looks at the deadlines.
Enter(t, k) ==
  /\ mode = "agent"
  /\ dbTurn = t
  /\ ~ExecutionActive
  /\ mode' = k
  /\ proposal' = Fresh
  /\ UNCHANGED <<kindOf, exec, dbTurn, turns>>

\* SubmitPlan and SubmitGoal: only in the mode of that kind, by the live turn,
\* one pending proposal at a time.  publish_artifact may fail before the row is
\* written (resp. the row's transaction may, then the artifact is removed).
\* Mutant of HasPending: the check is missing.
HasPendingNever == FALSE
HasPending == Pending # {}

Submit(t, k) ==
  LET p == Cardinality({q \in Proposals : proposal[q] # "none"}) + 1 IN
  /\ p \in Proposals
  /\ mode = k
  /\ dbTurn = t
  /\ ~HasPending
  /\ proposal' = [Fresh EXCEPT ![p] = "pending"]
  /\ kindOf' = [kindOf EXCEPT ![p] = k]
  /\ UNCHANGED <<mode, exec, dbTurn, turns>>

Reject(p) ==
  /\ p \in Pending
  /\ proposal' = [Fresh EXCEPT ![p] = "rejected"]
  /\ UNCHANGED <<mode, kindOf, exec, dbTurn, turns>>

\* plans.resolve with action "approve": the artifact still matches its digest,
\* no other execution is queued or running and the session is still in the mode
\* of the contract; the row gets its execution and the session leaves the mode.
Approvable(p) ==
  /\ p \in Pending
  /\ ~ExecutionActive
  /\ mode = kindOf[p]

Approve(p) ==
  /\ Approvable(p)
  /\ proposal' = [Fresh EXCEPT ![p] = "approved"]
  /\ exec' = [exec EXCEPT ![p] = "queued"]
  /\ mode' = "agent"
  /\ UNCHANGED <<kindOf, dbTurn, turns>>

\* plans.abort: executions that are queued or running are left alone.
AbortPending ==
  /\ proposal' = [p \in Proposals |-> IF p \in Pending THEN "interrupted" ELSE Fresh[p]]
  /\ UNCHANGED <<mode, kindOf, exec, dbTurn, turns>>

\* session.configure: every change is refused while a proposal is pending, an
\* execution is active or a turn is running.
ConfigureBlocked == Pending # {} \/ ExecutionActive \/ dbTurn # None

Configure(m) ==
  /\ m # mode
  /\ ~ConfigureBlocked
  /\ mode' = m
  /\ proposal' = Fresh
  /\ UNCHANGED <<kindOf, exec, dbTurn, turns>>

\* Mutant of Claim: whatever state the row is in.
ClaimAny(p) ==
  /\ exec' = [exec EXCEPT ![p] = "running"]
  /\ UNCHANGED <<mode, proposal, kindOf, dbTurn, turns>>

\* plans.claimExecution
Claim(p) ==
  /\ exec[p] = "queued"
  /\ exec' = [exec EXCEPT ![p] = "running"]
  /\ UNCHANGED <<mode, proposal, kindOf, dbTurn, turns>>

\* plans.finishExecution; repeating the outcome a row already has is accepted
\* and changes nothing, another outcome is a conflict.
Finishable(p) == Active(p)

Finish(p, outcome) ==
  /\ exec' = IF Finishable(p) THEN [exec EXCEPT ![p] = outcome] ELSE exec
  /\ UNCHANGED <<mode, proposal, kindOf, dbTurn, turns>>

FinishAccepted(p, outcome) == Finishable(p) \/ exec[p] = outcome

\* The sweep at the opening of the database: running turns are aborted, what was
\* pending, queued or running is interrupted.
Sweep ==
  /\ dbTurn' = None
  /\ proposal' = [p \in Proposals |->
                    IF proposal[p] \in {"pending", "overdue"} THEN "interrupted" ELSE proposal[p]]
  /\ exec' = [p \in Proposals |-> IF Active(p) THEN "interrupted" ELSE exec[p]]
  /\ UNCHANGED <<mode, kindOf, turns>>
=============================================================================
