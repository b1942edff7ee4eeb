------------------------ MODULE PlanExecutionProofs ------------------------
(***************************************************************************)
(* Proofs about PlanExecution for every value of its constants: any number *)
(* of contracts, prompts, aborts and crashes.                              *)
(*                                                                         *)
(* PlanInv is the inductive invariant.  Its parts speak of the rows of     *)
(* host-core (StoreInv), of who owns which turn (TurnInv), of the books of *)
(* the dispatcher (BookInv) and of the runs of the sidecar (RunInv), and   *)
(* each is preserved because of the others.  From it follow the types, one *)
(* contract at a time, and, step by step, the contract with the user of    *)
(* module PlanContract.  CloseInv and AliveInv, inductive relative to      *)
(* PlanInv, add that a running row is owned and an owned turn is alive.    *)
(*                                                                         *)
(* The first section says once which actions change which variable; after  *)
(* that a proof treats, per conjunct, only the actions that can disturb it.*)
(***************************************************************************)
EXTENDS PlanExecution, FiniteSetTheorems, TLAPS

-----------------------------------------------------------------------------
(* Which actions change which variable *)

\* What a step may do to the rows of host-core.
StoreStep ==
  \/ BeginTurn
  \/ ending # None /\ EndTurn(ending.turn)
  \/ side # None /\ \E k \in Kinds : Enter(side.turn, k) \/ Submit(side.turn, k)
  \/ \E p \in Proposals : Reject(p) \/ Approve(p) \/ Deadline(p)
  \/ proposal' = Fresh /\ UNCHANGED <<mode, kindOf, exec, dbTurn, turns>>
  \/ \E m \in {"agent"} \cup Kinds : Configure(m)
  \/ AbortPending
  \/ At("claim") /\ Claim(op.plan)
  \/ \E p \in Proposals : finishing[p] = "sent" /\ Finish(p, outcome[p])
  \/ Sweep

USE DEF Next, OperationSteps, DrainSteps, FinishSteps, EndingSteps, Environment, RunStops,
        Restarts, processVars, turnVars, callVars, bookVars, ghostVars, ClaimServed,
        ClaimAnswered, Launch, Begins, SidecarAccepts, SidecarRefuses, AcceptanceAnswered,
        FailsTurn, TurnFailed, FailsExecution, FailureSettled, AbortPlans, AbortRun,
        AbortDone, DrainRetries, DrainQueries, FinishServed, FinishAnswered, EndingServed,
        EndingReleases, Prompt, UsesPlanTool, ResolvesContract, OtherStoreStep, RunEnds,
        AbortCalled, AbortAdmitted, LookupAnswered, DispatchStarts, HostCrashes,
        HostRestarts, SidecarCrashes, CrashSettled, SidecarRestarts

\* The rows of host-core change by its operations only.
LEMMA StoreFrame ==
  ASSUME Next
  PROVE  UNCHANGED storeVars \/ StoreStep
BY Zenon DEF StoreStep

\* The children and the run of the sidecar.
LEMMA ProcessFrame ==
  ASSUME Next
  PROVE  /\ host' = host \/ HostCrashes \/ HostRestarts
         /\ sidecar' = sidecar \/ HostCrashes \/ SidecarCrashes \/ SidecarRestarts
         /\ \/ side' = side \/ Prompt \/ SidecarAccepts \/ AbortRun \/ SidecarCrashes \/ SidecarRestarts
            \/ \E r \in {"completed", "error"} : RunEnds(r)
<1>1. host' = host \/ HostCrashes \/ HostRestarts
  BY Zenon
<1>2. sidecar' = sidecar \/ HostCrashes \/ SidecarCrashes \/ SidecarRestarts
  BY Zenon
<1>3. \/ side' = side \/ Prompt \/ SidecarAccepts \/ AbortRun \/ SidecarCrashes \/ SidecarRestarts
      \/ \E r \in {"completed", "error"} : RunEnds(r)
  BY Zenon
<1> QED
  BY <1>1, <1>2, <1>3

\* Who owns the session, and how a turn is settled.
LEMMA TurnFrame ==
  ASSUME Next
  PROVE  /\ owner' = owner \/ EndingReleases \/ Prompt \/ Begins
         /\ \/ ending' = ending \/ EndingServed \/ EndingReleases \/ HostCrashes
            \/ FailsTurn \/ AbortRun \/ CrashSettled
            \/ \E r \in {"completed", "error"} : RunEnds(r)
         /\ aborting' = aborting \/ EndingReleases \/ AbortCalled \/ AbortAdmitted
         /\ crashed' = crashed \/ SidecarCrashes \/ CrashSettled
<1>1. owner' = owner \/ EndingReleases \/ Prompt \/ Begins
  BY Zenon
<1>2. \/ ending' = ending \/ EndingServed \/ EndingReleases \/ HostCrashes
      \/ FailsTurn \/ AbortRun \/ CrashSettled
      \/ \E r \in {"completed", "error"} : RunEnds(r)
  BY Zenon
<1>3. aborting' = aborting \/ EndingReleases \/ AbortCalled \/ AbortAdmitted
  BY Zenon
<1>4. crashed' = crashed \/ SidecarCrashes \/ CrashSettled
  BY Zenon
<1> QED
  BY <1>1, <1>2, <1>3, <1>4

\* The calls that wait, and the drain.
LEMMA CallFrame ==
  ASSUME Next
  PROVE  /\ \/ waiting' = waiting \/ DrainQueries
            \/ \E p \in Proposals : LookupAnswered(p) \/ DispatchStarts(p)
         /\ \/ lookups' = lookups \/ HostCrashes
            \/ \E p \in Proposals : LookupAnswered(p) \/ ResolvesContract(p)
         /\ drain' = drain \/ DrainRetries \/ DrainQueries \/ HostCrashes \/ HostRestarts \/ SidecarRestarts
<1>1. \/ waiting' = waiting \/ DrainQueries
      \/ \E p \in Proposals : LookupAnswered(p) \/ DispatchStarts(p)
  BY Zenon
<1>2. \/ lookups' = lookups \/ HostCrashes
      \/ \E p \in Proposals : LookupAnswered(p) \/ ResolvesContract(p)
  BY Zenon
<1>3. drain' = drain \/ DrainRetries \/ DrainQueries \/ HostCrashes \/ HostRestarts \/ SidecarRestarts
  BY Zenon
<1> QED
  BY <1>1, <1>2, <1>3

\* The books of the dispatcher.
LEMMA BookFrame ==
  ASSUME Next
  PROVE  /\ \/ UNCHANGED <<current, turnOf, started>> \/ Begins
            \/ \E p \in Proposals : FinishAnswered(p)
         /\ finished' = finished \/ \E p \in Proposals : FinishAnswered(p)
         /\ \/ outcome' = outcome \/ EndingReleases \/ FailsExecution
            \/ \E p \in Proposals : FinishAnswered(p)
         /\ \/ finishing' = finishing \/ EndingReleases \/ FailsExecution \/ DrainRetries \/ HostCrashes
            \/ \E p \in Proposals : FinishServed(p) \/ FinishAnswered(p)
<1>1. \/ UNCHANGED <<current, turnOf, started>> \/ Begins
      \/ \E p \in Proposals : FinishAnswered(p)
  BY Zenon
<1>2. finished' = finished \/ \E p \in Proposals : FinishAnswered(p)
  BY Zenon
<1>3. \/ outcome' = outcome \/ EndingReleases \/ FailsExecution
      \/ \E p \in Proposals : FinishAnswered(p)
  BY Zenon
<1>4. \/ finishing' = finishing \/ EndingReleases \/ FailsExecution \/ DrainRetries \/ HostCrashes
      \/ \E p \in Proposals : FinishServed(p) \/ FinishAnswered(p)
  BY Zenon
<1> QED
  BY <1>1, <1>2, <1>3, <1>4

\* The runs there were.
LEMMA RunFrame ==
  ASSUME Next
  PROVE  /\ runs' = runs \/ SidecarAccepts
         /\ ranAs' = ranAs \/ EndingReleases
         /\ spent' = spent \/ Prompt \/ AbortCalled \/ HostCrashes \/ SidecarCrashes
<1>1. runs' = runs \/ SidecarAccepts
  BY Zenon
<1>2. ranAs' = ranAs \/ EndingReleases
  BY Zenon
<1>3. spent' = spent \/ Prompt \/ AbortCalled \/ HostCrashes \/ SidecarCrashes
  BY Zenon
<1> QED
  BY <1>1, <1>2, <1>3

\* The executions.
LEMMA ExecutionFrame ==
  ASSUME Next
  PROVE  \/ exec' = exec \/ ClaimServed \/ HostRestarts
         \/ \E p \in Proposals : FinishServed(p) \/ ResolvesContract(p)
BY Zenon DEF storeVars, BeginTurn, EndTurn, Enter, Submit, Deadline, Configure, AbortPending

\* The operation of the session.
LEMMA OpChangers ==
  ASSUME Next
  PROVE  \/ op' = op
         \/ ClaimServed \/ ClaimAnswered \/ Launch
         \/ SidecarAccepts \/ SidecarRefuses \/ AcceptanceAnswered
         \/ FailsTurn \/ TurnFailed \/ FailsExecution \/ FailureSettled
         \/ AbortAdmitted \/ AbortPlans \/ AbortRun \/ AbortDone
         \/ Begins \/ HostCrashes \/ SidecarCrashes
         \/ \E p \in Proposals : DispatchStarts(p)
BY Zenon

HIDE DEF Next, OperationSteps, DrainSteps, FinishSteps, EndingSteps, Environment, RunStops,
         Restarts, processVars, turnVars, callVars, bookVars, ghostVars, ClaimServed,
         ClaimAnswered, Launch, Begins, SidecarAccepts, SidecarRefuses, AcceptanceAnswered,
         FailsTurn, TurnFailed, FailsExecution, FailureSettled, AbortPlans, AbortRun,
         AbortDone, DrainRetries, DrainQueries, FinishServed, FinishAnswered, EndingServed,
         EndingReleases, Prompt, UsesPlanTool, ResolvesContract, OtherStoreStep, RunEnds,
         AbortCalled, AbortAdmitted, LookupAnswered, DispatchStarts, HostCrashes,
         HostRestarts, SidecarCrashes, CrashSettled, SidecarRestarts

-----------------------------------------------------------------------------
(* The operation of the session *)

\* None is no turn and no proposal.
LEMMA NoneIsNoTurn == None \notin Turns /\ None \notin Proposals
  BY PlanStoreAssumption DEF Turns, Proposals

AtOneOf(stages) == op # None /\ op.at \in stages

\* The operation stays where it is; it goes from one stage to another.
OpStays == op' = op \/ (op # None /\ op' # None /\ op'.at = op.at /\ op'.plan = op.plan /\ op'.turn = op.turn)
Moves(from, to) ==
  op # None /\ op' # None /\ op.at \in from /\ op'.at = to /\ op'.plan = op.plan /\ op'.turn = op.turn

\* What a stage of the same operation looks like.
LEMMA NextStage ==
  ASSUME op \in Operations, NEW s,
         \/ op.at \in DispatchStages /\ s \in DispatchStages
         \/ op.at \in AbortStages /\ s \in AbortStages
  PROVE  LET next == [op EXCEPT !.at = s]
         IN  next \in Operations /\ next.at = s /\ next.plan = op.plan /\ next.turn = op.turn
<1>1. CASE op \in [at : DispatchStages, plan : Proposals, turn : Turns \cup {None}, link : BOOLEAN]
  BY <1>1 DEF Operations, DispatchStages, AbortStages
<1>2. CASE op \in [at : AbortStages, plan : {None}, turn : Turns, link : {TRUE}]
  BY <1>2 DEF Operations, DispatchStages, AbortStages
<1> QED
  BY <1>1, <1>2 DEF Operations

\* The call of GoTo moves the operation.
LEMMA GoToMoves ==
  ASSUME op \in {None} \cup Operations, op # None, NEW s, GoTo(s),
         \/ op.at \in DispatchStages /\ s \in DispatchStages
         \/ op.at \in AbortStages /\ s \in AbortStages
  PROVE  op' \in Operations /\ Moves({op.at}, s)
<1>1. op \in Operations
  OBVIOUS
<1>2. op' \in Operations /\ op'.at = s /\ op'.plan = op.plan /\ op'.turn = op.turn
  BY <1>1, NextStage DEF GoTo
<1> QED
  BY <1>2, NoneIsNoValue DEF Moves

\* The dispatch and the abort, step by step.
DispatchMoves ==
  \/ \E p \in Proposals : /\ DispatchStarts(p) /\ op = None
                          /\ op' # None /\ op'.at = "claim" /\ op'.plan = p /\ op'.turn = None
  \/ ClaimServed /\ Moves({"claim"}, "claimed")
  \/ ClaimAnswered /\ Moves({"claimed"}, "launch")
  \/ Launch /\ (Moves({"launch"}, "begin") \/ Moves({"launch"}, "failExecution"))
  \/ /\ Begins /\ HostUp /\ CanBegin /\ op # None /\ op.at = "begin"
     /\ op' # None /\ op'.at = "accept" /\ op'.plan = op.plan /\ op'.turn = turns'
  \/ Begins /\ ~(HostUp /\ CanBegin) /\ Moves({"begin"}, "failExecution")
  \/ SidecarAccepts /\ Moves({"accept"}, "accepted")
  \/ SidecarRefuses /\ Moves({"accept"}, "failTurn")
  \/ FailsTurn /\ Moves({"failTurn"}, "failing")
  \/ TurnFailed /\ Moves({"failing"}, "failExecution")
  \/ FailsExecution /\ Moves({"failExecution"}, "settle")
  \/ HostCrashes /\ Moves({"launch", "begin"}, "failExecution")
  \/ SidecarCrashes /\ Moves({"accept", "accepted"}, "failTurn")

AbortMoves ==
  \/ /\ AbortAdmitted /\ op = None /\ owner # None
     /\ op' # None /\ op'.at = "plans" /\ op'.plan = None /\ op'.turn = owner
  \/ AbortPlans /\ Moves({"plans"}, "run")
  \/ AbortRun /\ Moves({"run"}, "ended")

\* How the operation of the session ends.
OpEnds ==
  /\ op # None /\ op' = None
  /\ \/ HostCrashes /\ op.at \in {"claim", "claimed"}
     \/ ClaimServed /\ At("claim")
     \/ AcceptanceAnswered /\ At("accepted")
     \/ AbortDone /\ At("ended")
     \/ FailsExecution /\ At("failExecution") /\ (FinishIgnored(op.plan) \/ ~HostUp)
     \/ FailureSettled /\ At("settle")

\* A claim, its answer and the launch move the operation on, or end it.
LEMMA ClaimMoves ==
  ASSUME op \in {None} \cup Operations,
         ClaimServed \/ ClaimAnswered \/ Launch
  PROVE  op' \in {None} \cup Operations /\ (DispatchMoves \/ OpEnds)
<1>1. CASE ClaimServed
  BY <1>1, GoToMoves DEF ClaimServed, At, DispatchStages, DispatchMoves, OpEnds, Moves
<1>2. CASE ClaimAnswered
  BY <1>2, GoToMoves DEF ClaimAnswered, At, DispatchStages, DispatchMoves, Moves
<1>3. CASE Launch
  BY <1>3, GoToMoves DEF Launch, At, DispatchStages, DispatchMoves, Moves
<1> QED
  BY <1>1, <1>2, <1>3

\* So do the acceptance, its refusal and its answer.
LEMMA AcceptMoves ==
  ASSUME op \in {None} \cup Operations,
         SidecarAccepts \/ SidecarRefuses \/ AcceptanceAnswered
  PROVE  op' \in {None} \cup Operations /\ (DispatchMoves \/ OpEnds)
<1>1. CASE SidecarAccepts
  BY <1>1, GoToMoves DEF SidecarAccepts, At, DispatchStages, DispatchMoves, Moves
<1>2. CASE SidecarRefuses
  BY <1>2, GoToMoves DEF SidecarRefuses, At, DispatchStages, DispatchMoves, Moves
<1>3. CASE AcceptanceAnswered
  BY <1>3 DEF AcceptanceAnswered, At, OpEnds
<1> QED
  BY <1>1, <1>2, <1>3

\* So do the steps of the failure path.
LEMMA FailMoves ==
  ASSUME op \in {None} \cup Operations,
         FailsTurn \/ TurnFailed \/ FailsExecution \/ FailureSettled
  PROVE  op' \in {None} \cup Operations /\ (DispatchMoves \/ OpEnds)
<1>1. CASE FailsTurn
  BY <1>1, GoToMoves DEF FailsTurn, At, DispatchStages, DispatchMoves, Moves
<1>2. CASE TurnFailed
  BY <1>2, GoToMoves DEF TurnFailed, At, DispatchStages, DispatchMoves, Moves
<1>3. CASE FailsExecution
  BY <1>3, GoToMoves DEF FailsExecution, At, DispatchStages, DispatchMoves, Moves, OpEnds
<1>4. CASE FailureSettled
  BY <1>4 DEF FailureSettled, At, OpEnds
<1> QED
  BY <1>1, <1>2, <1>3, <1>4

\* An abort goes through its own stages.
LEMMA AbortStageMoves ==
  ASSUME op \in {None} \cup Operations, owner \in Turns \cup {None},
         aborting \in {None} \cup [turn : Turns, called : BOOLEAN],
         AbortAdmitted \/ AbortPlans \/ AbortRun \/ AbortDone
  PROVE  op' \in {None} \cup Operations /\ (AbortMoves \/ OpEnds \/ OpStays)
<1>1. CASE AbortAdmitted
  <2>1. CASE op' = op
    BY <2>1 DEF OpStays
  <2>2. CASE owner = aborting.turn /\ op' = [at |-> "plans", plan |-> None, turn |-> owner, link |-> TRUE]
    <3>1. op = None /\ aborting # None
      BY <1>1 DEF AbortAdmitted
    <3>2. owner \in Turns /\ owner # None
      BY <2>2, <3>1, NoneIsNoTurn
    <3>3. op' \in Operations
      BY <2>2, <3>2 DEF Operations, AbortStages
    <3>4. op' # None
      BY <3>3, NoneIsNoValue
    <3> QED
      BY <1>1, <2>2, <3>1, <3>2, <3>3, <3>4 DEF AbortMoves
  <2> QED
    BY <1>1, <2>1, <2>2 DEF AbortAdmitted
<1>2. CASE AbortPlans
  BY <1>2, GoToMoves DEF AbortPlans, At, AbortStages, AbortMoves, Moves
<1>3. CASE AbortRun
  BY <1>3, GoToMoves DEF AbortRun, At, AbortStages, AbortMoves, Moves
<1>4. CASE AbortDone
  BY <1>4 DEF AbortDone, At, OpEnds
<1> QED
  BY <1>1, <1>2, <1>3, <1>4

\* The operation that begins a turn knows it from then on.
LEMMA BeginMoves ==
  ASSUME op \in {None} \cup Operations, turns \in 0 .. MaxTurns, Begins
  PROVE  op' \in {None} \cup Operations /\ DispatchMoves
<1>1. op \in Operations /\ op # None /\ op.at = "begin"
  BY DEF Begins, At
<1>2. CASE HostUp /\ CanBegin
  <2>1. turns' \in Turns
    BY <1>2, PlanStoreAssumption DEF Begins, BeginTurn, CanBegin, Turns
  <2>2. op \in [at : DispatchStages, plan : Proposals, turn : Turns \cup {None}, link : BOOLEAN]
    BY <1>1 DEF Operations, AbortStages
  <2>3. op' = [op EXCEPT !.at = "accept", !.turn = turns']
    BY <1>2 DEF Begins
  <2>4. op' \in Operations /\ op'.at = "accept" /\ op'.plan = op.plan /\ op'.turn = turns'
    <3> HIDE DEF Turns
    <3> QED
      BY <2>1, <2>2, <2>3 DEF Operations, DispatchStages
  <2>5. op' # None
    BY <2>4, NoneIsNoValue
  <2> QED
    BY <1>1, <1>2, <2>4, <2>5 DEF DispatchMoves
<1>3. CASE ~(HostUp /\ CanBegin)
  <2>1. GoTo("failExecution")
    BY <1>3 DEF Begins
  <2>2. op' \in Operations /\ Moves({"begin"}, "failExecution")
    BY <1>1, <2>1, GoToMoves DEF DispatchStages
  <2> QED
    BY <1>3, <2>2 DEF DispatchMoves
<1> QED
  BY <1>2, <1>3

\* A dispatch starts with its claim.
LEMMA StartMoves ==
  ASSUME NEW p \in Proposals, DispatchStarts(p), op \in {None} \cup Operations
  PROVE  op' \in {None} \cup Operations /\ (DispatchMoves \/ OpStays)
<1>1. CASE op' = op
  BY <1>1 DEF OpStays
<1>2. CASE op' = [at |-> "claim", plan |-> p, turn |-> None, link |-> TRUE]
  <2>1. op' \in Operations
    BY <1>2 DEF Operations, DispatchStages
  <2>2. op' # None
    BY <2>1, NoneIsNoValue
  <2> QED
    BY <1>2, <2>1, <2>2 DEF DispatchMoves, DispatchStarts
<1> QED
  BY <1>1, <1>2 DEF DispatchStarts

\* A crash of host-core fails the calls of the operation, or leaves it alone.
LEMMA HostCrashMoves ==
  ASSUME op \in {None} \cup Operations, HostCrashes
  PROVE  op' \in {None} \cup Operations /\ (DispatchMoves \/ OpEnds \/ OpStays)
<1>1. CASE At("claim") \/ At("claimed")
  BY <1>1 DEF HostCrashes, AfterHostCrash, OpEnds, At
<1>2. CASE ~(At("claim") \/ At("claimed")) /\ (At("launch") \/ At("begin"))
  <2>1. GoTo("failExecution")
    BY <1>2 DEF HostCrashes, AfterHostCrash, GoTo
  <2> QED
    BY <1>2, <2>1, GoToMoves DEF At, DispatchStages, DispatchMoves, Moves
<1>3. CASE ~(At("claim") \/ At("claimed")) /\ ~(At("launch") \/ At("begin"))
  BY <1>3 DEF HostCrashes, AfterHostCrash, OpStays
<1> QED
  BY <1>1, <1>2, <1>3

\* A crash of the sidecar fails the acceptance, or leaves the stage alone.
LEMMA SidecarCrashMoves ==
  ASSUME op \in {None} \cup Operations, SidecarCrashes
  PROVE  op' \in {None} \cup Operations /\ (DispatchMoves \/ OpStays)
<1>1. CASE At("accept") \/ At("accepted")
  <2>1. op' = [op EXCEPT !.at = "failTurn", !.link = FALSE]
    BY <1>1 DEF SidecarCrashes, AfterSidecarCrash, At
  <2>2. op \in [at : DispatchStages, plan : Proposals, turn : Turns \cup {None}, link : BOOLEAN]
    BY <1>1 DEF Operations, AbortStages, At
  <2>3. op' \in Operations /\ op'.at = "failTurn" /\ op'.plan = op.plan /\ op'.turn = op.turn
    BY <2>1, <2>2 DEF Operations, DispatchStages
  <2>4. op' # None
    BY <2>3, NoneIsNoValue
  <2>5. Moves({"accept", "accepted"}, "failTurn")
    BY <1>1, <2>3, <2>4 DEF Moves, At
  <2> QED
    BY <2>3, <2>5 DEF DispatchMoves
<1>2. CASE ~(At("accept") \/ At("accepted")) /\ op # None /\ op.at \in DispatchStages
  <2>1. op' = [op EXCEPT !.link = FALSE]
    BY <1>2 DEF SidecarCrashes, AfterSidecarCrash, At
  <2>2. op \in [at : DispatchStages, plan : Proposals, turn : Turns \cup {None}, link : BOOLEAN]
    BY <1>2 DEF Operations, AbortStages, DispatchStages
  <2>3. op' \in Operations /\ op'.at = op.at /\ op'.plan = op.plan /\ op'.turn = op.turn
    BY <2>1, <2>2 DEF Operations
  <2>4. op' # None
    BY <2>3, NoneIsNoValue
  <2> QED
    BY <1>2, <2>3, <2>4 DEF OpStays
<1>3. CASE ~(At("accept") \/ At("accepted")) /\ ~(op # None /\ op.at \in DispatchStages)
  BY <1>3 DEF SidecarCrashes, AfterSidecarCrash, OpStays
<1> QED
  BY <1>1, <1>2, <1>3

\* A step leaves the operation alone, moves it on or ends it.
LEMMA OpFrame ==
  ASSUME TypeOK, Next
  PROVE  op' \in {None} \cup Operations /\ (OpStays \/ DispatchMoves \/ AbortMoves \/ OpEnds)
<1>1. \/ op' = op
      \/ ClaimServed \/ ClaimAnswered \/ Launch
      \/ SidecarAccepts \/ SidecarRefuses \/ AcceptanceAnswered
      \/ FailsTurn \/ TurnFailed \/ FailsExecution \/ FailureSettled
      \/ AbortAdmitted \/ AbortPlans \/ AbortRun \/ AbortDone
      \/ Begins \/ HostCrashes \/ SidecarCrashes
      \/ \E p \in Proposals : DispatchStarts(p)
  BY OpChangers
<1>2. /\ op \in {None} \cup Operations /\ owner \in Turns \cup {None} /\ turns \in 0 .. MaxTurns
      /\ aborting \in {None} \cup [turn : Turns, called : BOOLEAN]
  BY DEF TypeOK, StoreTypeOK
<1> QED
  BY <1>1, <1>2, ClaimMoves, AcceptMoves, FailMoves, AbortStageMoves, BeginMoves, StartMoves,
     HostCrashMoves, SidecarCrashMoves DEF OpStays


-----------------------------------------------------------------------------
(* The rows of host-core *)

Open(p) == proposal[p] \in {"pending", "overdue"}

\* Approving is what gives a row its execution; a proposal has the mode it was
\* submitted in; rows are numbered without gaps; one of them is open or active.
ApprovedIsExecuted == \A p \in Proposals : proposal[p] = "approved" <=> exec[p] # "none"
KindIsKnown == \A p \in Proposals : proposal[p] # "none" => kindOf[p] \in Kinds
NumberedInOrder == \A p, q \in Proposals : q < p /\ proposal[p] # "none" => proposal[q] # "none"
OneInTheWay == \A p, q \in Proposals : (Open(p) \/ Active(p)) /\ (Open(q) \/ Active(q)) => p = q
ActiveInAgentMode == \A p \in Proposals : Active(p) => mode = "agent"
OpenInItsMode == \A p \in Proposals : Open(p) => mode = kindOf[p]

StoreInv ==
  ApprovedIsExecuted /\ KindIsKnown /\ NumberedInOrder /\ OneInTheWay /\ ActiveInAgentMode /\ OpenInItsMode

\* A downward closed set of numbers is an interval that its size ends.
LEMMA ClosedIsInterval ==
  ASSUME NEW N \in Nat, NEW S \in SUBSET (1 .. N),
         \A a \in S, b \in 1 .. N : b < a => b \in S
  PROVE  Cardinality(S) \in Nat /\ S = 1 .. Cardinality(S)
<1> DEFINE n == Cardinality(S)
<1>1. IsFiniteSet(S) /\ n \in Nat
  <2>1. IsFiniteSet(1 .. N)
    BY FS_Interval
  <2> QED
    BY <2>1, FS_Subset, FS_CardinalityType
<1> HIDE DEF n
<1>2. 1 .. n \subseteq S
  <2>1. SUFFICES ASSUME NEW i \in 1 .. n, i \notin S
                 PROVE  FALSE
    OBVIOUS
  <2>2. S \subseteq 1 .. (i - 1)
    <3>1. SUFFICES ASSUME NEW s \in S
                   PROVE  s <= i - 1 /\ s \in 1 .. N
      BY <1>1, <2>1
    <3>2. s \in 1 .. N /\ i \in Nat /\ 1 <= i /\ s \in Nat
      BY <1>1
    <3>3. i < s => i \in 1 .. N
      BY <3>2
    <3>4. ~(i < s)
      BY <2>1, <3>3
    <3>5. i # s
      BY <2>1
    <3> QED
      BY <3>2, <3>4, <3>5
  <2>3. i - 1 \in Nat /\ i - 1 < n
    BY <1>1
  <2>4. IsFiniteSet(1 .. (i - 1)) /\ Cardinality(1 .. (i - 1)) = i - 1
    BY <2>3, FS_Interval
  <2>5. n <= i - 1
    BY <2>2, <2>4, FS_Subset DEF n
  <2> QED
    BY <1>1, <2>3, <2>5
<1>3. Cardinality(1 .. n) = n
  BY <1>1, FS_Interval
<1>4. S = 1 .. n
  BY <1>1, <1>2, <1>3, FS_Subset DEF n
<1> QED
  BY <1>1, <1>4 DEF n

\* A submitted proposal takes the next number.
LEMMA SubmittedIsNew ==
  ASSUME StoreTypeOK, NumberedInOrder,
         NEW p, p = Cardinality({q \in Proposals : proposal[q] # "none"}) + 1, p \in Proposals
  PROVE  /\ proposal[p] = "none"
         /\ \A q \in Proposals : q < p => proposal[q] # "none"
         /\ \A q \in Proposals : p < q => proposal[q] = "none"
<1> DEFINE S == {q \in Proposals : proposal[q] # "none"}
<1>1. S \in SUBSET (1 .. MaxProposals) /\ MaxProposals \in Nat
  BY PlanStoreAssumption DEF Proposals
<1>2. \A a \in S, b \in 1 .. MaxProposals : b < a => b \in S
  BY DEF NumberedInOrder, Proposals
<1> HIDE DEF S
<1>3. Cardinality(S) \in Nat /\ S = 1 .. Cardinality(S)
  BY <1>1, <1>2, ClosedIsInterval
<1>4. p = Cardinality(S) + 1
  BY DEF S
<1>5. \A q \in Proposals : q \in S <=> q < p
  BY <1>1, <1>3, <1>4 DEF Proposals
<1>6. p \in Nat /\ \A q \in Proposals : q \in Nat
  BY <1>3, <1>4 DEF Proposals
<1> QED
  BY <1>5, <1>6 DEF S

\* What has expired is not open.
LEMMA FreshRows ==
  ASSUME StoreTypeOK
  PROVE  /\ Fresh \in [Proposals -> ProposalStates]
         /\ \A p \in Proposals : /\ proposal[p] = "overdue" => Fresh[p] = "expired"
                                 /\ proposal[p] # "overdue" => Fresh[p] = proposal[p]
         /\ Pending = {p \in Proposals : proposal[p] = "pending"}
  BY DEF StoreTypeOK, Fresh, Pending, ProposalStates

\* A step that makes no proposal and no execution.
LEMMA ClosingKeeps ==
  ASSUME StoreTypeOK, StoreInv,
         proposal' \in [Proposals -> ProposalStates], exec' \in [Proposals -> ExecStates],
         UNCHANGED <<mode, kindOf>>,
         \A p \in Proposals : /\ proposal'[p] # proposal[p] => /\ Open(p)
                                                                /\ proposal'[p] \notin {"none", "approved", "pending"}
                              /\ exec'[p] # exec[p] => /\ Active(p)
                                                       /\ exec'[p] \notin {"none", "queued"}
  PROVE  StoreInv'
<1>1. \A p \in Proposals : /\ proposal[p] = "none" <=> proposal'[p] = "none"
                           /\ proposal[p] = "approved" <=> proposal'[p] = "approved"
                           /\ exec[p] = "none" <=> exec'[p] = "none"
                           /\ Open(p)' => Open(p)
                           /\ Active(p)' => Active(p)
  <2> TAKE p \in Proposals
  <2>1. proposal[p] = "none" <=> proposal'[p] = "none"
    BY DEF Open
  <2>2. proposal[p] = "approved" <=> proposal'[p] = "approved"
    BY DEF Open
  <2>3. exec[p] = "none" <=> exec'[p] = "none"
    BY DEF Active
  <2>4. Open(p)' => Open(p)
    BY DEF Open
  <2>5. Active(p)' => Active(p)
    BY DEF Active
  <2> QED
    BY <2>1, <2>2, <2>3, <2>4, <2>5
<1>2. ApprovedIsExecuted' /\ KindIsKnown' /\ NumberedInOrder'
  BY <1>1 DEF StoreInv, ApprovedIsExecuted, KindIsKnown, NumberedInOrder
<1>3. OneInTheWay' /\ ActiveInAgentMode' /\ OpenInItsMode'
  BY <1>1 DEF StoreInv, OneInTheWay, ActiveInAgentMode, OpenInItsMode
<1> QED
  BY <1>2, <1>3 DEF StoreInv

Claimed(p) == exec[p] \notin {"none", "queued"}

\* A step of the rows keeps their types and StoreInv, un-claims nothing and
\* counts turns upwards.
RowsKept ==
  /\ StoreTypeOK' /\ StoreInv'
  /\ \A p \in Proposals : Claimed(p) => Claimed(p)'
  /\ turns <= turns'

\* The beginning and the end of a turn.
LEMMA TurnRows ==
  ASSUME StoreTypeOK, StoreInv, BeginTurn \/ \E t : EndTurn(t)
  PROVE  RowsKept
<1>1. UNCHANGED <<mode, proposal, kindOf, exec>>
  BY DEF BeginTurn, EndTurn
<1>2. StoreInv' /\ \A p \in Proposals : Claimed(p) => Claimed(p)'
  BY <1>1 DEF StoreInv, ApprovedIsExecuted, KindIsKnown, NumberedInOrder, OneInTheWay,
              ActiveInAgentMode, OpenInItsMode, Open, Active, Claimed
<1>3. CASE BeginTurn
  <2>1. turns \in Nat /\ turns' = turns + 1 /\ turns' \in 1 .. MaxTurns /\ dbTurn' = turns'
    BY <1>3, PlanStoreAssumption DEF BeginTurn, CanBegin, StoreTypeOK
  <2> QED
    BY <1>1, <1>2, <2>1 DEF RowsKept, StoreTypeOK, Turns
<1>4. CASE \E t : EndTurn(t)
  <2>1. turns' = turns /\ dbTurn' \in {dbTurn, None} /\ turns \in Nat
    BY <1>4 DEF EndTurn, StoreTypeOK
  <2> QED
    BY <1>1, <1>2, <2>1 DEF RowsKept, StoreTypeOK
<1> QED
  BY <1>3, <1>4

\* Proposals are refused or expire.
LEMMA RefusedRows ==
  ASSUME StoreTypeOK, StoreInv,
         \/ \E p \in Proposals : Reject(p) \/ Deadline(p)
         \/ proposal' = Fresh /\ UNCHANGED <<mode, kindOf, exec, dbTurn, turns>>
         \/ AbortPending
  PROVE  RowsKept
<1>1. UNCHANGED <<mode, kindOf, exec, dbTurn, turns>>
  BY DEF Reject, Deadline, AbortPending
<1>2. /\ proposal' \in [Proposals -> ProposalStates]
      /\ \A p \in Proposals : proposal'[p] # proposal[p] =>
                                Open(p) /\ proposal'[p] \notin {"none", "approved", "pending"}
  <2>1. CASE \E p \in Proposals : Reject(p)
    <3>1. PICK p \in Proposals : Reject(p)
      BY <2>1
    <3>2. proposal' = [Fresh EXCEPT ![p] = "rejected"] /\ proposal[p] = "pending"
      BY <3>1, FreshRows DEF Reject
    <3> QED
      BY <3>2, FreshRows DEF Open, ProposalStates
  <2>2. CASE \E p \in Proposals : Deadline(p)
    BY <2>2 DEF Deadline, StoreTypeOK, Open, ProposalStates
  <2>3. CASE proposal' = Fresh
    BY <2>3, FreshRows DEF Open
  <2>4. CASE AbortPending
    <3>1. proposal' = [p \in Proposals |-> IF proposal[p] = "pending" THEN "interrupted" ELSE Fresh[p]]
      BY <2>4, FreshRows DEF AbortPending
    <3> QED
      BY <3>1, FreshRows DEF Open, ProposalStates
  <2> QED
    BY <2>1, <2>2, <2>3, <2>4
<1>3. StoreInv'
  BY <1>1, <1>2, ClosingKeeps DEF StoreTypeOK
<1>4. StoreTypeOK'
  BY <1>1, <1>2 DEF StoreTypeOK
<1>5. turns \in Nat
  BY DEF StoreTypeOK
<1> QED
  BY <1>1, <1>3, <1>4, <1>5 DEF RowsKept, Claimed

\* The session changes its mode.
LEMMA ModeRows ==
  ASSUME StoreTypeOK, StoreInv,
         \/ \E t, k : k \in Kinds /\ Enter(t, k)
         \/ \E m \in {"agent"} \cup Kinds : Configure(m)
  PROVE  RowsKept
<1>1. /\ UNCHANGED <<kindOf, exec, turns>> /\ proposal' = Fresh /\ ~ExecutionActive
      /\ mode' \in {"agent"} \cup Kinds /\ dbTurn' = dbTurn
  BY DEF Enter, Configure, ConfigureBlocked
<1>2. \A p \in Proposals : ~Active(p)
  BY <1>1 DEF ExecutionActive
<1>3. \A p \in Proposals : proposal[p] # "pending"
  <2>1. CASE mode = "agent"
    BY <2>1, PlanStoreAssumption DEF StoreInv, OpenInItsMode, KindIsKnown, Open
  <2>2. CASE Pending = {}
    BY <2>2, FreshRows
  <2> QED
    BY <2>1, <2>2 DEF Enter, Configure, ConfigureBlocked
<1>4. proposal' \in [Proposals -> ProposalStates]
  BY <1>1, FreshRows
<1>5. \A p \in Proposals : /\ proposal'[p] \notin {"pending", "overdue"}
                           /\ proposal[p] = "none" <=> proposal'[p] = "none"
                           /\ proposal[p] = "approved" <=> proposal'[p] = "approved"
  BY <1>1, <1>3, FreshRows
<1>6. StoreTypeOK'
  BY <1>1, <1>4 DEF StoreTypeOK
<1>7. \A p \in Proposals : ~Open(p)' /\ ~Active(p)'
  BY <1>1, <1>2, <1>5 DEF Open, Active
<1>8. StoreInv'
  BY <1>1, <1>5, <1>7 DEF StoreInv, ApprovedIsExecuted, KindIsKnown, NumberedInOrder, OneInTheWay,
                          ActiveInAgentMode, OpenInItsMode
<1>9. turns \in Nat
  BY DEF StoreTypeOK
<1> QED
  BY <1>1, <1>6, <1>8, <1>9 DEF RowsKept, Claimed

\* A contract is submitted.
LEMMA SubmittedRows ==
  ASSUME StoreTypeOK, StoreInv, NEW t, NEW k \in Kinds, Submit(t, k)
  PROVE  RowsKept
<1> DEFINE n == Cardinality({q \in Proposals : proposal[q] # "none"}) + 1
<1>1. PICK p \in Proposals : p = n
  BY DEF Submit
<1>2. /\ proposal' = [Fresh EXCEPT ![p] = "pending"] /\ kindOf' = [kindOf EXCEPT ![p] = k]
      /\ mode = k /\ ~HasPending /\ UNCHANGED <<mode, exec, dbTurn, turns>>
  BY <1>1 DEF Submit
<1>3. /\ proposal[p] = "none"
      /\ \A q \in Proposals : q < p => proposal[q] # "none"
      /\ \A q \in Proposals : p < q => proposal[q] = "none"
  BY <1>1, SubmittedIsNew DEF StoreInv
<1> HIDE DEF n
<1>4. k # "agent"
  BY PlanStoreAssumption
<1>5. \A q \in Proposals : ~Active(q) /\ proposal[q] # "pending"
  BY <1>2, <1>4, FreshRows DEF StoreInv, ActiveInAgentMode, HasPending
<1>6. /\ proposal' \in [Proposals -> ProposalStates] /\ kindOf' \in [Proposals -> Kinds \cup {None}]
      /\ proposal'[p] = "pending" /\ kindOf'[p] = k
      /\ \A q \in Proposals : q # p => kindOf'[q] = kindOf[q] /\ proposal'[q] = Fresh[q]
  BY <1>2, FreshRows DEF ProposalStates, StoreTypeOK
<1>7. \A q \in Proposals \ {p} : /\ proposal'[q] \notin {"pending", "overdue"}
                                 /\ proposal[q] = "none" <=> proposal'[q] = "none"
                                 /\ proposal[q] = "approved" <=> proposal'[q] = "approved"
  BY <1>5, <1>6, FreshRows
<1>8. ApprovedIsExecuted'
  BY <1>2, <1>3, <1>6, <1>7 DEF StoreInv, ApprovedIsExecuted
<1>9. KindIsKnown'
  BY <1>6, <1>7 DEF StoreInv, KindIsKnown
<1>10. NumberedInOrder'
  <2>1. SUFFICES ASSUME NEW a \in Proposals, NEW b \in Proposals, b < a, proposal'[a] # "none"
                 PROVE  proposal'[b] # "none"
    BY DEF NumberedInOrder
  <2>2. CASE a = p
    <3>1. proposal[b] # "none" /\ b # p
      BY <1>3, <2>1, <2>2 DEF Proposals
    <3> QED
      BY <1>7, <3>1
  <2>3. CASE a # p /\ b # p
    BY <1>7, <2>1, <2>3 DEF StoreInv, NumberedInOrder
  <2>4. CASE b = p
    BY <1>6, <2>4
  <2> QED
    BY <2>2, <2>3, <2>4
<1>11. \A q \in Proposals : (Open(q)' \/ Active(q)') => q = p
  BY <1>2, <1>5, <1>7 DEF Open, Active
<1>12. OneInTheWay'
  BY <1>11 DEF OneInTheWay
<1>13. ActiveInAgentMode' /\ OpenInItsMode'
  BY <1>2, <1>5, <1>6, <1>11 DEF ActiveInAgentMode, OpenInItsMode, Active
<1>14. StoreTypeOK'
  BY <1>2, <1>6 DEF StoreTypeOK
<1>15. turns \in Nat
  BY DEF StoreTypeOK
<1> QED
  BY <1>2, <1>8, <1>9, <1>10, <1>12, <1>13, <1>14, <1>15 DEF RowsKept, StoreInv, Claimed

\* A contract is approved.
LEMMA ApprovedRows ==
  ASSUME StoreTypeOK, StoreInv, NEW p \in Proposals, Approve(p)
  PROVE  RowsKept
<1>1. /\ proposal[p] = "pending" /\ ~ExecutionActive /\ mode' = "agent"
      /\ proposal' = [Fresh EXCEPT ![p] = "approved"] /\ exec' = [exec EXCEPT ![p] = "queued"]
      /\ UNCHANGED <<kindOf, dbTurn, turns>>
  BY FreshRows DEF Approve, Approvable
<1>2. \A q \in Proposals \ {p} : proposal[q] \notin {"pending", "overdue"} /\ ~Active(q)
  BY <1>1 DEF StoreInv, OneInTheWay, Open
<1>3. /\ proposal' \in [Proposals -> ProposalStates] /\ exec' \in [Proposals -> ExecStates]
      /\ proposal'[p] = "approved" /\ exec'[p] = "queued"
      /\ \A q \in Proposals \ {p} : exec'[q] = exec[q] /\ proposal'[q] = proposal[q]
  BY <1>1, <1>2, FreshRows DEF ProposalStates, ExecStates, StoreTypeOK
<1>4. exec[p] = "none"
  BY <1>1 DEF StoreInv, ApprovedIsExecuted
<1>5. ApprovedIsExecuted' /\ KindIsKnown' /\ NumberedInOrder'
  <2>1. ApprovedIsExecuted'
    BY <1>3 DEF StoreInv, ApprovedIsExecuted
  <2>2. \A q \in Proposals : proposal'[q] = "none" <=> proposal[q] = "none"
    BY <1>1, <1>3
  <2> QED
    BY <1>1, <2>1, <2>2 DEF StoreInv, KindIsKnown, NumberedInOrder
<1>6. \A q \in Proposals : ~Open(q)' /\ (Active(q)' => q = p)
  BY <1>2, <1>3 DEF Open, Active
<1>7. OneInTheWay' /\ ActiveInAgentMode' /\ OpenInItsMode'
  BY <1>1, <1>6 DEF OneInTheWay, ActiveInAgentMode, OpenInItsMode
<1>8. StoreTypeOK'
  BY <1>1, <1>3 DEF StoreTypeOK
<1>9. turns \in Nat
  BY DEF StoreTypeOK
<1>10. \A q \in Proposals : Claimed(q) => Claimed(q)'
  BY <1>3, <1>4 DEF Claimed
<1> QED
  BY <1>1, <1>5, <1>7, <1>8, <1>9, <1>10 DEF RowsKept, StoreInv

\* An execution is claimed, finished, or swept with what was pending.
LEMMA ExecutedRows ==
  ASSUME StoreTypeOK, StoreInv,
         \/ \E p \in Proposals : Claim(p)
         \/ \E p \in Proposals, result \in {"completed", "interrupted"} : Finish(p, result)
         \/ Sweep
  PROVE  RowsKept
<1>1. UNCHANGED <<mode, kindOf, turns>> /\ dbTurn' \in {dbTurn, None} /\ turns \in Nat
  BY DEF Claim, Finish, Sweep, StoreTypeOK
<1>2. /\ proposal' \in [Proposals -> ProposalStates] /\ exec' \in [Proposals -> ExecStates]
      /\ \A p \in Proposals : /\ proposal'[p] # proposal[p] => /\ Open(p)
                                                               /\ proposal'[p] \notin {"none", "approved", "pending"}
                              /\ exec'[p] # exec[p] => /\ Active(p)
                                                       /\ exec'[p] \notin {"none", "queued"}
  <2>1. CASE \E p \in Proposals : Claim(p)
    BY <2>1 DEF Claim, StoreTypeOK, Active, ExecStates
  <2>2. CASE \E p \in Proposals, result \in {"completed", "interrupted"} : Finish(p, result)
    BY <2>2 DEF Finish, Finishable, StoreTypeOK, Active, ExecStates
  <2>3. CASE Sweep
    BY <2>3 DEF Sweep, StoreTypeOK, Active, Open, ExecStates, ProposalStates
  <2> QED
    BY <2>1, <2>2, <2>3
<1>3. StoreInv'
  BY <1>1, <1>2, ClosingKeeps
<1>4. StoreTypeOK'
  BY <1>1, <1>2 DEF StoreTypeOK
<1>5. \A p \in Proposals : Claimed(p) => Claimed(p)'
  BY <1>2 DEF Claimed
<1> QED
  BY <1>1, <1>3, <1>4, <1>5 DEF RowsKept

\* Every step of the model keeps the rows.
LEMMA RowsNext ==
  ASSUME TypeOK, StoreInv, \A p \in Proposals : finishing[p] # "no" => outcome[p] # None, Next
  PROVE  RowsKept
<1>1. StoreTypeOK
  BY DEF TypeOK
<1>2. CASE UNCHANGED storeVars
  <2>1. turns \in Nat
    BY <1>1 DEF StoreTypeOK
  <2> QED
    BY <1>1, <1>2, <2>1
    DEF storeVars, RowsKept, StoreTypeOK, StoreInv, ApprovedIsExecuted, KindIsKnown, NumberedInOrder,
        OneInTheWay, ActiveInAgentMode, OpenInItsMode, Open, Active, Claimed
<1>3. CASE StoreStep
  <2>1. CASE BeginTurn \/ (ending # None /\ EndTurn(ending.turn))
    BY <1>1, <2>1, TurnRows
  <2>2. CASE side # None /\ \E k \in Kinds : Enter(side.turn, k) \/ Submit(side.turn, k)
    BY <1>1, <2>2, ModeRows, SubmittedRows
  <2>3. CASE \E p \in Proposals : Reject(p) \/ Approve(p) \/ Deadline(p)
    BY <1>1, <2>3, RefusedRows, ApprovedRows
  <2>4. CASE AbortPending \/ (proposal' = Fresh /\ UNCHANGED <<mode, kindOf, exec, dbTurn, turns>>)
    BY <1>1, <2>4, RefusedRows
  <2>5. CASE \E m \in {"agent"} \cup Kinds : Configure(m)
    BY <1>1, <2>5, ModeRows
  <2>6. CASE At("claim") /\ Claim(op.plan)
    <3>1. op.plan \in Proposals
      BY <2>6 DEF TypeOK, Operations, AbortStages, At
    <3> QED
      BY <1>1, <2>6, <3>1, ExecutedRows
  <2>7. CASE \E p \in Proposals : finishing[p] = "sent" /\ Finish(p, outcome[p])
    <3>1. PICK p \in Proposals : finishing[p] = "sent" /\ Finish(p, outcome[p])
      BY <2>7
    <3>2. outcome[p] \in {"completed", "interrupted"}
      BY <3>1 DEF TypeOK
    <3> QED
      BY <1>1, <3>1, <3>2, ExecutedRows
  <2>8. CASE Sweep
    BY <1>1, <2>8, ExecutedRows
  <2> QED
    BY <1>3, <2>1, <2>2, <2>3, <2>4, <2>5, <2>6, <2>7, <2>8 DEF StoreStep
<1> QED
  BY <1>2, <1>3, StoreFrame


-----------------------------------------------------------------------------
(* The inductive invariant *)

Begun == 1 .. turns
BeforeTurn == {"claim", "claimed", "launch", "begin"}
InTurn == {"accept", "accepted", "failTurn", "failing"}

\* Turns are begun before anything names them; the turn that is being ended is
\* the owner's; an operation knows whether it has a turn.
OwnerIsBegun == owner # None => owner \in Begun
RunIsBegun == side # None => side.turn \in Begun
CrashedIsBegun == crashed # None => crashed \in Begun
ExecutionTurnsAreBegun == \A p \in Proposals : turnOf[p] # None => turnOf[p] \in Begun
EndingIsOwners == ending # None => ending.turn = owner
FreeBeforeTurn == AtOneOf(BeforeTurn) => owner = None /\ op.turn = None
TurnOfStage == AtOneOf(InTurn) => op.turn \in Begun

TurnInv ==
  /\ OwnerIsBegun /\ RunIsBegun /\ CrashedIsBegun /\ ExecutionTurnsAreBegun
  /\ EndingIsOwners /\ FreeBeforeTurn /\ TurnOfStage

\* Until the sidecar has accepted the execution, its turn is fresh: nobody ends
\* it, nobody runs it, and the books of the dispatcher show it.
AcceptsFresh ==
  At("accept") =>
    /\ op.turn = owner /\ ending = None /\ crashed # owner /\ ~Running(owner)
    /\ current = op.plan /\ turnOf[op.plan] = op.turn

\* The books: what they name was claimed, two executions share no turn, and an
\* outcome is kept until host-core has taken it.
CurrentWasClaimed == current # None => Claimed(current) /\ current \in started \cup finished
OneTurnEach == \A p, q \in Proposals : turnOf[p] = turnOf[q] /\ turnOf[p] # None => p = q
OutcomeWasClaimed == \A p \in Proposals : outcome[p] # None => Claimed(p)
FinishHasOutcome == \A p \in Proposals : finishing[p] # "no" => outcome[p] # None
StageWasClaimed == AtOneOf(DispatchStages \ {"claim"}) => Claimed(op.plan)
NoOutcomeYet == AtOneOf({"claimed", "launch", "begin", "accept"}) => outcome[op.plan] = None
TurnOfPlan == AtOneOf(InTurn) => turnOf[op.plan] \in {op.turn, None}

BookInv ==
  /\ AcceptsFresh
  /\ CurrentWasClaimed /\ OneTurnEach /\ OutcomeWasClaimed /\ FinishHasOutcome
  /\ StageWasClaimed /\ NoOutcomeYet /\ TurnOfPlan

\* The runs: what ran was started by the dispatcher, the run that goes on is that
\* of the turn which owns the session, and an outcome is as good as its run.
Going(p) == runs[p] > 0 /\ ranAs[p] = "no"

RunsAtMostOnce == \A p \in Proposals : runs[p] <= 1
RunWasStarted == \A p \in Proposals : runs[p] > 0 \/ ranAs[p] # "no" => p \in started \cup finished
AcceptsStarted == At("accept") => op.plan \in started \cup finished
NotRunYet == AtOneOf(BeforeTurn \cup {"accept"}) => runs[op.plan] = 0 /\ ranAs[op.plan] = "no"
FailedRestsIfAtAll == AtOneOf({"failExecution", "settle"}) => ~Going(op.plan)
GoingOwns == \A p \in Proposals : Going(p) => current = p /\ turnOf[p] = owner /\ owner # None
GoingHasNoOutcome == \A p \in Proposals : Going(p) => outcome[p] = None
EndedIsNotOwner ==
  \A p \in Proposals : ranAs[p] # "no" /\ turnOf[p] # None => turnOf[p] # owner
RunOfTurnIsRun == \A p \in Proposals : side # None /\ turnOf[p] = side.turn => runs[p] > 0
CompletedTurnWasRun ==
  \A p \in Proposals :
    ending # None /\ ending.reason = "completed" /\ turnOf[p] = ending.turn => runs[p] > 0
CompletedIsTrue ==
  \A p \in Proposals : outcome[p] = "completed" => runs[p] > 0 /\ ranAs[p] = "completed"

RunInv ==
  /\ RunsAtMostOnce /\ RunWasStarted /\ AcceptsStarted /\ NotRunYet /\ FailedRestsIfAtAll
  /\ GoingOwns /\ GoingHasNoOutcome /\ EndedIsNotOwner
  /\ RunOfTurnIsRun /\ CompletedTurnWasRun /\ CompletedIsTrue

PlanInv == TypeOK /\ StoreInv /\ TurnInv /\ BookInv /\ RunInv

-----------------------------------------------------------------------------
(* Types *)

\* The plan and the turn of an operation.
LEMMA OpTyped ==
  ASSUME TypeOK, op # None
  PROVE  /\ op.at \in DispatchStages \/ op.at \in AbortStages
         /\ op.at \in DispatchStages => op.plan \in Proposals /\ op.turn \in Turns \cup {None}
         /\ op.at \in AbortStages => op.plan = None /\ op.turn \in Turns
<1>1. op \in Operations
  BY DEF TypeOK
<1>2. CASE op \in [at : DispatchStages, plan : Proposals, turn : Turns \cup {None}, link : BOOLEAN]
  BY <1>2 DEF DispatchStages, AbortStages
<1>3. CASE op \in [at : AbortStages, plan : {None}, turn : Turns, link : {TRUE}]
  BY <1>3 DEF DispatchStages, AbortStages
<1> QED
  BY <1>1, <1>2, <1>3 DEF Operations

\* A turn that begins has a number of its own.
LEMMA BegunTurn ==
  ASSUME TypeOK, BeginTurn
  PROVE  /\ turns' \in Turns /\ turns' \notin Begun /\ turns' \in Begun' /\ turns' # None
         /\ Begun \subseteq Begun'
<1>1. turns \in Nat /\ turns' = turns + 1 /\ turns' <= MaxTurns /\ MaxTurns \in Nat
  BY PlanStoreAssumption DEF BeginTurn, CanBegin, TypeOK, StoreTypeOK
<1> QED
  BY <1>1, NoneIsNoTurn DEF Turns, Begun

\* The record that finishTurn freezes.
LEMMA FrozenEnding ==
  ASSUME TypeOK, NEW t \in Turns, NEW reason \in Reasons, FinishTurn(t, reason)
  PROVE  /\ ending' \in {None} \cup EndingRecords
         /\ \/ ending' = ending /\ (ending # None \/ owner # t)
            \/ /\ ending = None /\ owner = t /\ ending' # None
               /\ ending'.turn = t /\ ending'.reason \in {reason, "aborted"}
<1>1. CASE ending = None /\ owner = t
  <2> DEFINE r == IF aborting # None /\ aborting.turn = t THEN "aborted" ELSE reason
  <2>1. r \in Reasons /\ r \in {reason, "aborted"}
    BY DEF Reasons
  <2> HIDE DEF r
  <2>2. ending' = [turn |-> t, at |-> "end", reason |-> r]
    BY <1>1 DEF FinishTurn, r
  <2>3. ending' \in EndingRecords
    BY <2>1, <2>2 DEF EndingRecords
  <2>4. ending' # None
    BY <2>3, NoneIsNoValue
  <2> QED
    BY <1>1, <2>1, <2>2, <2>3, <2>4
<1>2. CASE ~(ending = None /\ owner = t)
  BY <1>2 DEF FinishTurn, TypeOK
<1> QED
  BY <1>1, <1>2

\* How the end of a turn goes on.
EndingMoves ==
  \/ ending' = ending
  \/ ending # None /\ ending' = None /\ EndingReleases
  \/ ending # None /\ ending' # None /\ ending'.turn = ending.turn /\ ending'.reason = ending.reason
  \/ /\ ending = None /\ owner # None /\ ending' # None /\ ending'.turn = owner
     /\ \/ side # None /\ side.turn = owner
        \/ /\ ending'.reason # "completed"
           /\ crashed = owner \/ (AtOneOf({"run", "failTurn"}) /\ op.turn = owner)

\* Every step moves the end of a turn like that, and keeps its type.
LEMMA EndingFrame ==
  ASSUME PlanInv, Next
  PROVE  ending' \in {None} \cup EndingRecords /\ EndingMoves
<1>1. TypeOK /\ ending \in {None} \cup EndingRecords
  BY DEF PlanInv, TypeOK
<1>2. CASE EndingServed
  <2>1. ending # None /\ ending' = [ending EXCEPT !.at = "release"]
    BY <1>2 DEF EndingServed
  <2>2. ending' \in EndingRecords /\ ending'.turn = ending.turn /\ ending'.reason = ending.reason
    BY <1>1, <2>1 DEF EndingRecords
  <2>3. ending' # None
    BY <2>2, NoneIsNoValue
  <2> QED
    BY <2>1, <2>2, <2>3 DEF EndingMoves
<1>3. CASE HostCrashes
  <2>1. CASE ending = None
    BY <1>3, <2>1 DEF HostCrashes, EndingMoves
  <2>2. CASE ending # None
    <3>1. ending' = [ending EXCEPT !.at = "release"]
      BY <1>3, <2>2 DEF HostCrashes
    <3>2. ending' \in EndingRecords /\ ending'.turn = ending.turn /\ ending'.reason = ending.reason
      BY <1>1, <2>2, <3>1 DEF EndingRecords
    <3>3. ending' # None
      BY <3>2, NoneIsNoValue
    <3> QED
      BY <2>2, <3>2, <3>3 DEF EndingMoves
  <2> QED
    BY <2>1, <2>2
<1>4. CASE EndingReleases
  BY <1>4 DEF EndingReleases, EndingMoves
<1>5. ASSUME NEW r \in {"completed", "error"}, RunEnds(r)
      PROVE  ending' \in {None} \cup EndingRecords /\ EndingMoves
  <2>1. side # None /\ FinishTurn(side.turn, r) /\ side.turn \in Turns
    BY <1>1, <1>5 DEF RunEnds, TypeOK, RunRecords
  <2>2. side.turn # None
    BY <2>1, NoneIsNoTurn
  <2> QED
    BY <1>1, <2>1, <2>2, FrozenEnding DEF EndingMoves, Reasons
<1>6. CASE AbortRun
  <2>1. op.turn \in Turns /\ op.turn # None /\ FinishTurn(op.turn, "aborted")
    BY <1>1, <1>6, OpTyped, NoneIsNoTurn DEF AbortRun, At, AbortStages
  <2>2. AtOneOf({"run", "failTurn"})
    BY <1>6 DEF AbortRun, At, AtOneOf
  <2> QED
    BY <1>1, <2>1, <2>2, FrozenEnding DEF EndingMoves, Reasons
<1>7. CASE FailsTurn
  <2>1. op.turn \in Turns /\ op.turn # None
    <3>1. op.turn \in Begun /\ turns \in Nat /\ turns <= MaxTurns /\ MaxTurns \in Nat
      BY <1>1, <1>7, PlanStoreAssumption
      DEF PlanInv, TurnInv, TurnOfStage, AtOneOf, FailsTurn, At, InTurn, TypeOK, StoreTypeOK
    <3> QED
      BY <3>1, NoneIsNoTurn DEF Begun, Turns
  <2>2. FinishTurn(op.turn, "error")
    BY <1>7 DEF FailsTurn
  <2>3. AtOneOf({"run", "failTurn"})
    BY <1>7 DEF FailsTurn, At, AtOneOf
  <2> QED
    BY <1>1, <2>1, <2>2, <2>3, FrozenEnding DEF EndingMoves, Reasons
<1>8. CASE CrashSettled
  <2>1. crashed \in Turns /\ crashed # None /\ FinishTurn(crashed, "aborted")
    BY <1>1, <1>8 DEF CrashSettled, TypeOK
  <2> QED
    BY <1>1, <2>1, FrozenEnding DEF EndingMoves, Reasons
<1>9. CASE ending' = ending
  BY <1>1, <1>9 DEF EndingMoves
<1> QED
  BY <1>2, <1>3, <1>4, <1>5, <1>6, <1>7, <1>8, <1>9, TurnFrame

\* What a release does to the books of the dispatcher.
LEMMA FinishTyped ==
  ASSUME TypeOK, NEW p \in Proposals, NEW result \in {"completed", "interrupted"},
         FinishExecution(p, result)
  PROVE  /\ outcome' \in [Proposals -> {"completed", "interrupted", None}]
         /\ finishing' \in [Proposals -> {"no", "sent", "accepted", "refused"}]
         /\ \A q \in Proposals \ {p} : outcome'[q] = outcome[q] /\ finishing'[q] = finishing[q]
         /\ \/ FinishIgnored(p) /\ UNCHANGED <<outcome, finishing>>
            \/ /\ ~FinishIgnored(p) /\ outcome'[p] # None /\ outcome'[p] \in {outcome[p], result}
               /\ finishing'[p] = IF HostUp THEN "sent" ELSE "no"
<1>1. outcome \in [Proposals -> {"completed", "interrupted", None}]
      /\ finishing \in [Proposals -> {"no", "sent", "accepted", "refused"}]
  BY DEF TypeOK
<1>2. CASE FinishIgnored(p)
  BY <1>1, <1>2 DEF FinishExecution
<1>3. CASE ~FinishIgnored(p)
  <2>1. /\ outcome' = [outcome EXCEPT ![p] = IF outcome[p] = None THEN result ELSE outcome[p]]
        /\ finishing' = [finishing EXCEPT ![p] = IF HostUp THEN "sent" ELSE "no"]
    BY <1>3 DEF FinishExecution
  <2>2. result # None
    BY NoneIsNoValue
  <2> QED
    BY <1>1, <1>3, <2>1, <2>2
<1> QED
  BY <1>2, <1>3

\* The operation that accepts, fails or ends has a turn.
LEMMA StageTurn ==
  ASSUME TypeOK, TurnInv, AtOneOf(InTurn)
  PROVE  op.turn \in Turns /\ op.turn # None /\ op.plan \in Proposals
<1>1. op.turn \in Begun /\ turns \in Nat /\ turns <= MaxTurns /\ MaxTurns \in Nat
  BY PlanStoreAssumption DEF TurnInv, TurnOfStage, TypeOK, StoreTypeOK
<1>2. op.plan \in Proposals
  BY OpTyped DEF AtOneOf, InTurn, DispatchStages
<1> QED
  BY <1>1, <1>2, NoneIsNoTurn DEF Begun, Turns

\* Every step keeps the types.
LEMMA TypeNext ==
  ASSUME PlanInv, Next
  PROVE  TypeOK'
<1>0. TypeOK /\ TurnInv /\ BookInv
  BY DEF PlanInv
<1>1. StoreTypeOK'
  BY <1>0, RowsNext DEF PlanInv, BookInv, FinishHasOutcome, RowsKept
<1>2. host' \in {"up", "down"} /\ sidecar' \in {"up", "down", "again"}
  <2>1. host' \in {"up", "down"}
    BY <1>0, ProcessFrame DEF HostCrashes, HostRestarts, TypeOK
  <2>2. sidecar' \in {"up", "down", "again"}
    BY <1>0, ProcessFrame DEF HostCrashes, SidecarCrashes, SidecarRestarts, TypeOK
  <2> QED
    BY <2>1, <2>2
<1>3. side' \in {None} \cup RunRecords
  <2>1. CASE Prompt
    <3>1. turns' \in Turns /\ side' = [turn |-> turns', plan |-> None]
      BY <1>0, <2>1, BegunTurn DEF Prompt
    <3> QED
      BY <3>1 DEF RunRecords
  <2>2. CASE SidecarAccepts
    <3>1. op.turn \in Turns /\ op.plan \in Proposals
      BY <1>0, <2>2, StageTurn DEF SidecarAccepts, At, AtOneOf, InTurn
    <3>2. side' = [turn |-> op.turn, plan |-> op.plan]
      BY <2>2 DEF SidecarAccepts
    <3> QED
      BY <3>1, <3>2 DEF RunRecords
  <2>3. CASE side' \in {side, None}
    BY <1>0, <2>3 DEF TypeOK
  <2>4. CASE AbortRun \/ SidecarCrashes \/ SidecarRestarts \/ \E r \in {"completed", "error"} : RunEnds(r)
    BY <2>3, <2>4 DEF AbortRun, SidecarCrashes, SidecarRestarts, RunEnds
  <2> QED
    BY <2>1, <2>2, <2>3, <2>4, ProcessFrame
<1>4. owner' \in Turns \cup {None}
  <2>1. Begins => owner' = owner \/ (BeginTurn /\ owner' = turns')
    BY Zenon DEF Begins
  <2>2. Prompt => BeginTurn /\ owner' = turns'
    BY DEF Prompt
  <2>3. EndingReleases => owner' \in {owner, None}
    BY DEF EndingReleases
  <2>4. owner \in Turns \cup {None}
    BY <1>0 DEF TypeOK
  <2> QED
    BY <1>0, <2>1, <2>2, <2>3, <2>4, TurnFrame, BegunTurn
<1>5. ending' \in {None} \cup EndingRecords
  BY EndingFrame
<1>6. aborting' \in {None} \cup [turn : Turns, called : BOOLEAN]
  <2>1. aborting \in {None} \cup [turn : Turns, called : BOOLEAN] /\ owner \in Turns \cup {None}
    BY <1>0 DEF TypeOK
  <2>2. CASE AbortCalled
    BY <2>1, <2>2 DEF AbortCalled
  <2>3. CASE AbortAdmitted
    <3>1. aborting # None /\ aborting' \in {None, [aborting EXCEPT !.called = FALSE]}
      BY <2>3 DEF AbortAdmitted
    <3> QED
      BY <2>1, <3>1
  <2>4. CASE EndingReleases
    BY <2>1, <2>4 DEF EndingReleases
  <2> QED
    BY <2>1, <2>2, <2>3, <2>4, TurnFrame
<1>7. crashed' \in Turns \cup {None}
  BY <1>0, TurnFrame DEF TypeOK, SidecarCrashes, CrashSettled
<1>8. op' \in {None} \cup Operations
  BY <1>0, OpFrame
<1>9. waiting' \subseteq Proposals /\ lookups' \subseteq Proposals
  <2>1. waiting \subseteq Proposals /\ lookups \subseteq Proposals
    BY <1>0 DEF TypeOK
  <2>2. waiting' \subseteq Proposals
    BY <2>1, CallFrame DEF DrainQueries, LookupAnswered, DispatchStarts
  <2>3. lookups' \subseteq Proposals
    BY <2>1, CallFrame DEF HostCrashes, LookupAnswered, ResolvesContract
  <2> QED
    BY <2>2, <2>3
<1>10. drain' \in {None} \cup [at : {"retry", "query"}, why : {"host", "sidecar"}]
  <2>1. drain \in {None} \cup [at : {"retry", "query"}, why : {"host", "sidecar"}]
    BY <1>0 DEF TypeOK
  <2>2. CASE DrainRetries
    <3>1. drain # None /\ drain' \in {None, [drain EXCEPT !.at = "query"]}
      BY <2>2 DEF DrainRetries
    <3> QED
      BY <2>1, <3>1
  <2>3. CASE SidecarRestarts
    BY <2>1, <2>3 DEF SidecarRestarts
  <2>4. CASE DrainQueries \/ HostCrashes \/ HostRestarts
    BY <2>1, <2>4 DEF DrainQueries, HostCrashes, HostRestarts
  <2> QED
    BY <2>1, <2>2, <2>3, <2>4, CallFrame
<1>11. /\ current' \in Proposals \cup {None}
       /\ turnOf' \in [Proposals -> Turns \cup {None}]
       /\ started' \subseteq Proposals
  <2>1. current \in Proposals \cup {None} /\ turnOf \in [Proposals -> Turns \cup {None}] /\ started \subseteq Proposals
    BY <1>0 DEF TypeOK
  <2>2. CASE Begins
    <3>1. op # None /\ op.plan \in Proposals
      BY <1>0, <2>2, OpTyped DEF Begins, At, DispatchStages
    <3>2. CASE HostUp /\ CanBegin
      <4>1. /\ turns' \in Turns /\ current' = op.plan /\ turnOf' = [turnOf EXCEPT ![op.plan] = turns']
            /\ started' = started \cup {op.plan}
        BY <1>0, <2>2, <3>2, BegunTurn DEF Begins
      <4> QED
        BY <2>1, <3>1, <4>1
    <3>3. CASE ~(HostUp /\ CanBegin)
      BY <2>1, <2>2, <3>3 DEF Begins
    <3> QED
      BY <3>2, <3>3
  <2>3. CASE \E p \in Proposals : FinishAnswered(p)
    BY <2>1, <2>3 DEF FinishAnswered
  <2> QED
    BY <2>1, <2>2, <2>3, BookFrame
<1>12. finished' \subseteq Proposals
  BY <1>0, BookFrame DEF FinishAnswered, TypeOK
<1>13. /\ outcome' \in [Proposals -> {"completed", "interrupted", None}]
       /\ finishing' \in [Proposals -> {"no", "sent", "accepted", "refused"}]
  <2>1. /\ outcome \in [Proposals -> {"completed", "interrupted", None}]
        /\ finishing \in [Proposals -> {"no", "sent", "accepted", "refused"}]
    BY <1>0 DEF TypeOK
  <2>2. CASE EndingReleases
    <3>1. CASE current # None /\ turnOf[current] = ending.turn
      <4>1. current \in Proposals
        BY <1>0, <3>1 DEF TypeOK
      <4>2. PICK result \in {"completed", "interrupted"} : FinishExecution(current, result)
        BY <2>2, <3>1 DEF EndingReleases
      <4> QED
        BY <1>0, <4>1, <4>2, FinishTyped
    <3>2. CASE ~(current # None /\ turnOf[current] = ending.turn)
      BY <2>1, <2>2, <3>2 DEF EndingReleases
    <3> QED
      BY <3>1, <3>2
  <2>3. CASE FailsExecution
    <3>1. op.plan \in Proposals /\ FinishExecution(op.plan, "interrupted")
      BY <1>0, <2>3, OpTyped DEF FailsExecution, At, DispatchStages
    <3> QED
      BY <1>0, <3>1, FinishTyped
  <2>4. CASE \E p \in Proposals : FinishAnswered(p)
    BY <2>1, <2>4 DEF FinishAnswered
  <2>5. CASE \E p \in Proposals : FinishServed(p)
    BY <2>1, <2>5 DEF FinishServed, bookVars
  <2>6. CASE DrainRetries \/ HostCrashes
    BY <2>1, <2>6 DEF DrainRetries, HostCrashes
  <2>7. outcome' \in [Proposals -> {"completed", "interrupted", None}]
    BY <2>1, <2>2, <2>3, <2>4, BookFrame
  <2>8. finishing' \in [Proposals -> {"no", "sent", "accepted", "refused"}]
    <3>1. \/ finishing' = finishing
          \/ EndingReleases \/ FailsExecution \/ (DrainRetries \/ HostCrashes)
          \/ (\E p \in Proposals : FinishServed(p)) \/ (\E p \in Proposals : FinishAnswered(p))
      BY BookFrame
    <3> QED
      BY <2>1, <2>2, <2>3, <2>4, <2>5, <2>6, <3>1
  <2> QED
    BY <2>7, <2>8
<1>14. runs' \in [Proposals -> Nat]
  <2>1. runs \in [Proposals -> Nat]
    BY <1>0 DEF TypeOK
  <2>2. CASE SidecarAccepts
    <3>1. runs' = [runs EXCEPT ![op.plan] = runs[op.plan] + 1]
      BY <2>2 DEF SidecarAccepts
    <3>2. op.plan \in Proposals
      BY <1>0, <2>2, OpTyped DEF SidecarAccepts, At, DispatchStages
    <3>3. runs[op.plan] + 1 \in Nat
      BY <2>1, <3>2
    <3> QED
      BY <2>1, <3>1, <3>3
  <2> QED
    BY <2>1, <2>2, RunFrame
<1>15. ranAs' \in [Proposals -> Reasons \cup {"no"}]
  <2>1. ranAs \in [Proposals -> Reasons \cup {"no"}]
    BY <1>0 DEF TypeOK
  <2>2. CASE EndingReleases
    <3>1. ending.reason \in Reasons
      BY <1>0, <2>2 DEF EndingReleases, TypeOK, EndingRecords
    <3>2. ranAs' = ranAs \/ ranAs' = [ranAs EXCEPT ![current] = ending.reason]
      BY <2>2 DEF EndingReleases
    <3> QED
      BY <2>1, <3>1, <3>2
  <2> QED
    BY <2>1, <2>2, RunFrame
<1>16. spent' \in [prompts : 0 .. MaxPrompts, faults : 0 .. MaxFaults]
  <2>1. /\ spent \in [prompts : 0 .. MaxPrompts, faults : 0 .. MaxFaults]
        /\ spent.prompts \in Nat /\ spent.faults \in Nat
        /\ MaxPrompts \in Nat /\ MaxFaults \in Nat
    BY <1>0, PlanExecutionAssumption DEF TypeOK
  <2>2. CASE Prompt
    <3>1. spent.prompts + 1 \in 0 .. MaxPrompts /\ spent' = [spent EXCEPT !.prompts = spent.prompts + 1]
      BY <2>1, <2>2 DEF Prompt
    <3> QED
      BY <2>1, <3>1
  <2>3. CASE AbortCalled \/ HostCrashes \/ SidecarCrashes
    <3>1. spent.faults + 1 \in 0 .. MaxFaults /\ spent' = [spent EXCEPT !.faults = spent.faults + 1]
      BY <2>1, <2>3 DEF AbortCalled, HostCrashes, SidecarCrashes
    <3> QED
      BY <2>1, <3>1
  <2> QED
    BY <2>1, <2>2, <2>3, RunFrame
<1> QED
  BY <1>1, <1>2, <1>3, <1>4, <1>5, <1>6, <1>7, <1>8, <1>9, <1>10, <1>11, <1>12, <1>13, <1>14,
     <1>15, <1>16 DEF TypeOK


-----------------------------------------------------------------------------
(* What the steps do, given the invariant *)

\* Turns are not un-begun.
LEMMA BegunGrows ==
  ASSUME PlanInv, Next
  PROVE  /\ Begun \subseteq Begun' /\ turns \in Nat
         /\ \A p \in Proposals : Claimed(p) => Claimed(p)'
<1>1. TypeOK /\ RowsKept
  BY RowsNext DEF PlanInv, BookInv, FinishHasOutcome
<1>2. turns \in Nat /\ turns' \in Nat /\ turns <= turns'
  BY <1>1 DEF TypeOK, StoreTypeOK, RowsKept
<1> QED
  BY <1>1, <1>2 DEF Begun, RowsKept

\* The dispatcher opens the turn of an execution.
Opens ==
  /\ Begins /\ BeginTurn /\ At("begin") /\ op.plan \in Proposals
  /\ owner' = turns' /\ current' = op.plan
  /\ turnOf' = [turnOf EXCEPT ![op.plan] = turns']
  /\ started' = started \cup {op.plan}
  /\ op' # None /\ op'.at = "accept" /\ op'.plan = op.plan /\ op'.turn = turns'
  /\ UNCHANGED <<host, sidecar, side, ending, crashed, finished, outcome, finishing, runs, ranAs>>

\* Begins opens a turn or changes nothing but the operation.
LEMMA BeginsOpens ==
  ASSUME TypeOK, Begins
  PROVE  \/ Opens
         \/ /\ ~(HostUp /\ CanBegin)
            /\ UNCHANGED <<storeVars, processVars, turnVars, callVars, bookVars, ghostVars>>
<1>1. At("begin") /\ op \in {None} \cup Operations /\ turns \in 0 .. MaxTurns
  BY DEF Begins, TypeOK, StoreTypeOK
<1>2. op.plan \in Proposals
  BY <1>1, OpTyped DEF At, DispatchStages
<1>3. CASE HostUp /\ CanBegin
  <2>1. op' # None /\ op'.at = "accept" /\ op'.plan = op.plan /\ op'.turn = turns'
    <3>1. turns' \in Turns
      BY <1>3, BegunTurn DEF Begins
    <3>2. op \in [at : DispatchStages, plan : Proposals, turn : Turns \cup {None}, link : BOOLEAN]
      BY <1>1 DEF Operations, AbortStages, At
    <3>3. op' = [op EXCEPT !.at = "accept", !.turn = turns']
      BY <1>3 DEF Begins
    <3>4. op' \in Operations /\ op'.at = "accept" /\ op'.plan = op.plan /\ op'.turn = turns'
      <4> HIDE DEF Turns
      <4> QED
        BY <3>1, <3>2, <3>3 DEF Operations, DispatchStages
    <3> QED
      BY <3>4, NoneIsNoValue
  <2> QED
    BY <1>1, <1>2, <1>3, <2>1 DEF Opens, Begins, processVars, ghostVars
<1>4. CASE ~(HostUp /\ CanBegin)
  BY <1>4 DEF Begins, turnVars, bookVars
<1> QED
  BY <1>3, <1>4

\* The settlement of a turn ends: the session is free, and the execution whose
\* turn it was, if there is one, has how it ended.
Releases ==
  /\ EndingReleases /\ ending # None /\ ending.turn = owner /\ owner # None
  /\ owner' = None /\ ending' = None
  /\ \/ /\ current # None /\ current \in Proposals /\ turnOf[current] = owner
        /\ ranAs' = [ranAs EXCEPT ![current] = ending.reason]
        /\ FinishExecution(current, IF ending.reason = "completed" THEN "completed" ELSE "interrupted")
     \/ /\ ~(current # None /\ turnOf[current] = owner)
        /\ UNCHANGED <<outcome, finishing, ranAs>>
  /\ UNCHANGED <<storeVars, processVars, crashed, op, current, turnOf, started, finished, runs>>

\* EndingReleases frees the session of its owner.
LEMMA EndingIsReleased ==
  ASSUME PlanInv, EndingReleases
  PROVE  Releases
<1>1. ending # None /\ ending.turn = owner /\ owner # None
  <2>1. ending # None
    BY DEF EndingReleases
  <2>2. ending.turn \in Turns
    BY <2>1 DEF PlanInv, TypeOK, EndingRecords
  <2> QED
    BY <2>1, <2>2, NoneIsNoTurn DEF PlanInv, TurnInv, EndingIsOwners
<1>2. owner' = None /\ ending' = None
  BY <1>1 DEF EndingReleases
<1>3. current \in Proposals \cup {None}
  BY DEF PlanInv, TypeOK
<1> QED
  BY <1>1, <1>2, <1>3 DEF EndingReleases, Releases

\* A prompt begins a turn in a free session.
LEMMA PromptOpens ==
  ASSUME TypeOK, Prompt
  PROVE  /\ BeginTurn /\ op = None /\ owner = None /\ side = None /\ owner' = turns'
         /\ side' # None /\ side'.turn = turns' /\ UNCHANGED <<op, bookVars, ending, crashed, runs, ranAs>>
<1>1. BeginTurn /\ side' = [turn |-> turns', plan |-> None] /\ turns' \in Turns
  BY BegunTurn DEF Prompt
<1>2. side' \in RunRecords
  BY <1>1 DEF RunRecords
<1> QED
  BY <1>1, <1>2, NoneIsNoValue DEF Prompt

\* Owners change in three ways.
LEMMA OwnerFrame ==
  ASSUME PlanInv, Next
  PROVE  \/ owner' = owner
         \/ Releases
         \/ Prompt /\ owner = None /\ owner' = turns' /\ BeginTurn /\ op = None
         \/ Opens /\ owner = None
<1>1. Begins => owner = None
  BY DEF Begins, At, PlanInv, TurnInv, FreeBeforeTurn, AtOneOf, BeforeTurn
<1>2. TypeOK
  BY DEF PlanInv
<1> QED
  BY <1>1, <1>2, TurnFrame, BeginsOpens, PromptOpens, EndingIsReleased DEF turnVars

\* The dispatcher opens turns in a free session only.
LEMMA BeginsOnlyWhenFree ==
  ASSUME PlanInv, Begins
  PROVE  owner = None
  BY DEF Begins, At, PlanInv, TurnInv, FreeBeforeTurn, AtOneOf, BeforeTurn

\* An answer of host-core about an outcome; a refused one changes no books.
Answers(p) ==
  /\ FinishAnswered(p) /\ finishing[p] # "no" /\ outcome[p] # None
  /\ current' = current \/ (current = p /\ current' = None)
  /\ turnOf' = turnOf \/ turnOf' = [turnOf EXCEPT ![p] = None]
  /\ outcome' = outcome \/ outcome' = [outcome EXCEPT ![p] = None]
  /\ finishing' = [finishing EXCEPT ![p] = "no"]
  /\ started \cup finished \subseteq started' \cup finished'
  /\ UNCHANGED <<storeVars, processVars, turnVars, op, runs, ranAs>>

\* FinishAnswered is such an answer.
LEMMA FinishIsAnswered ==
  ASSUME PlanInv, NEW p \in Proposals, FinishAnswered(p)
  PROVE  Answers(p)
<1>1. finishing[p] # "no" /\ outcome[p] # None
  BY DEF FinishAnswered, PlanInv, BookInv, FinishHasOutcome
<1>2. current' = current \/ (current = p /\ current' = None)
  BY DEF FinishAnswered
<1>3. turnOf' = turnOf \/ turnOf' = [turnOf EXCEPT ![p] = None]
  BY DEF FinishAnswered
<1>4. outcome' = outcome \/ outcome' = [outcome EXCEPT ![p] = None]
  BY DEF FinishAnswered
<1>5. finishing' = [finishing EXCEPT ![p] = "no"]
  BY DEF FinishAnswered
<1>6. started \cup finished \subseteq started' \cup finished'
  BY DEF FinishAnswered
<1>7. UNCHANGED <<storeVars, processVars, turnVars, op, runs, ranAs>>
  BY DEF FinishAnswered, ghostVars
<1> QED
  BY <1>1, <1>2, <1>3, <1>4, <1>5, <1>6, <1>7 DEF Answers

\* The books of the dispatcher change when a turn opens and when an answer comes.
LEMMA BooksMove ==
  ASSUME PlanInv, Next
  PROVE  /\ UNCHANGED <<current, turnOf>> \/ Opens \/ \E p \in Proposals : Answers(p)
         /\ started \cup finished \subseteq started' \cup finished'
<1>1. TypeOK
  BY DEF PlanInv
<1>2. UNCHANGED <<current, turnOf, started>> \/ Opens \/ \E p \in Proposals : Answers(p)
  BY <1>1, BookFrame, BeginsOpens, FinishIsAnswered DEF bookVars
<1>3. finished' = finished \/ \E p \in Proposals : Answers(p)
  BY BookFrame, FinishIsAnswered
<1>4. started \cup finished \subseteq started' \cup finished'
  BY <1>2, <1>3 DEF Opens, Answers
<1> QED
  BY <1>2, <1>4


-----------------------------------------------------------------------------
(* TurnInv *)

\* Whatever names a turn names one that was begun.
LEMMA TurnsNamedNext ==
  ASSUME PlanInv, Next
  PROVE  OwnerIsBegun' /\ RunIsBegun' /\ CrashedIsBegun' /\ ExecutionTurnsAreBegun'
<1>1. TypeOK /\ TurnInv /\ Begun \subseteq Begun'
  BY BegunGrows DEF PlanInv
<1>2. OwnerIsBegun'
  BY <1>1, OwnerFrame, BegunTurn DEF Releases, Opens, TurnInv, OwnerIsBegun
<1>3. RunIsBegun'
  <2>1. CASE Prompt
    BY <1>1, <2>1, PromptOpens, BegunTurn DEF RunIsBegun
  <2>2. CASE SidecarAccepts
    <3>1. AtOneOf(InTurn) /\ side' = [turn |-> op.turn, plan |-> op.plan]
      BY <2>2 DEF SidecarAccepts, At, AtOneOf, InTurn
    <3>2. op.turn \in Begun /\ side'.turn = op.turn
      BY <1>1, <3>1 DEF TurnInv, TurnOfStage
    <3> QED
      BY <1>1, <3>2 DEF RunIsBegun
  <2>3. CASE side' \in {side, None}
    BY <1>1, <2>3 DEF TurnInv, RunIsBegun
  <2>4. CASE AbortRun \/ SidecarCrashes \/ SidecarRestarts \/ \E r \in {"completed", "error"} : RunEnds(r)
    BY <2>3, <2>4 DEF AbortRun, SidecarCrashes, SidecarRestarts, RunEnds
  <2> QED
    BY <2>1, <2>2, <2>3, <2>4, ProcessFrame
<1>4. CrashedIsBegun'
  BY <1>1, TurnFrame DEF SidecarCrashes, CrashSettled, TurnInv, OwnerIsBegun, CrashedIsBegun
<1>5. ExecutionTurnsAreBegun'
  <2>1. turnOf \in [Proposals -> Turns \cup {None}]
    BY <1>1 DEF TypeOK
  <2>2. CASE turnOf' = turnOf
    BY <1>1, <2>2 DEF TurnInv, ExecutionTurnsAreBegun
  <2>3. CASE Opens
    BY <1>1, <2>1, <2>3, BegunTurn DEF Opens, TurnInv, ExecutionTurnsAreBegun
  <2>4. CASE \E p \in Proposals : Answers(p)
    BY <1>1, <2>1, <2>4 DEF Answers, TurnInv, ExecutionTurnsAreBegun
  <2> QED
    BY <2>2, <2>3, <2>4, BooksMove
<1> QED
  BY <1>2, <1>3, <1>4, <1>5

\* The turn that is being ended is the owner's.
LEMMA EndingIsOwnersNext ==
  ASSUME PlanInv, Next
  PROVE  EndingIsOwners'
<1>1. TurnInv /\ TypeOK
  BY DEF PlanInv
<1>2. SUFFICES ASSUME ending' # None
               PROVE  ending'.turn = owner'
  BY DEF EndingIsOwners
<1>3. EndingMoves
  BY EndingFrame
<1>4. ending # None => ending.turn = owner /\ owner # None
  <2>1. SUFFICES ASSUME ending # None
                 PROVE  ending.turn = owner /\ owner # None
    OBVIOUS
  <2>2. ending.turn \in Turns /\ ending.turn = owner
    BY <1>1, <2>1 DEF TypeOK, EndingRecords, TurnInv, EndingIsOwners
  <2> QED
    BY <2>2, NoneIsNoTurn
<1>5. ending'.turn = owner /\ owner # None
  BY <1>2, <1>3, <1>4 DEF EndingMoves
<1>6. owner' = owner
  BY <1>2, <1>5, OwnerFrame DEF Releases
<1> QED
  BY <1>5, <1>6

\* An operation has a turn from its beginning on, and only then.
LEMMA StagesNext ==
  ASSUME PlanInv, Next
  PROVE  FreeBeforeTurn' /\ TurnOfStage'
<1>1. TypeOK /\ TurnInv /\ Begun \subseteq Begun'
  BY BegunGrows DEF PlanInv
<1>2. OpStays \/ DispatchMoves \/ AbortMoves \/ OpEnds
  BY <1>1, OpFrame
<1>3. FreeBeforeTurn'
  <2>1. SUFFICES ASSUME op' # None, op'.at \in BeforeTurn
                 PROVE  owner' = None /\ op'.turn = None
    BY DEF FreeBeforeTurn, AtOneOf
  <2>2. CASE \E p \in Proposals : DispatchStarts(p) /\ op = None /\ op'.at = "claim" /\ op'.turn = None
    <3>1. PICK p \in Proposals : DispatchStarts(p) /\ op = None /\ op'.at = "claim" /\ op'.turn = None
      BY <2>2
    <3>2. owner = None /\ owner' = owner
      BY <2>1, <3>1 DEF DispatchStarts, turnVars
    <3> QED
      BY <3>1, <3>2
  <2>3. CASE op # None /\ op.at \in BeforeTurn /\ op'.turn = op.turn
    <3>1. owner = None /\ op.turn = None
      BY <1>1, <2>3 DEF TurnInv, FreeBeforeTurn, AtOneOf
    <3>2. owner' = None
      BY <2>1, <2>3, <3>1, OwnerFrame DEF Releases, Opens, BeforeTurn
    <3> QED
      BY <2>3, <3>1, <3>2
  <2> QED
    BY <1>2, <2>1, <2>2, <2>3 DEF OpStays, DispatchMoves, AbortMoves, OpEnds, Moves, BeforeTurn
<1>4. TurnOfStage'
  <2>1. SUFFICES ASSUME op' # None, op'.at \in InTurn
                 PROVE  op'.turn \in Begun'
    BY DEF TurnOfStage, AtOneOf
  <2>2. CASE op # None /\ op.at \in InTurn /\ op'.turn = op.turn
    BY <1>1, <2>2 DEF TurnInv, TurnOfStage, AtOneOf
  <2>3. CASE Begins /\ CanBegin /\ HostUp /\ op'.turn = turns'
    <3>1. BeginTurn
      BY <2>3 DEF Begins
    <3> QED
      BY <1>1, <2>3, <3>1, BegunTurn
  <2> QED
    BY <1>2, <2>1, <2>2, <2>3 DEF OpStays, DispatchMoves, AbortMoves, OpEnds, Moves, InTurn
<1> QED
  BY <1>3, <1>4

\* TurnInv is inductive, given the rest of the invariant.
LEMMA TurnNext ==
  ASSUME PlanInv, Next
  PROVE  TurnInv'
  BY TurnsNamedNext, EndingIsOwnersNext, StagesNext DEF TurnInv

-----------------------------------------------------------------------------
(* BookInv *)

\* Where an operation that is at a stage was before.
LEMMA StageBefore ==
  ASSUME PlanInv, Next, op' # None, op'.at \in DispatchStages
  PROVE  \/ op # None /\ op'.at = op.at /\ op'.plan = op.plan /\ op'.turn = op.turn
         \/ /\ op = None /\ op'.at = "claim"
            /\ \E p \in Proposals : DispatchStarts(p) /\ op'.plan = p /\ op'.turn = None
         \/ DispatchMoves /\ op # None /\ op'.at # op.at /\ op'.plan = op.plan /\ op.at \in DispatchStages
<1>1. TypeOK
  BY DEF PlanInv
<1>2. OpStays \/ DispatchMoves \/ AbortMoves \/ OpEnds
  BY <1>1, OpFrame
<1>3. CASE OpStays
  BY <1>3 DEF OpStays
<1>4. CASE DispatchMoves
  BY <1>4 DEF DispatchMoves, Moves, DispatchStages
<1>5. ~AbortMoves
  BY DEF AbortMoves, Moves, DispatchStages
<1>6. ~OpEnds
  BY DEF OpEnds
<1> QED
  BY <1>2, <1>3, <1>4, <1>5, <1>6

\* A crash of the sidecar ends the wait for its acceptance.
LEMMA CrashLeavesAccept ==
  ASSUME op \in {None} \cup Operations, SidecarCrashes, At("accept") \/ At("accepted")
  PROVE  op' # None /\ op'.at = "failTurn"
<1>1. op' = [op EXCEPT !.at = "failTurn", !.link = FALSE]
  BY DEF SidecarCrashes, AfterSidecarCrash, At
<1>2. op \in [at : DispatchStages, plan : Proposals, turn : Turns \cup {None}, link : BOOLEAN]
  BY DEF Operations, AbortStages, At
<1>3. op' \in Operations /\ op'.at = "failTurn"
  BY <1>1, <1>2 DEF Operations, DispatchStages
<1> QED
  BY <1>3, NoneIsNoValue

\* So does the acceptance itself.
LEMMA AcceptanceLeavesAccept ==
  ASSUME op \in {None} \cup Operations, SidecarAccepts
  PROVE  op # None /\ op.at = "accept" /\ op.plan \in Proposals /\ op' # None /\ op'.at = "accepted"
         /\ op'.plan = op.plan /\ op'.turn = op.turn
<1>1. op # None /\ op.at = "accept" /\ GoTo("accepted")
  BY DEF SidecarAccepts, At
<1>2. op \in [at : DispatchStages, plan : Proposals, turn : Turns \cup {None}, link : BOOLEAN]
  BY <1>1 DEF Operations, AbortStages
<1>3. Moves({op.at}, "accepted")
  BY <1>1, <1>2, GoToMoves DEF DispatchStages
<1> QED
  BY <1>1, <1>2, <1>3 DEF Moves

\* The turn of an execution stays fresh until the sidecar has answered.
LEMMA AcceptsFreshNext ==
  ASSUME PlanInv, Next
  PROVE  AcceptsFresh'
<1>1. TypeOK /\ TurnInv /\ BookInv /\ op \in {None} \cup Operations
  BY DEF PlanInv, TypeOK
<1>2. SUFFICES ASSUME op' # None, op'.at = "accept"
               PROVE  /\ op'.turn = owner' /\ ending' = None /\ crashed' # owner' /\ ~(side' # None /\ side'.turn = owner')
                      /\ current' = op'.plan /\ turnOf'[op'.plan] = op'.turn
  BY DEF AcceptsFresh, At, Running
<1>3. CASE op # None /\ op.at = "accept" /\ op'.plan = op.plan /\ op'.turn = op.turn
  <2>1. /\ op.turn = owner /\ ending = None /\ crashed # owner /\ ~Running(owner)
        /\ current = op.plan /\ turnOf[op.plan] = op.turn
    BY <1>1, <1>3 DEF BookInv, AcceptsFresh, At
  <2>2. op.turn \in Turns /\ op.turn # None /\ op.plan \in Proposals
    BY <1>1, <1>3, StageTurn DEF AtOneOf, InTurn
  <2>3. owner' = owner
    BY <1>3, <2>1, <2>2, OwnerFrame DEF Releases
  <2>4. ending' = None
    <3>1. EndingMoves
      BY EndingFrame
    <3> QED
      BY <1>3, <2>1, <3>1 DEF EndingMoves, Running, AtOneOf
  <2>5. crashed' # owner
    <3>1. ~SidecarCrashes
      BY <1>1, <1>2, <1>3, CrashLeavesAccept DEF At
    <3>2. crashed' \in {crashed, None}
      BY <3>1, TurnFrame DEF CrashSettled
    <3> QED
      BY <2>1, <2>2, <3>2
  <2>6. ~(side' # None /\ side'.turn = owner)
    <3>1. ~SidecarAccepts
      BY <1>1, <1>2, AcceptanceLeavesAccept
    <3>2. ~Prompt
      BY <1>3 DEF Prompt
    <3>3. side' \in {side, None}
      BY <3>1, <3>2, ProcessFrame DEF AbortRun, SidecarCrashes, SidecarRestarts, RunEnds
    <3> QED
      BY <2>1, <3>3 DEF Running
  <2>7. outcome[op.plan] = None
    BY <1>1, <1>3 DEF BookInv, NoOutcomeYet, AtOneOf
  <2>8. current' = current /\ turnOf'[op.plan] = turnOf[op.plan]
    <3>1. turnOf \in [Proposals -> Turns \cup {None}]
      BY <1>1 DEF TypeOK
    <3>2. ~Opens
      BY <1>3 DEF Opens, At
    <3>3. CASE \E p \in Proposals : Answers(p)
      <4>1. PICK p \in Proposals : Answers(p)
        BY <3>3
      <4>2. p # op.plan
        BY <2>7, <4>1 DEF Answers
      <4> QED
        BY <2>1, <2>2, <3>1, <4>1, <4>2 DEF Answers
    <3> QED
      BY <3>2, <3>3, BooksMove
  <2> QED
    BY <1>3, <2>1, <2>3, <2>4, <2>5, <2>6, <2>8
<1>4. CASE DispatchMoves /\ op # None /\ op'.plan = op.plan /\ op.at # "accept"
  <2>1. Begins /\ HostUp /\ CanBegin /\ op.at = "begin"
    BY <1>2, <1>4 DEF DispatchMoves, Moves
  <2>2. Opens
    BY <1>1, <2>1, BeginsOpens
  <2>3. owner = None
    BY <1>1, <1>4, <2>1 DEF TurnInv, FreeBeforeTurn, AtOneOf, BeforeTurn
  <2>4. turns' \in Turns /\ turns' \notin Begun
    BY <1>1, <2>2, BegunTurn DEF Opens
  <2>5. ending = None
    <3>1. ending # None => ending.turn \in Turns /\ ending.turn = owner
      BY <1>1 DEF TypeOK, EndingRecords, TurnInv, EndingIsOwners
    <3> QED
      BY <2>3, <3>1, NoneIsNoTurn
  <2>6. turnOf \in [Proposals -> Turns \cup {None}] /\ op.plan \in Proposals
    BY <1>1, <2>2 DEF TypeOK, Opens
  <2>7. crashed # turns' /\ ~(side # None /\ side.turn = turns')
    BY <1>1, <2>4, NoneIsNoTurn DEF TurnInv, CrashedIsBegun, RunIsBegun
  <2> QED
    BY <2>2, <2>5, <2>6, <2>7 DEF Opens
<1> QED
  <2>1. op'.at \in DispatchStages
    BY <1>2 DEF DispatchStages
  <2> QED
    BY <1>2, <1>3, <1>4, <2>1, StageBefore


\* Outcomes come with the end of a turn and with a failed dispatch; answers take
\* them away.
ResultOf(reason) == IF reason = "completed" THEN "completed" ELSE "interrupted"

\* How the outcome of one execution changes.
LEMMA OutcomeMoves ==
  ASSUME PlanInv, Next, NEW p \in Proposals
  PROVE  \/ outcome'[p] = outcome[p]
         \/ outcome'[p] = None /\ Answers(p)
         \/ /\ Releases /\ p = current /\ turnOf[p] = owner /\ outcome'[p] # None
            /\ outcome'[p] \in {outcome[p], ResultOf(ending.reason)}
         \/ /\ FailsExecution /\ At("failExecution") /\ op.plan = p /\ outcome'[p] # None
            /\ outcome'[p] \in {outcome[p], "interrupted"}
<1>1. TypeOK /\ outcome \in [Proposals -> {"completed", "interrupted", None}]
  BY DEF PlanInv, TypeOK
<1>2. CASE Releases
  <2>1. CASE UNCHANGED <<outcome, finishing, ranAs>>
    BY <2>1
  <2>2. CASE /\ current \in Proposals /\ turnOf[current] = owner
             /\ FinishExecution(current, IF ending.reason = "completed" THEN "completed" ELSE "interrupted")
    <3>1. FinishExecution(current, ResultOf(ending.reason))
      BY <2>2 DEF ResultOf
    <3>2. ResultOf(ending.reason) \in {"completed", "interrupted"}
      BY DEF ResultOf
    <3>3. /\ \A q \in Proposals \ {current} : outcome'[q] = outcome[q]
          /\ \/ UNCHANGED <<outcome, finishing>>
             \/ outcome'[current] # None /\ outcome'[current] \in {outcome[current], ResultOf(ending.reason)}
      BY <1>1, <2>2, <3>1, <3>2, FinishTyped
    <3> QED
      BY <1>2, <2>2, <3>3
  <2> QED
    BY <1>2, <2>1, <2>2 DEF Releases
<1>3. CASE FailsExecution
  <2>1. op.plan \in Proposals /\ FinishExecution(op.plan, "interrupted") /\ At("failExecution")
    BY <1>1, <1>3, OpTyped DEF FailsExecution, At, DispatchStages
  <2>2. /\ \A q \in Proposals \ {op.plan} : outcome'[q] = outcome[q]
        /\ \/ UNCHANGED <<outcome, finishing>>
           \/ outcome'[op.plan] # None /\ outcome'[op.plan] \in {outcome[op.plan], "interrupted"}
    BY <1>1, <2>1, FinishTyped
  <2> QED
    BY <1>3, <2>1, <2>2
<1>4. CASE \E q \in Proposals : FinishAnswered(q)
  <2>1. PICK q \in Proposals : Answers(q)
    BY <1>4, FinishIsAnswered
  <2>2. outcome' = outcome \/ outcome' = [outcome EXCEPT ![q] = None]
    BY <2>1 DEF Answers
  <2> QED
    BY <1>1, <2>1, <2>2
<1>5. outcome' = outcome \/ Releases \/ FailsExecution \/ \E q \in Proposals : FinishAnswered(q)
  BY BookFrame, EndingIsReleased
<1> QED
  BY <1>2, <1>3, <1>4, <1>5

\* A call that delivers an outcome has one to deliver.
LEMMA FinishHasOutcomeNext ==
  ASSUME PlanInv, Next
  PROVE  FinishHasOutcome'
<1>1. TypeOK /\ FinishHasOutcome
  BY DEF PlanInv, BookInv
<1>2. /\ outcome \in [Proposals -> {"completed", "interrupted", None}]
      /\ finishing \in [Proposals -> {"no", "sent", "accepted", "refused"}]
  BY <1>1 DEF TypeOK
<1>3. SUFFICES ASSUME NEW p \in Proposals, finishing'[p] # "no"
               PROVE  outcome'[p] # None
  BY DEF FinishHasOutcome
<1>4. CASE \E q \in Proposals, result \in {"completed", "interrupted"} : FinishExecution(q, result)
  <2>1. PICK q \in Proposals, result \in {"completed", "interrupted"} : FinishExecution(q, result)
    BY <1>4
  <2>2. /\ \A x \in Proposals \ {q} : outcome'[x] = outcome[x] /\ finishing'[x] = finishing[x]
        /\ UNCHANGED <<outcome, finishing>> \/ outcome'[q] # None
    BY <1>1, <2>1, FinishTyped
  <2> QED
    BY <1>1, <1>3, <2>2 DEF FinishHasOutcome
<1>5. CASE \E q \in Proposals : FinishAnswered(q)
  <2>1. PICK q \in Proposals : Answers(q)
    BY <1>5, FinishIsAnswered
  <2>2. finishing' = [finishing EXCEPT ![q] = "no"]
    BY <2>1 DEF Answers
  <2>3. p # q /\ finishing[p] # "no"
    BY <1>2, <1>3, <2>2
  <2>4. outcome'[p] = outcome[p]
    BY <1>2, <2>1, <2>3 DEF Answers
  <2> QED
    BY <1>1, <2>3, <2>4 DEF FinishHasOutcome
<1>6. CASE \E q \in Proposals : FinishServed(q)
  BY <1>1, <1>2, <1>3, <1>6 DEF FinishServed, FinishHasOutcome
<1>7. CASE DrainRetries
  BY <1>1, <1>2, <1>3, <1>7 DEF DrainRetries, FinishHasOutcome, Undelivered
<1>8. CASE HostCrashes
  BY <1>3, <1>8 DEF HostCrashes
<1>9. CASE UNCHANGED <<outcome, finishing>>
  BY <1>1, <1>3, <1>9 DEF FinishHasOutcome
<1>10. CASE Releases
  <2>1. CASE UNCHANGED <<outcome, finishing, ranAs>>
    BY <1>9, <2>1
  <2>2. CASE current \in Proposals /\ \E result \in {"completed", "interrupted"} : FinishExecution(current, result)
    BY <1>4, <2>2
  <2> QED
    BY <1>10, <2>1, <2>2 DEF Releases
<1>11. CASE FailsExecution
  <2>1. op.plan \in Proposals /\ FinishExecution(op.plan, "interrupted")
    BY <1>1, <1>11, OpTyped DEF FailsExecution, At, DispatchStages
  <2> QED
    BY <1>4, <2>1
<1>12. \/ UNCHANGED <<outcome, finishing>>
       \/ Releases \/ FailsExecution \/ DrainRetries \/ HostCrashes
       \/ (\E q \in Proposals : FinishServed(q)) \/ (\E q \in Proposals : FinishAnswered(q))
  BY BookFrame, EndingIsReleased
<1> QED
  BY <1>4, <1>5, <1>6, <1>7, <1>8, <1>9, <1>10, <1>11, <1>12

\* What the books name stays claimed.
LEMMA BooksClaimedNext ==
  ASSUME PlanInv, Next
  PROVE  CurrentWasClaimed' /\ OneTurnEach' /\ OutcomeWasClaimed'
<1>1. TypeOK /\ TurnInv /\ BookInv
  BY DEF PlanInv
<1>2. /\ turnOf \in [Proposals -> Turns \cup {None}] /\ current \in Proposals \cup {None}
      /\ outcome \in [Proposals -> {"completed", "interrupted", None}]
  BY <1>1 DEF TypeOK
<1>3. /\ \A p \in Proposals : Claimed(p) => Claimed(p)'
      /\ started \cup finished \subseteq started' \cup finished'
  BY BegunGrows, BooksMove
<1>4. Opens => op.plan \in Proposals /\ Claimed(op.plan)
  BY <1>1 DEF Opens, BookInv, StageWasClaimed, AtOneOf, At, DispatchStages
<1>5. CurrentWasClaimed'
  <2>1. CASE Opens
    <3>1. current' = op.plan /\ exec'[op.plan] \notin {"none", "queued"} /\ op.plan \in started'
      BY <1>3, <1>4, <2>1 DEF Opens, Claimed
    <3> QED
      BY <3>1 DEF CurrentWasClaimed, Claimed
  <2>2. CASE current' \in {current, None}
    <3>1. CASE current' = None
      BY <3>1 DEF CurrentWasClaimed
    <3>2. CASE current' = current /\ current # None
      <4>1. current \in Proposals /\ Claimed(current) /\ current \in started \cup finished
        BY <1>1, <1>2, <3>2 DEF BookInv, CurrentWasClaimed
      <4>2. exec'[current] \notin {"none", "queued"}
        BY <1>3, <4>1 DEF Claimed
      <4> QED
        BY <1>3, <3>2, <4>1, <4>2 DEF CurrentWasClaimed, Claimed
    <3> QED
      BY <2>2, <3>1, <3>2
  <2> QED
    BY <2>1, <2>2, BooksMove DEF Answers
<1>6. OneTurnEach'
  <2>1. CASE Opens
    <3>1. /\ turnOf' = [turnOf EXCEPT ![op.plan] = turns'] /\ op.plan \in Proposals /\ turns' \notin Begun
          /\ turns' # None
      BY <1>1, <2>1, BegunTurn DEF Opens
    <3>2. \A p \in Proposals : turnOf[p] # turns'
      BY <1>1, <3>1 DEF TurnInv, ExecutionTurnsAreBegun
    <3> QED
      BY <1>1, <1>2, <3>1, <3>2 DEF BookInv, OneTurnEach
  <2>2. CASE \E p \in Proposals : Answers(p)
    BY <1>1, <1>2, <2>2 DEF Answers, BookInv, OneTurnEach
  <2>3. CASE turnOf' = turnOf
    BY <1>1, <2>3 DEF BookInv, OneTurnEach
  <2> QED
    BY <2>1, <2>2, <2>3, BooksMove
<1>7. OutcomeWasClaimed'
  <2>1. SUFFICES ASSUME NEW p \in Proposals, outcome'[p] # None
                 PROVE  Claimed(p)'
    BY DEF OutcomeWasClaimed
  <2>2. CASE outcome'[p] = outcome[p]
    BY <1>1, <1>3, <2>1, <2>2 DEF BookInv, OutcomeWasClaimed
  <2>3. CASE p = current
    <3>1. Claimed(p)
      BY <1>1, <1>2, <2>3, NoneIsNoTurn DEF BookInv, CurrentWasClaimed
    <3> QED
      BY <1>3, <3>1
  <2>4. CASE At("failExecution") /\ op.plan = p
    <3>1. Claimed(p)
      BY <1>1, <2>4 DEF BookInv, StageWasClaimed, AtOneOf, At, DispatchStages
    <3> QED
      BY <1>3, <3>1
  <2> QED
    BY <2>1, <2>2, <2>3, <2>4, OutcomeMoves
<1> QED
  BY <1>5, <1>6, <1>7

\* An operation behind its claim has claimed, and knows no outcome before it has
\* a turn to end.
LEMMA StageClaimedNext ==
  ASSUME PlanInv, Next
  PROVE  StageWasClaimed' /\ NoOutcomeYet' /\ TurnOfPlan'
<1>1. TypeOK /\ TurnInv /\ BookInv
  BY DEF PlanInv
<1>2. /\ turnOf \in [Proposals -> Turns \cup {None}] /\ exec \in [Proposals -> ExecStates]
      /\ outcome \in [Proposals -> {"completed", "interrupted", None}]
  BY <1>1 DEF TypeOK, StoreTypeOK
<1>3. \A p \in Proposals : Claimed(p) => Claimed(p)'
  BY BegunGrows
<1>4. op # None /\ op.at \in DispatchStages => op.plan \in Proposals
  BY <1>1, OpTyped
<1>5. ASSUME op' # None, op'.at \in DispatchStages \ {"claim"}
      PROVE  /\ op # None /\ op.at \in DispatchStages /\ op'.plan = op.plan
             /\ op'.at = op.at \/ DispatchMoves
             /\ op.at # "claim" \/ (ClaimServed /\ op'.at = "claimed")
  <2>1. \/ op # None /\ op'.at = op.at /\ op'.plan = op.plan /\ op'.turn = op.turn
        \/ DispatchMoves /\ op # None /\ op'.at # op.at /\ op'.plan = op.plan /\ op.at \in DispatchStages
    BY <1>5, StageBefore
  <2>2. CASE op'.at = op.at
    BY <1>5, <2>1, <2>2
  <2>3. CASE DispatchMoves /\ op # None /\ op'.at # op.at /\ op'.plan = op.plan /\ op.at \in DispatchStages
    BY <1>5, <2>3 DEF DispatchMoves, Moves
  <2> QED
    BY <2>1, <2>2, <2>3
<1>6. ASSUME op # None, op.at = "claim", ClaimServed, op' # None
      PROVE  /\ exec[op.plan] = "queued" /\ exec'[op.plan] = "running" /\ outcome[op.plan] = None
             /\ outcome' = outcome
  <2>1. Claim(op.plan) /\ outcome' = outcome
    BY <1>6 DEF ClaimServed, bookVars
  <2>2. op.plan \in Proposals
    BY <1>4, <1>6 DEF DispatchStages
  <2> QED
    BY <1>1, <1>2, <2>1, <2>2 DEF Claim, BookInv, OutcomeWasClaimed, Claimed
<1>7. StageWasClaimed'
  <2>1. SUFFICES ASSUME op' # None, op'.at \in DispatchStages \ {"claim"}
                 PROVE  exec'[op'.plan] \notin {"none", "queued"}
    BY DEF StageWasClaimed, AtOneOf, Claimed
  <2>2. op # None /\ op.at \in DispatchStages /\ op'.plan = op.plan /\ op.plan \in Proposals
    BY <1>4, <1>5, <2>1
  <2>3. exec'[op.plan] \notin {"none", "queued"}
    <3>1. CASE op.at = "claim"
      BY <1>5, <1>6, <2>1, <2>2, <3>1
    <3>2. CASE op.at # "claim"
      BY <1>1, <1>3, <2>2, <3>2 DEF BookInv, StageWasClaimed, AtOneOf, Claimed
    <3> QED
      BY <3>1, <3>2
  <2> QED
    BY <2>2, <2>3
<1>8. NoOutcomeYet'
  <2>1. SUFFICES ASSUME op' # None, op'.at \in {"claimed", "launch", "begin", "accept"}
                 PROVE  outcome'[op'.plan] = None
    BY DEF NoOutcomeYet, AtOneOf
  <2>2. op # None /\ op.at \in DispatchStages /\ op'.plan = op.plan /\ op.plan \in Proposals
    BY <1>4, <1>5, <2>1 DEF DispatchStages
  <2>3. CASE op.at = "claim"
    BY <1>5, <1>6, <2>1, <2>2, <2>3 DEF DispatchStages
  <2>4. CASE op.at # "claim"
    <3>1. op.at \in {"claimed", "launch", "begin", "accept"}
      BY <1>5, <2>1, <2>2, <2>4 DEF DispatchMoves, Moves, DispatchStages
    <3>2. outcome[op.plan] = None
      BY <1>1, <2>2, <3>1 DEF BookInv, NoOutcomeYet, AtOneOf
    <3>3. ending = None \/ owner = None
      BY <1>1, <2>2, <3>1 DEF BookInv, AcceptsFresh, TurnInv, FreeBeforeTurn, At, AtOneOf, BeforeTurn
    <3> QED
      BY <2>2, <3>1, <3>2, <3>3, OutcomeMoves DEF Releases, At
  <2> QED
    BY <2>3, <2>4
<1>9. TurnOfPlan'
  <2>1. SUFFICES ASSUME op' # None, op'.at \in InTurn
                 PROVE  turnOf'[op'.plan] \in {op'.turn, None}
    BY DEF TurnOfPlan, AtOneOf
  <2>2. op'.at \in DispatchStages \ {"claim"}
    BY <2>1 DEF InTurn, DispatchStages
  <2>3. op # None /\ op.at \in DispatchStages /\ op'.plan = op.plan /\ op.plan \in Proposals
    BY <1>4, <1>5, <2>1, <2>2
  <2>4. CASE Opens
    BY <1>2, <2>3, <2>4 DEF Opens
  <2>5. CASE ~Opens
    <3>1. op.at \in InTurn /\ op'.turn = op.turn
      <4>1. CASE op'.at = op.at
        BY <2>1, <2>2, <2>3, <4>1, StageBefore
      <4>2. CASE DispatchMoves
        <5>1. ~(Begins /\ HostUp /\ CanBegin)
          BY <1>1, <2>5, BeginsOpens
        <5> QED
          BY <2>1, <4>2, <5>1 DEF DispatchMoves, Moves, InTurn
      <4> QED
        BY <1>5, <2>1, <2>2, <4>1, <4>2
    <3>2. turnOf[op.plan] \in {op.turn, None}
      BY <1>1, <2>3, <3>1 DEF BookInv, TurnOfPlan, AtOneOf
    <3>3. turnOf'[op.plan] \in {turnOf[op.plan], None}
      BY <1>2, <2>3, <2>5, BooksMove DEF Answers
    <3> QED
      BY <2>3, <3>1, <3>2, <3>3
  <2> QED
    BY <2>4, <2>5
<1> QED
  BY <1>7, <1>8, <1>9

\* BookInv is inductive, given the rest of the invariant.
LEMMA BookNext ==
  ASSUME PlanInv, Next
  PROVE  BookInv'
  BY AcceptsFreshNext, BooksClaimedNext, FinishHasOutcomeNext, StageClaimedNext DEF BookInv


-----------------------------------------------------------------------------
(* RunInv *)

\* The sidecar accepts a fresh execution in its turn.
LEMMA AcceptedRun ==
  ASSUME PlanInv, SidecarAccepts
  PROVE  /\ op # None /\ op.at = "accept" /\ op.plan \in Proposals /\ op.turn = owner /\ owner # None
         /\ current = op.plan /\ turnOf[op.plan] = owner /\ outcome[op.plan] = None
         /\ op.plan \in started \cup finished /\ runs[op.plan] = 0 /\ ranAs[op.plan] = "no"
         /\ runs' = [runs EXCEPT ![op.plan] = 1]
         /\ side' # None /\ side'.turn = owner /\ op' # None /\ op'.at = "accepted"
         /\ UNCHANGED <<storeVars, owner, ending, current, turnOf, started, finished, outcome, ranAs>>
<1>1. TypeOK /\ TurnInv /\ BookInv /\ RunInv /\ op \in {None} \cup Operations
  BY DEF PlanInv, TypeOK
<1>2. op # None /\ op.at = "accept" /\ op.plan \in Proposals /\ op' # None /\ op'.at = "accepted"
  BY <1>1, AcceptanceLeavesAccept
<1>3. op.turn \in Turns /\ op.turn # None
  BY <1>1, <1>2, StageTurn DEF AtOneOf, InTurn
<1>4. op.turn = owner /\ current = op.plan /\ turnOf[op.plan] = owner
  BY <1>1, <1>2 DEF BookInv, AcceptsFresh, At
<1>5. outcome[op.plan] = None
  BY <1>1, <1>2 DEF BookInv, NoOutcomeYet, AtOneOf
<1>6. op.plan \in started \cup finished
  BY <1>1, <1>2 DEF RunInv, AcceptsStarted, At
<1>7. runs[op.plan] = 0 /\ ranAs[op.plan] = "no"
  BY <1>1, <1>2 DEF RunInv, NotRunYet, AtOneOf
<1>8. runs' = [runs EXCEPT ![op.plan] = 1]
  BY <1>7 DEF SidecarAccepts
<1>9. side' # None /\ side'.turn = owner
  <2>1. side' = [turn |-> op.turn, plan |-> op.plan]
    BY DEF SidecarAccepts
  <2>2. side' \in RunRecords
    BY <1>2, <1>3, <2>1 DEF RunRecords
  <2> QED
    BY <1>4, <2>1, <2>2, NoneIsNoValue
<1>10. UNCHANGED <<storeVars, owner, ending, current, turnOf, started, finished, outcome, ranAs>>
  BY DEF SidecarAccepts, turnVars, bookVars
<1> QED
  BY <1>2, <1>3, <1>4, <1>5, <1>6, <1>7, <1>8, <1>9, <1>10

\* Runs begin with an acceptance and end with a release.
LEMMA RunsMove ==
  ASSUME PlanInv, Next, NEW p \in Proposals
  PROVE  /\ runs'[p] = runs[p] \/ (SidecarAccepts /\ p = op.plan /\ runs[p] = 0 /\ runs'[p] = 1)
         /\ \/ ranAs'[p] = ranAs[p]
            \/ Releases /\ p = current /\ turnOf[p] = owner /\ ranAs'[p] = ending.reason /\ ranAs'[p] # "no"
<1>1. TypeOK /\ runs \in [Proposals -> Nat] /\ ranAs \in [Proposals -> Reasons \cup {"no"}]
  BY DEF PlanInv, TypeOK
<1>2. runs'[p] = runs[p] \/ (SidecarAccepts /\ p = op.plan /\ runs[p] = 0 /\ runs'[p] = 1)
  BY <1>1, RunFrame, AcceptedRun
<1>3. ASSUME Releases
      PROVE  \/ ranAs'[p] = ranAs[p]
             \/ p = current /\ turnOf[p] = owner /\ ranAs'[p] = ending.reason /\ ranAs'[p] # "no"
  <2>1. ending.reason \in Reasons /\ ending.reason # "no"
    BY <1>1, <1>3 DEF Releases, TypeOK, EndingRecords, Reasons
  <2> QED
    BY <1>1, <1>3, <2>1 DEF Releases
<1> QED
  BY <1>2, <1>3, RunFrame, EndingIsReleased

\* A run that goes on has just been accepted or went on before, in a turn that
\* is not over.
LEMMA GoingMoves ==
  ASSUME PlanInv, Next, NEW p \in Proposals, Going(p)'
  PROVE  \/ SidecarAccepts /\ p = op.plan
         \/ Going(p) /\ ~Releases
<1>1. TypeOK /\ RunInv
  BY DEF PlanInv
<1>2. CASE ranAs'[p] # ranAs[p]
  BY <1>2, RunsMove DEF Going
<1>3. CASE ranAs'[p] = ranAs[p] /\ runs'[p] # runs[p]
  BY <1>3, RunsMove
<1>4. CASE ranAs'[p] = ranAs[p] /\ runs'[p] = runs[p]
  <2>1. Going(p)
    BY <1>4 DEF Going
  <2>2. current = p /\ turnOf[p] = owner /\ ranAs[p] = "no"
    BY <1>1, <2>1 DEF RunInv, GoingOwns, Going
  <2>3. ~Releases
    <3>1. SUFFICES ASSUME Releases
                   PROVE  FALSE
      OBVIOUS
    <3>2. current # None
      BY <2>2, NoneIsNoTurn
    <3>3. ranAs' = [ranAs EXCEPT ![current] = ending.reason] /\ ending.reason \in Reasons
      BY <1>1, <2>2, <3>1, <3>2 DEF Releases, TypeOK, EndingRecords
    <3>4. ranAs'[p] = ending.reason
      BY <1>1, <2>2, <3>3 DEF TypeOK
    <3> QED
      BY <1>4, <2>2, <3>3, <3>4 DEF Reasons
  <2> QED
    BY <2>1, <2>3
<1> QED
  BY <1>2, <1>3, <1>4

\* What ran was started by the dispatcher, once.
LEMMA RunsStartedNext ==
  ASSUME PlanInv, Next
  PROVE  RunsAtMostOnce' /\ RunWasStarted' /\ AcceptsStarted' /\ NotRunYet'
<1>1. TypeOK /\ TurnInv /\ BookInv /\ RunInv
  BY DEF PlanInv
<1>2. /\ runs \in [Proposals -> Nat] /\ started \subseteq Proposals /\ finished \subseteq Proposals
      /\ current \in Proposals \cup {None}
  BY <1>1 DEF TypeOK
<1>3. started \cup finished \subseteq started' \cup finished'
  BY BooksMove
<1>4. RunsAtMostOnce'
  BY <1>1, <1>2, RunsMove DEF RunInv, RunsAtMostOnce
<1>5. RunWasStarted'
  <2>1. SUFFICES ASSUME NEW p \in Proposals, runs'[p] > 0 \/ ranAs'[p] # "no"
                 PROVE  p \in started' \cup finished'
    BY DEF RunWasStarted
  <2>2. CASE runs[p] > 0 \/ ranAs[p] # "no"
    BY <1>1, <1>3, <2>2 DEF RunInv, RunWasStarted
  <2>3. CASE SidecarAccepts /\ p = op.plan
    BY <1>3, <2>3, AcceptedRun
  <2>4. CASE p = current
    BY <1>1, <1>2, <1>3, <2>4, NoneIsNoTurn DEF BookInv, CurrentWasClaimed
  <2> QED
    BY <2>1, <2>2, <2>3, <2>4, RunsMove
<1>6. AcceptsStarted'
  <2>1. SUFFICES ASSUME op' # None, op'.at = "accept"
                 PROVE  op'.plan \in started' \cup finished'
    BY DEF AcceptsStarted, At
  <2>2. CASE op # None /\ op.at = "accept" /\ op'.plan = op.plan
    BY <1>1, <1>3, <2>2 DEF RunInv, AcceptsStarted, At
  <2>3. CASE DispatchMoves /\ op # None /\ op.at # "accept" /\ op'.plan = op.plan
    <3>1. Begins /\ HostUp /\ CanBegin
      BY <2>1, <2>3 DEF DispatchMoves, Moves
    <3>2. Opens
      BY <1>1, <3>1, BeginsOpens
    <3> QED
      BY <2>3, <3>2 DEF Opens
  <2> QED
    BY <2>1, <2>2, <2>3, StageBefore DEF DispatchStages
<1>7. NotRunYet'
  <2>1. SUFFICES ASSUME op' # None, op'.at \in BeforeTurn \cup {"accept"}
                 PROVE  runs'[op'.plan] = 0 /\ ranAs'[op'.plan] = "no"
    BY DEF NotRunYet, AtOneOf
  <2>2. op'.at \in DispatchStages
    BY <2>1 DEF BeforeTurn, DispatchStages
  <2>3. CASE op # None /\ op.at \in BeforeTurn \cup {"accept"} /\ op'.plan = op.plan
    <3>1. op.plan \in Proposals
      BY <1>1, <2>3, OpTyped DEF BeforeTurn, DispatchStages
    <3>2. runs[op.plan] = 0 /\ ranAs[op.plan] = "no"
      BY <1>1, <2>3 DEF RunInv, NotRunYet, AtOneOf
    <3>3. ~SidecarAccepts
      BY <2>1, AcceptedRun DEF BeforeTurn
    <3>4. ending = None \/ owner = None
      BY <1>1, <2>3 DEF BookInv, AcceptsFresh, TurnInv, FreeBeforeTurn, At, AtOneOf, BeforeTurn
    <3>5. ~Releases
      BY <3>4 DEF Releases
    <3> QED
      BY <2>3, <3>1, <3>2, <3>3, <3>5, RunsMove
  <2>4. CASE \E p \in Proposals : DispatchStarts(p) /\ op = None /\ op'.plan = p
    <3>1. PICK p \in Proposals : DispatchStarts(p) /\ op = None /\ op'.plan = p
      BY <2>4
    <3>2. p \notin started \cup finished /\ runs' = runs /\ ranAs' = ranAs
      BY <2>1, <3>1 DEF DispatchStarts, ghostVars
    <3> QED
      BY <1>1, <1>2, <3>1, <3>2 DEF RunInv, RunWasStarted
  <2>5. CASE DispatchMoves /\ op # None /\ op'.plan = op.plan /\ op.at \in DispatchStages
    <3>1. op.at \in BeforeTurn \cup {"accept"}
      BY <2>1, <2>5 DEF DispatchMoves, Moves, BeforeTurn
    <3> QED
      BY <2>3, <2>5, <3>1
  <2> QED
    BY <2>1, <2>2, <2>3, <2>4, <2>5, StageBefore
<1> QED
  BY <1>4, <1>5, <1>6, <1>7

\* A failed dispatch has no run that goes on; the run that goes on has the session.
LEMMA GoingNext ==
  ASSUME PlanInv, Next
  PROVE  FailedRestsIfAtAll' /\ GoingOwns' /\ GoingHasNoOutcome'
<1>1. TypeOK /\ TurnInv /\ BookInv /\ RunInv
  BY DEF PlanInv
<1>2. /\ turnOf \in [Proposals -> Turns \cup {None}] /\ runs \in [Proposals -> Nat]
      /\ outcome \in [Proposals -> {"completed", "interrupted", None}]
  BY <1>1 DEF TypeOK
<1>3. FailedRestsIfAtAll'
  <2>1. SUFFICES ASSUME op' # None, op'.at \in {"failExecution", "settle"},
                        runs'[op'.plan] > 0, ranAs'[op'.plan] = "no"
                 PROVE  FALSE
    BY DEF FailedRestsIfAtAll, AtOneOf, Going
  <2>2. /\ op # None /\ op'.plan = op.plan /\ op.at \in DispatchStages
        /\ op'.at = op.at \/ DispatchMoves
    BY <2>1, StageBefore DEF DispatchStages
  <2>3. op.plan \in Proposals
    BY <1>1, <2>2, OpTyped
  <2>4. PICK p \in Proposals : p = op.plan
    BY <2>3
  <2>5. Going(p)'
    BY <2>1, <2>2, <2>4 DEF Going
  <2>6. ~SidecarAccepts
    BY <2>1, AcceptedRun
  <2>7. Going(p)
    BY <2>5, <2>6, GoingMoves
  <2>8. CASE op.at \in {"failExecution", "settle"}
    BY <1>1, <2>2, <2>4, <2>7, <2>8 DEF RunInv, FailedRestsIfAtAll, AtOneOf
  <2>9. CASE op.at \in BeforeTurn
    BY <1>1, <1>2, <2>2, <2>4, <2>7, <2>9 DEF RunInv, NotRunYet, AtOneOf, Going
  <2>10. CASE TurnFailed /\ op.at = "failing"
    <3>1. owner # op.turn
      BY <2>10 DEF TurnFailed
    <3>2. turnOf[p] \in {op.turn, None}
      BY <1>1, <2>2, <2>4, <2>10 DEF BookInv, TurnOfPlan, AtOneOf, InTurn
    <3> QED
      BY <1>1, <2>7, <3>1, <3>2 DEF RunInv, GoingOwns
  <2> QED
    BY <2>1, <2>2, <2>8, <2>9, <2>10 DEF DispatchMoves, Moves, BeforeTurn
<1>4. GoingOwns'
  <2>1. SUFFICES ASSUME NEW p \in Proposals, Going(p)'
                 PROVE  current' = p /\ turnOf'[p] = owner' /\ owner' # None
    BY DEF GoingOwns
  <2>2. CASE SidecarAccepts /\ p = op.plan
    BY <2>2, AcceptedRun
  <2>3. CASE Going(p) /\ ~Releases
    <3>1. current = p /\ turnOf[p] = owner /\ owner # None /\ outcome[p] = None
      BY <1>1, <2>3 DEF RunInv, GoingOwns, GoingHasNoOutcome
    <3>2. owner' = owner /\ ~Opens
      BY <2>3, <3>1, OwnerFrame, BeginsOnlyWhenFree DEF Opens
    <3>3. current' = current /\ turnOf'[p] = turnOf[p]
      <4>1. CASE \E q \in Proposals : Answers(q)
        <5>1. PICK q \in Proposals : Answers(q)
          BY <4>1
        <5>2. q # p
          BY <3>1, <5>1 DEF Answers
        <5> QED
          BY <1>2, <3>1, <5>1, <5>2 DEF Answers
      <4> QED
        BY <3>2, <4>1, BooksMove
    <3> QED
      BY <3>1, <3>2, <3>3
  <2> QED
    BY <2>1, <2>2, <2>3, GoingMoves
<1>5. GoingHasNoOutcome'
  <2>1. SUFFICES ASSUME NEW p \in Proposals, Going(p)'
                 PROVE  outcome'[p] = None
    BY DEF GoingHasNoOutcome
  <2>2. CASE SidecarAccepts /\ p = op.plan
    BY <2>2, AcceptedRun
  <2>3. CASE Going(p) /\ ~Releases
    <3>1. outcome[p] = None
      BY <1>1, <2>3 DEF RunInv, GoingHasNoOutcome
    <3>2. ~(At("failExecution") /\ op.plan = p)
      BY <1>1, <2>3 DEF RunInv, FailedRestsIfAtAll, At, AtOneOf
    <3> QED
      BY <2>3, <3>1, <3>2, OutcomeMoves
  <2> QED
    BY <2>1, <2>2, <2>3, GoingMoves
<1> QED
  BY <1>3, <1>4, <1>5

\* How a run ended is what its turn was settled with.
LEMMA EndedNext ==
  ASSUME PlanInv, Next
  PROVE  EndedIsNotOwner' /\ RunOfTurnIsRun' /\ CompletedTurnWasRun' /\ CompletedIsTrue'
<1>1. TypeOK /\ TurnInv /\ BookInv /\ RunInv
  BY DEF PlanInv
<1>2. /\ turnOf \in [Proposals -> Turns \cup {None}] /\ runs \in [Proposals -> Nat]
      /\ outcome \in [Proposals -> {"completed", "interrupted", None}]
  BY <1>1 DEF TypeOK
<1>3. \A p \in Proposals : runs[p] > 0 => runs'[p] > 0
  BY <1>2, RunsMove
<1>4. \A p \in Proposals : turnOf'[p] = turnOf[p] \/ turnOf'[p] = None \/ (Opens /\ p = op.plan /\ turnOf'[p] = turns')
  BY <1>2, BooksMove DEF Opens, Answers
<1>5. Opens => turns' \notin Begun /\ turns' # None /\ owner = None /\ ending = None
  <2>1. Opens => turns' \notin Begun /\ turns' # None /\ owner = None
    BY <1>1, BegunTurn, BeginsOnlyWhenFree DEF Opens
  <2>2. ending # None => ending.turn = owner /\ ending.turn \in Turns
    BY <1>1 DEF TypeOK, EndingRecords, TurnInv, EndingIsOwners
  <2> QED
    BY <2>1, <2>2, NoneIsNoTurn
<1>6. EndedIsNotOwner'
  <2>1. SUFFICES ASSUME NEW p \in Proposals, ranAs'[p] # "no", turnOf'[p] # None, turnOf'[p] = owner'
                 PROVE  FALSE
    BY DEF EndedIsNotOwner
  <2>2. ~Releases
    BY <2>1 DEF Releases
  <2>3. ranAs[p] # "no"
    BY <2>1, <2>2, RunsMove
  <2>4. CASE Opens
    <3>1. p # op.plan
      BY <1>1, <2>3, <2>4 DEF RunInv, NotRunYet, AtOneOf, Opens, At, BeforeTurn
    <3>2. turnOf[p] = turns' /\ turnOf[p] # None
      BY <1>2, <2>1, <2>4, <3>1 DEF Opens
    <3> QED
      BY <1>1, <1>5, <2>4, <3>2 DEF TurnInv, ExecutionTurnsAreBegun
  <2>5. CASE ~Opens
    <3>1. turnOf[p] = owner' /\ turnOf[p] # None
      BY <1>4, <2>1, <2>5
    <3>2. owner' # owner
      BY <1>1, <2>3, <3>1 DEF RunInv, EndedIsNotOwner
    <3>3. BeginTurn /\ owner' = turns'
      BY <2>2, <2>5, <3>2, OwnerFrame
    <3> QED
      BY <1>1, <3>1, <3>3, BegunTurn DEF TurnInv, ExecutionTurnsAreBegun
  <2> QED
    BY <2>4, <2>5
<1>7. RunOfTurnIsRun'
  <2>1. SUFFICES ASSUME NEW p \in Proposals, side' # None, turnOf'[p] = side'.turn
                 PROVE  runs'[p] > 0
    BY DEF RunOfTurnIsRun
  <2>2. CASE side' = side
    <3>1. side.turn \in Begun /\ side.turn \in Turns
      BY <1>1, <2>1, <2>2 DEF TurnInv, RunIsBegun, TypeOK, RunRecords
    <3>2. turnOf[p] = side.turn
      BY <1>4, <1>5, <2>1, <2>2, <3>1, NoneIsNoTurn
    <3> QED
      BY <1>1, <1>3, <2>1, <2>2, <3>2 DEF RunInv, RunOfTurnIsRun
  <2>3. CASE Prompt
    <3>1. side'.turn = turns' /\ turnOf' = turnOf /\ turns' \notin Begun /\ turns' # None
      BY <1>1, <2>3, PromptOpens, BegunTurn DEF bookVars
    <3> QED
      BY <1>1, <2>1, <3>1 DEF TurnInv, ExecutionTurnsAreBegun
  <2>4. CASE SidecarAccepts
    <3>1. turnOf[p] = owner /\ turnOf[op.plan] = owner /\ owner # None /\ op.plan \in Proposals /\ runs'[op.plan] = 1
      BY <1>2, <2>1, <2>4, AcceptedRun
    <3>2. p = op.plan
      BY <1>1, <3>1 DEF BookInv, OneTurnEach
    <3> QED
      BY <3>1, <3>2
  <2>5. CASE AbortRun \/ SidecarCrashes \/ SidecarRestarts \/ \E r \in {"completed", "error"} : RunEnds(r)
    <3>1. side' \in {side, None}
      BY <2>5 DEF AbortRun, SidecarCrashes, SidecarRestarts, RunEnds
    <3> QED
      BY <2>1, <2>2, <3>1
  <2> QED
    BY <2>2, <2>3, <2>4, <2>5, ProcessFrame
<1>8. CompletedTurnWasRun'
  <2>1. SUFFICES ASSUME NEW p \in Proposals, ending' # None, ending'.reason = "completed",
                        turnOf'[p] = ending'.turn
                 PROVE  runs'[p] > 0
    BY DEF CompletedTurnWasRun
  <2>2. EndingMoves
    BY EndingFrame
  <2>3. CASE ending # None /\ ending'.turn = ending.turn /\ ending'.reason = ending.reason
    <3>1. ending.turn \in Turns /\ ending.turn # None
      BY <1>1, <2>3, NoneIsNoTurn DEF TypeOK, EndingRecords
    <3>2. turnOf[p] = ending.turn
      BY <1>4, <1>5, <2>1, <2>3, <3>1
    <3> QED
      BY <1>1, <1>3, <2>1, <2>3, <3>2 DEF RunInv, CompletedTurnWasRun
  <2>4. CASE ending = None /\ owner # None /\ ending'.turn = owner /\ side # None /\ side.turn = owner
    <3>1. turnOf[p] = side.turn
      BY <1>4, <1>5, <2>1, <2>4
    <3> QED
      BY <1>1, <1>3, <2>4, <3>1 DEF RunInv, RunOfTurnIsRun
  <2> QED
    BY <2>1, <2>2, <2>3, <2>4 DEF EndingMoves
<1>9. CompletedIsTrue'
  <2>1. SUFFICES ASSUME NEW p \in Proposals, outcome'[p] = "completed"
                 PROVE  runs'[p] > 0 /\ ranAs'[p] = "completed"
    BY DEF CompletedIsTrue
  <2>2. "completed" # None
    BY NoneIsNoValue
  <2>3. CASE outcome[p] = "completed"
    <3>1. runs[p] > 0 /\ ranAs[p] = "completed"
      BY <1>1, <2>3 DEF RunInv, CompletedIsTrue
    <3>2. ~(turnOf[p] = owner /\ owner # None)
      BY <1>1, <3>1 DEF RunInv, EndedIsNotOwner
    <3> QED
      BY <1>3, <3>1, <3>2, RunsMove DEF Releases
  <2>4. CASE outcome[p] # "completed"
    <3>1. Releases /\ p = current /\ turnOf[p] = owner /\ ResultOf(ending.reason) = "completed"
      BY <2>1, <2>2, <2>4, OutcomeMoves
    <3>2. ending.reason = "completed"
      BY <3>1 DEF ResultOf
    <3>3. runs[p] > 0
      BY <1>1, <3>1, <3>2 DEF RunInv, CompletedTurnWasRun, Releases
    <3>4. ranAs' = [ranAs EXCEPT ![p] = "completed"]
      BY <3>1, <3>2, NoneIsNoTurn DEF Releases
    <3>5. ranAs'[p] = "completed"
      BY <1>1, <3>4 DEF TypeOK
    <3> QED
      BY <1>3, <3>3, <3>5
  <2> QED
    BY <2>3, <2>4
<1> QED
  BY <1>6, <1>7, <1>8, <1>9

\* RunInv is inductive, given the rest of the invariant.
LEMMA RunNext ==
  ASSUME PlanInv, Next
  PROVE  RunInv'
  BY RunsStartedNext, GoingNext, EndedNext DEF RunInv

\* StoreInv is inductive, given the rest of the invariant.
LEMMA StoreNext ==
  ASSUME PlanInv, Next
  PROVE  StoreInv'
  BY RowsNext DEF PlanInv, BookInv, FinishHasOutcome, RowsKept

\* Every step keeps the invariant.
LEMMA PlanInvNext ==
  ASSUME PlanInv, [Next]_vars
  PROVE  PlanInv'
<1>1. CASE Next
  BY <1>1, TypeNext, StoreNext, TurnNext, BookNext, RunNext DEF PlanInv
<1>2. CASE UNCHANGED vars
  <2>1. TypeOK'
    BY <1>2 DEF vars, storeVars, processVars, turnVars, callVars, bookVars, ghostVars, PlanInv, TypeOK,
                StoreTypeOK
  <2>2. StoreInv'
    BY <1>2 DEF vars, storeVars, PlanInv, StoreInv, ApprovedIsExecuted, KindIsKnown, NumberedInOrder,
                OneInTheWay, ActiveInAgentMode, OpenInItsMode, Open, Active
  <2>3. TurnInv'
    BY <1>2 DEF vars, storeVars, processVars, turnVars, callVars, bookVars, ghostVars, PlanInv, TurnInv,
                OwnerIsBegun, RunIsBegun, CrashedIsBegun, ExecutionTurnsAreBegun, EndingIsOwners,
                FreeBeforeTurn, TurnOfStage, AtOneOf, Begun
  <2>4. BookInv'
    BY <1>2 DEF vars, storeVars, processVars, turnVars, callVars, bookVars, ghostVars, PlanInv, BookInv,
                AcceptsFresh, CurrentWasClaimed, OneTurnEach, OutcomeWasClaimed, FinishHasOutcome,
                StageWasClaimed, NoOutcomeYet, TurnOfPlan, AtOneOf, At, Running, Claimed
  <2>5. RunInv'
    BY <1>2 DEF vars, storeVars, processVars, turnVars, callVars, bookVars, ghostVars, PlanInv, RunInv,
                RunsAtMostOnce, RunWasStarted, AcceptsStarted, NotRunYet, FailedRestsIfAtAll, GoingOwns,
                GoingHasNoOutcome, EndedIsNotOwner, RunOfTurnIsRun, CompletedTurnWasRun,
                CompletedIsTrue, AtOneOf, At, Going
  <2> QED
    BY <2>1, <2>2, <2>3, <2>4, <2>5 DEF PlanInv
<1> QED
  BY <1>1, <1>2

\* It holds at the beginning.
LEMMA PlanInvInit ==
  ASSUME Init
  PROVE  PlanInv
<1>1. TypeOK
  BY PlanExecutionAssumption, PlanStoreAssumption
  DEF Init, StoreInit, TypeOK, StoreTypeOK, ProposalStates, ExecStates
<1>2. StoreInv
  BY DEF Init, StoreInit, StoreInv, ApprovedIsExecuted, KindIsKnown, NumberedInOrder,
         OneInTheWay, ActiveInAgentMode, OpenInItsMode, Open, Active
<1>3. TurnInv
  BY DEF Init, StoreInit, TurnInv, OwnerIsBegun, RunIsBegun, CrashedIsBegun, ExecutionTurnsAreBegun,
         EndingIsOwners, FreeBeforeTurn, TurnOfStage, AtOneOf
<1>4. BookInv
  <2>1. AcceptsFresh /\ StageWasClaimed /\ NoOutcomeYet /\ TurnOfPlan
    BY DEF Init, AcceptsFresh, StageWasClaimed, NoOutcomeYet, TurnOfPlan, AtOneOf, At
  <2>2. CurrentWasClaimed /\ OneTurnEach
    BY DEF Init, CurrentWasClaimed, OneTurnEach
  <2>3. OutcomeWasClaimed /\ FinishHasOutcome
    BY DEF Init, OutcomeWasClaimed, FinishHasOutcome
  <2> QED
    BY <2>1, <2>2, <2>3 DEF BookInv
<1>5. RunInv
  <2>1. AcceptsStarted /\ NotRunYet /\ FailedRestsIfAtAll /\ RunOfTurnIsRun /\ CompletedTurnWasRun
    BY DEF Init, AcceptsStarted, NotRunYet, FailedRestsIfAtAll, RunOfTurnIsRun, CompletedTurnWasRun,
           AtOneOf, At
  <2>2. RunsAtMostOnce /\ RunWasStarted
    BY DEF Init, RunsAtMostOnce, RunWasStarted
  <2>3. GoingOwns /\ GoingHasNoOutcome /\ EndedIsNotOwner
    BY DEF Init, GoingOwns, GoingHasNoOutcome, EndedIsNotOwner, Going
  <2>4. CompletedIsTrue
    BY NoneIsNoValue DEF Init, CompletedIsTrue
  <2> QED
    BY <2>1, <2>2, <2>3, <2>4 DEF RunInv
<1> QED
  BY <1>1, <1>2, <1>3, <1>4, <1>5 DEF PlanInv

\* The invariant that the theorems below rest on: what the rows of host-core, the
\* owners, the books of the dispatcher and the runs of the sidecar say of each other.
THEOREM PlanInvariant == Spec => []PlanInv
<1>1. Init => PlanInv
  BY PlanInvInit
<1>2. PlanInv /\ [Next]_vars => PlanInv'
  BY PlanInvNext
<1> QED
  BY <1>1, <1>2, PTL DEF Spec

\* Every reachable state is type correct, whatever crashes when.
THEOREM TypeCorrect == Spec => []TypeOK
<1>1. PlanInv => TypeOK
  BY DEF PlanInv
<1> QED
  BY <1>1, PlanInvariant, PTL


-----------------------------------------------------------------------------
(* One contract at a time *)

\* A session has one contract at a time, for every order of tools, answers,
\* deadlines, configurations, aborts and crashes.
THEOREM OneContractAtATime == Spec => []OneContract
<1>1. ASSUME PlanInv
      PROVE  OneContract
  <2> DEFINE open == {p \in Proposals : proposal[p] \in {"pending", "overdue"}}
             live == {p \in Proposals : Active(p)}
  <2>1. /\ \A p \in open \cup live, q \in open \cup live : p = q
        /\ open \cup live \subseteq Proposals
    BY <1>1 DEF PlanInv, StoreInv, OneInTheWay, Open
  <2>2. /\ live # {} => mode = "agent"
        /\ \A p \in open : mode = kindOf[p]
    BY <1>1 DEF PlanInv, StoreInv, ActiveInAgentMode, OpenInItsMode, Open
  <2> HIDE DEF open, live
  <2>3. Cardinality(open \cup live) <= 1
    <3>1. CASE open \cup live = {}
      BY <3>1, FS_EmptySet
    <3>2. CASE open \cup live # {}
      <4>1. PICK p : p \in open \cup live
        BY <3>2
      <4>2. open \cup live = {p}
        BY <2>1, <4>1
      <4>3. Cardinality({p}) = 1
        BY FS_Singleton
      <4> QED
        BY <4>2, <4>3
    <3> QED
      BY <3>1, <3>2
  <2> QED
    BY <2>2, <2>3 DEF OneContract, open, live
<1> QED
  BY <1>1, PlanInvariant, PTL

-----------------------------------------------------------------------------
(* What the user may rely on: PlanContract *)

\* A run as the contract sees it.
ContractRun(p) == IF runs[p] > 1 THEN "again" ELSE RunOf(p)

\* Nothing the contract speaks of changes.
LEMMA ContractRests ==
  ASSUME \A p \in Proposals : /\ Decision(p)' = Decision(p) /\ Record(p)' = Record(p)
                              /\ ContractRun(p)' = ContractRun(p)
  PROVE  UNCHANGED Contract!contractVars
  BY DEF Contract!contractVars, ContractRun

\* Its actions, from what happens to each proposal.
LEMMA ContractCloses ==
  ASSUME NEW refused \in SUBSET Proposals, NEW interrupted \in SUBSET Proposals,
         \A p \in refused : Decision(p) = "open",
         \A p \in interrupted : Decision(p) = "approved" /\ Record(p) = "open",
         \A p \in Proposals :
           /\ Decision(p)' = IF p \in refused THEN "refused" ELSE Decision(p)
           /\ Record(p)' = IF p \in interrupted THEN "interrupted" ELSE Record(p)
           /\ ContractRun(p)' = ContractRun(p)
  PROVE  Contract!Next
<1>1. Contract!Close(refused, interrupted)
  BY DEF Contract!Close, ContractRun
<1> QED
  BY <1>1 DEF Contract!Next

\* A proposal is made while none is open.
LEMMA ContractProposes ==
  ASSUME NEW p \in Proposals, Decision(p) = "none", \A q \in Proposals : Decision(q) # "open",
         \A q \in Proposals : /\ Decision(q)' = IF q = p THEN "open" ELSE Decision(q)
                              /\ Record(q)' = Record(q) /\ ContractRun(q)' = ContractRun(q)
  PROVE  Contract!Next
<1>1. Contract!Propose(p)
  BY DEF Contract!Propose, ContractRun
<1> QED
  BY <1>1 DEF Contract!Next

\* The open proposal is approved while no record is open.
LEMMA ContractApproves ==
  ASSUME NEW p \in Proposals, Decision(p) = "open",
         \A q \in Proposals : Decision(q) = "approved" => Record(q) # "open",
         \A q \in Proposals : /\ Decision(q)' = IF q = p THEN "approved" ELSE Decision(q)
                              /\ Record(q)' = Record(q) /\ ContractRun(q)' = ContractRun(q)
  PROVE  Contract!Next
<1>1. Contract!Approve(p)
  BY DEF Contract!Approve, ContractRun
<1> QED
  BY <1>1 DEF Contract!Next

\* The record of a completed run says so.
LEMMA ContractCompletes ==
  ASSUME NEW p \in Proposals, Record(p) = "open", ContractRun(p) = "completed",
         \A q \in Proposals : /\ Record(q)' = IF q = p THEN "completed" ELSE Record(q)
                              /\ Decision(q)' = Decision(q) /\ ContractRun(q)' = ContractRun(q)
  PROVE  Contract!Next
<1>1. Contract!Complete(p)
  BY DEF Contract!Complete, ContractRun
<1> QED
  BY <1>1 DEF Contract!Next

\* An approved execution starts while none is going on.
LEMMA ContractStarts ==
  ASSUME NEW p \in Proposals, Decision(p) = "approved", ContractRun(p) = "no",
         \A q \in Proposals : ContractRun(q) # "started",
         \A q \in Proposals : /\ ContractRun(q)' = IF q = p THEN "started" ELSE ContractRun(q)
                              /\ Decision(q)' = Decision(q) /\ Record(q)' = Record(q)
  PROVE  Contract!Next
<1>1. Contract!Start(p)
  BY DEF Contract!Start, ContractRun
<1> QED
  BY <1>1 DEF Contract!Next

\* The run that goes on stops.
LEMMA ContractStops ==
  ASSUME NEW p \in Proposals, NEW end \in Reasons, ContractRun(p) = "started",
         \A q \in Proposals : /\ ContractRun(q)' = IF q = p THEN end ELSE ContractRun(q)
                              /\ Decision(q)' = Decision(q) /\ Record(q)' = Record(q)
  PROVE  Contract!Next
<1>1. Contract!Stop(p, end)
  BY DEF Contract!Stop, ContractRun
<1>2. end \in Contract!Ends
  BY DEF Contract!Ends, Reasons
<1> QED
  BY <1>1, <1>2 DEF Contract!Next

\* The decision that a status stands for.
LEMMA DecisionIs ==
  ASSUME NEW p
  PROVE  /\ proposal[p] = "none" => Decision(p) = "none"
         /\ proposal[p] = "approved" => Decision(p) = "approved"
         /\ proposal[p] = "pending" => Decision(p) = "open"
         /\ proposal[p] \notin {"none", "approved", "pending"} => Decision(p) = "refused"
  BY DEF Decision

\* The rows of host-core keep the contract.
LEMMA RowsKeepContract ==
  ASSUME PlanInv, StoreStep, runs' = runs, ranAs' = ranAs
  PROVE  Contract!Next \/ UNCHANGED Contract!contractVars
<1>1. TypeOK /\ StoreTypeOK /\ StoreInv /\ RunInv
  BY DEF PlanInv, TypeOK
<1>2. /\ proposal \in [Proposals -> ProposalStates] /\ exec \in [Proposals -> ExecStates]
  BY <1>1 DEF StoreTypeOK
<1>3. \A p \in Proposals : ContractRun(p)' = ContractRun(p)
  BY DEF ContractRun, RunOf
<1>4. ASSUME exec' = exec, \A p \in Proposals : Decision(p)' = Decision(p)
      PROVE  UNCHANGED Contract!contractVars
  BY <1>3, <1>4, ContractRests DEF Record
<1>5. CASE BeginTurn \/ (ending # None /\ EndTurn(ending.turn))
  BY <1>4, <1>5 DEF BeginTurn, EndTurn, Decision
<1>6. ASSUME proposal' = Fresh, exec' = exec
      PROVE  UNCHANGED Contract!contractVars
  <2>1. \A p \in Proposals : /\ proposal[p] = "overdue" => proposal'[p] = "expired"
                             /\ proposal[p] # "overdue" => proposal'[p] = proposal[p]
    BY <1>1, <1>6, FreshRows
  <2>2. \A p \in Proposals : Decision(p)' = Decision(p)
    BY <2>1 DEF Decision
  <2> QED
    BY <1>4, <1>6, <2>2
<1>7. ASSUME NEW refused \in SUBSET Proposals, exec' = exec,
             \A p \in refused : proposal[p] = "pending",
             \A p \in Proposals : Decision(p)' = IF p \in refused THEN "refused" ELSE Decision(p)
      PROVE  Contract!Next
  <2>1. {} \in SUBSET Proposals /\ \A p \in {} : Decision(p) = "approved" /\ Record(p) = "open"
    OBVIOUS
  <2>2. \A p \in Proposals : Record(p)' = IF p \in {} THEN "interrupted" ELSE Record(p)
    BY <1>7 DEF Record
  <2>3. \A p \in refused : Decision(p) = "open"
    BY <1>7, DecisionIs
  <2> QED
    BY <1>3, <1>7, <2>1, <2>2, <2>3, ContractCloses
<1>8. ASSUME NEW p \in Proposals, Reject(p)
      PROVE  Contract!Next
  <2>1. /\ proposal[p] = "pending" /\ exec' = exec
        /\ proposal' = [Fresh EXCEPT ![p] = "rejected"]
    BY <1>1, <1>8, FreshRows DEF Reject
  <2>2. \A q \in Proposals : /\ q = p => proposal'[q] = "rejected"
                             /\ q # p => proposal'[q] = Fresh[q]
    BY <1>1, <2>1, FreshRows
  <2>3. \A q \in Proposals : Decision(q)' = IF q \in {p} THEN "refused" ELSE Decision(q)
    BY <1>1, <2>1, <2>2, FreshRows DEF Decision
  <2> QED
    BY <1>7, <2>1, <2>3
<1>9. ASSUME NEW p \in Proposals, Deadline(p)
      PROVE  Contract!Next
  <2>1. proposal[p] = "pending" /\ exec' = exec /\ proposal' = [proposal EXCEPT ![p] = "overdue"]
    BY <1>9 DEF Deadline
  <2>2. \A q \in Proposals : Decision(q)' = IF q \in {p} THEN "refused" ELSE Decision(q)
    BY <1>2, <2>1 DEF Decision
  <2> QED
    BY <1>7, <2>1, <2>2
<1>10. CASE AbortPending
  <2> DEFINE refused == {p \in Proposals : proposal[p] = "pending"}
  <2>1. /\ exec' = exec
        /\ proposal' = [p \in Proposals |-> IF proposal[p] = "pending" THEN "interrupted" ELSE Fresh[p]]
    BY <1>1, <1>10, FreshRows DEF AbortPending
  <2>2. \A p \in Proposals : Decision(p)' = IF p \in refused THEN "refused" ELSE Decision(p)
    <3> TAKE p \in Proposals
    <3>1. /\ proposal[p] = "pending" => proposal'[p] = "interrupted"
          /\ proposal[p] = "overdue" => proposal'[p] = "expired"
          /\ proposal[p] \notin {"pending", "overdue"} => proposal'[p] = proposal[p]
      BY <1>1, <2>1, FreshRows
    <3> QED
      BY <3>1 DEF Decision
  <2> QED
    BY <1>7, <2>1, <2>2
<1>11. ASSUME NEW t, NEW k \in Kinds, Submit(t, k)
       PROVE  Contract!Next
  <2>1. PICK p \in Proposals : p = Cardinality({q \in Proposals : proposal[q] # "none"}) + 1
    BY <1>11 DEF Submit
  <2>2. proposal' = [Fresh EXCEPT ![p] = "pending"] /\ exec' = exec /\ ~HasPending
    BY <1>11, <2>1 DEF Submit
  <2>3. proposal[p] = "none"
    BY <1>1, <2>1, SubmittedIsNew DEF StoreInv
  <2>4. \A q \in Proposals : proposal[q] # "pending"
    BY <1>1, <2>2, FreshRows DEF HasPending
  <2>5. \A q \in Proposals : /\ q = p => proposal'[q] = "pending"
                             /\ q # p => proposal'[q] = Fresh[q]
    BY <1>1, <2>2, FreshRows
  <2>6. \A q \in Proposals : /\ Decision(q)' = IF q = p THEN "open" ELSE Decision(q)
                             /\ Record(q)' = Record(q)
    BY <1>1, <2>2, <2>5, FreshRows DEF Decision, Record
  <2>7. Decision(p) = "none" /\ \A q \in Proposals : Decision(q) # "open"
    BY <2>3, <2>4, DecisionIs
  <2> QED
    BY <1>3, <2>6, <2>7, ContractProposes
<1>12. ASSUME NEW p \in Proposals, Approve(p)
       PROVE  Contract!Next
  <2>1. /\ proposal[p] = "pending" /\ ~ExecutionActive
        /\ proposal' = [Fresh EXCEPT ![p] = "approved"] /\ exec' = [exec EXCEPT ![p] = "queued"]
    BY <1>1, <1>12, FreshRows DEF Approve, Approvable
  <2>2. \A q \in Proposals : Decision(q) = "approved" => Record(q) # "open"
    <3> SUFFICES ASSUME NEW q \in Proposals, Decision(q) = "approved"
                 PROVE  Record(q) # "open"
      OBVIOUS
    <3>1. proposal[q] = "approved"
      BY DecisionIs
    <3>2. exec[q] # "none" /\ ~Active(q)
      BY <1>1, <2>1, <3>1 DEF StoreInv, ApprovedIsExecuted, ExecutionActive
    <3> QED
      BY <1>2, <3>2 DEF Record, Active, ExecStates
  <2>3. exec[p] = "none"
    BY <1>1, <2>1 DEF StoreInv, ApprovedIsExecuted
  <2>4. \A q \in Proposals : /\ q = p => proposal'[q] = "approved" /\ exec'[q] = "queued"
                             /\ q # p => proposal'[q] = Fresh[q] /\ exec'[q] = exec[q]
    BY <1>1, <1>2, <2>1, FreshRows
  <2>5. \A q \in Proposals : /\ Decision(q)' = IF q = p THEN "approved" ELSE Decision(q)
                             /\ Record(q)' = Record(q)
    BY <1>1, <2>3, <2>4, FreshRows DEF Decision, Record
  <2>6. Decision(p) = "open"
    BY <2>1, DecisionIs
  <2> QED
    BY <1>3, <2>2, <2>5, <2>6, ContractApproves
<1>13. ASSUME NEW p \in Proposals, Claim(p)
       PROVE  UNCHANGED Contract!contractVars
  <2>1. proposal' = proposal /\ exec[p] = "queued" /\ exec' = [exec EXCEPT ![p] = "running"]
    BY <1>13 DEF Claim
  <2>2. \A q \in Proposals : Decision(q)' = Decision(q) /\ Record(q)' = Record(q)
    BY <1>2, <2>1 DEF Decision, Record
  <2> QED
    BY <1>3, <2>2, ContractRests
<1>14. ASSUME NEW p \in Proposals, finishing[p] = "sent", Finish(p, outcome[p])
       PROVE  Contract!Next \/ UNCHANGED Contract!contractVars
  <2>1. proposal' = proposal /\ \A q \in Proposals : Decision(q)' = Decision(q)
    BY <1>14 DEF Finish, Decision
  <2>2. CASE ~Active(p)
    <3>1. exec' = exec
      BY <1>14, <2>2 DEF Finish, Finishable
    <3> QED
      BY <1>4, <2>1, <3>1
  <2>3. CASE Active(p)
    <3>1. exec' = [exec EXCEPT ![p] = outcome[p]] /\ Record(p) = "open" /\ exec[p] # "none"
      BY <1>14, <2>3 DEF Finish, Finishable, Record, Active
    <3>2. outcome[p] \in {"completed", "interrupted"}
      BY <1>1, <1>14 DEF PlanInv, BookInv, FinishHasOutcome, TypeOK
    <3>3. \A q \in Proposals : Record(q)' = IF q = p THEN outcome[p] ELSE Record(q)
      BY <1>2, <3>1, <3>2 DEF Record
    <3>4. CASE outcome[p] = "completed"
      <4>1. runs[p] > 0 /\ ranAs[p] = "completed" /\ runs[p] <= 1 /\ runs[p] \in Nat
        BY <1>1, <3>4 DEF RunInv, CompletedIsTrue, RunsAtMostOnce, TypeOK
      <4>2. ContractRun(p) = "completed"
        BY <4>1 DEF ContractRun, RunOf
      <4> QED
        BY <1>3, <2>1, <3>1, <3>3, <3>4, <4>2, ContractCompletes
    <3>5. CASE outcome[p] = "interrupted"
      <4>1. Decision(p) = "approved"
        BY <1>1, <3>1, DecisionIs DEF StoreInv, ApprovedIsExecuted
      <4>2. /\ {} \in SUBSET Proposals /\ {p} \in SUBSET Proposals
            /\ \A q \in {p} : Decision(q) = "approved" /\ Record(q) = "open"
            /\ \A q \in Proposals : /\ Decision(q)' = IF q \in {} THEN "refused" ELSE Decision(q)
                                    /\ Record(q)' = IF q \in {p} THEN "interrupted" ELSE Record(q)
        BY <2>1, <3>1, <3>3, <3>5, <4>1
      <4> QED
        BY <1>3, <4>2, ContractCloses
    <3> QED
      BY <3>2, <3>4, <3>5
  <2> QED
    BY <2>2, <2>3
<1>15. CASE Sweep
  <2> DEFINE refused == {p \in Proposals : proposal[p] = "pending"}
             interrupted == {p \in Proposals : Active(p)}
  <2>1. \A p \in Proposals : /\ proposal[p] \in {"pending", "overdue"} => proposal'[p] = "interrupted"
                             /\ proposal[p] \notin {"pending", "overdue"} => proposal'[p] = proposal[p]
                             /\ Active(p) => exec'[p] = "interrupted"
                             /\ ~Active(p) => exec'[p] = exec[p]
    BY <1>15 DEF Sweep
  <2>2. \A p \in refused : Decision(p) = "open"
    BY DecisionIs
  <2>3. \A p \in interrupted : Decision(p) = "approved" /\ Record(p) = "open"
    BY <1>1, DecisionIs DEF StoreInv, ApprovedIsExecuted, Active, Record
  <2>4. \A p \in Proposals : Decision(p)' = IF p \in refused THEN "refused" ELSE Decision(p)
    BY <2>1 DEF Decision
  <2>5. \A p \in Proposals : Record(p)' = IF p \in interrupted THEN "interrupted" ELSE Record(p)
    BY <2>1 DEF Record, Active
  <2>6. refused \in SUBSET Proposals /\ interrupted \in SUBSET Proposals
    OBVIOUS
  <2> HIDE DEF refused, interrupted
  <2> QED
    BY <1>3, <2>2, <2>3, <2>4, <2>5, <2>6, ContractCloses
<1>16. CASE side # None /\ \E k \in Kinds : Enter(side.turn, k) \/ Submit(side.turn, k)
  BY <1>6, <1>11, <1>16 DEF Enter
<1>17. CASE \E p \in Proposals : Reject(p) \/ Approve(p) \/ Deadline(p)
  BY <1>8, <1>9, <1>12, <1>17
<1>18. CASE \/ proposal' = Fresh /\ UNCHANGED <<mode, kindOf, exec, dbTurn, turns>>
            \/ \E m \in {"agent"} \cup Kinds : Configure(m)
  BY <1>6, <1>18 DEF Configure
<1>19. CASE At("claim") /\ Claim(op.plan)
  <2>1. op.plan \in Proposals
    BY <1>1, <1>19, OpTyped DEF At, DispatchStages
  <2> QED
    BY <1>13, <1>19, <2>1
<1>20. CASE \E p \in Proposals : finishing[p] = "sent" /\ Finish(p, outcome[p])
  BY <1>14, <1>20
<1> QED
  BY <1>5, <1>10, <1>15, <1>16, <1>17, <1>18, <1>19, <1>20 DEF StoreStep

\* So does every step: an acceptance starts the run of an approved contract while
\* no run goes on, a release ends the run that goes on.
LEMMA StepKeepsContract ==
  ASSUME PlanInv, Next
  PROVE  Contract!Next \/ UNCHANGED Contract!contractVars
<1>1. TypeOK /\ StoreInv /\ BookInv /\ RunInv
  BY DEF PlanInv
<1>2. runs \in [Proposals -> Nat] /\ ranAs \in [Proposals -> Reasons \cup {"no"}]
  BY <1>1 DEF TypeOK
<1>3. ASSUME UNCHANGED storeVars
      PROVE  \A p \in Proposals : Decision(p)' = Decision(p) /\ Record(p)' = Record(p)
  BY <1>3 DEF storeVars, Decision, Record
<1>4. CASE SidecarAccepts
  <2>1. PICK p \in Proposals : p = op.plan
    BY <1>4, AcceptedRun
  <2>2. /\ runs[p] = 0 /\ ranAs[p] = "no" /\ runs' = [runs EXCEPT ![p] = 1] /\ ranAs' = ranAs
        /\ UNCHANGED storeVars
        /\ op # None /\ op.at = "accept" /\ current = p
    BY <1>4, <2>1, AcceptedRun
  <2>3. Decision(p) = "approved"
    <3>1. exec[p] # "none"
      BY <1>1, <2>1, <2>2 DEF BookInv, StageWasClaimed, AtOneOf, Claimed, DispatchStages
    <3> QED
      BY <1>1, <3>1, DecisionIs DEF StoreInv, ApprovedIsExecuted
  <2>4. ContractRun(p) = "no"
    BY <2>2 DEF ContractRun, RunOf
  <2>5. \A q \in Proposals : ContractRun(q) # "started"
    <3> SUFFICES ASSUME NEW q \in Proposals, ContractRun(q) = "started"
                 PROVE  FALSE
      OBVIOUS
    <3>1. Going(q)
      BY <1>2 DEF ContractRun, RunOf, Going, Reasons
    <3>2. current = q /\ runs[q] > 0
      BY <1>1, <3>1 DEF RunInv, GoingOwns, Going
    <3> QED
      BY <2>2, <3>2
  <2>6. \A q \in Proposals : ContractRun(q)' = IF q = p THEN "started" ELSE ContractRun(q)
    BY <1>2, <2>2 DEF ContractRun, RunOf
  <2> QED
    BY <1>3, <2>2, <2>3, <2>4, <2>5, <2>6, ContractStarts
<1>5. CASE Releases /\ runs' = runs /\ ranAs' # ranAs
  <2>1. PICK p \in Proposals : p = current
    BY <1>5 DEF Releases
  <2>2. /\ turnOf[p] = owner /\ owner # None /\ ranAs' = [ranAs EXCEPT ![p] = ending.reason]
        /\ UNCHANGED storeVars
    BY <1>5, <2>1 DEF Releases
  <2>3. PICK end \in Reasons : end = ending.reason
    BY <1>1, <1>5 DEF Releases, TypeOK, EndingRecords
  <2>4. ranAs[p] = "no" /\ end # "no"
    BY <1>1, <2>2 DEF RunInv, EndedIsNotOwner, Reasons
  <2>5. \A q \in Proposals : ranAs'[q] = IF q = p THEN end ELSE ranAs[q]
    BY <1>2, <2>2, <2>3
  <2>6. runs[p] \in {0, 1}
    BY <1>1, <1>2 DEF RunInv, RunsAtMostOnce
  <2>7. CASE runs[p] = 0
    <3>1. \A q \in Proposals : ContractRun(q)' = ContractRun(q)
      BY <1>5, <2>5, <2>7 DEF ContractRun, RunOf
    <3> QED
      BY <1>3, <2>2, <3>1, ContractRests
  <2>8. CASE runs[p] = 1
    <3>1. ContractRun(p) = "started"
      BY <2>4, <2>8 DEF ContractRun, RunOf
    <3>2. \A q \in Proposals : ContractRun(q)' = IF q = p THEN end ELSE ContractRun(q)
      BY <1>5, <2>4, <2>5, <2>8 DEF ContractRun, RunOf
    <3> QED
      BY <1>3, <2>2, <3>1, <3>2, ContractStops
  <2> QED
    BY <2>6, <2>7, <2>8
<1>6. CASE runs' = runs /\ ranAs' = ranAs
  <2>1. CASE UNCHANGED storeVars
    <3>1. \A p \in Proposals : ContractRun(p)' = ContractRun(p)
      BY <1>6 DEF ContractRun, RunOf
    <3> QED
      BY <1>3, <2>1, <3>1, ContractRests
  <2>2. CASE StoreStep
    BY <1>6, <2>2, RowsKeepContract
  <2> QED
    BY <2>1, <2>2, StoreFrame
<1>7. Releases => runs' = runs
  BY DEF Releases
<1> QED
  BY <1>4, <1>5, <1>6, <1>7, RunFrame, EndingIsReleased

\* At the beginning nothing is proposed, run or recorded.
LEMMA InitKeepsContract ==
  ASSUME Init
  PROVE  Contract!Init
<1>1. \A p \in Proposals : Decision(p) = "none" /\ Record(p) = "open" /\ RunOf(p) = "no" /\ ~(runs[p] > 1)
  BY DEF Init, StoreInit, Decision, Record, RunOf
<1> QED
  BY <1>1 DEF Contract!Init

\* The headless Host keeps the contract with its user (module PlanContract),
\* whatever crashes, is refused, aborted or answered late: an approved plan is run
\* at most once, one at a time, nothing else is run, and the record is true.
THEOREM ContractKept == Spec => KeepsContract
<1>1. PlanInv /\ [Next]_vars => [Contract!Next]_(Contract!contractVars)
  <2>1. SUFFICES ASSUME PlanInv, [Next]_vars
                 PROVE  Contract!Next \/ UNCHANGED Contract!contractVars
    OBVIOUS
  <2>2. CASE Next
    BY <2>1, <2>2, StepKeepsContract
  <2>3. CASE UNCHANGED vars
    <3>1. \A p \in Proposals : /\ Decision(p)' = Decision(p) /\ Record(p)' = Record(p)
                               /\ ContractRun(p)' = ContractRun(p)
      BY <2>3 DEF vars, storeVars, ghostVars, Decision, Record, ContractRun, RunOf
    <3> QED
      BY <3>1, ContractRests
  <2> QED
    BY <2>1, <2>2, <2>3
<1>2. Init => Contract!Init
  BY InitKeepsContract
<1> QED
  BY <1>1, <1>2, PlanInvariant, PTL DEF Spec, KeepsContract, Contract!Spec


-----------------------------------------------------------------------------
(* A running row is owned *)

InItsTurn(p) == current = p /\ turnOf[p] = owner /\ owner # None
Closed(p) == Claimed(p) /\ ~Active(p)

\* An answered or a finished execution is closed; a dispatch that starts over or
\* waits for the failure to settle has an outcome on its way to the row; one that
\* was accepted has that, or the turn it runs in.
AnsweredIsClosed == \A p \in Proposals : finishing[p] \in {"accepted", "refused"} => Closed(p)
FinishedIsClosed == \A p \in finished : Closed(p)
LateRowIsDelivered ==
  AtOneOf({"claim", "settle"}) /\ HostUp /\ exec[op.plan] = "running" => finishing[op.plan] = "sent"
AcceptedRowIsOwned ==
  At("accepted") /\ HostUp /\ exec[op.plan] = "running" =>
    InItsTurn(op.plan) \/ finishing[op.plan] = "sent"

CloseInv ==
  /\ AnsweredIsClosed /\ FinishedIsClosed /\ LateRowIsDelivered /\ AcceptedRowIsOwned
  /\ RunningIsOwned

\* A closed row stays closed.
LEMMA ClosedStays ==
  ASSUME PlanInv, Next, NEW p \in Proposals, Closed(p)
  PROVE  Closed(p)'
<1>1. TypeOK /\ StoreInv /\ BookInv /\ exec \in [Proposals -> ExecStates]
  BY DEF PlanInv, TypeOK, StoreTypeOK
<1>2. exec[p] \in {"completed", "interrupted"}
  BY <1>1 DEF Closed, Claimed, Active, ExecStates
<1>3. CASE exec' = exec
  BY <1>2, <1>3 DEF Closed, Claimed, Active
<1>4. CASE ClaimServed
  <2>1. op.plan \in Proposals
    BY <1>1, <1>4, OpTyped DEF ClaimServed, At, DispatchStages
  <2>2. exec' = exec \/ (op.plan # p /\ exec' = [exec EXCEPT ![op.plan] = "running"])
    BY <1>2, <1>4 DEF ClaimServed, Claim, storeVars
  <2> QED
    BY <1>1, <1>2, <2>1, <2>2 DEF Closed, Claimed, Active
<1>5. CASE HostRestarts
  BY <1>2, <1>5 DEF HostRestarts, Sweep, Closed, Claimed, Active
<1>6. CASE \E q \in Proposals : FinishServed(q)
  <2>1. PICK q \in Proposals : Finish(q, outcome[q])
    BY <1>6 DEF FinishServed
  <2>2. exec' = exec \/ (q # p /\ exec' = [exec EXCEPT ![q] = outcome[q]])
    BY <1>2, <2>1 DEF Finish, Finishable, Active
  <2> QED
    BY <1>1, <1>2, <2>2 DEF Closed, Claimed, Active
<1>7. CASE \E q \in Proposals : ResolvesContract(q)
  <2>1. CASE exec' = exec
    BY <1>3, <2>1
  <2>2. CASE \E q \in Proposals : Approve(q)
    <3>1. PICK q \in Proposals : Approve(q)
      BY <2>2
    <3>2. proposal[q] = "pending" /\ exec' = [exec EXCEPT ![q] = "queued"]
      BY <1>1, <3>1, FreshRows DEF Approve, Approvable, TypeOK
    <3>3. q # p
      BY <1>1, <1>2, <3>2 DEF StoreInv, ApprovedIsExecuted
    <3> QED
      BY <1>1, <1>2, <3>2, <3>3 DEF Closed, Claimed, Active
  <2> QED
    BY <1>7, <2>1, <2>2 DEF ResolvesContract, Reject, storeVars
<1> QED
  BY <1>3, <1>4, <1>5, <1>6, <1>7, ExecutionFrame

\* A delivered outcome closes its row.
LEMMA ServedCloses ==
  ASSUME PlanInv, NEW p \in Proposals, FinishServed(p)
  PROVE  /\ finishing[p] = "sent" /\ Closed(p)'
         /\ \A q \in Proposals : q # p => finishing'[q] = finishing[q]
<1>1. /\ finishing[p] = "sent" /\ exec \in [Proposals -> ExecStates]
      /\ Finish(p, outcome[p]) /\ outcome[p] \in {"completed", "interrupted"} /\ Claimed(p)
      /\ finishing \in [Proposals -> {"no", "sent", "accepted", "refused"}]
  BY DEF FinishServed, PlanInv, BookInv, FinishHasOutcome, OutcomeWasClaimed, TypeOK, StoreTypeOK
<1>2. Closed(p)'
  <2>1. CASE Active(p)
    <3>1. exec'[p] = outcome[p]
      BY <1>1, <2>1 DEF Finish, Finishable
    <3> QED
      BY <1>1, <3>1 DEF Closed, Claimed, Active
  <2>2. CASE ~Active(p)
    BY <1>1, <2>2 DEF Finish, Finishable, Closed, Claimed, Active
  <2> QED
    BY <2>1, <2>2
<1>3. \A q \in Proposals : q # p => finishing'[q] = finishing[q]
  BY <1>1 DEF FinishServed
<1> QED
  BY <1>1, <1>2, <1>3

\* How the call that delivers an outcome goes on.
LEMMA FinishingMoves ==
  ASSUME PlanInv, Next, NEW p \in Proposals
  PROVE  \/ finishing'[p] = finishing[p]
         \/ HostCrashes /\ finishing'[p] = "no"
         \/ finishing[p] = "sent" /\ Closed(p)'
         \/ finishing[p] \in {"accepted", "refused"} /\ FinishAnswered(p) /\ finishing'[p] = "no"
         \/ finishing[p] = "no" /\ finishing'[p] = "sent"
<1>1. TypeOK /\ finishing \in [Proposals -> {"no", "sent", "accepted", "refused"}]
  BY DEF PlanInv, TypeOK
<1>2. ASSUME NEW q \in Proposals, NEW result \in {"completed", "interrupted"}, FinishExecution(q, result)
      PROVE  finishing'[p] = finishing[p] \/ (finishing[p] = "no" /\ finishing'[p] = "sent")
  <2>1. CASE p # q
    BY <1>1, <1>2, <2>1, FinishTyped
  <2>2. CASE p = q
    BY <1>1, <1>2, <2>2, FinishTyped DEF FinishIgnored
  <2> QED
    BY <2>1, <2>2
<1>3. CASE Releases
  <2>1. CASE UNCHANGED <<outcome, finishing, ranAs>>
    BY <2>1
  <2>2. CASE current \in Proposals /\ \E result \in {"completed", "interrupted"} : FinishExecution(current, result)
    BY <1>2, <2>2
  <2> QED
    BY <1>3, <2>1, <2>2 DEF Releases
<1>4. CASE FailsExecution
  <2>1. op.plan \in Proposals /\ FinishExecution(op.plan, "interrupted")
    BY <1>1, <1>4, OpTyped DEF FailsExecution, At, DispatchStages
  <2> QED
    BY <1>2, <2>1
<1>5. CASE DrainRetries
  BY <1>1, <1>5 DEF DrainRetries, Undelivered, FinishIgnored
<1>6. CASE HostCrashes
  BY <1>6 DEF HostCrashes
<1>7. CASE \E q \in Proposals : FinishServed(q)
  BY <1>7, ServedCloses
<1>8. CASE \E q \in Proposals : FinishAnswered(q)
  <2>1. PICK q \in Proposals : FinishAnswered(q)
    BY <1>8
  <2>2. finishing' = [finishing EXCEPT ![q] = "no"] /\ finishing[q] \in {"accepted", "refused"}
    BY <2>1 DEF FinishAnswered
  <2> QED
    BY <1>1, <2>1, <2>2
<1> QED
  BY <1>3, <1>4, <1>5, <1>6, <1>7, <1>8, BookFrame, EndingIsReleased

\* A row runs after a step of a host that is up: it ran before, or it was claimed.
LEMMA RunningMoves ==
  ASSUME PlanInv, Next, HostUp', NEW p \in Proposals, exec'[p] = "running"
  PROVE  /\ HostUp /\ ~HostCrashes /\ ~Closed(p)
         /\ \/ exec[p] = "running"
            \/ ClaimServed /\ At("claim") /\ op' # None /\ op'.at = "claimed" /\ op'.plan = p
<1>1. TypeOK /\ StoreInv /\ BookInv /\ exec \in [Proposals -> ExecStates] /\ op \in {None} \cup Operations
  BY DEF PlanInv, TypeOK, StoreTypeOK
<1>2. ~HostRestarts
  BY <1>1 DEF HostRestarts, Sweep, Active
<1>3. ~HostCrashes
  BY DEF HostCrashes, HostUp
<1>4. HostUp
  BY <1>2, <1>3, ProcessFrame DEF HostUp
<1>5. ~Closed(p)
  BY ClosedStays DEF Closed, Active
<1>6. SUFFICES \/ exec[p] = "running"
               \/ ClaimServed /\ At("claim") /\ op' # None /\ op'.at = "claimed" /\ op'.plan = p
  BY <1>3, <1>4, <1>5
<1>7. CASE ClaimServed
  <2>1. At("claim") /\ op.plan \in Proposals
    BY <1>1, <1>7, OpTyped DEF ClaimServed, At, DispatchStages
  <2>2. CASE exec' = exec
    BY <2>2
  <2>3. CASE Claim(op.plan) /\ GoTo("claimed")
    <3>1. op' # None /\ op'.at = "claimed" /\ op'.plan = op.plan
      BY <1>1, <2>1, <2>3, GoToMoves DEF At, DispatchStages, Moves
    <3> QED
      BY <1>1, <1>7, <2>1, <2>3, <3>1 DEF Claim
  <2> QED
    BY <1>7, <2>2, <2>3 DEF ClaimServed, storeVars
<1>8. CASE \E q \in Proposals : FinishServed(q)
  <2>1. PICK q \in Proposals : FinishServed(q)
    BY <1>8
  <2>2. Closed(q)' /\ Finish(q, outcome[q])
    BY <2>1, ServedCloses DEF FinishServed
  <2>3. q # p
    BY <2>2 DEF Closed, Active
  <2> QED
    BY <1>1, <2>2, <2>3 DEF Finish
<1>9. CASE \E q \in Proposals : ResolvesContract(q)
  <2>1. exec' = exec \/ \E q \in Proposals : exec' = [exec EXCEPT ![q] = "queued"]
    BY <1>9 DEF ResolvesContract, Reject, Approve, storeVars
  <2> QED
    BY <1>1, <2>1
<1> QED
  BY <1>2, <1>3, <1>4, <1>5, <1>7, <1>8, <1>9, ExecutionFrame

\* An outcome on its way to a row that stays running stays on its way.
LEMMA DeliveryGoesOn ==
  ASSUME PlanInv, CloseInv, Next, HostUp', NEW p \in Proposals, exec'[p] = "running",
         finishing[p] = "sent"
  PROVE  finishing'[p] = "sent"
<1>1. ~HostCrashes
  BY RunningMoves
<1>2. ~Closed(p)'
  BY DEF Closed, Active
<1> QED
  BY <1>1, <1>2, FinishingMoves

\* The turn of a running row is over only when its outcome is on its way.
LEMMA TurnKeepsRow ==
  ASSUME PlanInv, CloseInv, Next, HostUp', NEW p \in Proposals, exec'[p] = "running", InItsTurn(p)
  PROVE  InItsTurn(p)' \/ finishing'[p] = "sent"
<1>1. HostUp /\ ~Closed(p)
  BY RunningMoves
<1>2. current = p /\ turnOf[p] = owner /\ owner # None /\ p # None
  BY NoneIsNoTurn DEF InItsTurn
<1>3. TypeOK /\ finishing[p] \in {"no", "sent"} /\ p \notin finished
  BY <1>1 DEF PlanInv, TypeOK, CloseInv, AnsweredIsClosed, FinishedIsClosed
<1>4. CASE Releases
  <2>1. FinishExecution(p, ResultOf(ending.reason)) /\ ResultOf(ending.reason) \in {"completed", "interrupted"}
    BY <1>2, <1>4 DEF Releases, ResultOf
  <2>2. CASE FinishIgnored(p)
    <3>1. finishing' = finishing
      BY <2>1, <2>2 DEF FinishExecution
    <3> QED
      BY <1>3, <2>2, <3>1 DEF FinishIgnored
  <2>3. CASE ~FinishIgnored(p)
    BY <1>1, <1>3, <2>1, <2>3, FinishTyped
  <2> QED
    BY <2>2, <2>3
<1>5. CASE ~Releases
  <2>1. owner' = owner /\ ~Opens
    BY <1>2, <1>5, OwnerFrame, BeginsOnlyWhenFree DEF Opens
  <2>2. current' = p /\ turnOf'[p] = turnOf[p]
    <3>1. CASE \E q \in Proposals : Answers(q)
      <4>1. PICK q \in Proposals : Answers(q)
        BY <3>1
      <4>2. q # p
        BY <1>3, <4>1 DEF Answers, FinishAnswered
      <4> QED
        BY <1>2, <1>3, <4>1, <4>2 DEF Answers, TypeOK
    <3>2. CASE UNCHANGED <<current, turnOf>>
      BY <1>2, <3>2
    <3> QED
      BY <2>1, <3>1, <3>2, BooksMove
  <2> QED
    BY <1>2, <2>1, <2>2 DEF InItsTurn
<1> QED
  BY <1>4, <1>5

\* The operation of a running row gives it up only when somebody else has it.
LEMMA OperationKeepsRow ==
  ASSUME PlanInv, CloseInv, Next, HostUp', NEW p \in Proposals, exec[p] = "running", exec'[p] = "running",
         op # None, op.plan = p
  PROVE  (op' # None /\ op'.plan = p) \/ InItsTurn(p)' \/ finishing'[p] = "sent"
<1>1. HostUp /\ ~HostCrashes /\ ~Closed(p) /\ TypeOK
  BY RunningMoves DEF PlanInv
<1>2. op.at \in DispatchStages
  BY <1>1, OpTyped, NoneIsNoTurn
<1>3. finishing[p] \in {"no", "sent"} /\ p \notin finished
  BY <1>1 DEF TypeOK, CloseInv, AnsweredIsClosed, FinishedIsClosed
<1>4. CASE OpEnds
  <2>1. CASE op.at \in {"claim", "settle"}
    <3>1. finishing[p] = "sent"
      BY <1>1, <2>1 DEF CloseInv, LateRowIsDelivered, AtOneOf
    <3> QED
      BY <3>1, DeliveryGoesOn
  <2>2. CASE AcceptanceAnswered /\ At("accepted")
    <3>1. InItsTurn(p) \/ finishing[p] = "sent"
      BY <1>1, <2>2 DEF CloseInv, AcceptedRowIsOwned
    <3> QED
      BY <3>1, DeliveryGoesOn, TurnKeepsRow
  <2>3. CASE FailsExecution /\ FinishIgnored(p)
    <3>1. finishing[p] = "sent"
      BY <1>3, <2>3 DEF FinishIgnored
    <3> QED
      BY <3>1, DeliveryGoesOn
  <2>4. ~At("ended")
    BY <1>2 DEF At, DispatchStages
  <2> QED
    BY <1>1, <1>4, <2>1, <2>2, <2>3, <2>4 DEF OpEnds, At
<1>5. CASE OpStays
  BY <1>5 DEF OpStays
<1>6. CASE DispatchMoves
  BY <1>6 DEF DispatchMoves, Moves
<1>7. ~AbortMoves
  BY <1>2 DEF AbortMoves, Moves, DispatchStages
<1> QED
  BY <1>1, <1>4, <1>5, <1>6, <1>7, OpFrame

\* Every running row keeps an owner.
LEMMA RunningOwnedNext ==
  ASSUME PlanInv, CloseInv, Next
  PROVE  RunningIsOwned'
<1>1. SUFFICES ASSUME NEW p \in Proposals, HostUp', exec'[p] = "running"
               PROVE  \/ op' # None /\ op'.plan = p
                      \/ InItsTurn(p)'
                      \/ finishing'[p] \in {"sent", "refused"}
  BY DEF RunningIsOwned, InItsTurn
<1>2. HostUp /\ ~Closed(p)
  BY <1>1, RunningMoves
<1>3. CASE exec[p] = "running"
  <2>1. \/ op # None /\ op.plan = p
        \/ InItsTurn(p)
        \/ finishing[p] = "sent"
    BY <1>2, <1>3 DEF CloseInv, RunningIsOwned, InItsTurn, AnsweredIsClosed
  <2> QED
    BY <1>1, <1>3, <2>1, DeliveryGoesOn, TurnKeepsRow, OperationKeepsRow
<1>4. CASE op' # None /\ op'.plan = p
  BY <1>4
<1> QED
  BY <1>1, <1>3, <1>4, RunningMoves

\* What was answered or finished is closed.
LEMMA ClosedNext ==
  ASSUME PlanInv, CloseInv, Next
  PROVE  AnsweredIsClosed' /\ FinishedIsClosed'
<1>1. AnsweredIsClosed'
  <2>1. SUFFICES ASSUME NEW p \in Proposals, finishing'[p] \in {"accepted", "refused"}
                 PROVE  Closed(p)'
    BY DEF AnsweredIsClosed
  <2>2. CASE finishing'[p] = finishing[p]
    BY <2>1, <2>2, ClosedStays DEF CloseInv, AnsweredIsClosed
  <2> QED
    BY <2>1, <2>2, FinishingMoves
<1>2. FinishedIsClosed'
  <2>1. SUFFICES ASSUME NEW p \in finished', p \in Proposals
                 PROVE  Closed(p)'
    BY TypeNext DEF FinishedIsClosed, TypeOK
  <2>2. CASE p \in finished
    BY <2>1, <2>2, ClosedStays DEF CloseInv, FinishedIsClosed
  <2>3. CASE FinishAnswered(p) /\ p \notin finished
    <3>1. finishing[p] = "accepted"
      BY <2>1, <2>3 DEF FinishAnswered
    <3> QED
      BY <2>1, <3>1, ClosedStays DEF CloseInv, AnsweredIsClosed
  <2>4. finished' = finished \/ \E q \in Proposals : FinishAnswered(q) /\ finished' \subseteq finished \cup {q}
    BY BookFrame DEF FinishAnswered
  <2> QED
    BY <2>1, <2>2, <2>3, <2>4
<1> QED
  BY <1>1, <1>2

\* A dispatch starts over a row that runs only while its outcome is on its way; a
\* failure waits for the outcome it has sent; an accepted execution has its turn.
LEMMA StageOwnsNext ==
  ASSUME PlanInv, CloseInv, Next
  PROVE  LateRowIsDelivered' /\ AcceptedRowIsOwned'
<1>1. TypeOK /\ BookInv
  BY DEF PlanInv
<1>2. LateRowIsDelivered'
  <2>1. SUFFICES ASSUME op' # None, op'.at \in {"claim", "settle"}, HostUp', exec'[op'.plan] = "running"
                 PROVE  finishing'[op'.plan] = "sent"
    BY DEF LateRowIsDelivered, AtOneOf, HostUp
  <2>2. op'.plan \in Proposals
    BY <2>1, OpFrame, <1>1 DEF Operations, DispatchStages, AbortStages
  <2>3. PICK p \in Proposals : p = op'.plan
    BY <2>2
  <2>4. HostUp /\ ~Closed(p) /\ exec[p] = "running"
    BY <2>1, <2>3, RunningMoves
  <2>5. CASE op # None /\ op.at = op'.at /\ op'.plan = op.plan
    <3>1. finishing[p] = "sent"
      BY <2>1, <2>3, <2>4, <2>5 DEF CloseInv, LateRowIsDelivered, AtOneOf
    <3> QED
      BY <2>1, <2>3, <3>1, DeliveryGoesOn
  <2>6. CASE op = None /\ DispatchStarts(p)
    <3>1. p \notin started \cup finished
      BY <2>1, <2>6 DEF DispatchStarts
    <3>2. ~InItsTurn(p)
      BY <1>1, <3>1, NoneIsNoTurn DEF BookInv, CurrentWasClaimed, InItsTurn
    <3>3. finishing[p] = "sent"
      BY <2>4, <2>6, <3>2 DEF CloseInv, RunningIsOwned, InItsTurn, AnsweredIsClosed
    <3> QED
      BY <2>1, <2>3, <3>3, DeliveryGoesOn
  <2>7. CASE DispatchMoves /\ op # None /\ op'.plan = op.plan
    <3>1. FailsExecution \/ (op'.at = op.at)
      BY <2>1, <2>7 DEF DispatchMoves, Moves
    <3>2. CASE FailsExecution
      <4>1. FinishExecution(p, "interrupted") /\ ~FinishIgnored(p)
        BY <2>1, <2>3, <2>7, <3>2 DEF FailsExecution
      <4> QED
        BY <1>1, <2>3, <2>4, <4>1, FinishTyped
    <3> QED
      BY <2>5, <2>7, <3>1, <3>2
  <2> QED
    BY <2>1, <2>3, <2>5, <2>6, <2>7, StageBefore DEF DispatchStages
<1>3. AcceptedRowIsOwned'
  <2>1. SUFFICES ASSUME op' # None, op'.at = "accepted", HostUp', exec'[op'.plan] = "running"
                 PROVE  \/ current' = op'.plan /\ turnOf'[op'.plan] = owner' /\ owner' # None
                        \/ finishing'[op'.plan] = "sent"
    BY DEF AcceptedRowIsOwned, At, HostUp, InItsTurn
  <2>2. op # None /\ op'.plan = op.plan /\ (op.at = "accepted" \/ SidecarAccepts)
    BY <2>1, StageBefore DEF DispatchStages, DispatchMoves, Moves
  <2>3. CASE SidecarAccepts
    BY <2>2, <2>3, AcceptedRun
  <2>4. CASE op.at = "accepted"
    <3>1. PICK p \in Proposals : p = op.plan
      BY <1>1, <2>2, <2>4, OpTyped DEF DispatchStages
    <3>2. HostUp /\ exec[p] = "running"
      BY <2>1, <2>2, <2>4, <3>1, RunningMoves DEF At
    <3>3. InItsTurn(p) \/ finishing[p] = "sent"
      BY <2>2, <2>4, <3>1, <3>2 DEF CloseInv, AcceptedRowIsOwned, At
    <3>4. InItsTurn(p)' \/ finishing'[p] = "sent"
      BY <2>1, <2>2, <3>1, <3>3, DeliveryGoesOn, TurnKeepsRow
    <3> QED
      BY <2>2, <3>1, <3>4 DEF InItsTurn
  <2> QED
    BY <2>2, <2>3, <2>4
<1> QED
  BY <1>2, <1>3

\* A row that says "running" always has somebody who will close it, while
\* host-core is up: nothing is claimed and then forgotten.
THEOREM RunningRowsAreOwned == Spec => []RunningIsOwned
<1>1. Init => CloseInv
  BY DEF Init, StoreInit, CloseInv, AnsweredIsClosed, FinishedIsClosed, LateRowIsDelivered,
         AcceptedRowIsOwned, RunningIsOwned, AtOneOf, At
<1>2. PlanInv /\ CloseInv /\ [Next]_vars => CloseInv'
  <2>1. ASSUME PlanInv, CloseInv, Next
        PROVE  CloseInv'
    BY <2>1, ClosedNext, StageOwnsNext, RunningOwnedNext DEF CloseInv
  <2>2. ASSUME CloseInv, UNCHANGED vars
        PROVE  CloseInv'
    BY <2>2 DEF vars, storeVars, processVars, turnVars, callVars, bookVars, ghostVars, CloseInv,
                AnsweredIsClosed, FinishedIsClosed, LateRowIsDelivered, AcceptedRowIsOwned,
                RunningIsOwned, AtOneOf, At, HostUp, InItsTurn, Closed, Claimed, Active
  <2> QED
    BY <2>1, <2>2
<1>3. CloseInv => RunningIsOwned
  BY DEF CloseInv
<1> QED
  BY <1>1, <1>2, <1>3, PlanInvariant, PTL DEF Spec

-----------------------------------------------------------------------------
(* A turn that is owned is alive *)

\* No sidecar is replaced while it is up; an accepted execution runs in a sidecar
\* that is up, or its end has begun; a dispatch that failed has given its turn up;
\* who waits for the end of a turn waits for one that has begun.
NoReplacement == sidecar # "again"
AcceptedIsUp == At("accepted") => SidecarUp
AcceptedRuns == At("accepted") /\ owner = op.turn => Running(owner) \/ ending # None
FailedIsFree == AtOneOf({"failExecution", "settle"}) /\ owner # None => op.turn # owner
WaitsForAnEnd == AtOneOf({"failing", "ended"}) /\ owner = op.turn => ending # None

AliveInv ==
  /\ NoReplacement /\ AcceptedIsUp /\ AcceptedRuns /\ FailedIsFree /\ WaitsForAnEnd
  /\ OwnedTurnIsAlive

\* The end of the owner's turn begins, and goes on until its release.
LEMMA EndingBegins ==
  ASSUME PlanInv, Next, NEW t \in Turns, NEW reason \in Reasons, FinishTurn(t, reason), owner = t
  PROVE  ending' # None
<1>1. TypeOK
  BY DEF PlanInv
<1> QED
  BY <1>1, FrozenEnding

\* An end that has begun goes on until its release.
LEMMA EndingGoesOn ==
  ASSUME PlanInv, Next, ending # None, ~Releases
  PROVE  ending' # None
<1>1. ~EndingReleases
  BY EndingIsReleased
<1> QED
  BY <1>1, EndingFrame DEF EndingMoves

\* An owner that stays is settled by nobody, and no turn opens.
LEMMA OwnerStays ==
  ASSUME PlanInv, Next, owner # None, owner' # None
  PROVE  owner' = owner /\ ~Releases /\ ~Prompt /\ ~Opens /\ owner \in Turns
<1>1. TypeOK
  BY DEF PlanInv
<1>2. ~Prompt
  BY <1>1, PromptOpens
<1>3. ~Opens
  BY BeginsOnlyWhenFree DEF Opens
<1>4. ~Releases
  BY DEF Releases
<1> QED
  BY <1>1, <1>2, <1>3, <1>4, OwnerFrame DEF TypeOK

\* The run of the owner's turn goes on, or its end begins, or the crash of the
\* sidecar is noticed.
LEMMA RunGoesOn ==
  ASSUME PlanInv, Next, NoReplacement, SidecarUp, owner # None, owner' # None, Running(owner)
  PROVE  \/ side' # None /\ side'.turn = owner /\ sidecar' # "down"
         \/ ending' # None
         \/ crashed' = owner /\ SidecarCrashes
<1>1. TypeOK /\ owner' = owner /\ owner \in Turns /\ ~Prompt
  BY OwnerStays DEF PlanInv
<1>2. CASE SidecarCrashes
  BY <1>2 DEF SidecarCrashes
<1>3. ~SidecarRestarts /\ ~SidecarAccepts
  BY DEF SidecarRestarts, SidecarAccepts, SidecarUp, NoReplacement, Running
<1>4. CASE AbortRun
  <2>1. CASE side' = side
    <3>1. sidecar' = sidecar
      BY <1>4 DEF AbortRun
    <3> QED
      BY <2>1, <3>1 DEF Running, SidecarUp
  <2>2. CASE Running(op.turn)
    <3>1. FinishTurn(owner, "aborted")
      BY <1>4, <2>2 DEF AbortRun, Running
    <3> QED
      BY <1>1, <3>1, EndingBegins DEF Reasons
  <2> QED
    BY <1>4, <2>1, <2>2 DEF AbortRun
<1>5. ASSUME NEW r \in {"completed", "error"}, RunEnds(r)
      PROVE  ending' # None
  <2>1. FinishTurn(owner, r)
    BY <1>5 DEF RunEnds, Running
  <2> QED
    BY <1>1, <2>1, EndingBegins DEF Reasons
<1>6. CASE side' = side /\ ~SidecarCrashes
  <2>1. sidecar' = sidecar \/ sidecar' = "again"
    BY <1>3, <1>6, ProcessFrame DEF HostCrashes
  <2> QED
    BY <1>6, <2>1 DEF Running, SidecarUp
<1> QED
  BY <1>1, <1>2, <1>3, <1>4, <1>5, <1>6, ProcessFrame

\* Without a crash of host-core under a drain no sidecar is replaced.
LEMMA NoReplacementNext ==
  ASSUME ~CrashDuringDrain, NoReplacement, Next
  PROVE  NoReplacement'
  BY ProcessFrame DEF HostCrashes, SidecarCrashes, SidecarRestarts, NoReplacement

\* The sidecar of an accepted execution.
LEMMA AcceptedNext ==
  ASSUME PlanInv, AliveInv, Next
  PROVE  AcceptedIsUp' /\ AcceptedRuns'
<1>1. SUFFICES ASSUME op' # None, op'.at = "accepted"
               PROVE  /\ sidecar' # "down"
                      /\ owner' = op'.turn => (side' # None /\ side'.turn = owner') \/ ending' # None
  BY DEF AcceptedIsUp, AcceptedRuns, At, SidecarUp, Running
<1>2. op # None /\ op'.turn = op.turn /\ (op.at = "accepted" \/ SidecarAccepts)
  BY <1>1, StageBefore DEF DispatchStages, DispatchMoves, Moves
<1>3. CASE SidecarAccepts
  <2>1. sidecar' = sidecar /\ sidecar # "down"
    BY <1>3 DEF SidecarAccepts, SidecarUp
  <2> QED
    BY <1>3, <2>1, AcceptedRun
<1>4. CASE op.at = "accepted"
  <2>1. TypeOK /\ SidecarUp /\ op.turn # None /\ op \in {None} \cup Operations
    BY <1>2, <1>4, StageTurn DEF AliveInv, AcceptedIsUp, At, AtOneOf, InTurn, PlanInv, TypeOK
  <2>2. ~SidecarCrashes
    BY <1>1, <1>2, <1>4, <2>1, CrashLeavesAccept DEF At
  <2>3. ~SidecarRestarts
    BY <2>1 DEF SidecarRestarts, AliveInv, NoReplacement, SidecarUp
  <2>4. sidecar' # "down"
    BY <2>1, <2>2, <2>3, ProcessFrame DEF HostCrashes, SidecarUp
  <2>5. ASSUME owner' = op'.turn
        PROVE  (side' # None /\ side'.turn = owner') \/ ending' # None
    <3>1. owner' # None
      BY <1>2, <2>1, <2>5
    <3>2. CASE owner = None
      <4>1. ~Prompt /\ ~Opens
        BY <1>2, <1>4, <2>1, PromptOpens DEF Opens, At
      <4> QED
        BY <3>1, <3>2, <4>1, OwnerFrame DEF Releases
    <3>3. CASE owner # None
      <4>1. owner' = owner /\ ~Releases
        BY <3>1, <3>3, OwnerStays
      <4>2. Running(owner) \/ ending # None
        BY <1>2, <1>4, <2>5, <4>1 DEF AliveInv, AcceptedRuns, At
      <4> QED
        BY <2>1, <2>2, <3>1, <3>3, <4>1, <4>2, RunGoesOn, EndingGoesOn DEF AliveInv
    <3> QED
      BY <3>2, <3>3
  <2> QED
    BY <2>4, <2>5
<1> QED
  BY <1>2, <1>3, <1>4

\* A failed dispatch has no turn any more.
LEMMA FailedIsFreeNext ==
  ASSUME PlanInv, AliveInv, Next
  PROVE  FailedIsFree'
<1>1. SUFFICES ASSUME op' # None, op'.at \in {"failExecution", "settle"}, owner' # None, op'.turn = owner'
               PROVE  FALSE
  BY DEF FailedIsFree, AtOneOf
<1>2. TypeOK /\ TurnInv
  BY DEF PlanInv
<1>3. op # None /\ op'.turn = op.turn
  BY <1>1, StageBefore DEF DispatchStages, DispatchMoves, Moves
<1>4. \/ op.at \in {"failExecution", "settle"} \cup BeforeTurn
      \/ TurnFailed /\ op.at = "failing"
  BY <1>1, <1>3, StageBefore DEF DispatchStages, DispatchMoves, Moves, BeforeTurn
<1>5. ~Prompt /\ ~Opens
  BY <1>1, <1>2, <1>3, PromptOpens DEF Opens
<1>6. owner' = owner
  BY <1>1, <1>5, OwnerFrame DEF Releases
<1>7. CASE op.at \in {"failExecution", "settle"}
  BY <1>1, <1>3, <1>6, <1>7 DEF AliveInv, FailedIsFree, AtOneOf
<1>8. CASE op.at \in BeforeTurn
  BY <1>1, <1>2, <1>3, <1>6, <1>8 DEF TurnInv, FreeBeforeTurn, AtOneOf
<1>9. CASE TurnFailed
  BY <1>1, <1>3, <1>6, <1>9 DEF TurnFailed
<1> QED
  BY <1>4, <1>7, <1>8, <1>9

\* Who waits for the end of a turn waits for one that has begun.
LEMMA WaitsForAnEndNext ==
  ASSUME PlanInv, AliveInv, Next
  PROVE  WaitsForAnEnd'
<1>1. SUFFICES ASSUME op' # None, op'.at \in {"failing", "ended"}, owner' = op'.turn
               PROVE  ending' # None
  BY DEF WaitsForAnEnd, AtOneOf
<1>2. TypeOK /\ op' \in Operations
  BY <1>1, OpFrame DEF PlanInv
<1>3. OpStays \/ FailsTurn \/ AbortRun
  BY <1>1, <1>2, OpFrame DEF DispatchMoves, AbortMoves, Moves, OpEnds
<1>4. /\ op # None /\ op'.turn = op.turn
      /\ op.at \in {"failing", "ended"} \/ (FailsTurn /\ op.at = "failTurn") \/ (AbortRun /\ op.at = "run")
  BY <1>1, <1>2, OpFrame DEF DispatchMoves, AbortMoves, Moves, OpEnds, OpStays
<1>5. op.turn \in Turns /\ op.turn # None
  <2>1. CASE op.at \in {"failing", "failTurn"}
    BY <1>2, <1>4, <2>1, StageTurn DEF AtOneOf, InTurn, PlanInv
  <2>2. CASE op.at \in {"run", "ended"}
    BY <1>2, <1>4, <2>2, OpTyped, NoneIsNoTurn DEF AbortStages
  <2> QED
    BY <1>4, <2>1, <2>2
<1>6. ~Prompt /\ ~Opens
  BY <1>1, <1>2, <1>4, PromptOpens DEF Opens, At
<1>7. owner' = owner /\ ~Releases
  BY <1>1, <1>4, <1>5, <1>6, OwnerFrame DEF Releases
<1>8. CASE op.at \in {"failing", "ended"}
  <2>1. ending # None
    BY <1>1, <1>4, <1>7, <1>8 DEF AliveInv, WaitsForAnEnd, AtOneOf
  <2> QED
    BY <1>7, <2>1, EndingGoesOn
<1>9. CASE FailsTurn
  BY <1>1, <1>4, <1>5, <1>7, <1>9, EndingBegins DEF FailsTurn, Reasons
<1>10. CASE AbortRun
  BY <1>1, <1>4, <1>5, <1>7, <1>10, EndingBegins DEF AbortRun, Reasons
<1> QED
  BY <1>4, <1>8, <1>9, <1>10

\* The operation that has the owner's turn keeps it until its run or its end does.
LEMMA OperationKeepsTurn ==
  ASSUME PlanInv, AliveInv, Next, owner # None, owner' # None, op # None, op.turn = owner
  PROVE  \/ op' # None /\ op'.turn = owner
         \/ Running(owner) /\ SidecarUp
         \/ ending # None
<1>1. TypeOK /\ TurnInv /\ ~Opens
  BY OwnerStays DEF PlanInv
<1>2. CASE OpEnds
  <2>1. CASE op.at \in {"claim", "claimed"}
    BY <1>1, <2>1 DEF TurnInv, FreeBeforeTurn, AtOneOf, BeforeTurn
  <2>2. CASE At("accepted")
    BY <2>2 DEF AliveInv, AcceptedRuns, AcceptedIsUp
  <2>3. CASE AbortDone
    BY <2>3 DEF AbortDone
  <2>4. CASE At("failExecution") \/ At("settle")
    BY <2>4 DEF AliveInv, FailedIsFree, At, AtOneOf
  <2> QED
    BY <1>2, <2>1, <2>2, <2>3, <2>4 DEF OpEnds, At
<1>3. CASE OpStays
  BY <1>3 DEF OpStays
<1>4. CASE DispatchMoves
  <2>1. ~(Begins /\ HostUp /\ CanBegin)
    BY <1>1, BeginsOpens
  <2> QED
    BY <1>4, <2>1 DEF DispatchMoves, Moves
<1>5. CASE AbortMoves
  BY <1>5 DEF AbortMoves, Moves
<1> QED
  BY <1>1, <1>2, <1>3, <1>4, <1>5, OpFrame

\* A turn that is owned stays alive.
LEMMA OwnedAliveNext ==
  ASSUME PlanInv, AliveInv, Next
  PROVE  OwnedTurnIsAlive'
<1>1. SUFFICES ASSUME owner' # None
               PROVE  \/ side' # None /\ side'.turn = owner' /\ sidecar' # "down"
                      \/ ending' # None \/ crashed' = owner'
                      \/ op' # None /\ op'.turn = owner'
  BY DEF OwnedTurnIsAlive, Running, SidecarUp
<1>2. TypeOK
  BY DEF PlanInv
<1>3. CASE owner = None
  <2>1. CASE Prompt
    <3>1. sidecar' = sidecar /\ sidecar # "down"
      BY <2>1 DEF Prompt, SidecarUp
    <3> QED
      BY <1>2, <2>1, <3>1, PromptOpens
  <2>2. CASE Opens
    BY <2>2 DEF Opens
  <2> QED
    BY <1>1, <1>3, <2>1, <2>2, OwnerFrame DEF Releases
<1>4. CASE owner # None
  <2>1. owner' = owner /\ ~Releases /\ owner \in Turns
    BY <1>1, <1>4, OwnerStays
  <2>2. CASE Running(owner) /\ SidecarUp
    BY <1>1, <1>4, <2>1, <2>2, RunGoesOn DEF AliveInv
  <2>3. CASE ending # None
    BY <2>1, <2>3, EndingGoesOn
  <2>4. CASE crashed = owner
    <3>1. CASE CrashSettled
      BY <2>1, <2>4, <3>1, EndingBegins DEF CrashSettled, Reasons
    <3> QED
      BY <2>1, <2>4, <3>1, TurnFrame DEF SidecarCrashes
  <2>5. CASE op # None /\ op.turn = owner
    BY <1>1, <1>4, <2>1, <2>2, <2>3, <2>5, OperationKeepsTurn
  <2> QED
    BY <1>4, <2>2, <2>3, <2>4, <2>5 DEF AliveInv, OwnedTurnIsAlive
<1> QED
  BY <1>3, <1>4

\* No crash, refusal or abort leaves the session occupied by a turn that nobody
\* will end, unless host-core crashes under the drain of a restarted sidecar: then
\* RuntimeSupervisor replaces a sidecar that is up, and nobody hears of its turn.
THEOREM OwnedTurnsAreAlive ==
  ASSUME ~CrashDuringDrain
  PROVE  Spec => []OwnedTurnIsAlive
<1>1. Init => AliveInv
  BY DEF Init, StoreInit, AliveInv, NoReplacement, AcceptedIsUp, AcceptedRuns, FailedIsFree,
         WaitsForAnEnd, OwnedTurnIsAlive, AtOneOf, At
<1>2. PlanInv /\ AliveInv /\ [Next]_vars => AliveInv'
  <2>1. ASSUME PlanInv, AliveInv, Next
        PROVE  AliveInv'
    <3>1. NoReplacement'
      BY <2>1, NoReplacementNext DEF AliveInv
    <3> QED
      BY <2>1, <3>1, AcceptedNext, FailedIsFreeNext, WaitsForAnEndNext, OwnedAliveNext DEF AliveInv
  <2>2. ASSUME AliveInv, UNCHANGED vars
        PROVE  AliveInv'
    BY <2>2 DEF vars, processVars, turnVars, AliveInv, NoReplacement, AcceptedIsUp, AcceptedRuns,
                FailedIsFree, WaitsForAnEnd, OwnedTurnIsAlive, AtOneOf, At, SidecarUp, Running
  <2> QED
    BY <2>1, <2>2
<1>3. AliveInv => OwnedTurnIsAlive
  BY DEF AliveInv
<1> QED
  BY <1>1, <1>2, <1>3, PlanInvariant, PTL DEF Spec
=============================================================================
