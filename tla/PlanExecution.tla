--------------------------- MODULE PlanExecution ---------------------------
(***************************************************************************)
(* From an approved contract to the turn that runs it, in a headless Host  *)
(* of one session: the PlanExecutionDispatcher and the turn ownership of   *)
(* RuntimeService (packages/host-runtime), between host-core (PlanStore)   *)
(* and the agent sidecar, two child processes that may crash and that      *)
(* RuntimeSupervisor brings back.                                          *)
(*                                                                         *)
(* The processes talk over pipes: a call is sent, has its effect in the    *)
(* child and is answered in three steps where another step can come        *)
(* between, and a crash of the child makes every open call fail, whether   *)
(* it had its effect or not.  withSessionOperation admits one operation of *)
(* the session at a time, a dispatch or an abort (variable op).            *)
(***************************************************************************)
EXTENDS PlanStore

CONSTANTS
  MaxPrompts,          \* bound: turns the user starts
  MaxFaults,           \* bound: aborts the user asks for and crashes of the
                       \* children, which stay within their restart budgets
  CrashDuringDrain     \* host-core may crash under the drain that follows a
                       \* restart of the sidecar

ASSUME PlanExecutionAssumption ==
  /\ {MaxPrompts, MaxFaults} \subseteq Nat
  /\ MaxTurns = MaxPrompts + MaxProposals
  /\ CrashDuringDrain \in BOOLEAN

VARIABLES
  host,       \* whether host-core is up
  sidecar,    \* whether the sidecar is up; "again" when it is up and its
              \* supervisor is about to start another one in its place
  side,       \* the turn the sidecar runs: [turn, plan], plan None for a prompt
  owner,      \* RuntimeService.activeTurns
  ending,     \* the entry of turnFinalizations: [turn, reason, at]
  aborting,   \* pendingAbortReasons and the abort call that waits: [turn, called]
  crashed,    \* the turn settleCrashedSession is about to settle
  op,         \* the operation that withSessionOperation runs: [at, plan, turn] and
              \* whether the sidecar it started with is still there
  waiting,    \* dispatchApprovedPlan calls that wait for op or for their timer
  lookups,    \* dispatchExecutionForProposal calls whose query is under way
  drain       \* drainApprovedPlanExecutions: [at, why]

VARIABLES
  current,    \* approvedExecutionIdsBySession
  turnOf,     \* executionTurns
  started, finished,
  outcome,    \* pendingFinishes
  finishing   \* inFlightFinishes: how far the call of an execution is

VARIABLES
  runs,       \* how often the sidecar started an execution
  ranAs,      \* how the turn of an execution ended, "no" until it did
  spent       \* how much of each bound is used up

processVars == <<host, sidecar, side>>
turnVars == <<owner, ending, aborting, crashed>>
callVars == <<waiting, lookups, drain>>
bookVars == <<current, turnOf, started, finished, outcome, finishing>>
ghostVars == <<runs, ranAs, spent>>
vars == <<storeVars, processVars, turnVars, op, callVars, bookVars, ghostVars>>

Reasons == {"completed", "error", "aborted"}
DispatchStages == {"claim", "claimed", "launch", "begin", "accept", "accepted",
                   "failTurn", "failing", "failExecution", "settle"}
AbortStages == {"plans", "run", "ended"}

RunRecords == [turn : Turns, plan : Proposals \cup {None}]
EndingRecords == [turn : Turns, reason : Reasons, at : {"end", "release"}]
Operations ==
  [at : DispatchStages, plan : Proposals, turn : Turns \cup {None}, link : BOOLEAN]
    \cup [at : AbortStages, plan : {None}, turn : Turns, link : {TRUE}]

\* None is none of the values that stand beside it in a variable.
ASSUME NoneIsNoValue ==
  None \notin {"completed", "interrupted"} \cup RunRecords \cup EndingRecords \cup Operations

TypeOK ==
  /\ StoreTypeOK
  /\ host \in {"up", "down"} /\ sidecar \in {"up", "down", "again"}
  /\ side \in {None} \cup RunRecords
  /\ owner \in Turns \cup {None}
  /\ ending \in {None} \cup EndingRecords
  /\ aborting \in {None} \cup [turn : Turns, called : BOOLEAN]
  /\ crashed \in Turns \cup {None}
  /\ op \in {None} \cup Operations
  /\ waiting \subseteq Proposals /\ lookups \subseteq Proposals
  /\ drain \in {None} \cup [at : {"retry", "query"}, why : {"host", "sidecar"}]
  /\ current \in Proposals \cup {None}
  /\ turnOf \in [Proposals -> Turns \cup {None}]
  /\ started \subseteq Proposals /\ finished \subseteq Proposals
  /\ outcome \in [Proposals -> {"completed", "interrupted", None}]
  /\ finishing \in [Proposals -> {"no", "sent", "accepted", "refused"}]
  /\ runs \in [Proposals -> Nat]
  /\ ranAs \in [Proposals -> Reasons \cup {"no"}]
  /\ spent \in [prompts : 0 .. MaxPrompts, faults : 0 .. MaxFaults]

Init ==
  /\ StoreInit
  /\ host = "up" /\ sidecar = "up" /\ side = None
  /\ owner = None /\ ending = None /\ aborting = None /\ crashed = None
  /\ op = None /\ waiting = {} /\ lookups = {} /\ drain = None
  /\ current = None /\ turnOf = [p \in Proposals |-> None]
  /\ started = {} /\ finished = {}
  /\ outcome = [p \in Proposals |-> None]
  /\ finishing = [p \in Proposals |-> "no"]
  /\ runs = [p \in Proposals |-> 0]
  /\ ranAs = [p \in Proposals |-> "no"]
  /\ spent = [prompts |-> 0, faults |-> 0]

HostUp == host = "up"
SidecarUp == sidecar # "down"
Running(t) == side # None /\ side.turn = t
At(stage) == op # None /\ op.at = stage
GoTo(stage) == op' = [op EXCEPT !.at = stage]

-----------------------------------------------------------------------------
(* RuntimeService.finishTurn and PlanExecutionDispatcher.finishApprovedExecution *)

\* finishTurn of turn t: the first call freezes the reason, which is "aborted"
\* when an abort was recorded; later calls join it, calls for a turn that is not
\* owned do nothing.
FinishTurn(t, reason) ==
  ending' = IF ending = None /\ owner = t
            THEN [turn |-> t, at |-> "end",
                  reason |-> IF aborting # None /\ aborting.turn = t THEN "aborted" ELSE reason]
            ELSE ending

\* finishApprovedExecution up to its await: the first outcome is kept, and stays
\* when host-core is down.
\* Mutant of FinishIgnored: an execution without a turn is not the dispatcher's.
FinishIgnoredUnstarted(p) == p \in finished \/ finishing[p] # "no" \/ p \notin started

FinishIgnored(p) == p \in finished \/ finishing[p] # "no"

FinishExecution(p, result) ==
  IF FinishIgnored(p)
  THEN UNCHANGED <<outcome, finishing>>
  ELSE /\ outcome' = [outcome EXCEPT ![p] = IF @ = None THEN result ELSE @]
       /\ finishing' = [finishing EXCEPT ![p] = IF HostUp THEN "sent" ELSE "no"]

FinishServed(p) ==
  /\ finishing[p] = "sent"
  /\ Finish(p, outcome[p])
  /\ finishing' = [finishing EXCEPT ![p] =
                     IF FinishAccepted(p, outcome[p]) THEN "accepted" ELSE "refused"]
  /\ UNCHANGED <<processVars, turnVars, op, callVars, current, turnOf, started, finished,
                 outcome, ghostVars>>

FinishAnswered(p) ==
  /\ \/ /\ finishing[p] = "accepted"
        /\ finished' = finished \cup {p}
        /\ started' = started \ {p}
        /\ outcome' = [outcome EXCEPT ![p] = None]
        /\ current' = IF turnOf[p] # None /\ current = p THEN None ELSE current
        /\ turnOf' = [turnOf EXCEPT ![p] = None]
     \/ /\ finishing[p] = "refused"
        /\ UNCHANGED <<finished, started, outcome, current, turnOf>>
  /\ finishing' = [finishing EXCEPT ![p] = "no"]
  /\ UNCHANGED <<storeVars, processVars, turnVars, op, callVars, ghostVars>>

\* session.endTurn of the finalization, skipped when host-core is down.
EndingServed ==
  /\ ending # None /\ ending.at = "end"
  /\ IF HostUp THEN EndTurn(ending.turn) ELSE UNCHANGED storeVars
  /\ ending' = [ending EXCEPT !.at = "release"]
  /\ UNCHANGED <<processVars, owner, aborting, crashed, op, callVars, bookVars, ghostVars>>

\* The finalization gives the session up and tells the listeners; the
\* dispatcher's closes the execution whose turn this was.
EndingReleases ==
  /\ ending # None /\ ending.at = "release"
  /\ owner' = IF owner = ending.turn THEN None ELSE owner
  /\ ending' = None
  /\ aborting' = IF aborting # None /\ aborting.turn = ending.turn /\ ~aborting.called
                 THEN None ELSE aborting
  /\ IF current # None /\ turnOf[current] = ending.turn
     THEN /\ FinishExecution(current,
               IF ending.reason = "completed" THEN "completed" ELSE "interrupted")
          /\ ranAs' = [ranAs EXCEPT ![current] = ending.reason]
     ELSE UNCHANGED <<outcome, finishing, ranAs>>
  /\ UNCHANGED <<storeVars, processVars, crashed, op, callVars, current, turnOf, started,
                 finished, runs, spent>>

-----------------------------------------------------------------------------
(* The user and the agent *)

\* A prompt of the user, from its admission to the sidecar's acceptance; module
\* AgentHost has its steps and failures.
Prompt ==
  /\ HostUp /\ SidecarUp
  /\ op = None /\ owner = None /\ side = None
  /\ spent.prompts < MaxPrompts
  /\ BeginTurn
  /\ owner' = turns'
  /\ side' = [turn |-> turns', plan |-> None]
  /\ spent' = [spent EXCEPT !.prompts = @ + 1]
  /\ UNCHANGED <<host, sidecar, ending, aborting, crashed, op, callVars, bookVars, runs, ranAs>>

\* The tools of the turn that the sidecar runs.
UsesPlanTool ==
  /\ HostUp /\ side # None
  /\ \E k \in Kinds : Enter(side.turn, k) \/ Submit(side.turn, k)
  /\ UNCHANGED <<processVars, turnVars, op, callVars, bookVars, ghostVars>>

\* plans.resolve through the ApprovalPort; an approval, a repeated one too, is
\* followed by dispatchExecutionForProposal.
ResolvesContract(p) ==
  /\ HostUp
  /\ \/ Reject(p) /\ lookups' = lookups
     \/ Approve(p) /\ lookups' = lookups \cup {p}
     \/ /\ proposal[p] = "approved"
        /\ lookups' = lookups \cup {p}
        /\ UNCHANGED storeVars
  /\ UNCHANGED <<processVars, turnVars, op, waiting, drain, bookVars, ghostVars>>

\* Time passes, somebody looks (plans.pending), somebody configures the session.
OtherStoreStep ==
  /\ HostUp
  /\ \/ \E p \in Proposals : Deadline(p)
     \/ /\ Fresh # proposal
        /\ proposal' = Fresh
        /\ UNCHANGED <<mode, kindOf, exec, dbTurn, turns>>
     \/ \E m \in {"agent"} \cup Kinds : Configure(m)
  /\ UNCHANGED <<processVars, turnVars, op, callVars, bookVars, ghostVars>>

\* The run ends by itself; its terminal event settles the turn.
RunEnds(reason) ==
  /\ side # None
  /\ side' = None
  /\ FinishTurn(side.turn, reason)
  /\ UNCHANGED <<storeVars, host, sidecar, owner, aborting, crashed, op, callVars, bookVars, ghostVars>>

\* RuntimeService.abort: the reason is recorded at once, the rest waits for the
\* operation that runs.
AbortCalled ==
  /\ owner # None /\ aborting = None
  /\ spent.faults < MaxFaults
  /\ aborting' = [turn |-> owner, called |-> TRUE]
  /\ spent' = [spent EXCEPT !.faults = @ + 1]
  /\ UNCHANGED <<storeVars, processVars, owner, ending, crashed, op, callVars, bookVars, runs, ranAs>>

\* The abort's turn: nothing to do when the session has moved on or there is no
\* sidecar (an error to the caller).
AbortAdmitted ==
  /\ op = None /\ aborting # None /\ aborting.called
  /\ IF owner = aborting.turn
     THEN /\ aborting' = [aborting EXCEPT !.called = FALSE]
          /\ op' = IF SidecarUp THEN [at |-> "plans", plan |-> None, turn |-> owner, link |-> TRUE] ELSE None
     ELSE /\ aborting' = None
          /\ UNCHANGED op
  /\ UNCHANGED <<storeVars, processVars, owner, ending, crashed, callVars, bookVars, ghostVars>>

\* agent.abort in the sidecar: first plans.abort, unless it runs another turn.
AbortPlans ==
  /\ At("plans")
  /\ IF Running(op.turn) /\ HostUp THEN AbortPending ELSE UNCHANGED storeVars
  /\ GoTo("run")
  /\ UNCHANGED <<processVars, turnVars, callVars, bookVars, ghostVars>>

AbortRun ==
  /\ At("run")
  /\ side' = IF Running(op.turn) THEN None ELSE side
  /\ FinishTurn(op.turn, "aborted")
  /\ GoTo("ended")
  /\ UNCHANGED <<storeVars, host, sidecar, owner, aborting, crashed, callVars, bookVars, ghostVars>>

AbortDone ==
  /\ At("ended") /\ owner # op.turn
  /\ op' = None
  /\ UNCHANGED <<storeVars, processVars, turnVars, callVars, bookVars, ghostVars>>

-----------------------------------------------------------------------------
(* PlanExecutionDispatcher *)

LookupAnswered(p) ==
  /\ p \in lookups /\ HostUp
  /\ lookups' = lookups \ {p}
  /\ waiting' = IF exec[p] = "queued" THEN waiting \cup {p} ELSE waiting
  /\ UNCHANGED <<storeVars, processVars, turnVars, op, drain, bookVars, ghostVars>>

\* The head of dispatchApprovedPlan, inside the session operation: executions it
\* knows and absent children end it; behind an active turn it looks again later.
\* Mutant of DispatchStarts: no second look behind an active turn.
DispatchStartsOnce(p) ==
  /\ p \in waiting /\ op = None
  /\ IF p \in started \cup finished \/ ~HostUp \/ ~SidecarUp \/ owner # None
     THEN UNCHANGED op
     ELSE op' = [at |-> "claim", plan |-> p, turn |-> None, link |-> TRUE]
  /\ waiting' = waiting \ {p}
  /\ UNCHANGED <<storeVars, processVars, turnVars, lookups, drain, bookVars, ghostVars>>

DispatchStarts(p) ==
  /\ p \in waiting /\ op = None
  /\ \/ /\ p \in started \cup finished \/ ~HostUp \/ ~SidecarUp
        /\ UNCHANGED op
     \/ /\ p \notin started \cup finished /\ HostUp /\ SidecarUp
        /\ owner = None
        /\ op' = [at |-> "claim", plan |-> p, turn |-> None, link |-> TRUE]
  /\ waiting' = waiting \ {p}
  /\ UNCHANGED <<storeVars, processVars, turnVars, lookups, drain, bookVars, ghostVars>>

\* A refused claim ends the dispatch: the row is not queued any more.
ClaimServed ==
  /\ At("claim")
  /\ \/ Claim(op.plan) /\ GoTo("claimed")
     \/ exec[op.plan] # "queued" /\ op' = None /\ UNCHANGED storeVars
  /\ UNCHANGED <<processVars, turnVars, callVars, bookVars, ghostVars>>

ClaimAnswered ==
  /\ At("claimed")
  /\ GoTo("launch")
  /\ UNCHANGED <<storeVars, processVars, turnVars, callVars, bookVars, ghostVars>>

\* Settings, session and launch are resolved, or that fails.
Launch ==
  /\ At("launch")
  /\ GoTo("begin") \/ GoTo("failExecution")
  /\ UNCHANGED <<storeVars, processVars, turnVars, callVars, bookVars, ghostVars>>

\* RuntimeService.beginTurn and the bookkeeping behind it.
Begins ==
  /\ At("begin")
  /\ IF HostUp /\ CanBegin
     THEN /\ BeginTurn
          /\ owner' = turns'
          /\ op' = [op EXCEPT !.at = "accept", !.turn = turns']
          /\ current' = op.plan
          /\ turnOf' = [turnOf EXCEPT ![op.plan] = turns']
          /\ started' = started \cup {op.plan}
     ELSE /\ GoTo("failExecution")
          /\ UNCHANGED <<storeVars, owner, current, turnOf, started>>
  /\ UNCHANGED <<processVars, ending, aborting, crashed, callVars, finished, outcome, finishing, ghostVars>>

\* agent.executeApprovedPlan: accepted, or refused (no sidecar, no runtime).
SidecarAccepts ==
  /\ At("accept") /\ SidecarUp /\ op.link /\ side = None
  /\ side' = [turn |-> op.turn, plan |-> op.plan]
  /\ runs' = [runs EXCEPT ![op.plan] = @ + 1]
  /\ GoTo("accepted")
  /\ UNCHANGED <<storeVars, host, sidecar, turnVars, callVars, bookVars, ranAs, spent>>

\* Mutant of SidecarRefuses: the failure closes the execution only.
SidecarRefusesExecution ==
  /\ At("accept")
  /\ GoTo("failExecution")
  /\ UNCHANGED <<storeVars, processVars, turnVars, callVars, bookVars, ghostVars>>

SidecarRefuses ==
  /\ At("accept")
  /\ GoTo("failTurn")
  /\ UNCHANGED <<storeVars, processVars, turnVars, callVars, bookVars, ghostVars>>

AcceptanceAnswered ==
  /\ At("accepted")
  /\ op' = None
  /\ UNCHANGED <<storeVars, processVars, turnVars, callVars, bookVars, ghostVars>>

\* The catch of dispatchApprovedPlan: settle the turn, if there is one, wait for
\* that, then close the execution and wait for that.
FailsTurn ==
  /\ At("failTurn")
  /\ FinishTurn(op.turn, "error")
  /\ GoTo("failing")
  /\ UNCHANGED <<storeVars, processVars, owner, aborting, crashed, callVars, bookVars, ghostVars>>

TurnFailed ==
  /\ At("failing") /\ owner # op.turn
  /\ GoTo("failExecution")
  /\ UNCHANGED <<storeVars, processVars, turnVars, callVars, bookVars, ghostVars>>

FailsExecution ==
  /\ At("failExecution")
  /\ FinishExecution(op.plan, "interrupted")
  /\ IF FinishIgnored(op.plan) \/ ~HostUp THEN op' = None ELSE GoTo("settle")
  /\ UNCHANGED <<storeVars, processVars, turnVars, callVars, current, turnOf, started, finished, ghostVars>>

FailureSettled ==
  /\ At("settle") /\ finishing[op.plan] = "no"
  /\ op' = None
  /\ UNCHANGED <<storeVars, processVars, turnVars, callVars, bookVars, ghostVars>>

\* drainApprovedPlanExecutions: retry the outcomes host-core has not taken, then
\* dispatch what it has queued.
Undelivered == {p \in Proposals : outcome[p] # None /\ ~FinishIgnored(p)}

DrainRetries ==
  /\ drain # None /\ drain.at = "retry"
  /\ IF HostUp /\ SidecarUp
     THEN /\ finishing' = [p \in Proposals |-> IF p \in Undelivered THEN "sent" ELSE finishing[p]]
          /\ drain' = [drain EXCEPT !.at = "query"]
     ELSE drain' = None /\ UNCHANGED finishing
  /\ UNCHANGED <<storeVars, processVars, turnVars, op, waiting, lookups, current, turnOf, started,
                 finished, outcome, ghostVars>>

DrainQueries ==
  /\ drain # None /\ drain.at = "query"
  /\ HostUp /\ \A p \in Proposals : finishing[p] = "no"
  /\ waiting' = waiting \cup {p \in Proposals : exec[p] = "queued"}
  /\ drain' = None
  /\ UNCHANGED <<storeVars, processVars, turnVars, op, lookups, bookVars, ghostVars>>

-----------------------------------------------------------------------------
(* The children crash and come back *)

\* Where an operation goes when the call it awaits fails with host-core: a claim
\* that was not answered counts as not made.  The launch is taken to notice: its
\* calls fail, and the reads of files between them are shorter than a restart.
AfterHostCrash ==
  CASE At("claim") \/ At("claimed") -> None
    [] At("launch") \/ At("begin") -> [op EXCEPT !.at = "failExecution"]
    [] OTHER -> op

\* A drain that fails is a failed restart to RuntimeSupervisor.loop, which starts
\* the child once more: host-core is down anyway, the sidecar is not.
DrainFailsAfter(why) == drain # None /\ drain.at = "query" /\ drain.why = why

HostCrashes ==
  /\ HostUp
  /\ spent.faults < MaxFaults
  /\ DrainFailsAfter("sidecar") => CrashDuringDrain
  /\ host' = "down"
  /\ op' = AfterHostCrash
  /\ finishing' = [p \in Proposals |-> "no"]
  /\ ending' = IF ending = None THEN None ELSE [ending EXCEPT !.at = "release"]
  /\ lookups' = {}
  /\ drain' = None
  /\ sidecar' = IF DrainFailsAfter("sidecar") THEN "again" ELSE sidecar
  /\ spent' = [spent EXCEPT !.faults = @ + 1]
  /\ UNCHANGED <<storeVars, side, owner, aborting, crashed, waiting, current, turnOf, started,
                 finished, outcome, runs, ranAs>>

HostRestarts ==
  /\ ~HostUp
  /\ host' = "up"
  /\ Sweep
  /\ drain' = IF drain = None THEN [at |-> "retry", why |-> "host"] ELSE drain
  /\ UNCHANGED <<sidecar, side, turnVars, op, waiting, lookups, bookVars, ghostVars>>

AfterSidecarCrash ==
  CASE At("accept") \/ At("accepted") -> [op EXCEPT !.at = "failTurn", !.link = FALSE]
    [] op # None /\ op.at \in DispatchStages \ {"accept", "accepted"} -> [op EXCEPT !.link = FALSE]
    [] OTHER -> op

SidecarCrashes ==
  /\ SidecarUp
  /\ spent.faults < MaxFaults
  /\ sidecar' = "down"
  /\ side' = None
  /\ op' = AfterSidecarCrash
  /\ crashed' = owner
  /\ spent' = [spent EXCEPT !.faults = @ + 1]
  /\ UNCHANGED <<storeVars, host, owner, ending, aborting, callVars, bookVars, runs, ranAs>>

\* settleCrashedSession: interrupt the pending proposals, then settle the turn.
CrashSettled ==
  /\ crashed # None
  /\ IF HostUp THEN AbortPending ELSE UNCHANGED storeVars
  /\ FinishTurn(crashed, "aborted")
  /\ crashed' = None
  /\ UNCHANGED <<processVars, owner, aborting, op, callVars, bookVars, ghostVars>>

\* Nobody stops or listens to a sidecar that is replaced while it is up.
SidecarRestarts ==
  /\ sidecar = "down" \/ (sidecar = "again" /\ op = None)
  /\ sidecar' = "up"
  /\ side' = None
  /\ drain' = IF drain = None THEN [at |-> "retry", why |-> "sidecar"]
                              ELSE [drain EXCEPT !.why = "sidecar"]
  /\ UNCHANGED <<storeVars, host, turnVars, op, waiting, lookups, bookVars, ghostVars>>

-----------------------------------------------------------------------------
\* One process per group: the operation of the session, the drain, the calls of
\* each execution, the end of the turn.
OperationSteps ==
  \/ ClaimServed \/ ClaimAnswered \/ Launch \/ Begins
  \/ SidecarAccepts \/ SidecarRefuses \/ AcceptanceAnswered
  \/ FailsTurn \/ TurnFailed \/ FailsExecution \/ FailureSettled
  \/ AbortPlans \/ AbortRun \/ AbortDone

DrainSteps == DrainRetries \/ DrainQueries
FinishSteps(p) == FinishServed(p) \/ FinishAnswered(p)
EndingSteps == EndingServed \/ EndingReleases

Environment ==
  \/ Prompt \/ UsesPlanTool \/ OtherStoreStep \/ AbortCalled
  \/ \E p \in Proposals : ResolvesContract(p)
  \/ HostCrashes \/ SidecarCrashes

RunStops == \E r \in {"completed", "error"} : RunEnds(r)
Restarts == HostRestarts \/ SidecarRestarts

Next ==
  \/ OperationSteps \/ DrainSteps \/ EndingSteps
  \/ \E p \in Proposals : FinishSteps(p) \/ LookupAnswered(p) \/ DispatchStarts(p)
  \/ AbortAdmitted \/ CrashSettled
  \/ Environment \/ RunStops \/ Restarts

Spec == Init /\ [][Next]_vars

\* Calls are answered or fail, runs end, an operation that waits for the session
\* is admitted when it is free, crashed children are restarted: the restart
\* budget is never used up within the bounds.  Nobody has to prompt, submit,
\* approve or crash.
Fairness ==
  /\ WF_vars(OperationSteps)
  /\ WF_vars(DrainSteps)
  /\ WF_vars(EndingSteps)
  /\ WF_vars(AbortAdmitted)
  /\ WF_vars(CrashSettled)
  /\ WF_vars(RunStops)
  /\ WF_vars(HostRestarts) /\ WF_vars(SidecarRestarts)
  /\ \A p \in Proposals :
       WF_vars(FinishSteps(p)) /\ WF_vars(LookupAnswered(p)) /\ WF_vars(DispatchStarts(p))

FairSpec == Spec /\ Fairness

-----------------------------------------------------------------------------
(* Properties *)

\* A session has one contract at a time (ADR 0053): one proposal pending or one
\* execution queued or running, and while an execution is active the session is
\* in Agent mode, whatever the order of tools, answers, aborts, deadlines,
\* configurations and crashes.
OneContract ==
  LET open == {p \in Proposals : proposal[p] \in {"pending", "overdue"}}
      live == {p \in Proposals : Active(p)}
  IN /\ Cardinality(open \cup live) <= 1
     /\ live # {} => mode = "agent"
     /\ \A p \in open : mode = kindOf[p]

\* A row that says "running" has somebody who will close it: the dispatch that
\* claimed it, the turn it runs in, or an outcome that is being delivered.
\* Nothing else ever frees it: until then the session cannot be configured, plan
\* again or approve another contract.
RunningIsOwned ==
  \A p \in Proposals : HostUp /\ exec[p] = "running" =>
    \/ op # None /\ op.plan = p
    \/ current = p /\ turnOf[p] = owner /\ owner # None
    \/ finishing[p] \in {"sent", "refused"}

\* A turn that RuntimeService owns is run by the sidecar, being opened or being
\* settled: no crash, refusal or abort leaves the session occupied by a turn that
\* nobody will end.
OwnedTurnIsAlive ==
  owner # None =>
    \/ Running(owner) /\ SidecarUp
    \/ ending # None \/ crashed = owner
    \/ op # None /\ op.turn = owner

\* What the user may rely on (module PlanContract): an approved contract is run
\* at most once, one at a time, nothing else is ever run, and the record says
\* "completed" only of a run that was.
Decision(p) ==
  CASE proposal[p] \in {"none", "approved"} -> proposal[p]
    [] proposal[p] = "pending" -> "open"
    [] OTHER -> "refused"

RunOf(p) ==
  IF runs[p] = 0 THEN "no" ELSE IF ranAs[p] = "no" THEN "started" ELSE ranAs[p]

Record(p) == IF exec[p] \in {"completed", "interrupted"} THEN exec[p] ELSE "open"

Contract == INSTANCE PlanContract WITH
  decision <- [p \in Proposals |-> Decision(p)],
  run <- [p \in Proposals |-> IF runs[p] > 1 THEN "again" ELSE RunOf(p)],
  record <- [p \in Proposals |-> Record(p)]

KeepsContract == Contract!Spec

\* Every execution that was queued reaches an outcome, whichever child crashes
\* when: the claim, the failure path, the end of the turn, the retried finish and
\* the sweep between them leave no row behind.
ExecutionsSettle == \A p \in Proposals : Active(p) ~> ~Active(p)
=============================================================================
