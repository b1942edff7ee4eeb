--------------------------- MODULE ApprovalBroker ---------------------------
(***************************************************************************)
(* Tool approvals of one session on the desktop host.  host-core keeps a    *)
(* gate per permission request and holds the tool call behind it            *)
(* (crates/host-core/src/permissions.rs); the ApprovalBroker of AgentHost    *)
(* keeps the open requests and remembers the outcomes                        *)
(* (packages/agent-host/src/approvals.ts); remote approvers answer through   *)
(* the broker, the local card answers host-core directly and tells the       *)
(* broker afterwards (apps/desktop/electron/main).  A device that attaches   *)
(* makes the broker list the gates that are open.                            *)
(*                                                                           *)
(* Every call to host-core is a request, host-core's step and a reply; the   *)
(* replies to different calls may overtake each other and the notification.  *)
(*                                                                           *)
(* A remembered outcome answers a later response without another effect, so  *)
(* that path changes nothing and has no action; nor have the refusals for a   *)
(* stale revision or an unknown request.  Forgetting the oldest of 1000       *)
(* outcomes, the session's displayed status and Plan/Goal contracts (see      *)
(* PlanStore) are not modelled.                                               *)
(*                                                                           *)
(* The status of a turn has one more writer: a question to the user           *)
(* (asktool) and its answer write it without looking at the open approvals.   *)
(***************************************************************************)
EXTENDS Naturals

CONSTANTS
    Requests,    \* the permission requests that may be created
    Decisions,   \* what an approver may answer (allow-once, deny, ...)
    Approvers,   \* remote principals with approval/respond
    Card,        \* the approval card of the local desktop
    Questions,   \* what tools may ask the user (asktool)
    None,        \* no request, no outcome
    MaxTurns     \* bound: how many turns the session runs

ASSUME CardAssumption == Card \notin Approvers
ASSUME DecisionAssumption == Decisions \cap {"none", "asked", "canceled"} = {}
ASSUME NoneAssumption == None \notin Requests
ASSUME TurnsAssumption == MaxTurns \in Nat

VARIABLES
    gate,       \* host-core: none, asked, canceled or the decision executed
    asker,      \* the turn whose tool call waits behind the gate (0: none)
    told,       \* requests whose notification is on its way to the host
    pending,    \* broker: open requests
    turnOf,     \* broker: the turn an open request was attributed to (0: none)
    overdue,    \* open requests whose deadline has passed
    results,    \* broker: the remembered outcome of a request
    call,       \* the permissions.resolve call of each caller
    resolving,  \* bridge: requests being resolved through the module
    listing,    \* the permissions.pending call of a device that attaches
    question,   \* the turn a question was asked in (0: not asked yet)
    inputs,     \* pendingInputs: the questions that are open
    replying,   \* questions whose answer is with the runtime
    status,     \* the status of each turn
    active,     \* the active turn (0: none)
    won,        \* history: who was told that its own decision was executed
    shadowed    \* history: the active turn asked the user something after its
                \* last approval request

core == <<gate, asker>>
broker == <<pending, turnOf, overdue, results>>
turns == <<status, active, shadowed>>
asking == <<question, inputs, replying>>
vars == <<gate, asker, told, pending, turnOf, overdue, results, call,
          resolving, listing, question, inputs, replying, status, active, won,
          shadowed>>

Callers == Approvers \cup {Card}
Turns == 1 .. MaxTurns

Outcomes == [status : {"resolved"}, decision : Decisions]
            \cup [status : {"expired", "canceled"}, decision : {None}]

ASSUME OutcomeAssumption == None \notin Outcomes

Quiet == [stage |-> "idle", request |-> None, decision |-> None, turn |-> 0]
NotListing == [stage |-> "idle", open |-> {}, turn |-> 0]

(* One type invariant: the values each variable takes, and that only an open *)
(* request is overdue.                                                       *)
TypeOK ==
    /\ gate \in [Requests -> Decisions \cup {"none", "asked", "canceled"}]
    /\ asker \in [Requests -> 0 .. MaxTurns]
    /\ told \subseteq Requests
    /\ pending \subseteq Requests
    /\ turnOf \in [Requests -> 0 .. MaxTurns]
    /\ overdue \subseteq pending
    /\ results \in [Requests -> Outcomes \cup {None}]
    /\ call \in [Callers -> {Quiet} \cup
                   [stage : {"sent", "ok", "refused"}, request : Requests,
                    decision : Decisions, turn : 0 .. MaxTurns]]
    /\ resolving \subseteq Requests
    /\ listing \in [stage : {"idle", "sent", "answered"},
                    open : SUBSET Requests, turn : 0 .. MaxTurns]
    /\ question \in [Questions -> 0 .. MaxTurns]
    /\ inputs \subseteq Questions
    /\ replying \subseteq Questions
    /\ status \in [Turns -> {"new", "running", "waiting_approval",
                            "waiting_input", "closed"}]
    /\ active \in 0 .. MaxTurns
    /\ won \subseteq Requests \X Callers
    /\ shadowed \in BOOLEAN

Init ==
    /\ gate = [r \in Requests |-> "none"]
    /\ asker = [r \in Requests |-> 0]
    /\ told = {}
    /\ pending = {}
    /\ turnOf = [r \in Requests |-> 0]
    /\ overdue = {}
    /\ results = [r \in Requests |-> None]
    /\ call = [c \in Callers |-> Quiet]
    /\ resolving = {}
    /\ listing = NotListing
    /\ question = [q \in Questions |-> 0]
    /\ inputs = {}
    /\ replying = {}
    /\ status = [t \in Turns |-> "new"]
    /\ active = 0
    /\ won = {}
    /\ shadowed = FALSE

-----------------------------------------------------------------------------
(* The broker's methods.                                                     *)

Resolved(d) == [status |-> "resolved", decision |-> d]
Expired == [status |-> "expired", decision |-> None]
Canceled == [status |-> "canceled", decision |-> None]

(* fromToolPermission: a request that is open already keeps its entry; what  *)
(* is remembered of the request is not looked at.                            *)
Opened(rs, t) ==
    /\ pending' = pending \cup rs
    /\ turnOf' = [r \in Requests |-> IF r \in rs \ pending THEN t ELSE turnOf[r]]

\* Mutant of Settled: the deadline outlives the request.
SettledKeepsDeadline(rs, outcome) ==
    /\ pending' = pending \ rs
    /\ turnOf' = [r \in Requests |-> IF r \in rs THEN 0 ELSE turnOf[r]]
    /\ results' = [r \in Requests |-> IF r \in rs THEN outcome ELSE results[r]]
    /\ UNCHANGED overdue

(* settle: the requests are closed and their outcome replaces what was       *)
(* remembered.                                                               *)
Settled(rs, outcome) ==
    /\ pending' = pending \ rs
    /\ overdue' = overdue \ rs
    /\ turnOf' = [r \in Requests |-> IF r \in rs THEN 0 ELSE turnOf[r]]
    /\ results' = [r \in Requests |-> IF r \in rs THEN outcome ELSE results[r]]

\* Mutant of AfterApproval: the turn goes on although other requests are open.
AfterApprovalAtOnce(t) ==
    status' = [u \in Turns |->
        IF u = t /\ status[u] = "waiting_approval" THEN "running" ELSE status[u]]

(* afterApproval: the turn goes on when no request is left in time.          *)
AfterApproval(t) ==
    status' = [u \in Turns |->
        IF u = t /\ status[u] = "waiting_approval" /\ pending' \subseteq overdue'
        THEN "running" ELSE status[u]]

-----------------------------------------------------------------------------
(* host-core                                                                 *)

(* A tool call of the active turn needs permission: a gate is created, then  *)
(* the notification is sent.                                                 *)
Ask(r) ==
    /\ gate[r] = "none"
    /\ active # 0
    /\ gate' = [gate EXCEPT ![r] = "asked"]
    /\ asker' = [asker EXCEPT ![r] = active]
    /\ told' = told \cup {r}
    /\ UNCHANGED <<broker, call, resolving, listing, asking, turns, won>>

(* The tool call is aborted.                                                 *)
CancelGate(r) ==
    /\ gate[r] = "asked"
    /\ gate' = [gate EXCEPT ![r] = "canceled"]
    /\ UNCHANGED <<asker, told, broker, call, resolving, listing, asking, turns, won>>

\* Mutant of ResolveGate: a gate is not removed by the decision, a second
\* one is accepted.
ResolveGateAgain(c) ==
    LET r == call[c].request IN
    /\ call[c].stage = "sent"
    /\ gate' = [gate EXCEPT ![r] = call[c].decision]
    /\ call' = [call EXCEPT ![c].stage = "ok"]
    /\ UNCHANGED <<asker, told, broker, resolving, listing, asking, turns, won>>

(* permissions.resolve: the first call takes the gate away, every later one  *)
(* is answered NOT_FOUND.                                                    *)
ResolveGate(c) ==
    LET r == call[c].request IN
    /\ call[c].stage = "sent"
    /\ \/ /\ gate[r] = "asked"
          /\ gate' = [gate EXCEPT ![r] = call[c].decision]
          /\ call' = [call EXCEPT ![c].stage = "ok"]
       \/ /\ gate[r] # "asked"
          /\ call' = [call EXCEPT ![c].stage = "refused"]
          /\ UNCHANGED gate
    /\ UNCHANGED <<asker, told, broker, resolving, listing, asking, turns, won>>

(* permissions.pending                                                       *)
ListGates ==
    /\ listing.stage = "sent"
    /\ listing' = [listing EXCEPT !.stage = "answered",
                                  !.open = {r \in Requests : gate[r] = "asked"}]
    /\ UNCHANGED <<core, told, broker, call, resolving, asking, turns, won>>

-----------------------------------------------------------------------------
(* AgentHost                                                                 *)

(* agent_start                                                               *)
TurnStarts(t) ==
    /\ active = 0
    /\ status[t] = "new"
    /\ \A u \in 1 .. (t - 1) : status[u] # "new"
    /\ status' = [status EXCEPT ![t] = "running"]
    /\ active' = t
    /\ shadowed' = FALSE
    /\ UNCHANGED <<core, told, broker, call, resolving, listing, asking, won>>

(* tool_permission_request: the notification names no turn, the active one   *)
(* is made to wait, even for an outcome that is already remembered.          *)
Notified(r) ==
    /\ r \in told
    /\ told' = told \ {r}
    /\ Opened({r}, active)
    /\ status' = [t \in Turns |->
                    IF t = active THEN "waiting_approval" ELSE status[t]]
    /\ shadowed' = FALSE
    /\ UNCHANGED <<core, overdue, results, call, resolving, listing, asking, active, won>>

(* closeTurn: the open requests of the session are canceled, whatever their  *)
(* gates are, and its open questions are dropped.                            *)
TurnCloses ==
    /\ active # 0
    /\ status' = [status EXCEPT ![active] = "closed"]
    /\ active' = 0
    /\ Settled(pending, Canceled)
    /\ inputs' = {}
    /\ UNCHANGED <<core, told, call, resolving, listing, question, replying, won,
                   shadowed>>

(* The deadline of an open request passes.                                   *)
Expire(r) ==
    /\ r \in pending
    /\ overdue' = overdue \cup {r}
    /\ UNCHANGED <<core, told, pending, turnOf, results, call, resolving,
                   listing, asking, turns, won>>

(* attach asks host-core for the gates, with the turn that is active now ... *)
Attach ==
    /\ listing.stage = "idle"
    /\ listing' = [stage |-> "sent", open |-> {}, turn |-> active]
    /\ UNCHANGED <<core, told, broker, call, resolving, asking, turns, won>>

(* ... and opens what the answer names, without an event.                    *)
Attached ==
    /\ listing.stage = "answered"
    /\ Opened(listing.open, listing.turn)
    /\ listing' = NotListing
    /\ UNCHANGED <<core, told, overdue, results, call, resolving, asking, turns, won>>

(* approval/respond of a request that is open, in time and not remembered:   *)
(* the port asks host-core.                                                  *)
Respond(a, r, d) ==
    /\ call[a] = Quiet
    /\ results[r] = None
    /\ r \in pending \ overdue
    /\ call' = [call EXCEPT ![a] = [stage |-> "sent", request |-> r,
                                    decision |-> d, turn |-> turnOf[r]]]
    /\ resolving' = resolving \cup {r}
    /\ UNCHANGED <<core, told, broker, listing, asking, turns, won>>

\* Mutant of RespondLate: the request is dropped, its outcome is not kept.
RespondLateForgets(a, r) ==
    /\ call[a] = Quiet
    /\ results[r] = None
    /\ r \in overdue
    /\ Settled({r}, None)
    /\ UNCHANGED <<core, told, call, resolving, listing, asking, turns, won>>

(* approval/respond of a request that is overdue: settled, and refused.      *)
RespondLate(a, r) ==
    /\ call[a] = Quiet
    /\ results[r] = None
    /\ r \in overdue
    /\ Settled({r}, Expired)
    /\ UNCHANGED <<core, told, call, resolving, listing, asking, turns, won>>

(* host-core took the decision: the request is settled whatever happened to  *)
(* it meanwhile.                                                             *)
Responded(a) ==
    LET r == call[a].request IN
    /\ call[a].stage = "ok"
    /\ Settled({r}, Resolved(call[a].decision))
    /\ AfterApproval(call[a].turn)
    /\ resolving' = resolving \ {r}
    /\ call' = [call EXCEPT ![a] = Quiet]
    /\ won' = won \cup {<<r, a>>}
    /\ UNCHANGED <<core, told, listing, asking, active, shadowed>>

\* Mutant of RespondRefused: a refused answer closes the request as well.
RespondRefusedSettles(a) ==
    LET r == call[a].request IN
    /\ call[a].stage = "refused"
    /\ Settled({r}, Resolved(call[a].decision))
    /\ resolving' = resolving \ {r}
    /\ call' = [call EXCEPT ![a] = Quiet]
    /\ UNCHANGED <<core, told, listing, asking, turns, won>>

(* host-core had no gate any more: the error goes to the approver.           *)
RespondRefused(a) ==
    /\ call[a].stage = "refused"
    /\ resolving' = resolving \ {call[a].request}
    /\ call' = [call EXCEPT ![a] = Quiet]
    /\ UNCHANGED <<core, told, broker, listing, asking, turns, won>>

-----------------------------------------------------------------------------
(* The local card                                                            *)

(* The card is shown by the notification; it needs no entry of the broker.   *)
CardAnswers(r, d) ==
    /\ call[Card] = Quiet
    /\ gate[r] # "none" /\ r \notin told
    /\ <<r, Card>> \notin won
    /\ call' = [call EXCEPT ![Card] = [stage |-> "sent", request |-> r,
                                       decision |-> d, turn |-> 0]]
    /\ UNCHANGED <<core, told, broker, resolving, listing, asking, turns, won>>

(* settleApproval, then settleApprovalExternally: the broker is told, unless *)
(* an answer to the same request is under way through the module or the      *)
(* request is not open.                                                      *)
CardAnswered ==
    LET r == call[Card].request IN
    /\ call[Card].stage = "ok"
    /\ \/ /\ r \in pending \ resolving
          /\ Settled({r}, Resolved(call[Card].decision))
          /\ AfterApproval(turnOf[r])
       \/ /\ r \notin pending \ resolving
          /\ UNCHANGED <<broker, status>>
    /\ call' = [call EXCEPT ![Card] = Quiet]
    /\ won' = won \cup {<<r, Card>>}
    /\ UNCHANGED <<core, told, resolving, listing, asking, active, shadowed>>

CardRefused ==
    /\ call[Card].stage = "refused"
    /\ call' = [call EXCEPT ![Card] = Quiet]
    /\ UNCHANGED <<core, told, broker, resolving, listing, asking, turns, won>>

-----------------------------------------------------------------------------
(* Questions to the user.  None of these steps looks at the open approvals.  *)

(* asktool_request: the event names its turn, which is shown to wait for     *)
(* input whatever it waited for.                                             *)
Asked(q, t) ==
    /\ question[q] = 0 /\ status[t] # "new"
    /\ question' = [question EXCEPT ![q] = t]
    /\ inputs' = inputs \cup {q}
    /\ status' = [status EXCEPT ![t] = "waiting_input"]
    /\ shadowed' = (shadowed \/ t = active)
    /\ UNCHANGED <<core, told, broker, call, resolving, listing, replying, active, won>>

(* input/respond of an open question: the runtime is asked to take it ...    *)
RespondInput(q) ==
    /\ q \in inputs \ replying
    /\ replying' = replying \cup {q}
    /\ UNCHANGED <<core, told, broker, call, resolving, listing, question, inputs,
                   turns, won>>

(* ... and the turn that waits for input goes on, whatever else it waits for.*)
InputTaken(q) ==
    /\ q \in replying
    /\ replying' = replying \ {q}
    /\ inputs' = inputs \ {q}
    /\ status' = [t \in Turns |->
          IF t = question[q] /\ status[t] = "waiting_input" THEN "running" ELSE status[t]]
    /\ UNCHANGED <<core, told, broker, call, resolving, listing, question, active, won,
                   shadowed>>

(* The runtime does not have the question any more.                          *)
InputRefused(q) ==
    /\ q \in replying
    /\ replying' = replying \ {q}
    /\ UNCHANGED <<core, told, broker, call, resolving, listing, question, inputs,
                   turns, won>>

-----------------------------------------------------------------------------
CoreSteps ==
    \/ \E r \in Requests : Ask(r) \/ CancelGate(r)
    \/ \E c \in Callers : ResolveGate(c)
    \/ ListGates

HostSteps ==
    \/ \E t \in Turns : TurnStarts(t)
    \/ \E r \in Requests : Notified(r) \/ Expire(r)
    \/ TurnCloses
    \/ Attach
    \/ Attached

RemoteSteps ==
    \E a \in Approvers :
        \/ \E r \in Requests, d \in Decisions : Respond(a, r, d)
        \/ \E r \in Requests : RespondLate(a, r)
        \/ Responded(a)
        \/ RespondRefused(a)

CardSteps ==
    \/ \E r \in Requests, d \in Decisions : CardAnswers(r, d)
    \/ CardAnswered
    \/ CardRefused

InputSteps ==
    \E q \in Questions :
        \/ \E t \in Turns : Asked(q, t)
        \/ RespondInput(q)
        \/ InputTaken(q)
        \/ InputRefused(q)

Next == CoreSteps \/ HostSteps \/ RemoteSteps \/ CardSteps \/ InputSteps

Spec == Init /\ [][Next]_vars

-----------------------------------------------------------------------------
(* What the broker reports as resolved is the decision the tool call was     *)
(* released with, however answers, the local card, a closing turn, expiry    *)
(* and a late list interleave.                                               *)
ReportedIsExecuted ==
    \A r \in Requests :
        results[r] \in [status : {"resolved"}, decision : Decisions]
            => gate[r] = results[r].decision

(* One request is decided once: whatever the approvers send at the same time *)
(* and however often a list opens the request again, one caller is told that *)
(* its own decision was executed.                                            *)
OneWinner ==
    \A r \in Requests, c1, c2 \in Callers :
        <<r, c1>> \in won /\ <<r, c2>> \in won => c1 = c2

(* A tool call that still waits can be answered: while its turn is active    *)
(* and the notification has arrived, its request is open at the broker or    *)
(* was closed because its deadline had passed.                               *)
WaitingCallIsAnswerable ==
    \A r \in Requests :
        gate[r] = "asked" /\ r \notin told /\ asker[r] = active
            => r \in pending \/ results[r] = Expired

(* A tool call that still waits is shown: while its turn is active, the      *)
(* notification has arrived and the deadline has not passed, the turn waits  *)
(* for approval, whatever other requests of the turn were settled and        *)
(* whatever question the user answers, unless a question came after the last *)
(* notification.  Such a question replaces the status by waiting_input and   *)
(* its answer replaces it by running, so behind one a waiting call (of a     *)
(* background delegate) is not shown until another request is notified.      *)
WaitingCallIsShown ==
    \A r \in Requests :
        /\ gate[r] = "asked" /\ r \notin told /\ asker[r] = active
        /\ r \notin overdue /\ results[r] # Expired
        /\ ~shadowed
        => status[active] = "waiting_approval"

(* settle: "Records the outcome so a later remote response gets              *)
(* `alreadyResolved` instead of a second execution."  When the local card    *)
(* has decided a request and no answer to it is under way, the outcome is    *)
(* remembered.                                                               *)
CardDecisionIsRemembered ==
    \A r \in Requests :
        /\ <<r, Card>> \in won
        /\ \A c \in Callers : call[c].request # r
        => results[r] # None
=============================================================================
