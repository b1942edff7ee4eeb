----------------------------- MODULE AgentHost -----------------------------
(***************************************************************************)
(* One session of the headless Agent Host (packages/agent-host), between   *)
(* its clients and the runtime that owns turns (host-runtime's             *)
(* RuntimeService).  Sessions share nothing that these actions touch, so   *)
(* one session is the whole story.                                         *)
(*                                                                         *)
(* An action is what one JavaScript task does between two awaits.  Every   *)
(* operation that reads and then writes the queue goes through the         *)
(* session's admission chain (withAdmission), a FIFO whose head operation  *)
(* may be suspended at an await (variable step); runtime events, turn      *)
(* settlements and attaches run outside that chain and interleave with it. *)
(*                                                                         *)
(* The queue is the mirror kept by TurnQueue; module TurnQueue models how  *)
(* the mirror and the rows in host-core follow each other, here a store    *)
(* call and the mirror's update are one step, so the queue survives a      *)
(* restart.  Turn "completed" stands for completed and interrupted: the    *)
(* runtime chooses, and nothing here depends on which.                     *)
(***************************************************************************)
EXTENDS Naturals, Sequences, FiniteSets, QueueOrder

CONSTANTS
  Inputs,           \* user inputs; each one is submitted once
  Injectable,       \* inputs whose principal and permission mode allow steering
  Deliverers,       \* concurrent runs of deliverPromotedBlock (a bound)
  None,             \* the undefined of the source
  MaxQueue,         \* limits.maxQueuedTurnsPerSession
  DeliveryAttempts, \* PROMOTED_DELIVERY_ATTEMPTS
  MaxRuns,          \* bound: turns the runtime opens in one behaviour
  MaxExternal,      \* bound: plan executions, whose turns the module did not admit
  MaxOps,           \* bound: operations waiting for admission when a client calls
  MaxRestarts,      \* bound: crashes of the process
  MaxFailures,      \* bound: failed calls of the durable queue
  MaxPlans,         \* bound: proposals that await approval
  ReplyBeforeSettle \* the sidecar's reply to a prompt is read before the turn's
                    \* end has made its round trip through host-core

ASSUME HostAssumption ==
  /\ Injectable \subseteq Inputs
  /\ None \notin Inputs \cup Deliverers \cup Nat
  /\ Inputs \cap Nat = {}
  /\ {MaxQueue, DeliveryAttempts, MaxRuns, MaxExternal, MaxOps,
        MaxRestarts, MaxFailures, MaxPlans} \subseteq Nat
  /\ ReplyBeforeSettle \in BOOLEAN

VARIABLES
  status,      \* state.turns: turn id -> status, "none" when there is no record
  delivery,    \* deliveryPending / deliveredIntoTurnId of a queued input
  activeTurn,  \* state.activeTurnId
  planning,    \* whether a proposal awaits approval, and state.planningState says so
  queue,       \* TurnQueue.bySession: inputs in delivery order
  promoted,    \* the queued inputs that carry a priority
  held,        \* TurnQueue.held
  starting,    \* startingQueuedTurns
  alias,       \* runtimeAliases
  runtimeOf,   \* TurnRecord.runtimeTurnId of a queued input
  gate,        \* admissions, draining and drainPending
  step,        \* where the operation at the head of the admission chain is
  promptRun,   \* the turn the runtime opened for that operation's prompt
  deliverer    \* the running deliverPromotedBlock loops

VARIABLES
  owner,       \* RuntimeService.activeTurns
  run,         \* life of a turn inside the runtime
  runInput,    \* the input a runtime turn was opened for, None if external
  external     \* how far a plan execution inside withSessionOperation is

VARIABLES
  fate,        \* what the client of an input has been told last
  taken,       \* how often the runtime took the input, since the last restart
  spent        \* how much of each bound is used up

hostVars == <<status, delivery, activeTurn, planning>>
queueVars == <<queue, promoted, held>>
aliasVars == <<starting, alias, runtimeOf>>
admissionVars == <<gate, step, promptRun>>
runtimeVars == <<owner, run, runInput, external>>
ghostVars == <<fate, taken>>
vars == <<hostVars, queueVars, aliasVars, admissionVars, deliverer,
          runtimeVars, ghostVars, spent>>

-----------------------------------------------------------------------------
(* Identities and statuses *)

Runs == 1 .. MaxRuns

\* A queued input's turn has an id of the module, any other turn has the
\* runtime's id.
TurnIds == Inputs \cup Runs

Active == {"running", "waiting"}
Terminal == {"completed", "failed", "canceled"}
Status == {"none", "queued"} \cup Active \cup Terminal

StartKinds == {"startNow", "startOrQueue", "enqueue"}
MoveKinds == {"prioritize", "reorderUp", "reorderDown"}
InputKinds == StartKinds \cup MoveKinds \cup {"cancel"}
DelivererKinds == {"reserve", "settle"}

Op(kind, arg) == [kind |-> kind, arg |-> arg]
Ops == [kind : InputKinds, arg : Inputs]
         \cup [kind : DelivererKinds, arg : Deliverers]
         \cup {Op("drain", None)}

Steps == {"begin", "store", "cleanup", "enter", "begun", "failing"}

\* A forgotten proposal still awaits approval; the module no longer knows.
Planning == {"inactive", "awaiting", "forgotten"}

Fates == {"new", "asked", "rejected", "queued",
          "started", "injected", "failed", "canceled"}

Idle == [stage |-> "idle", target |-> None, input |-> None,
         tries |-> 0, called |-> FALSE]

\* A run is begun when the runtime owns it, taken when the sidecar accepted its
\* prompt, live after agent_start, ended or broken when finishTurn has been
\* entered, settled when ownership was released and the module told.
Over == {"ended", "broken"}
RunLives == {"unused", "begun", "taken", "live", "settled"} \cup Over

Gates == [ops : Seq(Ops), draining : BOOLEAN, pending : BOOLEAN]

Stages == {"idle", "reserve", "steer", "accepted", "refused", "wait"}
Loops == [stage : Stages, target : TurnIds \cup {None}, input : Inputs \cup {None},
          tries : Nat, called : BOOLEAN]

Budget == [runs : Nat, external : Nat, restarts : Nat, failures : Nat, plans : Nat]

TypeOK ==
  /\ status \in [TurnIds -> Status]
  /\ delivery \in [Inputs -> {"no", "pending", "delivered"}]
  /\ activeTurn \in TurnIds \cup {None}
  /\ planning \in Planning
  /\ queue \in Seq(Inputs)
  /\ promoted \subseteq Inputs
  /\ held \in BOOLEAN
  /\ starting \in Inputs \cup {None}
  /\ alias \in [Runs -> Inputs \cup {None}]
  /\ runtimeOf \in [Inputs -> Runs \cup {None}]
  /\ gate \in Gates
  /\ step \in Steps
  /\ promptRun \in Runs \cup {None}
  /\ deliverer \in [Deliverers -> Loops]
  /\ owner \in Runs \cup {None}
  /\ run \in [Runs -> RunLives]
  /\ runInput \in [Runs -> Inputs \cup {None}]
  /\ external \in {"none", "claiming", "started"}
  /\ fate \in [Inputs -> Fates]
  /\ taken \in [Inputs -> Nat]
  /\ spent \in Budget

Init ==
  /\ status = [t \in TurnIds |-> "none"]
  /\ delivery = [i \in Inputs |-> "no"]
  /\ activeTurn = None
  /\ planning = "inactive"
  /\ queue = <<>>
  /\ promoted = {}
  /\ held = FALSE
  /\ starting = None
  /\ alias = [r \in Runs |-> None]
  /\ runtimeOf = [i \in Inputs |-> None]
  /\ gate = [ops |-> <<>>, draining |-> FALSE, pending |-> FALSE]
  /\ step = "begin"
  /\ promptRun = None
  /\ deliverer = [d \in Deliverers |-> Idle]
  /\ owner = None
  /\ run = [r \in Runs |-> "unused"]
  /\ runInput = [r \in Runs |-> None]
  /\ external = "none"
  /\ fate = [i \in Inputs |-> "new"]
  /\ taken = [i \in Inputs |-> 0]
  /\ spent = [runs |-> 0, external |-> 0, restarts |-> 0,
              failures |-> 0, plans |-> 0]

-----------------------------------------------------------------------------
(* The admission chain and the drain requests *)

\* withAdmission: an operation joins the chain, and leaves it when it is done.
Called(g, op) == [g EXCEPT !.ops = Append(@, op)]
Popped(g) == [g EXCEPT !.ops = Tail(@)]

\* drain(): one pass per session; a request that meets a running pass is
\* remembered, and the pass then runs once more.
Requested(g) ==
  IF g.draining
  THEN [g EXCEPT !.pending = TRUE]
  ELSE [Called(g, Op("drain", None)) EXCEPT !.draining = TRUE, !.pending = FALSE]

\* Mutant of PassEnds: a pass that ends stays entered in "draining".
PassEndsEntered(g) ==
  IF g.pending THEN Requested([Popped(g) EXCEPT !.draining = FALSE]) ELSE Popped(g)

PassEnds(g) ==
  LET rest == [Popped(g) EXCEPT !.draining = FALSE]
  IN  IF g.pending THEN Requested(rest) ELSE rest

\* The operation op holds the session and is suspended at (or about to run) s.
At(op, s) == gate.ops # <<>> /\ Head(gate.ops) = op /\ step = s

Drain == Op("drain", None)

Done == gate' = Popped(gate) /\ step' = "begin"

Fails == /\ spent.failures < MaxFailures
         /\ spent' = [spent EXCEPT !.failures = @ + 1]

-----------------------------------------------------------------------------
(* What the module believes about the session *)

HasActiveTurn == activeTurn # None /\ status[activeTurn] \in Active

\* isOccupied; runtime.isBusy covers a turn and its finalization.
Occupied == HasActiveTurn \/ planning = "awaiting" \/ owner # None

Busy == Occupied \/ queue # <<>>

ActiveRuntimeTurn ==
  IF ~HasActiveTurn THEN None
  ELSE IF activeTurn \in Inputs /\ runtimeOf[activeTurn] # None
       THEN runtimeOf[activeTurn]
       ELSE activeTurn

\* ensureTurn: an input the module has no record of gets one.
Ensured(i) == [status EXCEPT ![i] = IF @ = "none" THEN "queued" ELSE @]

\* A turn nobody admitted through the module.
ExternalActive == activeTurn \in Runs /\ runInput[activeTurn] = None

\* resolveTurnId: an unknown runtime turn that speaks while a queued input is
\* being started becomes that input's turn.
Adopts(r) == /\ starting # None
             /\ runtimeOf[starting] = None
             /\ alias[r] = None
             /\ status[r] = "none"

\* Mutants of Resolved: no fallback to the recorded alias; no aliases at all.
ResolvedWhileStarting(r) == IF Adopts(r) THEN starting ELSE r
ResolvedNever(r) == r

Resolved(r) == IF alias[r] # None THEN alias[r]
               ELSE IF Adopts(r) THEN starting ELSE r

\* Mutant of Adopt: the alias is entered under the wrong value.
AdoptBackwards(r) ==
  /\ alias' = IF Adopts(r) THEN [alias EXCEPT ![r] = r] ELSE alias
  /\ runtimeOf' = IF Adopts(r) THEN [runtimeOf EXCEPT ![starting] = r] ELSE runtimeOf

Adopt(r) ==
  /\ alias' = IF Adopts(r) THEN [alias EXCEPT ![r] = starting] ELSE alias
  /\ runtimeOf' = IF Adopts(r) THEN [runtimeOf EXCEPT ![starting] = r] ELSE runtimeOf

\* deliverPromotedBlock is entered.  With every deliverer of the bound in use it
\* behaves as on a runtime that cannot steer.
Launches(r, called, g) ==
  LET free == {d \in Deliverers : deliverer[d].stage = "idle"}
      loop(d) == [Idle EXCEPT !.stage = "reserve", !.target = r, !.called = called]
  IN  IF free = {}
      THEN {[loops |-> deliverer, gate |-> g]}
      ELSE {[loops |-> [deliverer EXCEPT ![d] = loop(d)],
             gate |-> Called(g, Op("reserve", d))] : d \in free}

-----------------------------------------------------------------------------
(* Clients call; the operation waits for its turn in the admission chain *)

Call(op) == Len(gate.ops) < MaxOps /\ gate' = Called(gate, op)

\* startTurn and enqueueTurn, one per input.
StartTurn(kind, i) ==
  /\ fate[i] = "new"
  /\ Call(Op(kind, i))
  /\ fate' = [fate EXCEPT ![i] = "asked"]
  /\ UNCHANGED <<hostVars, queueVars, aliasVars, step, promptRun, deliverer,
                 runtimeVars, taken, spent>>

\* cancelTurn, prioritizeTurn, reorderTurn: NOT_FOUND without a turn record;
\* cancelSessionMessage looks for the queue entry.
EditQueue(kind, i) ==
  /\ status[i] # "none" \/ (kind = "cancel" /\ i \in ToSet(queue))
  /\ Call(Op(kind, i))
  /\ UNCHANGED <<hostVars, queueVars, aliasVars, step, promptRun, deliverer,
                 runtimeVars, ghostVars, spent>>

\* A controller attaches: the restored queue may run, and the snapshot gives
\* every queued input a record again.
Attach ==
  /\ held' = FALSE
  /\ gate' = Requested(gate)
  /\ status' = [t \in TurnIds |-> IF t \in ToSet(queue) /\ status[t] = "none"
                                  THEN "queued" ELSE status[t]]
  /\ UNCHANGED <<delivery, activeTurn, planning, queue, promoted, aliasVars, step,
                 promptRun, deliverer, runtimeVars, ghostVars, spent>>

-----------------------------------------------------------------------------
(* startTurnAdmitted *)

\* The input must go to the queue.
Queues(kind) == kind = "enqueue" \/ (Busy /\ kind = "startOrQueue")

StartRejected(kind, i) ==
  /\ At(Op(kind, i), "begin")
  /\ \/ kind = "startNow" /\ Busy
     \/ Queues(kind) /\ Len(queue) >= MaxQueue
  /\ Done
  /\ fate' = [fate EXCEPT ![i] = "rejected"]
  /\ UNCHANGED <<hostVars, queueVars, aliasVars, promptRun, deliverer,
                 runtimeVars, taken, spent>>

StartPushes(kind, i) ==
  /\ At(Op(kind, i), "begin")
  /\ Queues(kind)
  /\ Len(queue) < MaxQueue
  /\ step' = "store"
  /\ UNCHANGED <<hostVars, queueVars, aliasVars, gate, promptRun, deliverer,
                 runtimeVars, ghostVars, spent>>

\* enqueueTurn asks for a drain once its admission is over; startTurn does not.
Pushed(kind, i) ==
  /\ At(Op(kind, i), "store")
  /\ queue' = Append(queue, i)
  /\ status' = [status EXCEPT ![i] = "queued"]
  /\ fate' = [fate EXCEPT ![i] = "queued"]
  /\ gate' = IF kind = "enqueue" THEN Requested(Popped(gate)) ELSE Popped(gate)
  /\ step' = "begin"
  /\ UNCHANGED <<delivery, activeTurn, planning, promoted, held, aliasVars, promptRun,
                 deliverer, runtimeVars, taken, spent>>

PushFails(kind, i) ==
  /\ At(Op(kind, i), "store")
  /\ Fails
  /\ Done
  /\ fate' = [fate EXCEPT ![i] = "rejected"]
  /\ UNCHANGED <<hostVars, queueVars, aliasVars, promptRun, deliverer,
                 runtimeVars, taken>>

StartPrompts(kind, i) ==
  /\ At(Op(kind, i), "begin")
  /\ kind # "enqueue"
  /\ ~Busy
  /\ step' = "enter"
  /\ UNCHANGED <<hostVars, queueVars, aliasVars, gate, promptRun, deliverer,
                 runtimeVars, ghostVars, spent>>

\* prompt() returned.  A turn that already ended keeps its status.
StartReplied(kind, i) ==
  /\ At(Op(kind, i), "begun")
  /\ run[promptRun] \in {"taken", "live"} \cup Over
                          \cup (IF ReplyBeforeSettle THEN {} ELSE {"settled"})
  /\ status' = [status EXCEPT ![promptRun] =
                  IF @ \in Active \cup Terminal THEN @ ELSE "running"]
  /\ activeTurn' = promptRun
  /\ promptRun' = None
  /\ Done
  /\ fate' = [fate EXCEPT ![i] = "started"]
  /\ UNCHANGED <<delivery, planning, queueVars, aliasVars, deliverer, runtimeVars,
                 taken, spent>>

-----------------------------------------------------------------------------
(* RuntimeService.prompt, on behalf of a start operation or of the drain *)

AtPrompt(i, s) ==
  \/ starting = i /\ At(Drain, s)
  \/ \E kind \in StartKinds : At(Op(kind, i), s)

\* The prompt threw: a drained input fails and the pass looks at the next one,
\* a caller of startTurn gets the error.
PromptThrows(i) ==
  /\ IF starting = i
     THEN /\ status' = [status EXCEPT ![i] = "failed"]
          /\ fate' = [fate EXCEPT ![i] = "failed"]
          /\ gate' = gate
     ELSE /\ status' = status
          /\ fate' = [fate EXCEPT ![i] = "rejected"]
          /\ gate' = Popped(gate)
  /\ starting' = None
  /\ step' = "begin"
  /\ promptRun' = None
  /\ UNCHANGED <<delivery, activeTurn, planning, queueVars, alias, runtimeOf,
                 deliverer, runtimeVars, taken>>

\* withSessionOperation waits for a plan dispatch; then AGENT_BUSY, or a failed
\* call before the turn exists.
PromptRefused(i) ==
  /\ AtPrompt(i, "enter")
  /\ external = "none"
  /\ \/ owner # None /\ UNCHANGED spent
     \/ owner = None /\ Fails
  /\ PromptThrows(i)

PromptBegins(i) ==
  /\ AtPrompt(i, "enter")
  /\ external = "none"
  /\ owner = None
  /\ spent.runs < MaxRuns
  /\ LET r == spent.runs + 1 IN
       /\ owner' = r
       /\ run' = [run EXCEPT ![r] = "begun"]
       /\ runInput' = [runInput EXCEPT ![r] = i]
       /\ promptRun' = r
  /\ step' = "begun"
  /\ spent' = [spent EXCEPT !.runs = @ + 1]
  /\ UNCHANGED <<hostVars, queueVars, aliasVars, gate, deliverer, external, ghostVars>>

\* The user message is announced (the module resolves its turn id), then the
\* sidecar accepts the prompt.
SidecarTakes(i) ==
  /\ AtPrompt(i, "begun")
  /\ run[promptRun] = "begun"
  /\ Adopt(promptRun)
  /\ run' = [run EXCEPT ![promptRun] = "taken"]
  /\ taken' = [taken EXCEPT ![i] = @ + 1]
  /\ UNCHANGED <<hostVars, queueVars, starting, gate, step, promptRun, deliverer,
                 owner, runInput, external, fate, spent>>

\* The user message could not be appended, or agent.prompt failed, possibly after
\* the sidecar took the prompt: the turn is finished before the error is thrown.
PromptAbandoned(i) ==
  /\ AtPrompt(i, "begun")
  /\ run[promptRun] # "settled"
  /\ Fails
  /\ run' = [run EXCEPT ![promptRun] = IF @ \in Over THEN @ ELSE "broken"]
  /\ step' = "failing"
  /\ UNCHANGED <<hostVars, queueVars, aliasVars, gate, promptRun, deliverer,
                 owner, runInput, external, ghostVars>>

PromptFailed(i) ==
  /\ AtPrompt(i, "failing")
  /\ run[promptRun] = "settled"
  /\ PromptThrows(i)
  /\ UNCHANGED spent

-----------------------------------------------------------------------------
(* drainAdmitted *)

DrainStops ==
  /\ At(Drain, "begin")
  /\ \/ held \/ Occupied \/ queue = <<>>
     \/ queue # <<>> /\ delivery[Head(queue)] = "pending"
  /\ gate' = PassEnds(gate)
  /\ UNCHANGED <<hostVars, queueVars, aliasVars, step, promptRun, deliverer,
                 runtimeVars, ghostVars, spent>>

\* Mutant of DrainMayTake: a restored queue is drained like any other.
DrainMayTakeHeld == ~Occupied /\ queue # <<>>

DrainMayTake == ~held /\ ~Occupied /\ queue # <<>>

\* Mutant of DrainTakesHead: startingQueuedTurns is set before the row is removed.
DrainTakesHeadEarly ==
  /\ At(Drain, "begin")
  /\ DrainMayTake
  /\ delivery[Head(queue)] = "no"
  /\ status' = Ensured(Head(queue))
  /\ starting' = Head(queue)
  /\ step' = "store"
  /\ UNCHANGED <<delivery, activeTurn, planning, queueVars, alias, runtimeOf, gate,
                 promptRun, deliverer, runtimeVars, ghostVars, spent>>

\* ensureTurn gives the head a record; then the durable row is removed.
DrainTakesHead ==
  /\ At(Drain, "begin")
  /\ DrainMayTake
  /\ delivery[Head(queue)] = "no"
  /\ status' = Ensured(Head(queue))
  /\ step' = "store"
  /\ UNCHANGED <<delivery, activeTurn, planning, queueVars, aliasVars, gate, promptRun,
                 deliverer, runtimeVars, ghostVars, spent>>

DrainShifted ==
  /\ At(Drain, "store")
  /\ starting' = Head(queue)
  /\ queue' = Tail(queue)
  /\ promoted' = promoted \ {Head(queue)}
  /\ step' = "enter"
  /\ UNCHANGED <<hostVars, held, alias, runtimeOf, gate, promptRun, deliverer,
                 runtimeVars, ghostVars, spent>>

\* The pass rejects.  Its remembered request is cleared by the next pass only.
DrainShiftFails ==
  /\ At(Drain, "store")
  /\ Fails
  /\ gate' = [Popped(gate) EXCEPT !.draining = FALSE, !.pending = FALSE]
  /\ step' = "begin"
  /\ UNCHANGED <<hostVars, queueVars, aliasVars, promptRun, deliverer,
                 runtimeVars, ghostVars>>

\* The head was delivered into an earlier turn but its row is still there.
DrainSkipsDelivered ==
  /\ At(Drain, "begin")
  /\ DrainMayTake
  /\ delivery[Head(queue)] = "delivered"
  /\ step' = "cleanup"
  /\ UNCHANGED <<hostVars, queueVars, aliasVars, gate, promptRun, deliverer,
                 runtimeVars, ghostVars, spent>>

DrainCleaned ==
  /\ At(Drain, "cleanup")
  /\ queue' = Tail(queue)
  /\ promoted' = promoted \ {Head(queue)}
  /\ step' = "begin"
  /\ UNCHANGED <<hostVars, held, aliasVars, gate, promptRun, deliverer,
                 runtimeVars, ghostVars, spent>>

DrainCleanupFails ==
  /\ At(Drain, "cleanup")
  /\ Fails
  /\ gate' = PassEnds(gate)
  /\ step' = "begin"
  /\ UNCHANGED <<hostVars, queueVars, aliasVars, promptRun, deliverer,
                 runtimeVars, ghostVars>>

\* The prompt returned: the input is the active turn, whatever became of the run
\* meanwhile, and the rest of the promoted block may join it.
DrainReplied(i) ==
  /\ starting = i
  /\ At(Drain, "begun")
  /\ run[promptRun] \in {"taken", "live"} \cup Over
                          \cup (IF ReplyBeforeSettle THEN {} ELSE {"settled"})
  /\ runtimeOf' = [runtimeOf EXCEPT ![i] = promptRun]
  /\ alias' = [alias EXCEPT ![promptRun] = i]
  /\ status' = [status EXCEPT ![i] = IF @ \in Active THEN @ ELSE "running"]
  /\ activeTurn' = i
  /\ starting' = None
  /\ promptRun' = None
  /\ step' = "begin"
  /\ fate' = [fate EXCEPT ![i] = "started"]
  /\ \E launch \in Launches(promptRun, FALSE, gate) :
       deliverer' = launch.loops /\ gate' = PassEnds(launch.gate)
  /\ UNCHANGED <<delivery, planning, queueVars, runtimeVars, taken, spent>>

-----------------------------------------------------------------------------
(* cancelTurn, prioritizeTurn, reorderTurn, once admitted *)

\* Mutant of Waiting: a reservation for delivery does not protect the input.
WaitingByStatus(i) == status[i] = "queued"

Waiting(i) == status[i] = "queued" /\ delivery[i] = "no"

\* Otherwise CONFLICT, already canceled, already prioritized, or nothing to move
\* past.  cancelSessionMessage finds a queue entry that has no record yet.
Editable(kind, i) ==
  /\ Waiting(i) \/ (kind = "cancel" /\ status[i] = "none" /\ i \in ToSet(queue))
  /\ kind = "prioritize" => i \in ToSet(queue) \ promoted
  /\ kind = "reorderUp" => CanReorder(queue, promoted, i, TRUE)
  /\ kind = "reorderDown" => CanReorder(queue, promoted, i, FALSE)

EditRefused(kind, i) ==
  /\ At(Op(kind, i), "begin")
  /\ ~Editable(kind, i)
  /\ Done
  /\ UNCHANGED <<hostVars, queueVars, aliasVars, promptRun, deliverer,
                 runtimeVars, ghostVars, spent>>

\* cancelSessionMessage has ensureTurn give the entry its record.
EditAccepted(kind, i) ==
  /\ At(Op(kind, i), "begin")
  /\ Editable(kind, i)
  /\ status' = Ensured(i)
  /\ step' = "store"
  /\ UNCHANGED <<delivery, activeTurn, planning, queueVars, aliasVars, gate, promptRun,
                 deliverer, runtimeVars, ghostVars, spent>>

EditFails(kind, i) ==
  /\ At(Op(kind, i), "store")
  /\ Fails
  /\ Done
  /\ UNCHANGED <<hostVars, queueVars, aliasVars, promptRun, deliverer,
                 runtimeVars, ghostVars>>

\* cancelQueued
CancelCommitted(i) ==
  /\ At(Op("cancel", i), "store")
  /\ queue' = Without(queue, i)
  /\ promoted' = promoted \ {i}
  /\ IF i \in ToSet(queue) \/ status[i] = "queued"
     THEN /\ status' = [status EXCEPT ![i] = "canceled"]
          /\ fate' = [fate EXCEPT ![i] = "canceled"]
     ELSE UNCHANGED <<status, fate>>
  /\ Done
  /\ UNCHANGED <<delivery, activeTurn, planning, held, aliasVars, promptRun, deliverer,
                 runtimeVars, taken, spent>>

\* afterQueueMove releases a held queue and asks for a drain.
ReorderCommitted(kind, i) ==
  /\ kind \in {"reorderUp", "reorderDown"}
  /\ At(Op(kind, i), "store")
  /\ queue' = Reordered(queue, promoted, i, kind = "reorderUp")
  /\ held' = FALSE
  /\ gate' = Requested(Popped(gate))
  /\ step' = "begin"
  /\ UNCHANGED <<hostVars, promoted, aliasVars, promptRun, deliverer, runtimeVars,
                 ghostVars, spent>>

\* With a turn active, prioritizing also tries to deliver into it.
PrioritizeCommitted(i) ==
  /\ At(Op("prioritize", i), "store")
  /\ queue' = PromoteIn(queue, promoted, i)
  /\ promoted' = promoted \cup {i}
  /\ held' = FALSE
  /\ step' = "begin"
  /\ LET g == Requested(Popped(gate)) IN
       IF ActiveRuntimeTurn = None
       THEN gate' = g /\ UNCHANGED deliverer
       ELSE \E launch \in Launches(ActiveRuntimeTurn, TRUE, g) :
              deliverer' = launch.loops /\ gate' = launch.gate
  /\ UNCHANGED <<hostVars, aliasVars, promptRun, runtimeVars, ghostVars, spent>>

-----------------------------------------------------------------------------
(* deliverPromotedBlock; its steer calls run outside the admission chain *)

\* Mutant of CanInject: an input delivered already is delivered again.
CanInjectAgain(d) ==
  /\ queue # <<>>
  /\ Head(queue) \in promoted \cap Injectable
  /\ ActiveRuntimeTurn = deliverer[d].target
  /\ ExternalActive => deliverer[d].called

CanInject(d) ==
  /\ queue # <<>>
  /\ Head(queue) \in promoted \cap Injectable
  /\ ActiveRuntimeTurn = deliverer[d].target
  /\ ExternalActive => deliverer[d].called
  /\ delivery[Head(queue)] = "no"

Reserved(d) ==
  /\ At(Op("reserve", d), "begin")
  /\ deliverer[d].stage = "reserve"
  /\ CanInject(d)
  /\ status' = Ensured(Head(queue))
  /\ delivery' = [delivery EXCEPT ![Head(queue)] = "pending"]
  /\ deliverer' = [deliverer EXCEPT ![d].stage = "steer", ![d].input = Head(queue)]
  /\ Done
  /\ UNCHANGED <<activeTurn, planning, queueVars, aliasVars, promptRun,
                 runtimeVars, ghostVars, spent>>

NothingToReserve(d) ==
  /\ At(Op("reserve", d), "begin")
  /\ deliverer[d].stage = "reserve"
  /\ ~CanInject(d)
  /\ deliverer' = [deliverer EXCEPT ![d] = Idle]
  /\ Done
  /\ UNCHANGED <<hostVars, queueVars, aliasVars, promptRun, runtimeVars, ghostVars, spent>>

\* RuntimeService.steer dispatches into the turn that owns the session only.
SteerTaken(d) ==
  /\ deliverer[d].stage = "steer"
  /\ owner = deliverer[d].target
  /\ run[owner] \in {"taken", "live"}
  /\ deliverer' = [deliverer EXCEPT ![d].stage = "accepted"]
  /\ gate' = Called(gate, Op("settle", d))
  /\ taken' = [taken EXCEPT ![deliverer[d].input] = @ + 1]
  /\ UNCHANGED <<hostVars, queueVars, aliasVars, step, promptRun, runtimeVars, fate, spent>>

\* Mutant of SteerRefused: the answer "not accepted" is not looked at.
SteerAssumed(d) ==
  /\ deliverer[d].stage = "steer"
  /\ deliverer' = [deliverer EXCEPT ![d].stage = "accepted"]
  /\ gate' = Called(gate, Op("settle", d))
  /\ UNCHANGED <<hostVars, queueVars, aliasVars, step, promptRun, runtimeVars,
                 ghostVars, spent>>

\* Not dispatchable, or the sidecar refuses; the module retries either way.
SteerRefused(d) ==
  /\ deliverer[d].stage = "steer"
  /\ deliverer' = [deliverer EXCEPT ![d].stage = "refused"]
  /\ gate' = Called(gate, Op("settle", d))
  /\ UNCHANGED <<hostVars, queueVars, aliasVars, step, promptRun, runtimeVars,
                 ghostVars, spent>>

\* The bound of the loop: at most DeliveryAttempts entries and retries together.
LastTry(loop) == loop.tries + 1 >= DeliveryAttempts
Tried(loop, stage) ==
  [loop EXCEPT !.stage = stage, !.input = None, !.tries = loop.tries + 1]

SettledRefusal(d) ==
  /\ At(Op("settle", d), "begin")
  /\ deliverer[d].stage = "refused"
  /\ delivery' = [delivery EXCEPT ![deliverer[d].input] = "no"]
  /\ deliverer' = [deliverer EXCEPT ![d] = IF LastTry(@) THEN Idle ELSE Tried(@, "wait")]
  /\ gate' = Requested(Popped(gate))
  /\ step' = "begin"
  /\ UNCHANGED <<status, activeTurn, planning, queueVars, aliasVars, promptRun,
                 runtimeVars, ghostVars, spent>>

\* markDeliveredIntoAnotherTurn, before the durable row is removed.
SettledAcceptance(d) ==
  LET i == deliverer[d].input IN
  /\ At(Op("settle", d), "begin")
  /\ deliverer[d].stage = "accepted"
  /\ IF status[i] \in Terminal
     THEN delivery' = [delivery EXCEPT ![i] = "no"] /\ UNCHANGED <<status, fate>>
     ELSE /\ delivery' = [delivery EXCEPT ![i] = "delivered"]
          /\ status' = [status EXCEPT ![i] = "canceled"]
          /\ fate' = [fate EXCEPT ![i] = "injected"]
  /\ step' = "cleanup"
  /\ UNCHANGED <<activeTurn, planning, queueVars, aliasVars, gate, promptRun, deliverer,
                 runtimeVars, taken, spent>>

\* The loop takes the next entry of the block.
Cleaned(d) ==
  LET i == deliverer[d].input
      g == Requested(Popped(gate))
  IN
  /\ At(Op("settle", d), "cleanup")
  /\ deliverer[d].stage = "accepted"
  /\ queue' = Without(queue, i)
  /\ promoted' = promoted \ {i}
  /\ deliverer' = [deliverer EXCEPT ![d] =
       IF LastTry(@) THEN Idle ELSE Tried(@, "reserve")]
  /\ gate' = IF LastTry(deliverer[d]) THEN g ELSE Called(g, Op("reserve", d))
  /\ step' = "begin"
  /\ UNCHANGED <<hostVars, held, aliasVars, promptRun, runtimeVars, ghostVars, spent>>

\* The accepted input stays queued, marked as delivered, and the loop ends.
CleanupFails(d) ==
  /\ At(Op("settle", d), "cleanup")
  /\ deliverer[d].stage = "accepted"
  /\ Fails
  /\ deliverer' = [deliverer EXCEPT ![d] = Idle]
  /\ gate' = Requested(Popped(gate))
  /\ step' = "begin"
  /\ UNCHANGED <<hostVars, queueVars, aliasVars, promptRun, runtimeVars, ghostVars>>

\* PROMOTED_DELIVERY_RETRY_MS passed.
RetryDelivery(d) ==
  /\ deliverer[d].stage = "wait"
  /\ deliverer' = [deliverer EXCEPT ![d].stage = "reserve"]
  /\ gate' = Called(gate, Op("reserve", d))
  /\ UNCHANGED <<hostVars, queueVars, aliasVars, step, promptRun, runtimeVars,
                 ghostVars, spent>>

-----------------------------------------------------------------------------
(* Runtime events and settlements reach the module outside the chain *)

AgentStart(r) ==
  /\ run[r] = "taken"
  /\ run' = [run EXCEPT ![r] = "live"]
  /\ status' = [status EXCEPT ![Resolved(r)] = "running"]
  /\ activeTurn' = Resolved(r)
  /\ Adopt(r)
  /\ UNCHANGED <<delivery, planning, queueVars, starting, admissionVars, deliverer,
                 owner, runInput, external, ghostVars, spent>>

\* tool_permission_request or asktool_request.  A request travels on host-core's
\* pipe and may be read after the sidecar's terminal event, before endTurn's reply.
AskUser(r) ==
  /\ run[r] \in {"live"} \cup Over
  /\ owner = r
  /\ status[Resolved(r)] # "none"
  /\ status' = [status EXCEPT ![Resolved(r)] = "waiting"]
  /\ Adopt(r)
  /\ UNCHANGED <<delivery, activeTurn, planning, queueVars, starting, admissionVars,
                 deliverer, runtimeVars, ghostVars, spent>>

\* afterApproval, respondInput
Answered(t) ==
  /\ status[t] = "waiting"
  /\ status' = [status EXCEPT ![t] = "running"]
  /\ UNCHANGED <<delivery, activeTurn, planning, queueVars, aliasVars, admissionVars,
                 deliverer, runtimeVars, ghostVars, spent>>

\* closeTurn: the record, when there is one, becomes terminal; the session is
\* idle; the queue may run.
CloseTurn(t, outcome) ==
  /\ status' = IF status[t] = "none" THEN status
               ELSE [status EXCEPT ![t] = outcome]
  /\ activeTurn' = IF status[t] = "none" \/ activeTurn = t THEN None ELSE activeTurn
  /\ gate' = Requested(gate)

\* A terminal event counts for the owner of the session only; it also enters
\* finishTurn.
AgentEnd(r) ==
  /\ run[r] = "live"
  /\ owner = r
  /\ run' = [run EXCEPT ![r] = "ended"]
  /\ CloseTurn(Resolved(r), "completed")
  /\ Adopt(r)
  /\ UNCHANGED <<delivery, planning, queueVars, starting, step, promptRun, deliverer,
                 owner, runInput, external, ghostVars, spent>>

\* An error that meets no active record is diagnostic only.
AgentError(r) ==
  /\ run[r] \in {"taken", "live"}
  /\ owner = r
  /\ run' = [run EXCEPT ![r] = "broken"]
  /\ IF status[Resolved(r)] \in Active
     THEN CloseTurn(Resolved(r), "failed")
     ELSE UNCHANGED <<status, activeTurn, gate>>
  /\ Adopt(r)
  /\ UNCHANGED <<delivery, planning, queueVars, starting, step, promptRun, deliverer,
                 owner, runInput, external, ghostVars, spent>>

\* An abort, which waits until no prompt holds the session operation, a crash of
\* the sidecar, or a plan execution it refused: the turn is finished without a terminal event.
RunAborted(r) ==
  /\ run[r] \in {"taken", "live"}
  /\ owner = r
  /\ promptRun # r
  /\ run' = [run EXCEPT ![r] = "broken"]
  /\ UNCHANGED <<hostVars, queueVars, aliasVars, admissionVars, deliverer, owner,
                 runInput, external, ghostVars, spent>>

\* endTurn closes what no terminal event has closed; it asks for a drain either way.
EndTurn(t, outcome) ==
  IF status[t] \in Active
  THEN /\ status' = [status EXCEPT ![t] = outcome]
       /\ activeTurn' = IF activeTurn = t THEN None ELSE activeTurn
  ELSE UNCHANGED <<status, activeTurn>>

\* finishTurn releases ownership; onTurnEnded calls endTurn, then kick.
Settle(r) ==
  /\ run[r] \in Over
  /\ owner = r
  /\ ReplyBeforeSettle => ~(promptRun = r /\ step = "begun")
  /\ owner' = None
  /\ run' = [run EXCEPT ![r] = "settled"]
  /\ Adopt(r)
  /\ EndTurn(Resolved(r), IF run[r] = "ended" THEN "completed" ELSE "failed")
  /\ gate' = Requested(Requested(gate))
  /\ UNCHANGED <<delivery, planning, queueVars, starting, step, promptRun, deliverer,
                 runInput, external, ghostVars, spent>>

\* dispatchApprovedPlan holds withSessionOperation, a FIFO that a prompt at "enter"
\* has joined already, from its claim until the sidecar has answered.
ExternalEnter ==
  /\ external = "none"
  /\ owner = None
  /\ promptRun = None
  /\ step # "enter"
  /\ spent.external < MaxExternal
  /\ external' = "claiming"
  /\ spent' = [spent EXCEPT !.external = @ + 1]
  /\ UNCHANGED <<hostVars, queueVars, aliasVars, admissionVars, deliverer, owner, run,
                 runInput, ghostVars>>

\* beginTurn, then agent.executeApprovedPlan; an execution the sidecar refuses is
\* finished like an aborted one.
ExternalBegin ==
  /\ external = "claiming"
  /\ spent.runs < MaxRuns
  /\ external' = "started"
  /\ LET r == spent.runs + 1 IN
       owner' = r /\ run' = [run EXCEPT ![r] = "taken"]
  /\ spent' = [spent EXCEPT !.runs = @ + 1]
  /\ UNCHANGED <<hostVars, queueVars, aliasVars, admissionVars, deliverer, runInput, ghostVars>>

\* The execution started, or it was not claimed.
ExternalLeave ==
  /\ external # "none"
  /\ external' = "none"
  /\ UNCHANGED <<hostVars, queueVars, aliasVars, admissionVars, deliverer, owner, run,
                 runInput, ghostVars, spent>>

\* A plan submitted by the live turn awaits approval; later it is decided.
PlanAwait ==
  /\ owner # None
  /\ run[owner] = "live"
  /\ planning = "inactive"
  /\ spent.plans < MaxPlans
  /\ planning' = "awaiting"
  /\ spent' = [spent EXCEPT !.plans = @ + 1]
  /\ UNCHANGED <<status, delivery, activeTurn, queueVars, aliasVars, admissionVars,
                 deliverer, runtimeVars, ghostVars>>

\* A rename or a configure publishes the session as host-core's session row
\* shows it.  That row has no planning state, and no drain is asked for.
SessionChanged ==
  /\ planning = "awaiting"
  /\ planning' = "forgotten"
  /\ UNCHANGED <<status, delivery, activeTurn, queueVars, aliasVars, admissionVars,
                 deliverer, runtimeVars, ghostVars, spent>>

\* A status event of a turn that started meanwhile carries the sidecar's view.
StatusApplied ==
  /\ planning = "forgotten"
  /\ owner # None
  /\ run[owner] = "live"
  /\ planning' = "awaiting"
  /\ UNCHANGED <<status, delivery, activeTurn, queueVars, aliasVars, admissionVars,
                 deliverer, runtimeVars, ghostVars, spent>>

PlanLeave ==
  /\ planning # "inactive"
  /\ planning' = "inactive"
  /\ gate' = Requested(gate)
  /\ UNCHANGED <<status, delivery, activeTurn, queueVars, aliasVars, step, promptRun,
                 deliverer, runtimeVars, ghostVars, spent>>

\* The process is gone and comes back: the durable queue is restored and held.
Restart ==
  /\ spent.restarts < MaxRestarts
  /\ spent' = [spent EXCEPT !.restarts = @ + 1]
  /\ status' = [t \in TurnIds |-> "none"]
  /\ delivery' = [i \in Inputs |-> "no"]
  /\ activeTurn' = None
  /\ planning' = "inactive"
  /\ held' = (queue # <<>>)
  /\ starting' = None
  /\ alias' = [r \in Runs |-> None]
  /\ runtimeOf' = [i \in Inputs |-> None]
  /\ gate' = [ops |-> <<>>, draining |-> FALSE, pending |-> FALSE]
  /\ step' = "begin"
  /\ promptRun' = None
  /\ deliverer' = [d \in Deliverers |-> Idle]
  /\ owner' = None
  /\ run' = [r \in Runs |-> IF run[r] = "unused" THEN "unused" ELSE "settled"]
  /\ external' = "none"
  /\ taken' = [i \in Inputs |-> 0]
  /\ UNCHANGED <<queue, promoted, runInput, fate>>

-----------------------------------------------------------------------------
(* The specification *)

ClientSteps ==
  \/ \E i \in Inputs :
       \/ \E kind \in StartKinds : StartTurn(kind, i)
       \/ \E kind \in MoveKinds \cup {"cancel"} : EditQueue(kind, i)
  \/ Attach

\* What the operation at the head of the admission chain does next.
AdmittedStep ==
  \/ \E i \in Inputs :
       \/ \E kind \in StartKinds :
            \/ StartRejected(kind, i) \/ StartPushes(kind, i) \/ Pushed(kind, i)
            \/ PushFails(kind, i) \/ StartPrompts(kind, i) \/ StartReplied(kind, i)
       \/ \E kind \in MoveKinds \cup {"cancel"} :
            \/ EditRefused(kind, i) \/ EditAccepted(kind, i) \/ EditFails(kind, i)
            \/ ReorderCommitted(kind, i)
       \/ CancelCommitted(i) \/ PrioritizeCommitted(i)
       \/ PromptRefused(i) \/ PromptBegins(i) \/ SidecarTakes(i)
       \/ PromptAbandoned(i) \/ PromptFailed(i) \/ DrainReplied(i)
  \/ DrainStops \/ DrainTakesHead \/ DrainShifted \/ DrainShiftFails
  \/ DrainSkipsDelivered \/ DrainCleaned \/ DrainCleanupFails
  \/ \E d \in Deliverers :
       \/ Reserved(d) \/ NothingToReserve(d) \/ SettledRefusal(d)
       \/ SettledAcceptance(d) \/ Cleaned(d) \/ CleanupFails(d)

DelivererStep(d) == SteerTaken(d) \/ SteerRefused(d) \/ RetryDelivery(d)

RunEnds(r) == AgentEnd(r) \/ AgentError(r) \/ RunAborted(r)

RunStep(r) == AgentStart(r) \/ RunEnds(r) \/ Settle(r)

Next ==
  \/ ClientSteps
  \/ AdmittedStep
  \/ \E d \in Deliverers : DelivererStep(d)
  \/ \E r \in Runs : RunStep(r) \/ AskUser(r)
  \/ \E t \in TurnIds : Answered(t)
  \/ ExternalEnter \/ ExternalBegin \/ ExternalLeave
  \/ PlanAwait \/ SessionChanged \/ StatusApplied \/ PlanLeave
  \/ Restart

Spec == Init /\ [][Next]_vars

\* JavaScript runs the queued continuations, every call into another process is
\* answered or times out, and a turn ends (its user can abort it).  Clients,
\* approvals, plan decisions and attaches owe nothing.
Fairness ==
  /\ WF_vars(AdmittedStep)
  /\ \A d \in Deliverers : WF_vars(DelivererStep(d))
  /\ \A r \in Runs : WF_vars(AgentStart(r)) /\ WF_vars(RunEnds(r)) /\ WF_vars(Settle(r))
  /\ WF_vars(ExternalBegin \/ ExternalLeave)

FairSpec == Spec /\ Fairness

-----------------------------------------------------------------------------
(* Properties *)

\* At most one turn of the session is running or waiting for its user.
OneActiveTurn ==
  \A s, t \in TurnIds : status[s] \in Active /\ status[t] \in Active => s = t

\* A turn the module shows as active is the one the runtime owns: whatever was
\* decided while a prompt, an event or an approval was in flight, no record is
\* left active after its run was settled, which would occupy the session for good.
NoOrphanedTurn ==
  \A t \in TurnIds :
    status[t] \in Active => owner # None /\ t \in {owner, alias[owner]}

\* An input that is still in the queue is no turn of its own yet: no event, reply
\* or settlement of another run changed its record.
QueuedInputsWait ==
  \A i \in ToSet(queue) :
    \/ status[i] \in {"none", "queued"} /\ delivery[i] # "delivered"
    \/ status[i] = "canceled" /\ delivery[i] = "delivered"

\* Delivery order: the promoted block first, nobody twice, nobody promoted that
\* is not queued.
QueueInOrder == Ordered(queue, promoted) /\ promoted \subseteq ToSet(queue)

\* Between two restarts the runtime takes an input once, as a turn of its own or
\* into a running turn, whichever refusals, retries and failed cleanups happen.
TakenAtMostOnce == \A i \in Inputs : taken[i] <= 1

\* A client told that its queued input is canceled will not see it executed:
\* the runtime has not taken it since the last restart and never will.
CancelIsFinal == \A i \in Inputs : fate[i] = "canceled" => taken[i] = 0

\* An input reported as queued is in the queue, or is the one being started.
NoQueuedInputLost ==
  \A i \in Inputs : fate[i] = "queued" => i \in ToSet(queue) \/ starting = i

\* A restored queue runs nothing before a controller shows up: no input leaves
\* it to be started, none is reserved for or steered into a turn.
HeldQueueRests ==
  held => /\ starting = None
          /\ \A i \in Inputs : delivery[i] = "no"
          /\ \A d \in Deliverers : deliverer[d].stage = "idle"

\* Promoted inputs are delivered in the order they were promoted in: whatever else
\* is moved, canceled or delivered, neither another step nor a later promotion
\* puts one before an earlier one.
PromotionIsFinal ==
  [][\A i \in promoted \cap promoted' : \A j \in promoted' \ {i} :
       j \notin promoted \/ IndexOf(queue, i) < IndexOf(queue, j)
         => IndexOf(queue', i) < IndexOf(queue', j)]_vars

\* "A late prompt acknowledgement" does not "revive a terminal turn" (the test at
\* agent-host.test.ts:500): the reply of a prompt makes no closed turn active.
AcknowledgementRevivesNothing ==
  [][promptRun # None /\ promptRun' = None =>
       \A t \in TurnIds : status[t] \in Terminal => status'[t] \notin Active]_vars

\* A queued turn waits "behind a pending contract approval and drains when planning
\* leaves it" (the test at agent-host.test.ts:1039): no drain pass starts an input
\* while a proposal of the session awaits approval.  The code does not keep it:
\* SessionChanged forgets the proposal (README, "What the models disproved").
QueueWaitsForApproval ==
  [][starting # None \/ starting' = None \/ planning = "inactive"]_vars

\* Without a restart the module keeps the promise of TurnDelivery.
Delivery == INSTANCE TurnDelivery

KeepsPromise == Delivery!Spec

\* Under Fairness it also keeps the promise that a queued input leaves the queue,
\* whatever the order of settlements, replies and drain requests.
KeepsFairPromise == Delivery!FairSpec

=============================================================================
