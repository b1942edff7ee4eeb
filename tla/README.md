# PI Desktop: formal models of its session hosts

TLA+ models, TLC runs and TLAPS proofs for the parts of PI Desktop that decide
what a session does and what its users are told about it: the Agent Host and its
turn queue, the dispatch of approved plans, tool approvals, the event stream a
remote desktop follows, and the way of a streamed reply into the transcript. All
paths are relative to the repository (`src/`).

## The system

PI Desktop is an Electron application, a Node sidecar that runs agents, a Rust
process (`host-core`) that owns the database, and a headless host (`pi-host`)
that serves the same agents to remote clients.

| Component | State it keeps | Operations | Talks to |
|---|---|---|---|
| Agent Host (`packages/agent-host/src/agent-host.ts`) | turn records, active turn, aliases of runtime turns, per-session admission chain, drain flags, idempotency keys | start, enqueue, cancel, promote, reorder, attach, approve, answer, ingest of runtime events, `endTurn`, `kick` | clients (RACP), the runtime port, the queue store |
| Turn queue (`turn-queue.ts`) | one array per session in delivery order, held sessions | restore, push, remove, shift, promote, reorder, resume | host-core through `host-ports.ts` |
| Durable queue (`crates/host-core/src/turn_queue.rs`) | `turn_queue` rows: position, priority, key | push, list, remove, prioritize, reorder | SQLite |
| Approvals (`approvals.ts`) | open requests, outcomes, deadlines | open by notification or list, resolve, settle, expire, cancel | host-core's gates, the desktop's card through `agent-host-bridge.ts` |
| Event log (`event-log.ts`) | bounded log and epoch, a window per subscriber | publish, replay, subscribe, ack, close | RACP server |
| RACP server and client (`packages/racp`) | connections, subscriptions, pending requests | request, answer, notify, reconnect | each other |
| Remote hosts of the desktop (`apps/desktop/electron/main/remote`) | watch list, streams, queue of recoveries, decision cards | watch, recover, resync, read | RACP client, renderer |
| Runtime service (`packages/host-runtime/src/runtime-service.ts`) | active turn per session, finalizations, a per-session operation chain | prompt, steer, stop, abort, compact, `finishTurn`, settlement of a crash | sidecar, host-core, Agent Host (events, settlements) |
| Plan dispatch (`plan-dispatch.ts`) | executions in flight, turn of an execution, outcomes to deliver | dispatch, finish, drain | runtime service (shares its operation chain), host-core |
| Checkpoints and turn events (`inflight-checkpoint.ts`, `turn-events.ts`, `turn-persistence.ts`) | pending snapshot, one write in flight, ordered rows with retries, reserved replies | observe, flush, settle, append | host-core |
| Supervisor (`runtime-supervisor.ts`) | restart budget | restart | the two children |
| host-core plans and permissions | proposals, executions, mode of a session, gates | enter, submit, resolve, claim, finish, sweep at open | every client |
| host-core sessions and transcripts (`sessions.rs`, `transcripts.rs`) | rows, index, checkpoint of the streaming reply, turns | begin and end turn, append, save, recovery at boot and at the end of a turn | files, SQLite |
| Live work (`host-runtime/src/live-work`) | operation ledger, feedback queue | admit, claim, report | voice sessions, Agent Host |
| host-core collaboration, tasks, scheduler | tables | RPC | every client |
| Agent runtime (`packages/agent-runtime`) | session of the model, path locks, leases | prompt, steer, abort, tools | providers, host-core |
| Desktop main process, renderer, plugins, voice, computer use | windows, caches, outbox | presentation | the above |

`PROJECT.json` lists each of them with its files, what is modelled and why the
rest is not.

What is hard here: one JavaScript process interleaves at every `await`; events,
replies and settlements of one turn arrive through different pipes; host-core
serves requests concurrently, so that what was asked first may be done last; a
promoted input is steered into a running turn outside the admission chain; the
queue, the approvals and the transcript each exist twice; a desktop follows a
session over a connection that drops; any of the processes may crash at any
point and is restarted beside the others.

## Modules

| Module | Models | Lines up with |
|---|---|---|
| `QueueOrder` | delivery order as pure operators on a sequence and the set of promoted entries | `orderQueue`, `nextPriority`, `adjacentIndex`, `splice` of `turn-queue.ts` |
| `TurnQueue` | mirror and rows of one session, the store call between them, lost answers, restarts, idempotency keys | `turn-queue.ts`, `turn_queue.rs`, `createHostQueueStore` |
| `AgentHost` | one session: admission chain, drain passes, delivery of promoted inputs, runtime ownership, events, settlements, plan executions, crash | `agent-host.ts`, `runtime-service.ts`, `plan-dispatch.ts`, `app.ts` |
| `TurnDelivery` | abstract: what a client of the queue is promised | the contract in the spec 19, 7.3 and ADR 0213, 0265 |
| `PlanStore` | proposals, executions, turns and mode of one session in host-core, one operator per transaction | `plans/approval.rs`, `plans/execution.rs`, `sessions.rs`, `rpc/mod.rs` |
| `PlanExecution` | from an approved contract to the turn that runs it, between two children that crash | `plan-dispatch.ts`, `runtime-service.ts`, `app.ts` |
| `PlanContract` | abstract: what approving a plan means | ADR 0053 |
| `EventHub` | stream, replay and window of a subscriber as pure operators | `event-log.ts` |
| `RemoteSession` | one session of a remote Host as one desktop follows it | `event-log.ts`, RACP server and client, `electron/main/remote`, the decision cards |
| `SessionView` | abstract: the desktop's view of a session is a moment of its history | |
| `TranscriptStore` | rows, checkpoint and deferred writes of one turn in host-core, one operator per request | `sessions.rs`, `transcripts.rs`, `state.rs` |
| `TurnTranscript` | how the replies of one turn reach it | `turn-events.ts`, `inflight-checkpoint.ts`, `turn-persistence.ts`, `runtime-service.ts` |
| `ApprovalBroker` | tool approvals of one session: host-core's gates, the broker, remote approvers and the local card | `permissions.rs`, `approvals.ts`, `agent-host.ts`, `agent-host-bridge.ts` |
| `MC...` | the instances TLC checks | |
| `QueueOrderProofs` | lemmas: the operators on the queue; sorting a finite set by a strict order; the order within the promoted block | |
| `TurnQueueProofs`, `AgentHostProofs`, `PlanExecutionProofs`, `ApprovalBrokerProofs`, `TurnTranscriptProofs`, `RemoteSessionProofs` | theorems about the modules they are named after | |
| `DeliveryProofs` | theorems about `AgentHost`, on top of `AgentHostProofs`: what becomes of an input, which turn is active, the refinement of `TurnDelivery` | |

`QueueOrder` is used by `TurnQueue` and `AgentHost`, `PlanStore` by
`PlanExecution`, `EventHub` by `RemoteSession`, `TranscriptStore` by
`TurnTranscript`. Three modules instantiate an abstract specification and are
checked to implement it: `AgentHost` (`TurnDelivery`, with the history variables
`fate` and `taken`), `PlanExecution` (`PlanContract`, with `runs` and `ranAs`) and
`RemoteSession` (`SessionView`, whose variables are expressions over its state).

### AgentHost: state and steps

An action is the code one JavaScript task runs between two awaits.

- `gate.ops` is the promise chain of `withAdmission`; its head runs, and `step`
  says at which await it is suspended (`store`: a queue call; `enter`: waiting
  for the runtime's session operation; `begun`: the turn exists, the sidecar has
  not answered; `failing`: the prompt's error waits for `finishTurn`; `cleanup`:
  the row of a delivered input is being removed). `gate.draining` and
  `gate.pending` are the two sets of `drain`.
- `status`, `activeTurn`, `alias`, `runtimeOf`, `starting`, `delivery` are the
  fields of the same names in the source; `waiting_approval` and
  `waiting_input` are one status, `completed` and `interrupted` are one.
- `owner` and `run` are `RuntimeService.activeTurns` and the life of a turn in
  it; `external` is a plan execution inside `withSessionOperation`.
- `planning` is `planningState` next to the truth: a proposal that awaits
  approval may be `forgotten` by the module.
- `deliverer` holds the loops of `deliverPromotedBlock`; two of their steps are
  operations in the chain (`reserve`, `settle`), the steer call is outside it.
- `fate` and `taken` are history: what the client was told last, and how often
  the runtime took the input since the last restart.
- `spent` counts what the bounds limit.

Data is abstracted to what the properties tell apart: an input is a model value
submitted once; permission modes and principals are the set `Injectable`;
session status, items, revisions and emitted events are left out. The store
call and the change of the mirror are one step here, because `TurnQueue` models
that pair. Turn records are not pruned (`MAX_TURNS_PER_SESSION` is far above
what one behaviour opens). Time-outs are the freedom of the scheduler.

### TurnQueue: state and steps

`rows`, `position`, `priority`, `keyOf` are columns; `mirror` and `block` are
the array and its `priority` fields; `call` is the one store call that the
admission chain allows to be in flight: sent, executed by host-core, answered.
`ReplyLost` ends a call with an error before or after its transaction.
`Restart` is `restore`.

### PlanStore and PlanExecution: state and steps

`proposal`, `exec`, `turn`, `mode` are rows of host-core; an operator of
`PlanStore` is one transaction, with the conditions its SQL states. In
`PlanExecution` a call to a child is sent, has its effect and is answered in
three steps wherever another step can come between, and a crash of the child
fails every open call, executed or not. `op` is the operation that
`withSessionOperation` runs, `waiting` the dispatches that queue behind it or
wait for their timer, `lookups` the queries of
`dispatchExecutionForProposal`, `drain` the pass after a restart of a child.
`current`, `turnOf`, `started`, `finished`, `outcome` and `finishing` are the
maps of the dispatcher; `owner`, `ending`, `aborting` and `crashed` those of the
runtime service. `runs` and `ranAs` are history for `PlanContract`.

An approval is repeated only after it was given. A dispatch call that times out
(130 s) is not told apart from one whose child crashed. Executions that still
run in a sidecar when host-core's sweep interrupted their rows go on, as ADR
0053 has it; the contract allows a record that says less than the run did, never
more.

### EventHub and RemoteSession: state and steps

A stream is `[epoch, sequence, oldest]`, a subscription `[id, delivered,
outstanding]`; the operators of `EventHub` are the methods of `event-log.ts`.
`frames` is the connection, in order; a drop loses it with all requests in
flight, and `ProcessLost` also loses the Host's stream, which starts again in a
new epoch. `conn`, `watched`, `stream`, `acking`, `tasks`, `worker`, `reader`
and `bridge` are the desktop's fields, `cards` is what its user sees. Durable
events are the ones that open or close a decision card: a lost one is a card that
never goes away or never comes.

The Host's own stream and `session/list` decide only `routed`. The first
`opened` of a connection is the same step as a reconnect. Time-outs of
requests, archiving and `forgetSession`, eviction by the budget of watched
sessions and ephemeral events are not modelled. A subscribe answer that says the
replay was incomplete lets live events reach the bridge before the second
snapshot, as in the code.

### TranscriptStore and TurnTranscript: state and steps

`store` is `[rows, index, checkpoint, owed, turn]`: what host-core has of one
turn. `rows` is the transcript file as it is read (`dedupe_records`: the first
line with an id gives the place, the last one the content), `index` says of each
id whether the database lists it, and whether as a reservation (`streaming`) or as
final; `owed` holds checkpoint writes that a request has decided under the lock
and performs after it. A text is the number of pieces streamed so far. `live`,
`save` and `flushing` are the checkpointer, `chain` and `head` the ordered row
queue with its retry, `reserved` the replies whose place a steering input
reserved (`Note` is that input), `finish` the one `session.endTurn`, `crash` the
settlement of a dead sidecar. host-core serves requests in any order; `host` is
`booted` after its boot sweep and before the runtime greets it. `Quiet` says
that a later reply starts when nothing about the one before is on its way, which
a model call outlasts, unless host-core died meanwhile.

An operation of host-core is one step, because requests are served under the
state lock, but several durable writes: an append writes its line to the file and
then commits the index row (`sessions.rs:2646-2661`, `2284-2288`); a promotion
lines the index up, removes the checkpoint (`2770`), writes the line and commits
the index row (`2781-2795`); the end of a turn and the boot commit the turn's
status first. `AppendLeaves`, `RecoverLeaves`, `EndTurnLeaves` and `BootLeaves`
are the stores that a death between two of these writes leaves, and `HostDies`
leaves any of them (`Leavings`), when host-core dies alone and when the process
dies. A row is then on file and not in the index, or a reply in neither file;
the retried append and the next boot start from there.

The row queue gives up only while host-core is down and no snapshot is pending:
its 15 attempts take some 48 s, the checkpoint's timer 1.5 s. A turn with status
`error` ends like a completed one. One session and one turn are modelled;
delegates, tool and usage rows and the user row of the next turn are not. Nor are
a write that fails while host-core goes on (in a promotion it loses the reply as a
death does), a device that loses flushed bytes, and the second line that a retried
append leaves in the file for a row that was not indexed: only a bounded page of
the transcript counts lines, every other read merges them (the test at
`sessions.rs:5977-6002`).

### ApprovalBroker: state and steps

`gate` and `asker` are host-core's permission requests and the tool calls behind
them; `pending`, `turnOf`, `overdue`, `results` the broker's maps; `resolving` is
`resolvingViaModule` of the bridge, `call` the one `permissions.resolve` call of
each caller, `listing` the `permissions.pending` call of a device that
attaches. A call is sent, executed and answered; answers overtake each other and
the notification of a request. The composition is the desktop's: the notification
names no turn, so that the active one waits, and the local card answers
host-core directly and tells the module afterwards. `pi-host` is the part of it
without the card, where the notification names the turn. The broker's settlement
and the return of the port are one step, because no other task runs between
them. `question`, `inputs` and `replying` are the questions to the user, which
write the status of the same turn: `asktool_request` replaces whatever it was by
`waiting_input` (`agent-host.ts:336-338`), and the answer replaces that by
`running` (`799-800`), open approvals or not. `shadowed` is a history variable: a
question was asked in the active turn after its last approval request.
The eviction of the oldest of 1000 outcomes and the displayed status of
the session are not modelled, and a contract takes `PlanStore`'s path.

## Runs

All runs use `CHECK_DEADLOCK FALSE`: inputs are submitted once and every other
source of steps is bounded, so a behaviour may end with all bounds used up.

| Run | Shows | States |
|---|---|---|
| `host_queue` | three inputs, promotion, steering, two failing store calls. One turn is active and the runtime owns it (`OneActiveTurn`, `NoOrphanedTurn`), the queue keeps its order (`QueueInOrder`, `PromotionIsFinal`), nothing is taken twice (`TakenAtMostOnce`) | 1.5 million |
| `host_plans` | plan executions and approvals beside the queue: `QueuedInputsWait`, `NoQueuedInputLost`, and `AgentHost` implements `TurnDelivery` (`KeepsPromise`) | 1.7 million |
| `host_restart` | a crash at every step, two operations admitted: `HeldQueueRests`, `CancelIsFinal` | 1.2 million |
| `host_delivers` | liveness: `KeepsFairPromise`, every queued input leaves the queue | 37 thousand |
| `queue_store` | mirror and rows agree after every sequence of operations (`MirrorMatchesRows`, `StoreKeepsOrder`), with a restart, a lost answer and a repeated key (`ExecutedIsGone`, `MirrorInOrder`) | 0.7 million |
| `plan_runs` | two contracts, two prompts, one abort or crash. A session has one contract at a time (`OneContract`), a running execution has somebody who closes it (`RunningIsOwned`), an owned turn lives (`OwnedTurnIsAlive`), `PlanExecution` implements `PlanContract` (`KeepsContract`), and every approved contract settles (`ExecutionsSettle`) | 0.4 million |
| `remote_view` | eviction, slow reading, a lost connection, a restart of the Host. No event is lost on a live stream (`NothingLostInFlight`), a live stream is one the Host feeds (`LiveIsSubscribed`), the backlog is bounded (`BacklogBounded`), `RemoteSession` implements `SessionView` (`KeepsView`), and the desktop catches up (`CatchesUp`) | 0.9 million |
| `transcript` | two replies and steering input; host-core, or the sidecar and the process, die at any step and between two durable writes of one. The index is never ahead of the file (`TypeOK`), a finished text reaches the transcript (`FinishedTextLands`) in order (`TranscriptInOrder`), a row the index has as final stays (`SettledRowsStay`), the last copy of a reply is not removed except in the middle of a promotion (`KeepsReplies`), nothing of a completed turn stays half written (`CompletedTurnsSettle`) | 1.6 million |
| `approvals` | two requests, a remote approver, the card, expiry, a closing turn, a late list, a question to the user. What is reported is what was executed (`ReportedIsExecuted`), one caller wins (`OneWinner`), a waiting tool call can be answered and, unless a question came after it, is shown (`WaitingCallIsAnswerable`, `WaitingCallIsShown`) | 4.4 million |
| `host_late_reply` | expected violation, finding 1 | |
| `transcript_replay` | expected violation, finding 2 | |
| `approval_card` | expected violation, finding 3 | |

Every property of a passing run has a mutant of a modelled definition, kept
next to it in the module, that breaks it.

### Bounds

- Queue: two or three inputs. The relations the properties speak of (order,
  overlap, overtaking) involve two; a third one is needed for a reorder past a
  promoted block and for a pass that starts one, steers one and leaves one.
- `MaxQueue = 2`: a full queue is reached. `TurnQueue` uses three rows, so that
  the neighbour of a reorder is not always the only other row.
- `DeliveryAttempts = 2` instead of 8: the loop retries once and gives up once.
- One deliverer: a second concurrent loop behaves as on a runtime without
  steering. Both loops would go through the same chain.
- `MaxOps = 1` or 2: a client call is admitted while the chain is shorter than
  this; drains, reservations and settlements queue behind it without a limit.
- `MaxRuns`: turns the runtime opens. `MaxExternal`, `MaxPlans`, `MaxRestarts`
  are 0 or 1 and `MaxFailures` is up to 2 (a cleanup that fails twice), turned on
  in the run whose question needs them. `HostDelivers` was also checked with a
  plan execution, three runs and one input that cannot be injected (515 thousand
  states).
- Plans: two proposals, so that a contract meets the leftovers of the one
  before; two prompts, one to be in the way and one after; four turns in all; one
  fault, an abort or a crash at any step. `CrashDuringDrain = FALSE` excludes a
  second crash of host-core under the drain (see below).
- Remote: two prompts, three events, a log of three and a window of two, so that
  the log evicts and the window closes; two lives of the Host, one loss, one read
  of the transcript. `EarlyClose = FALSE` excludes a close that overtakes the
  answer to its own subscribe (see below).
- Transcript: two replies, one note and one piece of text. `Mishaps` is the sets of
  faults of which a behaviour may meet one: `{"host"}` or `{"sidecar", "process"}`,
  each fault once and at any step, so that the process may die while the reply of a
  dead sidecar is promoted. Any two of the three faults were explored once for the
  safety properties (4.3 million states). `transcript_replay` needs one reply of two
  pieces.
- Approvals: two requests, two decisions, one question, one remote approver and
  the card, one turn. The theorems hold for any number; without questions, two
  approvers (152 thousand states with one request and two turns, 9.8 million with
  two requests) and two turns (7.8 million) were checked too.
- Symmetry only in safety runs in which all members of a set are
  interchangeable.

### Findings

1. `drainAdmitted` writes `running` over a terminal status when the prompt's
   reply is handled after the turn's end (`agent-host.ts:999`); the branch of
   `startTurnAdmitted` checks for it, and a test and the spec rule it out.
   Clients see a turn complete twice. It is not orphaned: `NoOrphanedTurn` holds.
2. host-core dies while a reply streams and comes back. Its boot sweep promotes
   the partial checkpoint to a settled row although the turn goes on; the
   finished reply arrives under the same id and is dropped as a duplicate
   (`sessions.rs:2303`), which the row queue counts as written. The transcript
   keeps the truncated text. `FinishedTextLands` says what remains true: without
   a crash of host-core or of the sidecar, whose settlement promotes the row in
   the same way, every finished text is in the transcript.
3. The local card decides a request while a remote answer is under way.
   `settleApproval` returns early because the bridge believes that the module is
   resolving the request (`agent-host-bridge.ts:468`); the module's call is
   refused, and nobody settles. The request stays open, its turn is shown waiting
   while the tool runs, and the remote approver gets an error.

### What the models disproved

Statements that looked right and are not, found while the models were written.
No run keeps them; the definition or the bound that shows each is named.

- The runtime's first unknown turn is the record of the input being started
  (`resolveTurnId`). A plan execution dispatched while a drained input waits
  takes that record, and later two turns are running: with such a dispatch,
  `OneActiveTurn` does not hold.
- A queued input survives a crash. Between `queue.shift` and the prompt it is
  nowhere: `NoQueuedInputLost` fails with a restart.
- A repeated idempotency key names the same turn. After a restart the key map is
  empty and a second queued turn is made (`SameKeySameTurn`).
- A queue waits for a pending approval. A rename or a configure while a proposal
  waits makes the module forget the proposal (`agent-host.ts:398`), and a drain
  pass starts an input (`QueueWaitsForApproval`).
- A turn that is owned is run. When host-core dies again under the drain that
  follows a restart of the sidecar, a turn stays owned by nobody's run
  (`CrashDuringDrain = TRUE`, `OwnedTurnIsAlive`).
- A closed subscription is noticed. A close that arrives before the answer which
  names its subscription is dropped (`remote-subscriptions.ts:64`) and the
  stream looks live (`EarlyClose = TRUE`, `LiveIsSubscribed`).
- The second of two approvers learns the outcome. It is told `NOT_FOUND` by
  host-core unless its answer arrives after the first one was settled. A
  request decided before a late list is opened again without an event; it can
  only expire or be canceled with its turn, which it keeps waiting. A turn that
  closes while a remote answer awaits leads to two `approval.resolved` events,
  and an answer that finds its request expired settles it without one although
  the gate is still open.
- A row that is complete in the file is not replaced by less (`ContentIsKept`). The
  comment at `sessions.rs:2643-2645` says that a crash between the durable line and
  the commit of its index row "costs one derived row (...), never message content".
  If the line is the finished reply, its checkpoint is still there, boot finds the
  row not indexed, or still a reservation in the index, and writes the partial
  checkpoint over it (`2738-2752`, `2781-2795`); the retried final row is then
  dropped (`2303`). TLC needs eleven states: one reply of two pieces, host-core dying
  in its last append. `SettledRowsStay` therefore speaks of what the index has as
  final, and `FinishedTextLands` excludes crashes of host-core.
- A reply that has a copy keeps one (`NoReplyIsLost`). `recover_inflight_message`
  removes the checkpoint (`sessions.rs:2770`) before it writes the row that takes its
  place (`2781-2795`). When the sidecar dies and then the process, while the end of
  the turn promotes the reply, or when host-core dies in the promotion that its boot
  or its greeting makes, both are gone: the reply shown so far is lost, although the
  loss is bounded to the last checkpoint interval by
  `docs/spec/03-runtime/04-data-storage.md:1554-1557` and ADR 0153. `KeepsReplies`
  excludes exactly these deaths (`DiesPromoting`).
- A tool call that waits is shown as waiting. When a background delegate's call
  waits and another tool of the turn asks the user, the turn is shown as
  `waiting_input`, and after the answer as `running` (`agent-host.ts:336-338`,
  `799-800`), until another request is notified. `WaitingCallIsShown` excludes the
  time after such a question (`shadowed`).
- A reserved place is filled. A crash of host-core between the commit of a
  reservation and its deferred checkpoint leaves a row streaming for ever
  (`sessions.rs:2337`). A reservation decides about the checkpoint before it
  writes it, so it can step back over a newer one (`transcripts.rs:741`). The
  user row of the next turn does not wait for rows that are being retried
  (`runtime-service.ts:342`). The promotion after a crash of the sidecar may
  overtake the final row of a reply that was complete.

## Fairness

All fairness is weak: the event loop runs every settled continuation, and calls
into other processes are answered or fail. Nothing is asked of users, clients,
faults or of what a model says.

- `AgentHost!Fairness`: the admission chain's next step, the delivery loops, a
  run's start, end and settlement, and a plan execution's next step. A turn ends,
  by itself or because its user aborts it. `host_delivers` admits no failing
  store call and no restart: after a failure a pass stops without another request
  (a hazard without a property), and a restored queue rightly waits for a
  controller.
- `PlanExecution!Fairness`: the steps of an operation, of the drain, of a
  settlement, of an admitted abort and of the settlement after a crash; a run
  stops; a child that died is restarted, since the faults stay within its
  restart budget.
- `RemoteSession!FairSpec`: the Host's handlers, the connection's delivery, acks,
  the worker and the reads; a lost connection is opened again. So every request
  on a live connection is answered. A recovery that fails while the connection
  stays up is not retried by the code; `CatchesUp` assumes that there is none.
- `TurnTranscript!Fairness`: every timer, request, deferred write and restart.
- `ApprovalBroker` has safety properties only. An approver need not answer.

`ReplyBeforeSettle` is an assumption on the environment: the answer to
`agent.prompt` is read before the settlement of that turn. The settlement
needs a round trip to host-core which begins after the sidecar has spoken about
the turn on the pipe that carries its answer. With `FALSE`, TLC finds
`NoOrphanedTurn` violated in eight steps (an early error, the settlement, then
the reply that marks the turn running), so the order is something the code
relies on.

## Proofs

`tlapm` on the eight modules whose names end in `Proofs` checks everything.

- `QueueOrderProofs`: each operator on the queue keeps `Ordered` (promoted
  block in front, no entry twice) and has the stated set of entries, for queues
  of any length. The helpers come from the community modules as definitions;
  the facts about `RemoveAt`, `InsertAt` and the size of the promoted prefix are
  lemmas. The size of the prefix is the point of `PromoteInOrdered`: in an
  ordered queue the places of promoted entries are exactly `1 .. n`. Its second
  half is about sorting: `TurnQueue` keeps the queue twice, as a list and as rows
  that SQL sorts by two columns. A strict order on a finite set has exactly one
  sorted listing (`SortedExists`, `SortedIsUnique`; by the number of entries
  before an entry, without induction), and appending, removing, promoting and
  exchanging neighbours lead from the sorted listing of one order to that of the
  next (`AppendSorts`, `WithoutSorts`, `PromoteInSorts`, `ExchangedSorts`). The
  `...KeepsBlock` lemmas say that the entries promoted before and after an
  operation stand in the same order.
- `TurnQueueProofs`: all five safety properties of `queue_store`. `QueueInv` is
  inductive: positions and the priorities of promoted rows tell the rows apart
  (`TableInv`), priorities rise along the block of the mirror and entries that
  left have none (`MirrorInv`), and what the open call found in the mirror still
  holds when the store answers (`CallInv`), because nobody else touches the queue
  meanwhile. `StepInv` adds that, unless an answer was lost or a key repeated,
  rows and mirror are the sorted queue of the same order, before and after the
  transaction of the open call, and that the operation expected of the call leads
  from the one to the other. `StoreChangesAsAsked` and `MirrorFollowsRows` follow.
- `PlanExecutionProofs`: all five safety properties of `plan_runs`, among them the
  refinement. `PlanInv` is inductive. `StoreInv`: rows are numbered without gaps,
  an execution is what approving gives, and one row at most is in the way
  (`OneContract`). `TurnInv`: what names a turn names one that was begun, so that
  a turn which begins is new to everybody; the turn that ends is the owner's.
  `BookInv`: until the sidecar has accepted an execution, its turn is fresh
  (`AcceptsFresh`), what the books name was claimed, two executions share no turn.
  `RunInv`: a run was started by the dispatcher, and the run that goes on is that
  of the owner's turn. So a contract runs at most once, since `started` and
  `finished` together only grow, and one at a time, since the session has one
  owner; an outcome "completed" is that of a completed run. `ContractKept` maps
  each step to a step of `PlanContract` or to a stutter. `CloseInv` (a running row
  is owned) and `AliveInv` (an owned turn is alive) are inductive relative to
  `PlanInv`; the latter needs `CrashDuringDrain = FALSE`, without which it fails
  (see above). With two faults TLC checks all of these invariants on 4.0 million
  states.
- `AgentHostProofs!TypeCorrect`: `Spec => []TypeOK` for all constants that
  satisfy `HostAssumption`. `TypeOK` is not inductive: `DrainShifted` takes the
  head and the tail of a queue whose being non-empty was checked one await
  earlier. `Ready` adds what the suspended operation knows: an operation is at
  the head of the chain, the queue is not empty while the drain is suspended at
  its store call or at a cleanup, and the entry a suspended move asked about can
  still be moved or promoted. Nothing changes it meanwhile because only the head of the
  chain touches the queue. `TypeInv == TypeOK /\ Ready` is inductive.
- `AgentHostProofs!HeldRests`: `Spec => []HeldQueueRests`. `HeldInv` adds that
  while the queue is held no drain is suspended between its guard and the
  removal of the head, the one step from which `starting` is set. `held` becomes
  true by a restart only, which ends every operation.
- `DeliveryProofs`: nine more properties of `AgentHost`, among them the refinement.
  `DeliveryInv` is inductive on top of `TypeInv`, and each of its parts is kept
  because of the others. `AskInv` and `PlaceInv`: an input is asked for by one
  operation of the chain, or queued, or being started, or the turn of one run.
  `StepInv`: what a suspended operation found before it waits still holds.
  `RecordInv` and `LoopInv`: a reserved input is queued, and one loop at most holds
  it. `TakenInv`: whoever may have an input taken next has not had it taken yet,
  which is `TakenAtMostOnce` one step ahead. `QueueOrdered`, `TakenOnce`,
  `QueuedWait` and `CanceledIsFinal` follow for every value of the constants;
  `QueuedInputsStay` and the refinement `PromiseKept` assume that there is no
  restart, as the property and the promise do (see above for what a crash loses).
  `PromotionsFinal` needs only the order of the block. `OneTurnActive` and
  `NoTurnOrphaned` rest on `TurnInv`, which relates records, runs, the owner of
  the session and the names a run is known by. They assume `MaxExternal = 0` and
  `ReplyBeforeSettle`, because they are false without: a plan execution can take
  the record of an input being started, and a reply read after the settlement marks
  a turn running that has ended. `PromiseKept` maps each step to one of
  `TurnDelivery` or to a stutter; `ToldInv` says for the inputs on their way what
  their clients were told.
- `TurnTranscriptProofs`: all five safety properties of `transcript`, for any
  number of replies, any texts and any set of faults. `TypeInv` adds to the types who
  owes which deferred write, that the file has one row for an id, and that the index
  is behind the file (`Behind`): a death between the two writes of a row leaves the
  line, never the index row alone. `SettledRowsAreFinal` follows from what each
  operation, done or cut off, does to the file and to the index: a row is filed only
  if the index does not have it as final (`Files`), and takes the place of the row
  with its id or comes at the end (`Grown`); one that was not cut off is in both
  (`Lands`). The stores a death leaves are described once (`Left`: unchanged, the row
  of the append being filed, or a part of a promotion). `AgreeInv` says that file and
  index agree until host-core or the process dies. `WholeInv` speaks of the file and
  is about the time host-core does not die alone: only the last reply, and the note
  said after its start, wait for their rows (`ChainInv`); only that reply reserves a
  place, or has a row that the index lacks (`RowInv`); every copy, on file, owed,
  being written or held by the checkpointer, is of a reply with a row or of the last
  one, and a checkpoint that has no row is of the reply being saved (`CopyInv`); a
  reply that streams has a row only if it reserved it (`StreamInv`); a reply that
  ended is settled, will be, or came to nothing (`EndInv`), which is what makes it
  safe to forget it when the next one starts; the note waits behind the reply it
  interrupted (`NoteInv`). `SaidInOrder` and `RepliesAreKept` follow: a step that
  removes the checkpoint of a reply without a row is a promotion, which writes the
  row unless it is cut off. After a crash of host-core alone the queued appends
  overlap with the next reply and most of these statements are false.
  `FinalTextsLand` needs `FinalInv`: without a fault a final message that waits is the
  only one of its row, which is not settled before it is served.
- `ApprovalBrokerProofs`: all four safety properties of `approvals`
  (`ReportsAreTrue`, `FirstDecisionWins`, `WaitingCallsAreOpen`,
  `WaitingCallsAreVisible`) and type correctness, for any number of requests,
  decisions, approvers and turns. `ReportedIsExecuted` and `OneWinner` rest on
  `Claimed`: an answer that says `ok` carries the decision the gate has, no two
  calls about one request say so, and who was told to have won had such an
  answer. The gate leaves `asked` once, so that the first `ok` fixes all of it.
  `WaitingCallIsAnswerable` and `WaitingCallIsShown` rest on `Started`: the turn
  that asked for a gate has started, so that no gate waits for a turn that starts
  later. `WaitingCallsAreVisible` says nothing of the time after a question.

- `RemoteSessionProofs`: the four safety invariants of `remote_view` and the refinement
  of `SessionView`, for any length of the histories, any retention and window, any
  number of losses and reads.
  `TypeInv` says besides the types which request an answer on its way belongs to.
  `ControlInv` is about who subscribes: a request in flight is never that of a stale
  task, since a loss both makes the tasks stale and rejects the request (`WorkerInv`);
  a reconnect that is not stale has only stale tasks before it and nothing
  subscribed (`QueueInv`); so the Host's subscription is the one being closed, the one
  being opened, or the stream's (`SubInv`), and no push for an earlier one is left when
  the next subscribe is sent (`SentInv`: frames of one connection arrive in order).
  `SubscribedWhileLive` follows with `EarlyClose = FALSE`, without which it fails (see
  above). `FlowInv`, `AckInv` and `FlightInv` are about the events in flight: the
  subscription counts as unacknowledged at least what is in flight, so the window
  bounds it (`BacklogIsBounded`); an acknowledgement on its way names an event that
  arrived, so the count is never too low; and what a whole stream lacks is in flight,
  without gaps (`LiveMissesNothing`).

  `PromiseIsKept` shows that each step of `RemoteSession` is a step of `SessionView` or
  leaves its variables alone, with early closes or without. It needs `ViewInv`, about
  the cards and the moment of the history they are of. Every snapshot on its way, in
  the worker's hands or in the reader's is of a moment of the Host's present lifetime
  (`SnapInv`); the bridge never takes up again a lifetime it left, and has passed
  whatever it has seen (`BridgeInv`); a pushed event is later than anything the desktop
  can have come to when it arrives, so that it is not discarded as old, and a replay
  goes on to whatever the desktop can know by then (`FreshInv`). With these, a stream
  between its subscription and the end of its replay shows the cards of the bridge's
  moment, but for those the replay settles (`CatchInv`); after it, exactly those
  (`StepInv`); and where the bridge has come further than a watch's snapshot, so that it
  is not restored, the cards need no restoring (`AttachInv`). The steps of the desktop
  that take an event or restore a snapshot may move the moment on (`StepMoves`); its
  others leave it and at most change whether the desktop follows or what it shows
  meanwhile (`StepTurns`); a publication and a restart are the two steps of the Host in
  `SessionView`.

The assumptions are the named `ASSUME`s of the modules: bounds are naturals,
`None` is no value and none of the records or words that stand beside it, inputs
are no numbers, the card is no remote approver, the states of a gate are no
decisions. TLC evaluates them in every run.

`None` is also none of the records and numbers it stands beside in the transcript.

Only model-checked: everything temporal with fairness, which this prover does not
support: `KeepsFairPromise`, `ExecutionsSettle`, `CatchesUp` and
`CompletedTurnsSettle`.

## Not modelled

Content, permissions and items of a turn, manual compaction, the rules for
expected revisions, the desktop's own runtime port, the transports, and the
components that `PROJECT.json` marks `not_modelled`. Lost answers of
`agent.steer` are not modelled: the adapter reports them as refusals and the
input can then enter the turn twice. A restart between an accepted delivery and
the removal of its row runs the input again; ADR 0265 accepts that, and `taken`
starts again at a restart for this reason. The leftovers of a stopped turn wait
for the next boot of host-core by design; `CompletedTurnsSettle` does not speak
about them.

The larger part of the repository has no state machine of its own to check:
renderer, translations, plugins' pages, provider adapters and the turn loop,
which calls into provider SDKs.

## Plan

1. Done: the queue and the Agent Host, plan executions, the event stream and a
   remote desktop, transcripts, approvals; the theorems above.
2. Models: the live-work ledger, the desktop's persistence outbox (the
   file-backed counterpart of the row queue), the supervisor's restart budget,
   the path mutex of parallel tool calls.
