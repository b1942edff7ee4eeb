--------------------------- MODULE RemoteSession ----------------------------
(***************************************************************************)
(* One session of a remote Host as one desktop follows it: the Host's event  *)
(* stream and the RACP server's subscription, the connection, and the        *)
(* desktop's side of it (RacpClient's reconnect loop, remote-subscriptions,  *)
(* remote-host-connection's queue of recoveries, remote-event-bridge, the    *)
(* decision cards of the renderer).                                          *)
(*                                                                           *)
(* One action is one callback or one stretch of code between two awaits.     *)
(* The frames of one connection arrive in order; a drop loses them and all   *)
(* requests in flight.  Only durable events that open or close a decision    *)
(* card are published: they are the ones whose loss a user would notice.     *)
(***************************************************************************)
EXTENDS EventHub, FiniteSets, SequencesExt

CONSTANTS
    Prompts,         \* requests for a decision (tool approvals, questions)
    MaxEvents,       \* bound: durable events of one Host lifetime
    MaxEpochs,       \* bound: lifetimes of the Host process
    MaxLosses,       \* bound: times the connection or the Host process is lost
    MaxReads,        \* bound: transcript reads by the user
    EarlyClose,      \* may the Host close a subscription before its id arrived
    None

SubIds == 1..3
Seqs   == 0..MaxEvents
Cursors == [epoch : 1..MaxEpochs, sequence : Seqs]

Subscriptions == [id : SubIds, delivered : Seqs, outstanding : Nat]
Streams   == [cursor : Cursors, id : SubIds \cup {0}, paused : BOOLEAN, ack : Seqs]
Ackings   == [id : SubIds, sequence : Seqs, answered : BOOLEAN]
Snapshots == [cursor : Cursors, pending : SUBSET Prompts]
Bridges   == [epoch : 1..MaxEpochs, sequence : Seqs, snapshotSequence : Seqs \cup {-1},
              seen : SUBSET Prompts, retired : SUBSET (1..MaxEpochs)]

ASSUME RemoteAssumption ==
    /\ MaxEvents \in Nat /\ MaxEpochs \in Nat \ {0}
    /\ MaxLosses \in Nat /\ MaxReads \in Nat
    /\ EarlyClose \in BOOLEAN
    /\ None \notin Subscriptions \cup Streams \cup Ackings \cup Bridges

VARIABLES
    histories,   \* the durable events of each lifetime of the Host
    hub,         \* the session's EventStream
    sub,         \* the hub's subscription of this connection, or None
    frames,      \* frames on their way to the desktop, oldest first
    conn,        \* RacpClient: "down", "recovering" (onReconnected runs) or "up"
    routed,      \* the router offers the session to the user
    watched,     \* the session is in watched
    stream,      \* RemoteStream in the subscriptions map, or None
    acking,      \* events/ack in flight: the subscription and sequence, or None
    tasks,       \* the queue of remote-host-connection: [kind, stale]
    worker,      \* the task at its head: [pc, attempt, snapshot, reply]
    reader,      \* a transcript read: [pc, snapshot]
    bridge,      \* PromptState of the session, or None
    cards,       \* decision cards the renderer shows
    losses,      \* of the connection or the process, so far
    reads        \* transcript reads so far

host   == <<histories, hub>>
client == <<routed, watched, stream, acking, tasks, worker, reader, bridge, cards>>
vars   == <<histories, hub, sub, frames, conn, routed, watched, stream, acking,
            tasks, worker, reader, bridge, cards, losses, reads>>

Larger(a, b) == IF a > b THEN a ELSE b

NoReply == [id |-> 0, complete |-> FALSE]
Idle    == [pc |-> "idle", attempt |-> 0, snapshot |-> None, reply |-> NoReply]
NotReading == [pc |-> "idle", snapshot |-> None]

(* The desktop follows the session: its stream is subscribed and not paused. *)
Live == stream # None /\ stream.id # 0 /\ ~stream.paused

Promise == INSTANCE SessionView WITH
    epoch     <- hub.epoch,
    moment    <- [epoch    |-> IF bridge = None THEN 0 ELSE bridge.epoch,
                  sequence |-> IF bridge = None THEN 0 ELSE bridge.sequence],
    following <- Live

(***************************************************************************)
(* The Host                                                                *)
(***************************************************************************)
History == histories[hub.epoch]
Pending == Promise!OpenAfter(History, hub.sequence)

(* Approvals and cursor of a snapshot are read in one go (snapshot).         *)
Snapshot == [cursor |-> Cursor(hub), pending |-> Pending]

EventFrames(from, to) == [i \in 1..(to - from + 1) |-> [type |-> "event", sequence |-> from + i - 1]]

(* The subscription this Host may close without the client knowing its id.   *)
Unannounced == sub # None /\ (stream = None \/ stream.id # sub.id)

(* EventHub.publish: append, then deliver to the subscription; one event too *)
(* many deletes it and sends events/closed.                                  *)
Publish(event) ==
    /\ hub.sequence < MaxEvents
    /\ histories' = [histories EXCEPT ![hub.epoch] = Append(@, event)]
    /\ hub' \in Appends(hub)
    /\ LET n == hub.sequence + 1
       IN  CASE sub = None -> UNCHANGED <<sub, frames>>
             [] sub # None /\ Closes(sub, n, n) ->
                    /\ EarlyClose \/ ~Unannounced
                    /\ sub' = None
                    /\ frames' = Append(frames, [type |-> "closed", id |-> sub.id])
             [] OTHER ->
                    /\ sub' = AfterDelivery(sub, n, n)
                    /\ frames' = frames \o EventFrames(n, Delivered(sub, n, n))
    /\ UNCHANGED <<conn, client, losses, reads>>

RequestDecision(p) ==
    /\ \A i \in DOMAIN History : History[i] # <<"requested", p>>
    /\ Publish(<<"requested", p>>)

ResolveDecision(p) ==
    /\ p \in Pending
    /\ Publish(<<"resolved", p>>)

FreshId == CHOOSE i \in SubIds :
    /\ stream = None \/ stream.id # i
    /\ acking = None \/ acking.id # i

(* events/subscribe, the whole handler: replay is decided and delivered      *)
(* before the answer.  A replay that closes its own subscription calls the   *)
(* sink's close while `result` is unset: the call throws, the hub has        *)
(* already dropped the subscription and the request is answered INTERNAL.    *)
HostSubscribes ==
    LET after    == stream.cursor
        decision == Replay(hub, after)
        fresh    == NewSubscription(FreshId, after.sequence)
        from     == Larger(after.sequence + 1, hub.oldest)
        answer(complete) == [type |-> "subscribed", id |-> fresh.id, complete |-> complete]
    IN  /\ worker.pc = "subscribing"
        /\ worker' = [worker EXCEPT !.pc = "subscribeAnswered"]
        /\ CASE decision # "replay" ->
                  /\ sub' = NewSubscription(fresh.id, hub.sequence)
                  /\ frames' = Append(frames, answer(FALSE))
             [] decision = "replay" /\ Closes(fresh, from, hub.sequence) ->
                  /\ sub' = None
                  /\ frames' = frames \o EventFrames(from, Delivered(fresh, from, hub.sequence))
                                      \o <<[type |-> "refused"]>>
             [] OTHER ->
                  /\ sub' = AfterDelivery(fresh, from, hub.sequence)
                  /\ frames' = frames \o EventFrames(from, hub.sequence) \o <<answer(TRUE)>>
        /\ UNCHANGED <<host, conn, routed, watched, stream, acking, tasks, reader,
                       bridge, cards, losses, reads>>

HostUnsubscribes ==
    /\ worker.pc = "unsubscribing"
    /\ worker' = [worker EXCEPT !.pc = "unsubscribeAnswered"]
    /\ sub' = None
    /\ frames' = Append(frames, [type |-> "unsubscribed"])
    /\ UNCHANGED <<host, conn, routed, watched, stream, acking, tasks, reader,
                   bridge, cards, losses, reads>>

HostAcks ==
    /\ acking # None /\ ~acking.answered
    /\ sub' = IF sub # None /\ sub.id = acking.id THEN Acked(sub, acking.sequence) ELSE sub
    /\ acking' = [acking EXCEPT !.answered = TRUE]
    /\ frames' = Append(frames, [type |-> "acked", id |-> acking.id])
    /\ UNCHANGED <<host, conn, routed, watched, stream, tasks, worker, reader,
                   bridge, cards, losses, reads>>

(* session/attach of the recovery, and of a transcript read: the snapshot is *)
(* taken after the history page arrived, at any moment.                      *)
HostAttaches ==
    /\ worker.pc = "attaching"
    /\ worker' = [worker EXCEPT !.pc = "attachAnswered"]
    /\ frames' = Append(frames, [type |-> "attached", snapshot |-> Snapshot])
    /\ UNCHANGED <<host, sub, conn, routed, watched, stream, acking, tasks, reader,
                   bridge, cards, losses, reads>>

HostAnswersRead ==
    /\ reader.pc = "sent"
    /\ reader' = [reader EXCEPT !.pc = "answered"]
    /\ frames' = Append(frames, [type |-> "read", snapshot |-> Snapshot])
    /\ UNCHANGED <<host, sub, conn, routed, watched, stream, acking, tasks, worker,
                   bridge, cards, losses, reads>>

(***************************************************************************)
(* The desktop: bridge and cards (remote-event-bridge.ts)                  *)
(***************************************************************************)
NewBridge(e, retired) ==
    [epoch |-> e, sequence |-> 0, snapshotSequence |-> -1, seen |-> {}, retired |-> retired]

(* stateFor: nothing of a retired epoch is ever taken up again.              *)
Retired(e) == bridge # None /\ e \in bridge.retired

BridgeFor(e) ==
    CASE bridge = None       -> NewBridge(e, {})
      [] bridge # None /\ bridge.epoch = e -> bridge
      [] OTHER               -> NewBridge(e, bridge.retired \cup {bridge.epoch})

\* Mutant of Outdated: a snapshot is never too old.
OutdatedNever(b, cursor) == FALSE

(* restoreSnapshot: an older moment than the bridge has reached is ignored.  *)
Outdated(b, cursor) == cursor.sequence < b.sequence \/ cursor.sequence < b.snapshotSequence

RestoreSnapshot(snapshot) ==
    LET b == BridgeFor(snapshot.cursor.epoch)
    IN  IF Retired(snapshot.cursor.epoch) \/ Outdated(b, snapshot.cursor)
        THEN UNCHANGED <<bridge, cards>>
        ELSE /\ bridge' = [b EXCEPT !.sequence = snapshot.cursor.sequence,
                                    !.snapshotSequence = snapshot.cursor.sequence,
                                    !.seen = @ \cup snapshot.pending]
             /\ cards' = snapshot.pending

(* handleSessionScope for approval.requested, input.requested and the two    *)
(* resolved kinds.                                                           *)
BridgeHandles(event, n) ==
    LET b == BridgeFor(hub.epoch)
        p == event[2]
    IN  /\ bridge' = [b EXCEPT !.sequence = IF n > @ THEN n ELSE @, !.seen = @ \cup {p}]
        /\ cards' = CASE event[1] = "resolved" -> cards \ {p}
                      [] event[1] = "requested" /\ p \notin b.seen -> cards \cup {p}
                      [] OTHER -> cards

(***************************************************************************)
(* The desktop: the stream (remote-subscriptions.ts)                       *)
(***************************************************************************)
Enqueued(ts, kind) == Append(ts, [kind |-> kind, stale |-> FALSE])

\* Mutant of WithRecovery: the stream is paused and left to the next reconnect.
WithRecoveryNever(ts) == ts

(* recover: one recovery of the session at a time, queued or running.        *)
WithRecovery(ts) ==
    IF \E i \in DOMAIN ts : ts[i].kind = "recover" THEN ts ELSE Enqueued(ts, "recover")

(* transportGeneration has moved: check(epoch) of every queued task fails.   *)
AllStale(ts) == [i \in DOMAIN ts |-> [ts[i] EXCEPT !.stale = TRUE]]

NewStreamAt(cursor) == [cursor |-> cursor, id |-> 0, paused |-> FALSE, ack |-> 0]

(* handle: an event for the session's stream.                                *)
TakesEvent(n) ==
    CASE stream = None \/ stream.paused -> UNCHANGED <<stream, tasks, bridge, cards>>
      [] stream # None /\ ~stream.paused /\ stream.cursor.epoch # hub.epoch ->
             /\ stream' = [stream EXCEPT !.paused = TRUE]
             /\ tasks' = WithRecovery(tasks)
             /\ UNCHANGED <<bridge, cards>>
      [] OTHER ->
             /\ stream' = [stream EXCEPT !.ack = Larger(@, n),
                                         !.cursor.sequence = Larger(@, n)]
             /\ IF n <= stream.cursor.sequence THEN UNCHANGED <<bridge, cards>>
                                               ELSE BridgeHandles(History[n], n)
             /\ UNCHANGED tasks

ReceiveEvent ==
    /\ frames # <<>> /\ Head(frames).type = "event"
    /\ frames' = Tail(frames)
    /\ TakesEvent(Head(frames).sequence)
    /\ UNCHANGED <<host, sub, conn, routed, watched, acking, worker, reader, losses, reads>>

(* closed: only the stream that knows the subscription's id reacts.          *)
ReceiveClosed ==
    /\ frames # <<>> /\ Head(frames).type = "closed"
    /\ frames' = Tail(frames)
    /\ IF stream # None /\ stream.id = Head(frames).id
       THEN /\ stream' = [stream EXCEPT !.id = 0, !.paused = TRUE]
            /\ tasks' = WithRecovery(tasks)
       ELSE UNCHANGED <<stream, tasks>>
    /\ UNCHANGED <<host, sub, conn, routed, watched, acking, worker, reader, bridge,
                   cards, losses, reads>>

(* ack: one acknowledgement of the stream in flight at a time.               *)
SendAck ==
    /\ conn # "down"
    /\ stream # None /\ stream.id # 0 /\ stream.ack # 0 /\ acking = None
    /\ acking' = [id |-> stream.id, sequence |-> stream.ack, answered |-> FALSE]
    /\ stream' = [stream EXCEPT !.ack = 0]
    /\ UNCHANGED <<host, sub, frames, conn, routed, watched, tasks, worker, reader,
                   bridge, cards, losses, reads>>

ReceiveAcked ==
    /\ frames # <<>> /\ Head(frames).type = "acked"
    /\ frames' = Tail(frames)
    /\ acking' = IF acking # None /\ acking.id = Head(frames).id THEN None ELSE acking
    /\ UNCHANGED <<host, sub, conn, routed, watched, stream, tasks, worker, reader,
                   bridge, cards, losses, reads>>

(***************************************************************************)
(* The desktop: the queue of recoveries (remote-host-connection.ts)        *)
(***************************************************************************)
Task    == Head(tasks)
Running == tasks # <<>> /\ worker.pc # "idle"

Waits(pc) == worker' = [worker EXCEPT !.pc = pc]

(* watch begins with subscriptions.remove: the stream leaves the map at once, *)
(* the request is awaited, and one that cannot be sent is only logged.       *)
StartsWatch ==
    /\ stream' = None
    /\ acking' = None
    /\ worker' = [Idle EXCEPT !.attempt = 1,
                    !.pc = IF stream # None /\ stream.id # 0 /\ conn # "down"
                           THEN "unsubscribing" ELSE "removed"]
    /\ UNCHANGED <<tasks, conn, routed>>

\* Mutant of ConnectionEnds: the streams are not paused.
ConnectionEndsUnpaused ==
    /\ conn' = "down"
    /\ frames' = <<>>
    /\ sub' = None
    /\ routed' = FALSE
    /\ reader' = NotReading
    /\ acking' = None
    /\ UNCHANGED stream

(* The connection is lost, or given up: requests in flight are rejected and  *)
(* the server releases the connection's subscription.  A rejected ack of the *)
(* current stream asks for a recovery.                                       *)
ConnectionEnds ==
    /\ conn' = "down"
    /\ frames' = <<>>
    /\ sub' = None
    /\ routed' = FALSE
    /\ reader' = NotReading
    /\ acking' = None
    /\ stream' = IF stream = None THEN None ELSE [stream EXCEPT !.paused = TRUE]

AfterLoss(ts) == IF acking # None /\ stream # None THEN WithRecovery(AllStale(ts)) ELSE AllStale(ts)

(* A task that throws: a failed recovery withdraws the session from the      *)
(* router, a failed watch of ensure also from watched; a failed reconnect    *)
(* makes RacpClient give the connection up and try again.                    *)
TaskFails ==
    /\ Running /\ worker.pc = "failed"
    /\ worker' = Idle
    /\ \/ /\ Task.kind = "recover"
          /\ routed' = FALSE
          /\ tasks' = Tail(tasks)
          /\ UNCHANGED <<sub, frames, conn, watched, stream, acking, reader>>
       \/ /\ Task.kind = "ensure"
          /\ watched' = IF worker.attempt = 0 THEN watched ELSE FALSE
          /\ routed' = IF Task.stale THEN routed ELSE FALSE
          /\ tasks' = Tail(tasks)
          /\ UNCHANGED <<sub, frames, conn, stream, acking, reader>>
       \/ /\ Task.kind = "reconnect" /\ conn = "recovering"
          /\ ConnectionEnds
          /\ tasks' = AfterLoss(Tail(tasks))
          /\ UNCHANGED watched
       \/ /\ Task.kind = "reconnect" /\ conn # "recovering"
          /\ tasks' = Tail(tasks)
          /\ UNCHANGED <<sub, frames, conn, routed, watched, stream, acking, reader>>
    /\ UNCHANGED <<host, bridge, cards, losses, reads>>

(* A task that returns; reconnect then offers the sessions again.            *)
TaskReturns ==
    /\ tasks' = Tail(tasks)
    /\ worker' = Idle
    /\ IF Task.kind = "reconnect"
       THEN conn' = "up" /\ routed' = TRUE
       ELSE UNCHANGED <<conn, routed>>

(* The first stretch of each task, up to its first await.  (The host-scope   *)
(* stream and session/list that reconnect renews first are not modelled:     *)
(* their failure is a lost connection here.)                                 *)
StartTask ==
    /\ tasks # <<>> /\ worker.pc = "idle"
    /\ \/ /\ Task.stale
          /\ Waits("failed")
          /\ UNCHANGED <<watched, stream, acking, tasks, conn, routed>>
       \/ /\ ~Task.stale /\ Task.kind = "reconnect"
          /\ stream' = None /\ acking' = None
          /\ IF watched
             THEN worker' = [Idle EXCEPT !.pc = "removed", !.attempt = 1]
                  /\ UNCHANGED <<tasks, conn, routed>>
             ELSE TaskReturns
          /\ UNCHANGED watched
       \/ /\ ~Task.stale /\ Task.kind = "recover" /\ watched
          /\ StartsWatch
          /\ UNCHANGED watched
       \/ /\ ~Task.stale /\ Task.kind = "ensure" /\ ~(watched /\ Live)
          /\ watched' = TRUE
          /\ StartsWatch
       \/ /\ ~Task.stale
          /\ \/ Task.kind = "recover" /\ ~watched
             \/ Task.kind = "ensure" /\ watched /\ Live
          /\ TaskReturns
          /\ UNCHANGED <<watched, stream, acking>>
    /\ UNCHANGED <<host, sub, frames, reader, bridge, cards, losses, reads>>

(* watch: attach, restore the snapshot, subscribe at its cursor, twice at    *)
(* most.                                                                     *)
ReceiveUnsubscribed ==
    /\ frames # <<>> /\ Head(frames).type = "unsubscribed"
    /\ frames' = Tail(frames)
    /\ Waits("removed")
    /\ UNCHANGED <<host, sub, conn, routed, watched, stream, acking, tasks, reader,
                   bridge, cards, losses, reads>>

WatchAttaches ==
    /\ Running /\ worker.pc = "removed"
    /\ Waits(IF Task.stale \/ conn = "down" \/ worker.attempt > 2 THEN "failed" ELSE "attaching")
    /\ UNCHANGED <<host, sub, frames, conn, routed, watched, stream, acking, tasks, reader,
                   bridge, cards, losses, reads>>

ReceiveAttached ==
    /\ frames # <<>> /\ Head(frames).type = "attached"
    /\ frames' = Tail(frames)
    /\ worker' = [worker EXCEPT !.pc = "attached", !.snapshot = Head(frames).snapshot]
    /\ UNCHANGED <<host, sub, conn, routed, watched, stream, acking, tasks, reader,
                   bridge, cards, losses, reads>>

WatchRestores ==
    /\ Running /\ worker.pc = "attached"
    /\ IF Task.stale
       THEN Waits("failed") /\ UNCHANGED <<stream, bridge, cards>>
       ELSE /\ RestoreSnapshot(worker.snapshot)
            /\ stream' = NewStreamAt(worker.snapshot.cursor)
            /\ worker' = [worker EXCEPT !.pc = "subscribing", !.snapshot = None]
    /\ UNCHANGED <<host, sub, frames, conn, routed, watched, acking, tasks, reader, losses, reads>>

ReceiveSubscribed ==
    /\ frames # <<>> /\ Head(frames).type \in {"subscribed", "refused"}
    /\ frames' = Tail(frames)
    /\ worker' = [worker EXCEPT !.pc = "subscribed",
            !.reply = IF Head(frames).type = "refused" THEN NoReply
                      ELSE [id |-> Head(frames).id, complete |-> Head(frames).complete]]
    /\ UNCHANGED <<host, sub, conn, routed, watched, stream, acking, tasks, reader,
                   bridge, cards, losses, reads>>

WatchEnds ==
    /\ Running /\ worker.pc = "subscribed"
    /\ LET id       == worker.reply.id
           complete == worker.reply.complete /\ ~stream.paused
           answered == [worker EXCEPT !.reply = NoReply]
       IN  \/ /\ id = 0
              /\ stream' = [stream EXCEPT !.paused = TRUE]
              /\ worker' = [answered EXCEPT !.pc = "failed"]
              /\ UNCHANGED <<acking, tasks, conn, routed>>
           \/ /\ id # 0 /\ Task.stale
              /\ stream' = IF conn = "down" THEN stream ELSE [stream EXCEPT !.id = id]
              /\ worker' = [answered EXCEPT !.pc = "failed"]
              /\ UNCHANGED <<acking, tasks, conn, routed>>
           \/ /\ id # 0 /\ ~Task.stale /\ complete
              /\ stream' = [stream EXCEPT !.id = id]
              /\ TaskReturns
              /\ UNCHANGED acking
           \/ /\ id # 0 /\ ~Task.stale /\ ~complete
              /\ stream' = None /\ acking' = None
              /\ worker' = [answered EXCEPT !.pc = "unsubscribing", !.attempt = @ + 1]
              /\ UNCHANGED <<tasks, conn, routed>>
    /\ UNCHANGED <<host, sub, frames, watched, reader, bridge, cards, losses, reads>>

(***************************************************************************)
(* The desktop: reading the transcript (remote-history.ts)                 *)
(***************************************************************************)
StartRead ==
    /\ reads < MaxReads
    /\ conn = "up" /\ routed /\ reader.pc = "idle"
    /\ reader' = [reader EXCEPT !.pc = "sent"]
    /\ reads' = reads + 1
    /\ UNCHANGED <<host, sub, frames, conn, routed, watched, stream, acking, tasks, worker,
                   bridge, cards, losses>>

ReceiveRead ==
    /\ frames # <<>> /\ Head(frames).type = "read"
    /\ frames' = Tail(frames)
    /\ reader' = [pc |-> "read", snapshot |-> Head(frames).snapshot]
    /\ UNCHANGED <<host, sub, conn, routed, watched, stream, acking, tasks, worker,
                   bridge, cards, losses, reads>>

(* onSnapshot: restore it, then ensure the session is watched.               *)
ReadEnds ==
    /\ reader.pc = "read"
    /\ reader' = NotReading
    /\ RestoreSnapshot(reader.snapshot)
    /\ routed' = TRUE
    /\ tasks' = Enqueued(tasks, "ensure")
    /\ UNCHANGED <<host, sub, frames, conn, watched, stream, acking, worker, losses, reads>>

(***************************************************************************)
(* The connection (packages/racp/src/client.ts) and the Host process       *)
(***************************************************************************)
(* What a lost connection does to the task at the head: a request it waits   *)
(* for is rejected; what already arrived is still to be looked at.           *)
WorkerAfterLoss ==
    [worker EXCEPT !.pc =
        CASE worker.pc \in {"unsubscribing", "unsubscribeAnswered"} -> "removed"
          [] worker.pc \in {"attaching", "attachAnswered", "subscribing", "subscribeAnswered"} -> "failed"
          [] OTHER -> @]

Drop ==
    /\ losses < MaxLosses
    /\ conn # "down"
    /\ ConnectionEnds
    /\ tasks' = AfterLoss(tasks)
    /\ worker' = WorkerAfterLoss
    /\ losses' = losses + 1
    /\ UNCHANGED <<host, watched, bridge, cards, reads>>

(* pi-host ends and is started again: a new epoch, an empty history.         *)
HostRestarts ==
    /\ hub.epoch < MaxEpochs /\ losses < MaxLosses
    /\ losses' = losses + 1
    /\ hub' = NewStream(hub.epoch + 1)
    /\ IF conn = "down"
       THEN UNCHANGED <<sub, frames, conn, routed, stream, acking, tasks, worker, reader>>
       ELSE ConnectionEnds /\ tasks' = AfterLoss(tasks) /\ worker' = WorkerAfterLoss
    /\ UNCHANGED <<histories, watched, bridge, cards, reads>>

(* reconnectLoop opens a transport and calls onReconnected, and calls it     *)
(* again only when the last call has ended.                                  *)
Reconnect ==
    /\ conn = "down"
    /\ \A i \in DOMAIN tasks : tasks[i].kind # "reconnect"
    /\ conn' = "recovering"
    /\ tasks' = Enqueued(AllStale(tasks), "reconnect")
    /\ UNCHANGED <<host, sub, frames, routed, watched, stream, acking, worker, reader,
                   bridge, cards, losses, reads>>

(***************************************************************************)
(* Specification                                                           *)
(***************************************************************************)
(* A desktop about to connect; the session may or may not be one of those it *)
(* watches.                                                                  *)
Init ==
    /\ histories = [e \in 1..MaxEpochs |-> <<>>]
    /\ hub = NewStream(1) /\ sub = None /\ frames = <<>>
    /\ conn = "down" /\ routed = FALSE /\ watched \in BOOLEAN
    /\ stream = None /\ acking = None
    /\ tasks = <<>> /\ worker = Idle /\ reader = NotReading
    /\ bridge = None /\ cards = {}
    /\ losses = 0 /\ reads = 0

HostSteps == HostSubscribes \/ HostUnsubscribes \/ HostAcks \/ HostAttaches \/ HostAnswersRead

Receive ==
    \/ ReceiveEvent \/ ReceiveClosed \/ ReceiveAcked \/ ReceiveUnsubscribed
    \/ ReceiveAttached \/ ReceiveSubscribed \/ ReceiveRead

WorkerSteps ==
    \/ StartTask \/ WatchAttaches \/ WatchRestores \/ WatchEnds \/ TaskFails

Next ==
    \/ \E p \in Prompts : RequestDecision(p) \/ ResolveDecision(p)
    \/ HostSteps \/ Receive \/ SendAck \/ WorkerSteps
    \/ StartRead \/ ReadEnds
    \/ Drop \/ HostRestarts \/ Reconnect

Spec == Init /\ [][Next]_vars

(* The Host answers, frames arrive, promises are continued, and the client   *)
(* reconnects without limit; decisions, reads and losses are free.           *)
FairSpec ==
    /\ Spec
    /\ WF_vars(HostSubscribes) /\ WF_vars(HostUnsubscribes) /\ WF_vars(HostAttaches)
    /\ WF_vars(HostAcks) /\ WF_vars(HostAnswersRead)
    /\ WF_vars(Receive) /\ WF_vars(SendAck)
    /\ WF_vars(WorkerSteps) /\ WF_vars(ReadEnds)
    /\ WF_vars(Reconnect)

(***************************************************************************)
(* Properties                                                              *)
(***************************************************************************)
Frames ==
    UNION {[type : {"event"}, sequence : 1..MaxEvents],
           [type : {"closed", "acked"}, id : SubIds],
           [type : {"subscribed"}, id : SubIds, complete : BOOLEAN],
           [type : {"refused", "unsubscribed"}],
           [type : {"attached", "read"}, snapshot : Snapshots]}

(* Every variable has its type: in particular the hub never numbers past the *)
(* bound and the client's cursors name moments of existing lifetimes.        *)
TypeOK ==
    /\ hub \in [epoch : 1..MaxEpochs, sequence : Seqs, oldest : 1..MaxEvents + 1]
    /\ \A e \in 1..MaxEpochs : Len(histories[e]) <= MaxEvents
    /\ sub # None => sub \in Subscriptions /\ sub.outstanding <= MaxOutstanding
    /\ \A i \in DOMAIN frames : frames[i] \in Frames
    /\ conn \in {"down", "recovering", "up"}
    /\ routed \in BOOLEAN /\ watched \in BOOLEAN
    /\ stream # None => stream \in Streams
    /\ acking # None => acking \in Ackings
    /\ \A i \in DOMAIN tasks : tasks[i] \in [kind : {"reconnect", "recover", "ensure"}, stale : BOOLEAN]
    /\ bridge # None => bridge \in Bridges
    /\ cards \subseteq Prompts

(* While the desktop follows the session its decision cards are those of one *)
(* moment of the session's history, and that moment never moves back: no     *)
(* event is skipped, applied twice or out of order, whatever replay,         *)
(* snapshots, transcript reads and reconnects do (spec 19, section 8: "never *)
(* silent loss").                                                            *)
KeepsView == Promise!PromiseSpec

(* The places in the stream of frames where an event is.                     *)
InFlight == {i \in DOMAIN frames : frames[i].type = "event"}

(* While the desktop holds a live stream, the events it has not yet taken    *)
(* are exactly those in flight on its subscription, in order.                *)
NothingLostInFlight ==
    (Live /\ sub # None /\ sub.id = stream.id) =>
        /\ stream.cursor.epoch = hub.epoch
        /\ {frames[i].sequence : i \in InFlight} = stream.cursor.sequence + 1 .. hub.sequence
        /\ \A i, j \in InFlight : i < j => frames[i].sequence < frames[j].sequence

(* A stream the desktop takes for live is subscribed on the Host, or the     *)
(* notice that it is not is on its way (spec 19, section 14a).               *)
LiveIsSubscribed ==
    (Live /\ conn # "down") =>
        \/ sub # None /\ sub.id = stream.id
        \/ \E i \in DOMAIN frames : frames[i] = [type |-> "closed", id |-> stream.id]

(* A slow desktop costs the Host a bounded backlog: the durable events on    *)
(* their way to it never exceed the window.                                  *)
BacklogBounded == Cardinality(InFlight) <= MaxOutstanding

(* A session the desktop offers and watches catches up: its cards become the *)
(* Host's open requests, or the session is withdrawn.                        *)
CatchesUp ==
    (cards # Pending /\ routed) ~> (cards = Pending \/ ~routed \/ ~watched)
=============================================================================
