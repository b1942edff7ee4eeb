-------------------------- MODULE TurnTranscript --------------------------
(***************************************************************************)
(* How the replies of one turn reach the transcript: the sidecar streams   *)
(* them, the headless runtime (packages/host-runtime/src: turn-events.ts,  *)
(* inflight-checkpoint.ts, turn-persistence.ts, runtime-service.ts) writes *)
(* checkpoints while a reply streams and rows when it ends, and host-core  *)
(* (TranscriptStore) serves both, in any order, each request being a task  *)
(* of its own.  The sidecar, host-core or the whole process may die, the   *)
(* latter two also between two durable writes of a request.                *)
(***************************************************************************)
EXTENDS TranscriptStore

CONSTANTS
  MaxText,   \* bound: pieces a reply is streamed in
  Mishaps    \* bound: the sets of faults of which a behaviour may meet one

Texts == 0 .. MaxText
Messages == [id : Ids, text : Texts, status : {"streaming", "complete", "aborted"}]
Lives == [id : ToSet(Replies), pending : Messages \cup {None}]
Saves == [stage : {"asked", "served"}, message : Messages]

(* What may die, each at most once: the sidecar, host-core, or all of it.  *)
Kinds == {"sidecar", "host", "process"}

ASSUME TurnTranscriptAssumption ==
  /\ MaxText \in Nat
  /\ Mishaps \subseteq SUBSET Kinds
  /\ None \notin Messages \cup Lives \cup Saves \cup 1 .. Len(Replies)

VARIABLES
  store,     \* host-core's files and tables
  host,      \* "up", "down", or "booted": serving, but not yet greeted
  run,       \* the sidecar's run: "running", "over" (agent_end sent), "dead"
  current,   \* how many replies have started
  streaming, \* whether the last of them still streams
  text,      \* what each reply has said so far
  noted,     \* the reply after whose start the note was said, None before
  stopping,  \* pendingAbortReasons holds this turn
  reserved,  \* steeringReplies
  live,      \* InflightCheckpointer.sessions: the reply and its pending snapshot
  save,      \* InflightCheckpointer.writes: the one write in flight
  flushing,  \* replies whose final snapshot is being flushed
  chain,     \* the session's queued appends, the head being written
  head,      \* the head's attempt: "waits", "asked" or "served"
  finish,    \* turnFinalizations: the turn's one session.endTurn
  crash,     \* settleCrashedSession: "no", "plans", "flush"
  faults     \* the faults that happened

sidecarVars == <<run, current, streaming, text, noted>>
clientVars == <<stopping, reserved, live, save, flushing, chain, head, finish, crash>>
vars == <<store, host, sidecarVars, clientVars, faults>>

-----------------------------------------------------------------------------
Reply == Replies[current]
Said(status) == Message(Reply, text[Reply], status)
Serving == host # "down"

NoFinish == [stage |-> "none", status |-> None, recover |-> FALSE]

(* Nothing about the reply before is on its way, which a model call        *)
(* outlasts, unless host-core died and the appends are waiting for it.     *)
Quiet == (chain = <<>> /\ save = None) \/ "host" \in faults

Init ==
  /\ store = EmptyStore /\ host = "up"
  /\ run = "running" /\ current = 0 /\ streaming = FALSE
  /\ text = [r \in ToSet(Replies) |-> 0] /\ noted = None
  /\ stopping = FALSE /\ reserved = {}
  /\ live = None /\ save = None /\ flushing = {}
  /\ chain = <<>> /\ head = "waits"
  /\ finish = NoFinish /\ crash = "no" /\ faults = {}

-----------------------------------------------------------------------------
(***************************************************************************)
(* The checkpointer.  observe keeps the newest snapshot of a message that  *)
(* has any text; the write itself is WritesPending, at once or after the   *)
(* interval.                                                               *)
(***************************************************************************)
Observed(m) == IF m.text = 0 THEN live ELSE [id |-> m.id, pending |-> m]

SettledIf(id) == IF live # None /\ live.id = id THEN None ELSE live

Pending == live # None /\ live.pending # None

WritesPending ==
  /\ Pending /\ save = None
  /\ save' = IF Serving THEN [stage |-> "asked", message |-> live.pending] ELSE None
  /\ live' = [live EXCEPT !.pending = None]
  /\ UNCHANGED <<store, host, sidecarVars, stopping, reserved, flushing, chain, head,
                 finish, crash, faults>>

(* The tail of flush: its message has nothing left to write, or a newer    *)
(* reply has taken the state over.                                         *)
Unwritten(id) == live # None /\ live.id = id /\ (Pending \/ save # None)

FlushEnds(id) ==
  /\ id \in flushing /\ ~Unwritten(id)
  /\ flushing' = flushing \ {id}
  /\ live' = SettledIf(id)
  /\ UNCHANGED <<store, host, sidecarVars, stopping, reserved, save, chain, head,
                 finish, crash, faults>>

-----------------------------------------------------------------------------
(***************************************************************************)
(* The run.  A reply after the first starts when the requests about the    *)
(* one before are answered or have failed: a model call takes seconds.     *)
(***************************************************************************)
ReplyStarts ==
  /\ run = "running" /\ ~streaming /\ ~stopping
  /\ current < Len(Replies) /\ Quiet
  /\ current' = current + 1 /\ streaming' = TRUE
  /\ UNCHANGED <<store, host, run, text, noted, clientVars, faults>>

(* message_update *)
StreamsText ==
  /\ run = "running" /\ streaming /\ text[Reply] < MaxText
  /\ text' = [text EXCEPT ![Reply] = @ + 1]
  /\ live' = Observed(Message(Reply, text[Reply] + 1, "streaming"))
  /\ UNCHANGED <<store, host, run, current, streaming, noted, stopping, reserved, save,
                 flushing, chain, head, finish, crash, faults>>

(* message_end of a user message: steering input.  The reply that streams  *)
(* reserves its place first.                                               *)
Preceding == IF streaming THEN <<Said("streaming")>> ELSE <<>>

Notes ==
  /\ run = "running" /\ current > 0 /\ noted = None
  /\ noted' = current
  /\ reserved' = reserved \cup {Preceding[i].id : i \in DOMAIN Preceding}
  /\ chain' = chain \o Preceding \o <<Message(Note, 0, "complete")>>
  /\ UNCHANGED <<store, host, run, current, streaming, text, stopping, live, save,
                 flushing, head, finish, crash, faults>>

(* message_end of the reply: its snapshot is checkpointed and its row is   *)
(* queued, unless the reply was aborted empty and reserves no place.       *)
Worthless(status) == status = "aborted" /\ text[Reply] = 0 /\ Reply \notin reserved

ReplyEnds(status) ==
  /\ run = "running" /\ streaming
  /\ status = "aborted" => stopping
  /\ streaming' = FALSE
  /\ live' = Observed(Said(status))
  /\ flushing' = flushing \cup {Reply}
  /\ reserved' = reserved \ {Reply}
  /\ chain' = IF Worthless(status) THEN chain ELSE Append(chain, Said(status))
  /\ UNCHANGED <<store, host, run, current, text, noted, stopping, save, head,
                 finish, crash, faults>>

-----------------------------------------------------------------------------
(***************************************************************************)
(* finishTurn: the first caller fixes the status, the others join it, and  *)
(* an abort recorded before it wins.  Without host-core there is no call.  *)
(***************************************************************************)
Active == finish.stage # "done"

Finishes(status, recover) ==
  IF finish.stage # "none" THEN finish
  ELSE [stage |-> IF Serving THEN "asked" ELSE "done",
        status |-> IF stopping THEN "aborted" ELSE status, recover |-> recover]

(* agent_end *)
RunEnds ==
  /\ run = "running" /\ ~streaming /\ current > 0
  /\ run' = "over" /\ finish' = Finishes("completed", FALSE)
  /\ UNCHANGED <<store, host, current, streaming, text, noted, stopping, reserved, live,
                 save, flushing, chain, head, crash, faults>>

(* abort: the reason is frozen, then the sidecar is asked. *)
Stops ==
  /\ run = "running" /\ finish = NoFinish /\ ~stopping
  /\ stopping' = TRUE
  /\ UNCHANGED <<store, host, sidecarVars, reserved, live, save, flushing, chain, head,
                 finish, crash, faults>>

AbortFinishes ==
  /\ stopping /\ finish = NoFinish
  /\ finish' = Finishes("aborted", FALSE)
  /\ UNCHANGED <<store, host, sidecarVars, stopping, reserved, live, save, flushing, chain,
                 head, crash, faults>>

(***************************************************************************)
(* settleCrashedSession: plans.abort, then the checkpoint is flushed and   *)
(* forgotten, then the turn is finished with the recovery of its reply.    *)
(***************************************************************************)
CrashFlushes ==
  /\ crash = "plans"
  /\ crash' = IF Active THEN "flush" ELSE "no"
  /\ UNCHANGED <<store, host, sidecarVars, stopping, reserved, live, save, flushing, chain,
                 head, finish, faults>>

CrashSettles ==
  /\ crash = "flush" /\ save = None /\ ~Pending
  /\ crash' = "no"
  /\ IF Active THEN live' = None /\ finish' = Finishes("aborted", TRUE)
               ELSE UNCHANGED <<live, finish>>
  /\ UNCHANGED <<store, host, sidecarVars, stopping, reserved, save, flushing, chain, head,
                 faults>>

-----------------------------------------------------------------------------
(***************************************************************************)
(* TurnPersistence.write: the head is asked whenever host-core serves,     *)
(* asked again after a crash, and given up after a long time without it.   *)
(***************************************************************************)
Asks ==
  /\ chain # <<>> /\ head = "waits" /\ Serving
  /\ head' = "asked"
  /\ UNCHANGED <<store, host, sidecarVars, stopping, reserved, live, save, flushing, chain,
                 finish, crash, faults>>

Landed ==
  /\ head = "served" /\ ~Owes(store, "append")
  /\ head' = "waits" /\ chain' = Tail(chain)
  /\ UNCHANGED <<store, host, sidecarVars, stopping, reserved, live, save, flushing, finish,
                 crash, faults>>

GivesUp ==
  /\ chain # <<>> /\ head = "waits" /\ ~Serving /\ ~Pending
  /\ chain' = Tail(chain)
  /\ UNCHANGED <<store, host, sidecarVars, stopping, reserved, live, save, flushing, head,
                 finish, crash, faults>>

Saved ==
  /\ save # None /\ save.stage = "served" /\ ~Owes(store, "save")
  /\ save' = None
  /\ UNCHANGED <<store, host, sidecarVars, stopping, reserved, live, flushing, chain, head,
                 finish, crash, faults>>

-----------------------------------------------------------------------------
(* host-core serves the requests, in any order. *)
ServesAppend ==
  /\ Serving /\ head = "asked"
  /\ store' = AppendMessage(store, Head(chain))
  /\ head' = "served"
  /\ UNCHANGED <<host, sidecarVars, stopping, reserved, live, save, flushing, chain, finish,
                 crash, faults>>

ServesSave ==
  /\ Serving /\ save # None /\ save.stage = "asked"
  /\ store' = SaveInflight(store, save.message)
  /\ save' = [save EXCEPT !.stage = "served"]
  /\ UNCHANGED <<host, sidecarVars, stopping, reserved, live, flushing, chain, head, finish,
                 crash, faults>>

ServesEndTurn ==
  /\ Serving /\ finish.stage = "asked"
  /\ store' = EndTurn(store, finish.status, finish.recover)
  /\ finish' = [finish EXCEPT !.stage = "done"]
  /\ UNCHANGED <<host, sidecarVars, stopping, reserved, live, save, flushing, chain, head,
                 crash, faults>>

Writes(i) ==
  /\ Serving /\ i \in DOMAIN store.owed
  /\ store' = WriteCheckpoint(store, i)
  /\ UNCHANGED <<host, sidecarVars, clientVars, faults>>

(* session.recoverInflightMessages, sent by startHost after the handshake. *)
Greets ==
  /\ host = "booted"
  /\ host' = "up" /\ store' = Recover(store, TRUE)
  /\ UNCHANGED <<sidecarVars, clientVars, faults>>

HostStarts ==
  /\ host = "down"
  /\ host' = "booted" /\ store' = Boot(store)
  /\ UNCHANGED <<sidecarVars, clientVars, faults>>

-----------------------------------------------------------------------------
MayFail(kind) ==
  /\ kind \notin faults
  /\ \E mishap \in Mishaps : faults \cup {kind} \subseteq mishap
  /\ faults' = faults \cup {kind}

(* What a death of host-core leaves: the store, or one in which the        *)
(* request it was serving, or its start, was done in part.                 *)
Leavings ==
  {store}
    \cup (IF Serving /\ head = "asked" THEN AppendLeaves(store, Head(chain)) ELSE {})
    \cup (IF Serving /\ finish.stage = "asked"
          THEN EndTurnLeaves(store, finish.status, finish.recover) ELSE {})
    \cup (IF host = "booted" THEN RecoverLeaves(store, TRUE) ELSE {})
    \cup (IF host = "down" THEN BootLeaves(store) ELSE {})

HostDies ==
  /\ host' = "down"
  /\ \E left \in Leavings : store' = [left EXCEPT !.owed = <<>>]

(* The requests in flight are rejected: the append is tried again, a       *)
(* checkpoint or the end of the turn is not.                               *)
HostCrashes ==
  /\ MayFail("host") /\ HostDies
  /\ head' = "waits" /\ save' = None
  /\ finish' = IF finish.stage = "asked" THEN [finish EXCEPT !.stage = "done"] ELSE finish
  /\ UNCHANGED <<sidecarVars, stopping, reserved, live, flushing, chain, crash>>

SidecarCrashes ==
  /\ MayFail("sidecar") /\ run # "dead"
  /\ run' = "dead" /\ streaming' = FALSE /\ reserved' = {}
  /\ crash' = IF Active THEN "plans" ELSE "no"
  /\ UNCHANGED <<store, host, current, text, noted, stopping, live, save, flushing, chain,
                 head, finish>>

(* pi-host dies and its children with it; what was queued in memory is gone. *)
ProcessDies ==
  /\ MayFail("process") /\ HostDies
  /\ run' = "dead" /\ streaming' = FALSE
  /\ stopping' = FALSE /\ reserved' = {} /\ live' = None /\ save' = None /\ flushing' = {}
  /\ chain' = <<>> /\ head' = "waits" /\ crash' = "no"
  /\ finish' = [stage |-> "done", status |-> "aborted", recover |-> FALSE]
  /\ UNCHANGED <<current, text, noted>>

-----------------------------------------------------------------------------
ClientSteps ==
  \/ WritesPending \/ (\E id \in flushing : FlushEnds(id))
  \/ CrashFlushes \/ CrashSettles \/ Asks \/ Landed \/ Saved

HostSteps ==
  \/ ServesAppend \/ ServesSave \/ ServesEndTurn
  \/ (\E i \in DOMAIN store.owed : Writes(i)) \/ Greets \/ HostStarts

RunSteps ==
  \/ ReplyStarts \/ StreamsText \/ Notes \/ RunEnds \/ Stops \/ AbortFinishes
  \/ \E status \in {"complete", "aborted"} : ReplyEnds(status)

Next ==
  \/ ClientSteps \/ HostSteps \/ RunSteps \/ GivesUp
  \/ HostCrashes \/ SidecarCrashes \/ ProcessDies

Spec == Init /\ [][Next]_vars

(***************************************************************************)
(* Every pending callback, timer and request gets its turn, and a dead     *)
(* host-core is restarted.  Nothing is assumed of the model, of the user   *)
(* or of the faults.                                                       *)
(***************************************************************************)
Fairness ==
  /\ WF_vars(WritesPending) /\ WF_vars(CrashFlushes) /\ WF_vars(CrashSettles)
  /\ WF_vars(Asks) /\ WF_vars(Landed) /\ WF_vars(Saved)
  /\ WF_vars(ServesAppend) /\ WF_vars(ServesSave) /\ WF_vars(ServesEndTurn)
  /\ WF_vars(\E i \in DOMAIN store.owed : Writes(i))
  /\ WF_vars(Greets) /\ WF_vars(HostStarts)
  /\ \A id \in ToSet(Replies) : WF_vars(FlushEnds(id))

FairSpec == Spec /\ Fairness

-----------------------------------------------------------------------------
(* What the index says of a row is behind the file.                        *)
IndexBehindFile ==
  \A id \in Ids :
    /\ Indexed(store, id) => OnFile(store, id)
    /\ Settled(store, id) => ~FileProvisional(store, id)

(* Every variable has its type; the index is behind the file, also after a *)
(* death between two durable writes: what it lists is there, and finished  *)
(* if the index says so; and the only deferred writes are those of the one *)
(* append and the one save in flight.                                      *)
TypeOK ==
  /\ store.rows \in Seq(Messages) /\ store.index \in [Ids -> {"none", "streaming", "final"}]
  /\ IndexBehindFile
  /\ store.checkpoint \in Messages \cup {None}
  /\ store.owed \in Seq([request : {"append", "save"}, message : Messages])
  /\ \A i, j \in DOMAIN store.owed : store.owed[i].request = store.owed[j].request => i = j
  /\ store.turn \in {"running", "completed", "aborted"}
  /\ host \in {"up", "booted", "down"} /\ run \in {"running", "over", "dead"}
  /\ current \in 0 .. Len(Replies) /\ streaming \in BOOLEAN
  /\ text \in [ToSet(Replies) -> Texts] /\ noted \in {None} \cup 1 .. Len(Replies)
  /\ stopping \in BOOLEAN /\ reserved \subseteq ToSet(Replies)
  /\ live \in {None} \cup Lives
  /\ save \in {None} \cup Saves
  /\ flushing \subseteq ToSet(Replies)
  /\ chain \in Seq(Messages) /\ head \in {"waits", "asked", "served"}
  /\ finish \in [stage : {"none", "asked", "done"}, status : {None, "completed", "aborted"},
                 recover : BOOLEAN]
  /\ crash \in {"no", "plans", "flush"} /\ faults \subseteq Kinds

(* A row that the index says is final stays as it is, whatever is          *)
(* replayed, recovered or promoted after it, across any death.             *)
SettledRowsStay ==
  [][\A i \in DOMAIN store.rows :
       Settled(store, store.rows[i].id) =>
         /\ i \in DOMAIN store'.rows /\ store'.rows[i] = store.rows[i]
         /\ Settled(store', store.rows[i].id)]_vars

(* The comment over append_record says as much of a row that is complete   *)
(* on file, indexed or not.  The code does not keep it (README, "What the  *)
(* models disproved").                                                     *)
ContentIsKept ==
  [][\A i \in DOMAIN store.rows :
       store.rows[i].status # "streaming" =>
         i \in DOMAIN store'.rows /\ store'.rows[i].text >= store.rows[i].text]_vars

HoldsText(m) == \E row \in ToSet(store.rows) : row.id = m.id /\ row.text = m.text

(* An acknowledged row of a reply holds the whole text of the reply: no    *)
(* promoted checkpoint has taken its place with less.                      *)
FinalTextWins ==
  (head = "served" /\ Head(chain).status # "streaming") => HoldsText(Head(chain))

(* The same as long as nobody promotes a checkpoint while the append of    *)
(* its row is under way, which a crash of host-core or of the sidecar      *)
(* leads to.                                                               *)
FinishedTextLands == faults \subseteq {"process"} => FinalTextWins

HasCopy(s, id) ==
  \/ \E row \in ToSet(s.rows) : row.id = id
  \/ s.checkpoint # None /\ s.checkpoint.id = id

(* host-core dies while it promotes the checkpoint of the reply: at the    *)
(* end of the turn of a dead sidecar, when it is greeted, when it starts.  *)
DiesPromoting(id) ==
  /\ faults' # faults /\ host' = "down"
  /\ store.checkpoint # None /\ store.checkpoint.id = id
  /\ host # "up" \/ (finish.stage = "asked" /\ finish.recover)

(* Unless host-core dies alone, a reply that has a copy, in the transcript *)
(* or beside it, keeps one, except for a death in the middle of a          *)
(* promotion: that one removes the checkpoint before it writes the row.    *)
KeepsReplies ==
  [][\A id \in ToSet(Replies) :
       /\ "host" \notin faults /\ HasCopy(store, id)
       /\ ~DiesPromoting(id)
       => HasCopy(store', id)]_vars

(* The bound that ADR 0153 gives on what a quit or crash loses needs the   *)
(* same without the exception.  The code does not keep it (README, "What   *)
(* the models disproved").                                                 *)
NoReplyIsLost ==
  [][\A id \in ToSet(Replies) :
       "host" \notin faults /\ HasCopy(store, id) => HasCopy(store', id)]_vars

SaidBefore(a, b) ==
  CASE a = Note -> Started(b) > noted
    [] b = Note -> Started(a) <= noted
    [] OTHER -> Started(a) < Started(b)

(* The rows stand in the order in which they were said, steering input     *)
(* behind the reply it interrupted, although that reply ends after it.     *)
TranscriptInOrder ==
  "host" \notin faults =>
    \A i, j \in DOMAIN store.rows :
      i < j => SaidBefore(store.rows[i].id, store.rows[j].id)

Leftover == store.checkpoint # None /\ ~Settled(store, store.checkpoint.id)
Reservation == \E row \in ToSet(store.rows) : row.status = "streaming"
Unsettled == Leftover \/ (Reservation /\ faults \subseteq {"sidecar"})

(* A turn that ends by itself leaves neither a checkpoint without a row    *)
(* nor, if host-core lives, a reservation without a final text: what the   *)
(* appends do not settle the next start of host-core does.                 *)
CompletedTurnsSettle == (finish.status = "completed" /\ Unsettled) ~> ~Unsettled
=============================================================================
