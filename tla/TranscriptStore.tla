-------------------------- MODULE TranscriptStore --------------------------
(***************************************************************************)
(* One session's transcript as host-core keeps it (crates/host-core/src/   *)
(* sessions.rs and transcripts.rs): the transcript file, the index of its  *)
(* rows in the database, the single checkpoint file of the reply being     *)
(* streamed, and the status of the running turn.  Every operation is a     *)
(* function from the store to the store, because host-core serves a        *)
(* request under its state lock; the one thing a request leaves for later  *)
(* is `owed`, the checkpoint files it has decided to write and writes      *)
(* after the lock is released.                                             *)
(*                                                                         *)
(* An operation is several durable writes, and host-core may die between   *)
(* two of them.  <Operation>Leaves is the set of stores that a death in    *)
(* the middle of the operation leaves, in the order of the code's writes.  *)
(*                                                                         *)
(* A text is the number of pieces of the reply it holds.  A row or a       *)
(* checkpoint is a record of an id, a text and a status; a row that is     *)
(* "streaming" only reserves the place of an unfinished reply.  `rows` is  *)
(* the file as it is read: of the lines with one id the first gives the    *)
(* place and the last the content (dedupe_records).                        *)
(***************************************************************************)
EXTENDS Naturals, SequencesExt

CONSTANTS
  Replies,  \* the turn's replies, a sequence of ids in the order they start
  Note,     \* a row that is not a reply: steering input or a finished tool
  None

ASSUME TranscriptStoreAssumption ==
  /\ Replies \in Seq(ToSet(Replies)) /\ IsInjective(Replies)
  /\ Note \notin ToSet(Replies)
  /\ None \notin ToSet(Replies) \cup {Note}

Ids == ToSet(Replies) \cup {Note}
Started(id) == CHOOSE i \in DOMAIN Replies : Replies[i] = id

Message(id, text, status) == [id |-> id, text |-> text, status |-> status]

EmptyStore == [rows |-> <<>>, index |-> [id \in Ids |-> "none"], checkpoint |-> None,
               owed |-> <<>>, turn |-> "running"]

(* The questions asked of the file ... *)
OnFile(s, id) == \E row \in ToSet(s.rows) : row.id = id
FileProvisional(s, id) ==
  \E row \in ToSet(s.rows) : row.id = id /\ row.status = "streaming"

(* ... and of the index, whose row says whether the reply is unfinished. *)
Indexed(s, id) == s.index[id] # "none"
Provisional(s, id) == s.index[id] = "streaming"
Settled(s, id) == Indexed(s, id) /\ ~Provisional(s, id)

\* Mutant of WithRow: the finished reply gives up the place it reserved.
WithRowLast(s, m) ==
  [s EXCEPT !.rows = Append(SelectSeq(@, LAMBDA row : row.id # m.id), m)]

(***************************************************************************)
(* The durable write of a row's line, or of its replacement: the row takes *)
(* the place of the one on file with its id, or comes at the end.          *)
(***************************************************************************)
WithRow(s, m) ==
  IF OnFile(s, m.id)
  THEN [s EXCEPT !.rows = [i \in DOMAIN @ |-> IF @[i].id = m.id THEN m ELSE @[i]]]
  ELSE [s EXCEPT !.rows = Append(@, m)]

(* The commit of its index row. *)
Stamped(s, m) ==
  [s EXCEPT !.index[m.id] = IF m.status = "streaming" THEN "streaming" ELSE "final"]

(***************************************************************************)
(* append_record, and update_message with the stamp behind it: the file    *)
(* first, then the index.                                                  *)
(***************************************************************************)
Written(s, m) == Stamped(WithRow(s, m), m)

\* Mutant of WrittenLeaves: the index row is committed before the line is on file.
WrittenLeavesIndex(s, m) == {Stamped(s, m)}

WrittenLeaves(s, m) == {WithRow(s, m)}

WithoutCheckpointOf(s, id) ==
  IF s.checkpoint # None /\ s.checkpoint.id = id THEN [s EXCEPT !.checkpoint = None] ELSE s

Owing(s, request, m) == [s EXCEPT !.owed = Append(@, [request |-> request, message |-> m])]

\* The checkpoint a reservation needs: none on file, or one of an older reply.
NeedsCheckpoint(s, id) ==
  s.checkpoint = None \/ Started(s.checkpoint.id) < Started(id)

\* Mutant of Dropped: a reservation counts as written like any other row.
DroppedIndexed(s, m) == Indexed(s, m.id)

\* Mutant of Dropped: a replayed row replaces whatever row has its id.
DroppedNever(s, m) == m.status = "streaming" /\ Provisional(s, m.id)

(***************************************************************************)
(* session.appendMessage.  An indexed row is the durable result already,   *)
(* except that a finished reply replaces its own reservation.              *)
(***************************************************************************)
Dropped(s, m) == Settled(s, m.id) \/ (m.status = "streaming" /\ Provisional(s, m.id))

AppendMessage(s, m) ==
  IF Dropped(s, m) THEN s
  ELSE IF m.status # "streaming" THEN WithoutCheckpointOf(Written(s, m), m.id)
  ELSE IF NeedsCheckpoint(s, m.id) THEN Owing(Written(s, m), "append", m)
  ELSE Written(s, m)

AppendLeaves(s, m) ==
  IF Dropped(s, m) THEN {} ELSE WrittenLeaves(s, m) \cup {Written(s, m)}

(***************************************************************************)
(* session.saveInflightMessage.  A checkpoint of a settled row is late: it *)
(* removes the file instead of writing it.                                 *)
(***************************************************************************)
SaveInflight(s, m) ==
  IF Settled(s, m.id) THEN [s EXCEPT !.checkpoint = None] ELSE Owing(s, "save", m)

(***************************************************************************)
(* recover_inflight_message.  The leftover of a reply without a final row, *)
(* or with one that only the file or only the index knows, becomes its     *)
(* row: complete if its turn completed, otherwise aborted.  The checkpoint *)
(* is removed before that row is written.  Boot leaves the leftovers of    *)
(* completed turns for the appends that are still to come.                 *)
(***************************************************************************)
Finished(s) == /\ Settled(s, s.checkpoint.id)
               /\ ~FileProvisional(s, s.checkpoint.id)

Promotes(s, includeCompleted) ==
  /\ s.checkpoint # None /\ ~Finished(s)
  /\ s.turn = "completed" => includeCompleted

(* The index is lined up with the file, which has the reply unfinished. *)
LinedUp(s) ==
  IF Indexed(s, s.checkpoint.id)
  THEN [s EXCEPT !.index[s.checkpoint.id] = "streaming"] ELSE s

Taken(s) == [LinedUp(s) EXCEPT !.checkpoint = None]

Promoted(s) ==
  [s.checkpoint EXCEPT !.status = IF s.turn = "completed" THEN "complete" ELSE "aborted"]

\* Mutant of Recover: the leftover of a completed turn is never promoted.
RecoverAborted(s, includeCompleted) ==
  IF s.checkpoint = None \/ s.turn = "completed" THEN s
  ELSE IF Finished(s) THEN [s EXCEPT !.checkpoint = None]
  ELSE Written(Taken(s), Promoted(s))

Recover(s, includeCompleted) ==
  IF s.checkpoint = None THEN s
  ELSE IF Finished(s) THEN [s EXCEPT !.checkpoint = None]
  ELSE IF Promotes(s, includeCompleted) THEN Written(Taken(s), Promoted(s))
  ELSE LinedUp(s)

RecoverLeaves(s, includeCompleted) ==
  IF Promotes(s, includeCompleted)
  THEN {LinedUp(s), Taken(s)} \cup WrittenLeaves(Taken(s), Promoted(s)) ELSE {}

Ended(s, status) == [s EXCEPT !.turn = IF @ = "running" THEN status ELSE @]

\* Mutant of EndTurn: the end of a turn drops its checkpoint, row or no row.
EndTurnDropping(s, status, recover) ==
  IF recover THEN Recover(Ended(s, status), TRUE)
  ELSE [Ended(s, status) EXCEPT !.checkpoint = None]

(***************************************************************************)
(* session.endTurn.  A turn ends once, whatever later callers ask; the     *)
(* checkpoint is promoted when the caller knows that no final row comes,   *)
(* and otherwise dropped only behind its row.                              *)
(***************************************************************************)
EndTurn(s, status, recover) ==
  IF recover THEN Recover(Ended(s, status), TRUE)
  ELSE IF status # "aborted" /\ s.checkpoint # None /\ Settled(s, s.checkpoint.id)
       THEN [Ended(s, status) EXCEPT !.checkpoint = None]
       ELSE Ended(s, status)

EndTurnLeaves(s, status, recover) ==
  {Ended(s, status)} \cup IF recover THEN RecoverLeaves(Ended(s, status), TRUE) ELSE {}

(***************************************************************************)
(* The deferred write of the i-th checkpoint decided.  One that was        *)
(* decided earlier and is still to be written will find a later one on     *)
(* file and drop itself, so it leaves `owed` here.                         *)
(***************************************************************************)
WriteCheckpoint(s, i) ==
  [s EXCEPT !.checkpoint = s.owed[i].message, !.owed = SubSeq(@, i + 1, Len(@))]

\* What a request still has to write before host-core answers it.
Owes(s, request) == \E entry \in ToSet(s.owed) : entry.request = request

(* AppState::open after host-core died: the turn is swept, then the        *)
(* leftovers are recovered before any request is served.                   *)
Swept(s) == [Ended(s, "aborted") EXCEPT !.owed = <<>>]

Boot(s) == Recover(Swept(s), FALSE)

BootLeaves(s) == {Swept(s)} \cup RecoverLeaves(Swept(s), FALSE)
=============================================================================
