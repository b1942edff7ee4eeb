----------------------------- MODULE TurnQueue -----------------------------
(***************************************************************************)
(* The queue of one session in its two forms: the rows of host-core's      *)
(* turn_queue table (crates/host-core/src/turn_queue.rs) and the mirror    *)
(* that agent-host's TurnQueue keeps in memory, in delivery order.  The    *)
(* module asks the store first and moves the mirror when the store has     *)
(* answered; the answer can be lost, and the agent-host process can        *)
(* restart between the two.  AgentHost's admission chain lets one          *)
(* operation of the session touch the queue at a time.                     *)
(***************************************************************************)
EXTENDS Naturals, Sequences, FiniteSets, QueueOrder

CONSTANTS
  Ids,         \* turn ids the module may allocate (a bound)
  Keys,        \* (principal, idempotencyKey) pairs clients use
  None,        \* undefined, NULL
  MaxQueue,    \* maxQueuedTurnsPerSession, MAX_QUEUED_TURNS_PER_SESSION
  MaxRestarts, \* bound: restarts of agent-host
  MaxLost,     \* bound: store calls that commit although the caller gets an error
  MaxRepeats   \* bound: submissions whose key some row still carries

ASSUME QueueAssumption ==
  /\ None \notin Ids \cup Keys
  /\ {MaxQueue, MaxRestarts, MaxLost, MaxRepeats} \subseteq Nat

VARIABLES
  rows,       \* the ids that have a row
  position,   \* turn_queue.position
  priority,   \* turn_queue.priority, 0 for NULL
  keyOf,      \* the key an id was submitted with
  mirror,     \* TurnQueue.bySession of the session
  block,      \* record.priority in the mirror, 0 for undefined
  remembered, \* AgentHost.idempotency: the turn a key was answered with
  call,       \* the store call of the running operation
  used,       \* ids already allocated
  executed,   \* ids taken from the queue to be run
  spent       \* how much of each bound is used up

store == <<rows, position, priority>>
memory == <<mirror, block, remembered>>
vars == <<store, keyOf, memory, call, used, executed, spent>>

Kinds == {"push", "cancel", "shift", "promote", "up", "down"}
NoCall == [kind |-> "none", id |-> None, phase |-> "idle"]
Calls == {NoCall} \cup [kind : Kinds, id : Ids, phase : {"sent", "done", "failed"}]

TypeOK ==
  /\ rows \subseteq used
  /\ position \in [Ids -> Nat]
  /\ priority \in [Ids -> Nat]
  /\ keyOf \in [Ids -> Keys \cup {None}]
  /\ mirror \in Seq(used)
  /\ block \in [Ids -> Nat]
  /\ remembered \in [Keys -> used \cup {None}]
  /\ call \in Calls
  /\ used \subseteq Ids
  /\ executed \subseteq used
  /\ spent \in [restarts : Nat, lost : Nat, repeats : Nat]

Init ==
  /\ rows = {}
  /\ position = [i \in Ids |-> 0]
  /\ priority = [i \in Ids |-> 0]
  /\ keyOf = [i \in Ids |-> None]
  /\ mirror = <<>>
  /\ block = [i \in Ids |-> 0]
  /\ remembered = [k \in Keys |-> None]
  /\ call = NoCall
  /\ used = {}
  /\ executed = {}
  /\ spent = [restarts |-> 0, lost |-> 0, repeats |-> 0]

-----------------------------------------------------------------------------
(* Orders *)

Highest(f, S) == CHOOSE n \in {f[i] : i \in S} \cup {0} :
                   \A i \in S : f[i] <= n

SortedBy(S, Before(_, _)) ==
  CHOOSE q \in [1 .. Cardinality(S) -> S] :
    \A j, k \in 1 .. Cardinality(S) : j < k => Before(q[j], q[k])

\* Mutant of RowBefore: NULL priorities sort first, as SQLite does by default.
RowBeforeNullsFirst(a, b) ==
  \/ priority[a] < priority[b]
  \/ priority[a] = priority[b] /\ position[a] < position[b]

\* ORDER BY (priority IS NULL) ASC, priority ASC, position ASC
RowBefore(a, b) ==
  \/ priority[a] # 0 /\ priority[b] = 0
  \/ priority[a] # 0 /\ priority[a] < priority[b]
  \/ priority[a] = priority[b] /\ position[a] < position[b]

SortedRows == SortedBy(rows, RowBefore)

Promoted == {i \in rows : priority[i] # 0}

\* Mutant of OrderQueue: the mirror is not sorted again.
OrderQueueNot(q, prio) == q

\* orderQueue: a stable sort of the mirror by its own priorities.
OrderQueue(q, prio) ==
  LET Before(a, b) == \/ prio[a] # 0 /\ prio[b] = 0
                      \/ prio[a] # 0 /\ prio[a] < prio[b]
                      \/ prio[a] = prio[b] /\ IndexOf(q, a) < IndexOf(q, b)
  IN  SortedBy(ToSet(q), Before)

InBlock == {i \in ToSet(mirror) : block[i] # 0}

-----------------------------------------------------------------------------
(* An operation starts: the mirror decides whether the store is asked *)

Ask(kind, i) ==
  /\ call = NoCall
  /\ call' = [kind |-> kind, id |-> i, phase |-> "sent"]

\* startTurnAdmitted: a remembered key is answered with its turn; otherwise a new
\* turn is pushed unless the mirror is full.
Submit(i, k) ==
  /\ i \notin used
  /\ k # None => remembered[k] = None
  /\ Len(mirror) < MaxQueue
  /\ IF k # None /\ \E j \in rows : keyOf[j] = k
     THEN /\ spent.repeats < MaxRepeats
          /\ spent' = [spent EXCEPT !.repeats = @ + 1]
     ELSE UNCHANGED spent
  /\ Ask("push", i)
  /\ used' = used \cup {i}
  /\ keyOf' = [keyOf EXCEPT ![i] = k]
  /\ UNCHANGED <<store, memory, executed>>

Cancel(i) ==
  /\ i \in ToSet(mirror)
  /\ Ask("cancel", i)
  /\ UNCHANGED <<store, keyOf, memory, used, executed, spent>>

Shift ==
  /\ mirror # <<>>
  /\ Ask("shift", Head(mirror))
  /\ UNCHANGED <<store, keyOf, memory, used, executed, spent>>

Promote(i) ==
  /\ i \in ToSet(mirror) \ InBlock
  /\ Ask("promote", i)
  /\ UNCHANGED <<store, keyOf, memory, used, executed, spent>>

Reorder(i, kind) ==
  /\ CanReorder(mirror, InBlock, i, kind = "up")
  /\ Ask(kind, i)
  /\ UNCHANGED <<store, keyOf, memory, used, executed, spent>>

-----------------------------------------------------------------------------
(* host-core executes the call, one transaction each *)

Sent(kind) == call.kind = kind /\ call.phase = "sent"
Answer(phase) == call' = [call EXCEPT !.phase = phase]

\* A row with the same key answers the call; a full table refuses it.
RowPush ==
  LET i == call.id
      same == {j \in rows : keyOf[j] # None /\ keyOf[j] = keyOf[i]}
  IN
  /\ Sent("push")
  /\ IF same = {} /\ Cardinality(rows) < MaxQueue
     THEN /\ rows' = rows \cup {i}
          /\ position' = [position EXCEPT ![i] = Highest(position, rows) + 1]
          /\ priority' = [priority EXCEPT ![i] = 0]
     ELSE UNCHANGED store
  /\ Answer(IF same = {} /\ Cardinality(rows) >= MaxQueue THEN "failed" ELSE "done")
  /\ UNCHANGED <<keyOf, memory, used, executed, spent>>

\* Mutant of RowRemove: taking the head changes memory only.
RowRemoveCanceled ==
  /\ Sent("cancel") \/ Sent("shift")
  /\ rows' = IF call.kind = "cancel" THEN rows \ {call.id} ELSE rows
  /\ Answer("done")
  /\ UNCHANGED <<position, priority, keyOf, memory, used, executed, spent>>

\* The caller does not look at whether there was a row.
RowRemove ==
  /\ Sent("cancel") \/ Sent("shift")
  /\ rows' = rows \ {call.id}
  /\ position' = [position EXCEPT ![call.id] = 0]
  /\ priority' = [priority EXCEPT ![call.id] = 0]
  /\ Answer("done")
  /\ UNCHANGED <<keyOf, memory, used, executed, spent>>

\* NOT_FOUND, ALREADY_PRIORITIZED, or the end of the block.
RowPrioritize ==
  /\ Sent("promote")
  /\ IF call.id \in rows \ Promoted
     THEN /\ priority' = [priority EXCEPT ![call.id] = Highest(priority, rows) + 1]
          /\ Answer("done")
     ELSE UNCHANGED priority /\ Answer("failed")
  /\ UNCHANGED <<rows, position, keyOf, memory, used, executed, spent>>

\* Plain rows that lie before (after) i, and the nearest of them.
PlainRows(i, up) ==
  {j \in rows \ Promoted : IF up THEN position[j] < position[i]
                                 ELSE position[j] > position[i]}

\* Mutant of NearestRow: the row at the far end.
FarthestRow(i, up) ==
  CHOOSE j \in PlainRows(i, up) :
    \A m \in PlainRows(i, up) : IF up THEN position[m] >= position[j]
                                      ELSE position[m] <= position[j]

NearestRow(i, up) ==
  CHOOSE j \in PlainRows(i, up) :
    \A m \in PlainRows(i, up) : IF up THEN position[m] <= position[j]
                                      ELSE position[m] >= position[j]

RowReorder ==
  LET i == call.id
      up == call.kind = "up"
      j == NearestRow(i, up)
  IN
  /\ Sent("up") \/ Sent("down")
  /\ IF i \in rows \ Promoted /\ PlainRows(i, up) # {}
     THEN /\ position' = [position EXCEPT ![i] = position[j], ![j] = position[i]]
          /\ Answer("done")
     ELSE UNCHANGED position /\ Answer("failed")
  /\ UNCHANGED <<rows, priority, keyOf, memory, used, executed, spent>>

-----------------------------------------------------------------------------
(* The answer arrives, and the mirror follows *)

\* Mutant of Answered: the call is not cleared.
AnsweredOpen(kind) ==
  /\ call.kind = kind /\ call.phase = "done"
  /\ call' = [call EXCEPT !.phase = "idle"]

Answered(kind) == call.kind = kind /\ call.phase = "done" /\ call' = NoCall

Pushed ==
  /\ Answered("push")
  /\ mirror' = Append(mirror, call.id)
  /\ block' = [block EXCEPT ![call.id] = 0]
  /\ remembered' = IF keyOf[call.id] = None THEN remembered
                   ELSE [remembered EXCEPT ![keyOf[call.id]] = call.id]
  /\ UNCHANGED <<store, keyOf, used, executed, spent>>

Drop(i) ==
  /\ mirror' = Without(mirror, i)
  /\ block' = [block EXCEPT ![i] = 0]

Canceled ==
  /\ Answered("cancel")
  /\ Drop(call.id)
  /\ UNCHANGED <<store, keyOf, remembered, used, executed, spent>>

Shifted ==
  /\ Answered("shift")
  /\ Drop(call.id)
  /\ executed' = executed \cup {call.id}
  /\ UNCHANGED <<store, keyOf, remembered, used, spent>>

\* nextPriority, then orderQueue.
Prioritized ==
  /\ Answered("promote")
  /\ block' = [block EXCEPT ![call.id] = Highest(block, ToSet(mirror)) + 1]
  /\ mirror' = OrderQueue(mirror, block')
  /\ UNCHANGED <<store, keyOf, remembered, used, executed, spent>>

Moved ==
  /\ Answered("up") \/ Answered("down")
  /\ mirror' = Reordered(mirror, InBlock, call.id, call.kind = "up")
  /\ UNCHANGED <<store, keyOf, block, remembered, used, executed, spent>>

\* The store refused, or nothing was asked of it after all.
Refused ==
  /\ call.phase = "failed"
  /\ call' = NoCall
  /\ UNCHANGED <<store, keyOf, memory, used, executed, spent>>

\* The call ends with an error (a timeout, a restart of host-core), before or
\* after its transaction; the mirror stays as it is.
ReplyLost ==
  /\ call.phase \in {"sent", "done"}
  /\ spent.lost < MaxLost
  /\ spent' = [spent EXCEPT !.lost = @ + 1]
  /\ call' = NoCall
  /\ UNCHANGED <<store, keyOf, memory, used, executed>>

\* agent-host restarts: restore() reads the rows; idempotency keys are not read
\* back into the map.
Restart ==
  /\ spent.restarts < MaxRestarts
  /\ spent' = [spent EXCEPT !.restarts = @ + 1]
  /\ call' = NoCall
  /\ mirror' = OrderQueue(SortedRows, priority)
  /\ block' = priority
  /\ remembered' = [k \in Keys |-> None]
  /\ UNCHANGED <<store, keyOf, used, executed>>

-----------------------------------------------------------------------------
Next ==
  \/ \E i \in Ids :
       \/ \E k \in Keys \cup {None} : Submit(i, k)
       \/ Cancel(i) \/ Promote(i)
       \/ \E kind \in {"up", "down"} : Reorder(i, kind)
  \/ Shift
  \/ RowPush \/ RowRemove \/ RowPrioritize \/ RowReorder
  \/ Pushed \/ Canceled \/ Shifted \/ Prioritized \/ Moved \/ Refused
  \/ ReplyLost \/ Restart

Spec == Init /\ [][Next]_vars

-----------------------------------------------------------------------------
(* Properties *)

\* Whenever no operation is running, the mirror shows what a restart would
\* restore: the same entries in the same order with the same block, although the
\* mirror swaps array places and the table swaps positions, and each of them
\* counts priorities over its own entries.
MirrorMatchesRows ==
  call = NoCall /\ spent.lost = 0 /\ spent.repeats = 0
    => mirror = SortedRows /\ InBlock = Promoted

\* Each committed transaction changes the delivery order by exactly the operation
\* that was asked for: an entry joins the end, leaves, closes the promoted block,
\* or changes places with its nearest plain neighbour.
StoreKeepsOrder ==
  [][SortedRows' # SortedRows =>
       SortedRows' =
         CASE call.kind = "push" -> Append(SortedRows, call.id)
           [] call.kind \in {"cancel", "shift"} -> Without(SortedRows, call.id)
           [] call.kind = "promote" -> PromoteIn(SortedRows, Promoted, call.id)
           [] OTHER -> Reordered(SortedRows, Promoted, call.id, call.kind = "up")]_vars

\* A turn taken from the queue is gone for good: neither a lost reply nor a
\* restart at any point brings it back to be executed again.
ExecutedIsGone == executed \cap (rows \cup ToSet(mirror)) = {}

\* No entry is mirrored twice, whatever is lost or repeated, and the mirror keeps
\* its block in front.
MirrorInOrder == Ordered(mirror, InBlock)

\* "Repeating the same request with the same principal and idempotency key
\* returns the same turn" (the spec, 7.3): one key, one queued turn.  The code
\* does not keep it across a restart (README, "What the models disproved").
SameKeySameTurn ==
  \A i, j \in ToSet(mirror) :
    keyOf[i] # None /\ keyOf[i] = keyOf[j] => i = j

=============================================================================
