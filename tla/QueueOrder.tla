----------------------------- MODULE QueueOrder -----------------------------
(***************************************************************************)
(* Delivery order of one session's queued turns (turn-queue.ts): promoted  *)
(* entries first, in the order they were promoted, then the others in the  *)
(* order they arrived or were moved to.  A queue is a sequence of distinct *)
(* entries; "promoted" is the set of entries that carry a priority.        *)
(***************************************************************************)
EXTENDS Naturals, Sequences, FiniteSets, SequencesExt

IndexOf(queue, entry) == CHOOSE k \in DOMAIN queue : queue[k] = entry

\* queue.splice(index, 1); an entry that is not there changes nothing.
Without(queue, entry) ==
  IF entry \in ToSet(queue)
  THEN RemoveAt(queue, IndexOf(queue, entry))
  ELSE queue

\* Mutants of PromoteIn: the entry goes to the end of the queue, to its front.
PromoteLast(queue, promoted, entry) == Append(Without(queue, entry), entry)
PromoteFirst(queue, promoted, entry) == <<entry>> \o Without(queue, entry)

\* orderQueue after the entry received nextPriority: it closes the block.
PromoteIn(queue, promoted, entry) ==
  InsertAt(Without(queue, entry),
           Cardinality({k \in DOMAIN queue : queue[k] \in promoted}) + 1,
           entry)

\* Places of the entries a reorder may swap with in one direction.
PlainNeighbours(queue, promoted, entry, up) ==
  {k \in DOMAIN queue :
     /\ queue[k] \notin promoted
     /\ IF up THEN k < IndexOf(queue, entry) ELSE k > IndexOf(queue, entry)}

CanReorder(queue, promoted, entry, up) ==
  /\ entry \in ToSet(queue) \ promoted
  /\ PlainNeighbours(queue, promoted, entry, up) # {}

\* Mutant of Reordered: only one half of the exchange.
ReorderedOneWay(queue, promoted, entry, up) ==
  LET near == PlainNeighbours(queue, promoted, entry, up)
      there == IF up THEN Max(near) ELSE Min(near)
  IN  [queue EXCEPT ![there] = entry]

\* The entry and its nearest plain neighbour change places.
Reordered(queue, promoted, entry, up) ==
  LET near == PlainNeighbours(queue, promoted, entry, up)
      there == IF up THEN Max(near) ELSE Min(near)
  IN  [queue EXCEPT ![IndexOf(queue, entry)] = queue[there], ![there] = entry]

\* The order the class documents: no plain entry before a promoted one, and
\* no entry twice.
Ordered(queue, promoted) ==
  \A j, k \in DOMAIN queue :
    j < k => /\ queue[j] # queue[k]
             /\ queue[k] \in promoted => queue[j] \in promoted
=============================================================================
