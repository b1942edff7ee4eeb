------------------------------ MODULE EventHub ------------------------------
(***************************************************************************)
(* The durable event stream of one session and its bounded fan-out, as      *)
(* packages/agent-host/src/event-log.ts keeps them: EventStream numbers and  *)
(* retains the events of one process lifetime (its epoch), EventHub delivers *)
(* them to a subscriber, counts what the subscriber has not acknowledged and *)
(* closes the subscription instead of losing an event.                       *)
(*                                                                           *)
(* The operators are the methods; the module that uses them keeps a stream   *)
(* [epoch, sequence, oldest] (the retained events are oldest..sequence) and  *)
(* a subscription [id, delivered, outstanding].  Ephemeral events are not    *)
(* modelled: they are neither numbered nor retained, and never close.        *)
(***************************************************************************)
EXTENDS Integers

CONSTANTS
    Retention,       \* replayWindowEvents: how many durable events are kept
    MaxOutstanding   \* how many delivered events may wait for their ack

ASSUME RetentionAssumption == Retention \in Nat \ {0}
ASSUME OutstandingAssumption == MaxOutstanding \in Nat \ {0}

NewStream(e) == [epoch |-> e, sequence |-> 0, oldest |-> 1]

Cursor(s) == [epoch |-> s.epoch, sequence |-> s.sequence]

(* Append, then evict: the count evicts down to Retention, the age of the    *)
(* events may evict further, but never the event just appended.              *)
Appends(s) ==
    LET kept == s.sequence + 2 - Retention
        first == IF kept > s.oldest THEN kept ELSE s.oldest
    IN  {[s EXCEPT !.sequence = @ + 1, !.oldest = o] :
            o \in first .. (s.sequence + 1)}

(* replay(after): how a subscriber that presents a cursor catches up.        *)
NothingRetained(s) == s.oldest > s.sequence

Replay(s, after) ==
    CASE after.epoch # s.epoch -> "epoch"
      [] after.epoch = s.epoch /\ after.sequence > s.sequence -> "ahead"
      [] after = Cursor(s) -> "replay"
      [] OTHER -> IF NothingRetained(s) \/ s.oldest > after.sequence + 1
                  THEN "evicted" ELSE "replay"

NewSubscription(id, sequence) ==
    [id |-> id, delivered |-> sequence, outstanding |-> 0]

\* Mutant of Delivered: one event more than the window holds.
DeliveredOneMore(sub, from, to) ==
    LET room == MaxOutstanding - sub.outstanding
    IN  IF to <= from + room THEN to ELSE from + room

(* What deliver does with the durable events from..to, in order: the first   *)
(* ones go out until MaxOutstanding wait for an acknowledgement; one more    *)
(* closes the subscription.                                                  *)
Delivered(sub, from, to) ==
    LET room == MaxOutstanding - sub.outstanding
    IN  IF to < from + room THEN to ELSE from + room - 1

\* Mutant of Closes: a subscriber that is too slow misses events.
ClosesNever(sub, from, to) == FALSE

Closes(sub, from, to) == Delivered(sub, from, to) < to

\* Mutant of AfterDelivery: a replay counts as one delivery.
AfterDeliveryOnce(sub, from, to) ==
    LET last == Delivered(sub, from, to)
    IN  IF last < from THEN sub
        ELSE [sub EXCEPT !.delivered = last, !.outstanding = @ + 1]

AfterDelivery(sub, from, to) ==
    LET last == Delivered(sub, from, to)
    IN  IF last < from THEN sub
        ELSE [sub EXCEPT !.delivered = last, !.outstanding = @ + last + 1 - from]

(* ack: the subscriber applied every durable event up to the sequence.       *)
Acked(sub, sequence) ==
    [sub EXCEPT !.outstanding =
        IF sequence >= sub.delivered THEN 0 ELSE sub.delivered - sequence]
=============================================================================
