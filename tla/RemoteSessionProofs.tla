------------------------ MODULE RemoteSessionProofs -------------------------
(***************************************************************************)
(* Proofs about RemoteSession for every value of its constants: how long   *)
(* the histories, the replay window and the subscription's window are, how *)
(* often the connection or the Host is lost and how many reads there are.  *)
(*                                                                         *)
(* Four inductive invariants, each on top of those before it.  TypeInv     *)
(* also says which request an answer on its way belongs to (AnswerType).   *)
(* ControlInv relates the worker, its queue, the stream and the Host's     *)
(* subscription: a request is never that of a stale task (WorkerInv), a    *)
(* reconnect that is not stale has nothing subscribed before it            *)
(* (QueueInv), the subscription is the one being closed, the one being     *)
(* opened or the stream's (SubInv), and what the Host pushed for one       *)
(* subscription is gone before the next (SentInv).  FlowInv, AckInv and    *)
(* FlightInv are about the events in flight: they are in order and fit the *)
(* window, an acknowledgement is of what arrived, and what a live stream   *)
(* has not taken is in flight.  ViewInv is about the cards: a snapshot on  *)
(* its way is of a moment of the Host's present lifetime (SnapInv), the    *)
(* bridge takes up no lifetime it has left (BridgeInv), a pushed event is  *)
(* news when it arrives and a replay goes on to what is known by then      *)
(* (FreshInv), and a stream that catches up or has caught up shows         *)
(* the cards of the bridge's moment (CatchInv, StepInv, AttachInv).  From  *)
(* it every step is a step of SessionView or leaves its variables alone.   *)
(*                                                                         *)
(* The first sections say what each kind of step does to the frames, to    *)
(* the queue and to the records; every later proof has one step for each   *)
(* action and cites them.                                                  *)
(***************************************************************************)
EXTENDS RemoteSession, SequenceTheorems, FiniteSetTheorems, TLAPS

-----------------------------------------------------------------------------
(* Sequences of frames *)

\* What a frame carries.
LEMMA FrameKinds ==
  ASSUME NEW f \in Frames
  PROVE  /\ f.type \in {"event", "closed", "acked", "subscribed", "refused", "unsubscribed",
                        "attached", "read"}
         /\ f.type = "event" => f.sequence \in 1 .. MaxEvents
         /\ f.type \in {"closed", "acked", "subscribed"} => f.id \in SubIds
         /\ f.type = "subscribed" => f.complete \in BOOLEAN
         /\ f.type \in {"attached", "read"} => f.snapshot \in Snapshots
  BY DEF Frames

\* r is q with f at its end.
Adds(q, r, f) ==
  /\ r \in Seq(Frames) /\ f \in Frames
  /\ Len(q) \in Nat /\ Len(r) = Len(q) + 1
  /\ DOMAIN q = 1 .. Len(q) /\ DOMAIN r = 1 .. Len(q) + 1
  /\ \A i \in DOMAIN q : i \in DOMAIN r /\ r[i] = q[i]
  /\ r[Len(q) + 1] = f

\* r is q without its first frame.
Takes(q, r) ==
  /\ r \in Seq(Frames) /\ q[1] \in Frames /\ Head(q) = q[1]
  /\ Len(q) \in Nat \ {0} /\ Len(r) = Len(q) - 1
  /\ DOMAIN q = 1 .. Len(q) /\ DOMAIN r = 1 .. Len(q) - 1
  /\ \A i \in DOMAIN r : i + 1 \in DOMAIN q /\ r[i] = q[i + 1]

\* A frame sent is put behind the others.
LEMMA AppendAdds ==
  ASSUME NEW q \in Seq(Frames), NEW f \in Frames
  PROVE  Adds(q, Append(q, f), f)
<1> DEFINE r == Append(q, f)
<1>1. /\ r \in Seq(Frames)
      /\ Len(r) = Len(q) + 1
      /\ \A i \in 1 .. Len(q) : r[i] = q[i]
      /\ r[Len(q) + 1] = f
  BY AppendProperties
<1> HIDE DEF r
<1>2. Len(q) \in Nat /\ DOMAIN q = 1 .. Len(q) /\ DOMAIN r = 1 .. Len(r)
  BY <1>1, LenProperties
<1>3. Adds(q, r, f)
  BY <1>1, <1>2 DEF Adds
<1> QED
  BY <1>3 DEF r

\* The oldest frame is taken, the others move up.
LEMMA TailTakes ==
  ASSUME NEW q \in Seq(Frames), q # <<>>
  PROVE  Takes(q, Tail(q))
<1> DEFINE r == Tail(q)
<1>1. /\ r \in Seq(Frames)
      /\ Len(r) = Len(q) - 1
      /\ \A i \in 1 .. Len(r) : r[i] = q[i + 1]
  BY HeadTailProperties
<1> HIDE DEF r
<1>2. Len(q) \in Nat \ {0} /\ DOMAIN q = 1 .. Len(q) /\ DOMAIN r = 1 .. Len(r)
  BY <1>1, LenProperties, EmptySeq
<1>3. q[1] \in Frames /\ Head(q) = q[1]
  BY <1>2, ElementOfSeq
<1>4. Takes(q, r)
  BY <1>1, <1>2, <1>3 DEF Takes
<1> QED
  BY <1>4 DEF r

\* r is q with the events from .. last and the answer f at its end.
Replays(q, r, from, last, f) ==
  /\ r \in Seq(Frames) /\ f \in Frames
  /\ Len(q) \in Nat /\ from \in Nat /\ last \in Nat /\ from <= last + 1
  /\ DOMAIN q = 1 .. Len(q)
  /\ DOMAIN r = 1 .. Len(q) + (last + 1 - from) + 1
  /\ \A i \in DOMAIN q : i \in DOMAIN r /\ r[i] = q[i]
  /\ \A i \in Len(q) + 1 .. Len(q) + (last + 1 - from) :
       r[i].type = "event" /\ r[i].sequence = from + (i - Len(q)) - 1
  /\ r[Len(q) + (last + 1 - from) + 1] = f

\* What was there, what is replayed and the answer.
LEMMA ThreeParts ==
  ASSUME NEW l \in Nat, NEW n \in Nat
  PROVE  \A i \in 1 .. l + n + 1 : \/ i \in 1 .. l
                                   \/ i \in l + 1 .. l + n
                                   \/ i = l + n + 1
  OBVIOUS

\* A replay puts its events and one answer behind the others.
LEMMA FramesReplay ==
  ASSUME NEW q \in Seq(Frames), NEW from \in Nat \ {0}, NEW last \in Nat, from <= last + 1,
         last <= MaxEvents, NEW f \in Frames
  PROVE  /\ Replays(q, q \o EventFrames(from, last) \o <<f>>, from, last, f)
         /\ Replays(q, Append(q \o EventFrames(from, last), f), from, last, f)
<1> USE RemoteAssumption
<1> DEFINE n == last + 1 - from
           e == EventFrames(from, last)
           p == q \o e
           r == Append(p, f)
<1>1. e = [i \in 1 .. n |-> [type |-> "event", sequence |-> from + i - 1]]
  BY DEF EventFrames
<1>2. n \in Nat
  OBVIOUS
<1>3. \A i \in 1 .. n : [type |-> "event", sequence |-> from + i - 1] \in Frames
  <2> SUFFICES ASSUME NEW i \in 1 .. n
               PROVE  [type |-> "event", sequence |-> from + i - 1] \in Frames
    OBVIOUS
  <2>1. from + i - 1 \in 1 .. MaxEvents
    OBVIOUS
  <2> QED
    BY <2>1 DEF Frames
<1>4. e \in Seq(Frames) /\ Len(e) = n
      /\ \A i \in 1 .. n : e[i] = [type |-> "event", sequence |-> from + i - 1]
  <2> HIDE DEF n
  <2>1. [i \in 1 .. n |-> [type |-> "event", sequence |-> from + i - 1]] \in Seq(Frames)
    BY <1>2, <1>3
  <2>2. e \in Seq(Frames) /\ DOMAIN e = 1 .. n
    BY <1>1, <2>1
  <2>3. \A i \in 1 .. n : e[i] = [type |-> "event", sequence |-> from + i - 1]
    BY <1>1
  <2> HIDE DEF e
  <2>4. DOMAIN e = 1 .. Len(e) /\ Len(e) \in Nat
    BY <2>2, LenProperties
  <2>5. Len(e) = n
    BY <1>2, <2>2, <2>4
  <2> QED
    BY <2>2, <2>3, <2>5
<1> HIDE DEF e, n
<1>5. /\ p \in Seq(Frames)
      /\ Len(p) = Len(q) + n
      /\ \A i \in 1 .. Len(q) + n : p[i] = IF i <= Len(q) THEN q[i] ELSE e[i - Len(q)]
  <2> HIDE DEF r
  <2>1. e \in Seq(Frames) /\ Len(e) = n
    BY <1>4
  <2> QED
    BY <2>1, ConcatProperties
<1> HIDE DEF p
<1>6. r = p \o <<f>>
  BY <1>5, AppendIsConcat
<1>7. Adds(p, r, f)
  BY <1>5, AppendAdds
<1>8. Len(q) \in Nat /\ DOMAIN q = 1 .. Len(q)
  BY LenProperties
<1> HIDE DEF r
<1>9. \A i \in Len(q) + 1 .. Len(q) + n : p[i] = e[i - Len(q)] /\ i - Len(q) \in 1 .. n
  BY <1>2, <1>5, <1>8
<1>10. \A i \in Len(q) + 1 .. Len(q) + n :
         r[i].type = "event" /\ r[i].sequence = from + (i - Len(q)) - 1
  <2> SUFFICES ASSUME NEW i \in Len(q) + 1 .. Len(q) + n
               PROVE  r[i].type = "event" /\ r[i].sequence = from + (i - Len(q)) - 1
    OBVIOUS
  <2>1. i \in 1 .. Len(p)
    BY <1>2, <1>5, <1>8
  <2>2. r[i] = p[i]
    BY <1>7, <2>1 DEF Adds
  <2> QED
    BY <1>4, <1>9, <2>2
<1>11. \A i \in DOMAIN q : i \in DOMAIN r /\ r[i] = q[i]
  BY <1>2, <1>5, <1>7, <1>8 DEF Adds
<1>12. Replays(q, r, from, last, f)
  BY <1>2, <1>5, <1>7, <1>8, <1>10, <1>11 DEF Adds, Replays, n
<1> QED
  BY <1>6, <1>12 DEF r, p, e

-----------------------------------------------------------------------------
(* The queue of recoveries *)

Tasks == [kind : {"reconnect", "recover", "ensure"}, stale : BOOLEAN]

\* us is ts, perhaps with a recovery or an ensure at its end.
MoreTasks(ts, us) ==
  /\ us \in Seq(Tasks)
  /\ Len(us) \in {Len(ts), Len(ts) + 1}
  /\ DOMAIN ts = 1 .. Len(ts) /\ DOMAIN us = 1 .. Len(us)
  /\ \A i \in DOMAIN ts : i \in DOMAIN us /\ us[i] = ts[i]
  /\ \A i \in DOMAIN us : i \in DOMAIN ts \/ us[i].kind # "reconnect"

\* us is ts, each task failed its check; perhaps with a recovery at its end.
StaleTasks(ts, us) ==
  /\ us \in Seq(Tasks)
  /\ Len(us) \in {Len(ts), Len(ts) + 1}
  /\ DOMAIN ts = 1 .. Len(ts) /\ DOMAIN us = 1 .. Len(us)
  /\ \A i \in DOMAIN ts : i \in DOMAIN us /\ us[i].stale
  /\ \A i \in DOMAIN us : i \in DOMAIN ts \/ us[i].kind # "reconnect"

\* us is ts without its first task.
NextTasks(ts, us) ==
  /\ us \in Seq(Tasks)
  /\ Len(ts) \in Nat \ {0} /\ Len(us) = Len(ts) - 1
  /\ DOMAIN ts = 1 .. Len(ts) /\ DOMAIN us = 1 .. Len(us)
  /\ \A i \in DOMAIN us : i + 1 \in DOMAIN ts /\ us[i] = ts[i + 1]

\* us is ts and a new task of that kind.
NewTask(ts, us, kind) ==
  /\ us \in Seq(Tasks)
  /\ Len(ts) \in Nat /\ Len(us) = Len(ts) + 1
  /\ DOMAIN ts = 1 .. Len(ts) /\ DOMAIN us = 1 .. Len(us)
  /\ \A i \in DOMAIN ts : i \in DOMAIN us /\ us[i] = ts[i]
  /\ us[Len(ts) + 1] = [kind |-> kind, stale |-> FALSE]

\* A task queued is put behind the others and is not stale.
LEMMA EnqueuedTasks ==
  ASSUME NEW ts \in Seq(Tasks), NEW kind \in {"reconnect", "recover", "ensure"}
  PROVE  NewTask(ts, Enqueued(ts, kind), kind)
<1> DEFINE task == [kind |-> kind, stale |-> FALSE]
           us == Append(ts, task)
<1>1. task \in Tasks
  BY DEF Tasks
<1> HIDE DEF task
<1>2. /\ us \in Seq(Tasks)
      /\ Len(us) = Len(ts) + 1
      /\ \A i \in 1 .. Len(ts) : us[i] = ts[i]
      /\ us[Len(ts) + 1] = task
  BY <1>1, AppendProperties
<1> HIDE DEF us
<1>3. Len(ts) \in Nat /\ DOMAIN ts = 1 .. Len(ts) /\ DOMAIN us = 1 .. Len(us)
  BY <1>2, LenProperties
<1>4. Enqueued(ts, kind) = us
  BY DEF Enqueued, us, task
<1>5. \A i \in DOMAIN ts : i \in DOMAIN us /\ us[i] = ts[i]
  BY <1>2, <1>3
<1>6. NewTask(ts, us, kind)
  BY <1>2, <1>3, <1>5 DEF NewTask, task
<1> QED
  BY <1>4, <1>6

\* Queueing a task keeps the others.
LEMMA EnsureTasks ==
  ASSUME NEW ts \in Seq(Tasks), NEW kind \in {"recover", "ensure"}
  PROVE  MoreTasks(ts, Enqueued(ts, kind)) /\ Enqueued(ts, kind) # <<>>
<1> DEFINE us == Enqueued(ts, kind)
<1> HIDE DEF us
<1>0. NewTask(ts, us, kind)
  BY EnqueuedTasks DEF us
<1>1. /\ us \in Seq(Tasks)
      /\ Len(ts) \in Nat /\ Len(us) = Len(ts) + 1
      /\ DOMAIN ts = 1 .. Len(ts) /\ DOMAIN us = 1 .. Len(us)
      /\ \A i \in DOMAIN ts : i \in DOMAIN us /\ us[i] = ts[i]
      /\ us[Len(ts) + 1] = [kind |-> kind, stale |-> FALSE]
  BY <1>0 DEF NewTask
<1>2. \A i \in DOMAIN us : i \in DOMAIN ts \/ us[i].kind # "reconnect"
  BY <1>1
<1>3. us # <<>>
  BY <1>1, EmptySeq
<1>4. MoreTasks(ts, us)
  BY <1>1, <1>2 DEF MoreTasks
<1> QED
  BY <1>3, <1>4 DEF us

\* recover queues at most one more task.
LEMMA RecoveryTasks ==
  ASSUME NEW ts \in Seq(Tasks)
  PROVE  MoreTasks(ts, WithRecovery(ts))
<1>1. CASE WithRecovery(ts) = ts
  <2>1. Len(ts) \in Nat /\ DOMAIN ts = 1 .. Len(ts)
    BY LenProperties
  <2> QED
    BY <1>1, <2>1 DEF MoreTasks
<1>2. CASE WithRecovery(ts) = Enqueued(ts, "recover")
  BY <1>2, EnsureTasks
<1> QED
  BY <1>1, <1>2 DEF WithRecovery

\* The task at the head stays there, or is stale.
LEMMA HeadKept ==
  ASSUME NEW ts \in Seq(Tasks), NEW us, ts # <<>>, MoreTasks(ts, us) \/ StaleTasks(ts, us)
  PROVE  /\ us \in Seq(Tasks) /\ us # <<>>
         /\ Head(us) = us[1] /\ Head(ts) = ts[1]
         /\ MoreTasks(ts, us) => Head(us) = Head(ts)
         /\ StaleTasks(ts, us) => Head(us).stale
<1>1. us \in Seq(Tasks) /\ Len(us) \in {Len(ts), Len(ts) + 1}
  BY DEF MoreTasks, StaleTasks
<1>2. Len(ts) \in Nat \ {0}
  BY EmptySeq
<1>3. Len(us) # 0
  BY <1>1, <1>2
<1>4. us # <<>>
  BY <1>3, EmptySeq
<1>5. 1 \in DOMAIN ts
  BY <1>2, LenProperties
<1>6. Head(us) = us[1] /\ Head(ts) = ts[1]
  BY <1>1, <1>4
<1> QED
  BY <1>1, <1>4, <1>5, <1>6 DEF MoreTasks, StaleTasks

\* A recovery that may be queued leaves a queue that is no shorter.
LEMMA RecoveryKept ==
  ASSUME NEW ts \in Seq(Tasks), NEW us, us = ts \/ us = WithRecovery(ts)
  PROVE  us \in Seq(Tasks) /\ (ts # <<>> => us # <<>>)
<1>1. CASE us = ts
  BY <1>1
<1>2. CASE us = WithRecovery(ts)
  <2>1. MoreTasks(ts, us)
    BY <1>2, RecoveryTasks
  <2>2. us \in Seq(Tasks)
    BY <2>1 DEF MoreTasks
  <2> QED
    BY <2>1, <2>2, HeadKept
<1> QED
  BY <1>1, <1>2

\* A lost connection makes every task stale and changes nothing else of them.
LEMMA AllStaleTasks ==
  ASSUME NEW ts \in Seq(Tasks)
  PROVE  /\ StaleTasks(ts, AllStale(ts))
         /\ Len(AllStale(ts)) = Len(ts) /\ Len(ts) \in Nat
<1> DEFINE us == AllStale(ts)
<1>1. Len(ts) \in Nat /\ DOMAIN ts = 1 .. Len(ts) /\ \A i \in 1 .. Len(ts) : ts[i] \in Tasks
  BY LenProperties, ElementOfSeq
<1>2. us = [i \in 1 .. Len(ts) |-> [ts[i] EXCEPT !.stale = TRUE]]
  BY <1>1 DEF AllStale
<1>3. \A i \in 1 .. Len(ts) : [ts[i] EXCEPT !.stale = TRUE] \in Tasks
  BY <1>1 DEF Tasks
<1>4. [i \in 1 .. Len(ts) |-> [ts[i] EXCEPT !.stale = TRUE]] \in Seq(Tasks)
  BY <1>1, <1>3
<1>5. us \in Seq(Tasks) /\ DOMAIN us = 1 .. Len(ts)
  BY <1>2, <1>4
<1>6. \A i \in 1 .. Len(ts) : us[i].stale
  BY <1>1, <1>2 DEF Tasks
<1> HIDE DEF us
<1>7. Len(us) \in Nat /\ DOMAIN us = 1 .. Len(us)
  BY <1>5, LenProperties
<1>8. Len(us) = Len(ts)
  BY <1>1, <1>5, <1>7
<1>9. StaleTasks(ts, us)
  BY <1>1, <1>5, <1>6, <1>8 DEF StaleTasks
<1> QED
  BY <1>1, <1>8, <1>9 DEF us

\* A lost connection leaves stale tasks, and possibly one recovery behind them.
LEMMA LossTasks ==
  ASSUME NEW ts \in Seq(Tasks)
  PROVE  StaleTasks(ts, AfterLoss(ts))
<1> DEFINE us == AllStale(ts)
<1>1. StaleTasks(ts, us) /\ Len(us) = Len(ts) /\ Len(ts) \in Nat /\ us \in Seq(Tasks)
  BY AllStaleTasks DEF StaleTasks
<1> HIDE DEF us
<1>2. MoreTasks(us, WithRecovery(us))
  BY <1>1, RecoveryTasks
<1>3. StaleTasks(ts, WithRecovery(us))
  <2> DEFINE ws == WithRecovery(us)
  <2> HIDE DEF ws
  <2>1. MoreTasks(us, ws)
    BY <1>2 DEF ws
  <2>2. \A i \in DOMAIN ts : i \in DOMAIN us /\ us[i].stale
    BY <1>1 DEF StaleTasks
  <2>3. \A i \in DOMAIN ts : i \in DOMAIN ws /\ ws[i].stale
    BY <2>1, <2>2 DEF MoreTasks
  <2>4. DOMAIN ts = DOMAIN us
    BY <1>1 DEF StaleTasks
  <2>5. StaleTasks(ts, ws)
    BY <1>1, <2>1, <2>3, <2>4 DEF StaleTasks, MoreTasks
  <2> QED
    BY <2>5 DEF ws
<1> QED
  BY <1>1, <1>3 DEF AfterLoss, us

\* The task at the head leaves, the others move up.
LEMMA TailTasks ==
  ASSUME NEW ts \in Seq(Tasks), ts # <<>>
  PROVE  NextTasks(ts, Tail(ts)) /\ Head(ts) = ts[1] /\ ts[1] \in Tasks
<1> DEFINE us == Tail(ts)
<1>1. /\ us \in Seq(Tasks)
      /\ Len(us) = Len(ts) - 1
      /\ \A i \in 1 .. Len(us) : us[i] = ts[i + 1]
  BY HeadTailProperties
<1> HIDE DEF us
<1>2. Len(ts) \in Nat \ {0} /\ DOMAIN ts = 1 .. Len(ts) /\ DOMAIN us = 1 .. Len(us)
  BY <1>1, LenProperties, EmptySeq
<1>3. Head(ts) = ts[1] /\ ts[1] \in Tasks
  BY <1>2, ElementOfSeq
<1>4. NextTasks(ts, us)
  BY <1>1, <1>2 DEF NextTasks
<1> QED
  BY <1>3, <1>4 DEF us

-----------------------------------------------------------------------------
(* What is well formed *)

Events == {"requested", "resolved"} \X Prompts
Replies == [id : SubIds \cup {0}, complete : BOOLEAN]
Workers == [pc : {"idle", "failed", "removed", "unsubscribing", "unsubscribeAnswered", "attaching",
                  "attachAnswered", "attached", "subscribing", "subscribeAnswered", "subscribed"},
            attempt : Nat, snapshot : Snapshots \cup {None}, reply : Replies]
Readers == [pc : {"idle", "sent", "answered", "read"}, snapshot : Snapshots \cup {None}]

\* The worker waits for events/subscribe, or has its answer.
Subscribing == worker.pc \in {"subscribing", "subscribeAnswered", "subscribed"}

HostType ==
  /\ hub \in [epoch : 1 .. MaxEpochs, sequence : Seqs, oldest : 1 .. MaxEvents + 1]
  /\ hub.oldest <= hub.sequence + 1
  /\ histories \in [1 .. MaxEpochs -> Seq(Events)]
  /\ Len(History) = hub.sequence
  /\ \A e \in 1 .. MaxEpochs :
       Len(histories[e]) <= MaxEvents /\ (e > hub.epoch => histories[e] = <<>>)

LinkType ==
  /\ sub \in Subscriptions \cup {None}
  /\ frames \in Seq(Frames)
  /\ conn \in {"down", "recovering", "up"}
  /\ acking \in Ackings \cup {None}

WorkerType ==
  /\ tasks \in Seq(Tasks) /\ worker \in Workers
  /\ worker.pc # "idle" => tasks # <<>>
  /\ worker.pc = "attached" => worker.snapshot \in Snapshots

DeskType ==
  /\ routed \in BOOLEAN /\ watched \in BOOLEAN
  /\ stream \in Streams \cup {None}
  /\ Subscribing => stream # None /\ stream.id = 0
  /\ reader \in Readers
  /\ reader.pc = "read" => reader.snapshot \in Snapshots
  /\ bridge \in Bridges \cup {None}
  /\ cards \subseteq Prompts

Answers == {"unsubscribed", "attached", "subscribed", "refused"}

\* An answer is on its way only to the request that waits for it, and an event only of
\* this lifetime of the Host.
AnswerType ==
  /\ \A i \in DOMAIN frames :
       /\ frames[i].type = "unsubscribed" => worker.pc = "unsubscribeAnswered"
       /\ frames[i].type = "attached" => worker.pc = "attachAnswered"
       /\ frames[i].type \in {"subscribed", "refused"} => worker.pc = "subscribeAnswered"
       /\ frames[i].type = "read" => reader.pc = "answered"
       /\ frames[i].type = "event" => frames[i].sequence <= hub.sequence
  /\ \A i, j \in DOMAIN frames : frames[i].type \in Answers /\ frames[j].type \in Answers => i = j
  /\ \A i, j \in DOMAIN frames : frames[i].type = "read" /\ frames[j].type = "read" => i = j

Requests == {"unsubscribing", "unsubscribeAnswered", "attaching", "attachAnswered", "subscribing",
             "subscribeAnswered"}

\* Without a connection nothing is in flight, nothing is subscribed and the stream is paused.
ConnType ==
  conn = "down" =>
    /\ frames = <<>> /\ sub = None /\ acking = None /\ reader.pc = "idle"
    /\ stream # None => stream.paused
    /\ worker.pc \notin Requests
    /\ worker.pc \in {"attached", "subscribed"} => Head(tasks).stale

TypeInv == HostType /\ LinkType /\ WorkerType /\ DeskType /\ AnswerType /\ ConnType

\* The stream and the subscriptions, told from None.
LEMMA SomethingIsNotNone ==
  /\ \A s \in Subscriptions : s # None
  /\ \A s \in Streams : s # None
  /\ \A a \in Ackings : a # None
  /\ \A b \in Bridges : b # None
  BY RemoteAssumption

\* A frame that is no answer, or the only answer, at the end.
LEMMA FrameSent ==
  ASSUME TypeInv, NEW f \in Frames, frames' = Append(frames, f), conn' = conn, conn # "down",
         hub'.sequence \in Nat, hub.sequence <= hub'.sequence,
         f.type = "event" => f.sequence <= hub'.sequence,
         worker' = worker \/ f.type \in Answers,
         reader' = reader \/ f.type = "read",
         f.type = "unsubscribed" => worker'.pc = "unsubscribeAnswered",
         f.type = "attached" => worker'.pc = "attachAnswered",
         f.type \in {"subscribed", "refused"} => worker'.pc = "subscribeAnswered",
         f.type = "read" => reader'.pc = "answered",
         f.type \in Answers => worker.pc \in {"unsubscribing", "attaching", "subscribing"},
         f.type = "read" => reader.pc = "sent"
  PROVE  frames' \in Seq(Frames) /\ Adds(frames, frames', f) /\ AnswerType'
<1>1. Adds(frames, frames', f)
  BY AppendAdds DEF TypeInv, LinkType
<1>2. \A i \in DOMAIN frames' :
        \/ i \in DOMAIN frames /\ frames'[i] = frames[i]
        \/ i = Len(frames) + 1 /\ frames'[i] = f
  BY <1>1 DEF Adds
<1>3. f.type \in Answers => \A i \in DOMAIN frames : frames[i].type \notin Answers
  BY DEF TypeInv, AnswerType, Answers
<1>4. f.type = "read" => \A i \in DOMAIN frames : frames[i].type # "read"
  BY DEF TypeInv, AnswerType
<1>5. \A i, j \in DOMAIN frames' :
        frames'[i].type \in Answers /\ frames'[j].type \in Answers => i = j
  BY <1>2, <1>3 DEF TypeInv, AnswerType
<1>6. \A i, j \in DOMAIN frames' : frames'[i].type = "read" /\ frames'[j].type = "read" => i = j
  BY <1>2, <1>4 DEF TypeInv, AnswerType
<1>7. \A i \in DOMAIN frames' :
       /\ frames'[i].type = "unsubscribed" => worker'.pc = "unsubscribeAnswered"
       /\ frames'[i].type = "attached" => worker'.pc = "attachAnswered"
       /\ frames'[i].type \in {"subscribed", "refused"} => worker'.pc = "subscribeAnswered"
       /\ frames'[i].type = "read" => reader'.pc = "answered"
  BY <1>2, <1>3, <1>4 DEF TypeInv, AnswerType, Answers
<1>8. ASSUME NEW i \in DOMAIN frames', frames'[i].type = "event"
      PROVE  frames'[i].sequence <= hub'.sequence
  <2>1. CASE i \in DOMAIN frames /\ frames'[i] = frames[i]
    <3>1. frames[i] \in Frames
      BY <2>1, LenProperties, ElementOfSeq DEF TypeInv, LinkType
    <3>2. frames[i].sequence \in Nat /\ hub.sequence \in Nat
      BY <1>8, <2>1, <3>1, FrameKinds, RemoteAssumption DEF TypeInv, HostType, Seqs
    <3>3. frames[i].sequence <= hub.sequence
      BY <1>8, <2>1 DEF TypeInv, AnswerType
    <3> QED
      BY <2>1, <3>2, <3>3
  <2> QED
    BY <1>2, <1>8, <2>1
<1> QED
  BY <1>1, <1>5, <1>6, <1>7, <1>8 DEF AnswerType, Adds

\* A replay and its answer at the end.
LEMMA ReplaySent ==
  ASSUME TypeInv, UNCHANGED <<hub, conn, reader>>, NEW from, NEW last, NEW f,
         Replays(frames, frames', from, last, f), last <= hub.sequence,
         f.type \in {"subscribed", "refused"},
         worker.pc = "subscribing", worker'.pc = "subscribeAnswered"
  PROVE  AnswerType'
<1> DEFINE n == last + 1 - from
<1>1. /\ Len(frames) \in Nat /\ n \in Nat /\ from \in Nat /\ last \in Nat
      /\ DOMAIN frames = 1 .. Len(frames) /\ DOMAIN frames' = 1 .. Len(frames) + n + 1
      /\ \A i \in DOMAIN frames : frames'[i] = frames[i]
      /\ \A i \in Len(frames) + 1 .. Len(frames) + n :
           frames'[i].type = "event" /\ frames'[i].sequence = from + (i - Len(frames)) - 1
      /\ frames'[Len(frames) + n + 1] = f
  BY DEF Replays
<1>2. \A i \in Len(frames) + 1 .. Len(frames) + n : from + (i - Len(frames)) - 1 <= last
  BY <1>1
<1>3. hub.sequence \in Nat
  BY RemoteAssumption DEF TypeInv, HostType, Seqs
<1> HIDE DEF n
<1>4. \A i \in DOMAIN frames' :
        \/ i \in DOMAIN frames /\ frames'[i] = frames[i]
        \/ i \in Len(frames) + 1 .. Len(frames) + n
        \/ i = Len(frames) + n + 1 /\ frames'[i] = f
  BY <1>1
<1>5. \A i \in Len(frames) + 1 .. Len(frames) + n :
        frames'[i].type = "event" /\ frames'[i].sequence <= hub.sequence
  <2> SUFFICES ASSUME NEW i \in Len(frames) + 1 .. Len(frames) + n
               PROVE  frames'[i].type = "event" /\ frames'[i].sequence <= hub.sequence
    OBVIOUS
  <2>1. frames'[i].type = "event" /\ frames'[i].sequence = from + (i - Len(frames)) - 1
    BY <1>1
  <2>2. from + (i - Len(frames)) - 1 <= last
    BY <1>2
  <2> QED
    BY <1>1, <1>3, <2>1, <2>2
<1>6. \A i \in DOMAIN frames : frames[i].type \notin Answers
  BY DEF TypeInv, AnswerType, Answers
<1>7. \A i, j \in DOMAIN frames' :
        frames'[i].type \in Answers /\ frames'[j].type \in Answers => i = j
  BY <1>4, <1>5, <1>6 DEF Answers
<1>8. \A i, j \in DOMAIN frames' : frames'[i].type = "read" /\ frames'[j].type = "read" => i = j
  BY <1>4, <1>5 DEF TypeInv, AnswerType
<1>9. \A i \in DOMAIN frames' :
       /\ frames'[i].type = "unsubscribed" => worker'.pc = "unsubscribeAnswered"
       /\ frames'[i].type = "attached" => worker'.pc = "attachAnswered"
       /\ frames'[i].type \in {"subscribed", "refused"} => worker'.pc = "subscribeAnswered"
       /\ frames'[i].type = "read" => reader'.pc = "answered"
       /\ frames'[i].type = "event" => frames'[i].sequence <= hub'.sequence
  BY <1>4, <1>5, <1>6 DEF TypeInv, AnswerType, Answers
<1> QED
  BY <1>7, <1>8, <1>9 DEF AnswerType

\* The first frame arrives; an answer moves its request on.
LEMMA FrameTaken ==
  ASSUME TypeInv, frames # <<>>, frames' = Tail(frames), conn' = conn, hub' = hub,
         worker' = worker \/ Head(frames).type \in Answers,
         reader' = reader \/ Head(frames).type = "read"
  PROVE  /\ Takes(frames, frames')
         /\ Head(frames) \in Frames /\ conn # "down"
         /\ AnswerType'
<1>1. Takes(frames, frames')
  BY TailTakes DEF TypeInv, LinkType
<1>2. Head(frames) \in Frames /\ Head(frames) = frames[1] /\ 1 \in DOMAIN frames
  BY <1>1 DEF Takes
<1>3. conn # "down"
  BY DEF TypeInv, ConnType
<1>4. \A i \in DOMAIN frames' :
        i + 1 \in DOMAIN frames /\ i + 1 # 1 /\ frames'[i] = frames[i + 1] /\ i \in Nat
  BY <1>1 DEF Takes
<1>5. Head(frames).type \in Answers => \A i \in DOMAIN frames' : frames'[i].type \notin Answers
  BY <1>2, <1>4 DEF TypeInv, AnswerType
<1>6. Head(frames).type = "read" => \A i \in DOMAIN frames' : frames'[i].type # "read"
  BY <1>2, <1>4 DEF TypeInv, AnswerType
<1>7. ASSUME NEW i \in DOMAIN frames', NEW j \in DOMAIN frames',
             \/ frames'[i].type \in Answers /\ frames'[j].type \in Answers
             \/ frames'[i].type = "read" /\ frames'[j].type = "read"
      PROVE  i = j
  <2>1. i + 1 = j + 1
    BY <1>4, <1>7 DEF TypeInv, AnswerType
  <2> QED
    BY <1>4, <2>1
<1>8. \A i \in DOMAIN frames' :
       /\ frames'[i].type = "unsubscribed" => worker'.pc = "unsubscribeAnswered"
       /\ frames'[i].type = "attached" => worker'.pc = "attachAnswered"
       /\ frames'[i].type \in {"subscribed", "refused"} => worker'.pc = "subscribeAnswered"
       /\ frames'[i].type = "read" => reader'.pc = "answered"
       /\ frames'[i].type = "event" => frames'[i].sequence <= hub'.sequence
  BY <1>4, <1>5, <1>6 DEF TypeInv, AnswerType, Answers
<1> QED
  BY <1>1, <1>2, <1>3, <1>7, <1>8 DEF AnswerType

-----------------------------------------------------------------------------
(* What the Host's steps do *)

Event(n) == [type |-> "event", sequence |-> n]

\* A published event is one frame.
LEMMA OneEvent ==
  ASSUME NEW n \in 1 .. MaxEvents, NEW q \in Seq(Frames)
  PROVE  q \o EventFrames(n, n) = Append(q, Event(n)) /\ Event(n) \in Frames
<1>1. Event(n) \in Frames
  BY DEF Event, Frames
<1>2. EventFrames(n, n) = [i \in 1 .. 1 |-> Event(n)]
  <2>1. (n - n) + 1 = 1 /\ \A i \in 1 .. 1 : n + i - 1 = n
    BY RemoteAssumption
  <2> QED
    BY <2>1 DEF EventFrames, Event
<1>3. [i \in 1 .. 1 |-> Event(n)] = <<Event(n)>>
  OBVIOUS
<1> QED
  BY <1>1, <1>2, <1>3, AppendIsConcat

\* EventHub.publish: the event is numbered; it goes out, or closes the subscription.
LEMMA PublishDoes ==
  ASSUME TypeInv, NEW event \in Events, Publish(event)
  PROVE  LET n == hub.sequence + 1
         IN  /\ n \in 1 .. MaxEvents
             /\ HostType'
             /\ hub'.epoch = hub.epoch /\ hub'.sequence = n
             /\ histories' = [histories EXCEPT ![hub.epoch] = Append(@, event)]
             /\ \/ sub = None /\ UNCHANGED <<sub, frames>>
                \/ /\ sub # None /\ sub.outstanding >= MaxOutstanding
                   /\ EarlyClose \/ ~Unannounced
                   /\ sub' = None
                   /\ frames' = Append(frames, [type |-> "closed", id |-> sub.id])
                \/ /\ sub # None /\ sub.outstanding < MaxOutstanding
                   /\ sub' = [sub EXCEPT !.delivered = n, !.outstanding = @ + 1]
                   /\ frames' = Append(frames, Event(n))
             /\ UNCHANGED <<conn, client, losses, reads>>
<1> USE RemoteAssumption, RetentionAssumption, OutstandingAssumption
<1> DEFINE n == hub.sequence + 1
<1>1. /\ hub.sequence \in 0 .. MaxEvents /\ hub.sequence < MaxEvents /\ hub.epoch \in 1 .. MaxEpochs
      /\ hub.oldest \in 1 .. n
  BY DEF Publish, TypeInv, HostType, Seqs
<1>2. n \in 1 .. MaxEvents
  BY <1>1 DEF Seqs
<1>3. /\ hub'.epoch = hub.epoch /\ hub'.sequence = n /\ hub'.oldest \in 1 .. n
      /\ hub' \in [epoch : 1 .. MaxEpochs, sequence : Seqs, oldest : 1 .. MaxEvents + 1]
  <2> DEFINE kept  == hub.sequence + 2 - Retention
             first == IF kept > hub.oldest THEN kept ELSE hub.oldest
  <2>0. hub' \in {[hub EXCEPT !.sequence = @ + 1, !.oldest = o] : o \in first .. (hub.sequence + 1)}
    BY DEF Publish, Appends
  <2>1. PICK o \in first .. n : hub' = [hub EXCEPT !.sequence = @ + 1, !.oldest = o]
    BY <2>0
  <2>2. o \in 1 .. n
    BY <1>1
  <2> HIDE DEF first, kept
  <2>3. n \in Seqs /\ o \in 1 .. MaxEvents + 1
    BY <1>1, <2>2 DEF Seqs
  <2>4. hub \in [epoch : 1 .. MaxEpochs, sequence : Seqs, oldest : 1 .. MaxEvents + 1]
    BY DEF TypeInv, HostType
  <2> QED
    BY <2>1, <2>2, <2>3, <2>4
<1>4. HostType'
  <2>1. histories' = [histories EXCEPT ![hub.epoch] = Append(@, event)]
    BY DEF Publish
  <2>2. History \in Seq(Events)
    BY <1>1 DEF TypeInv, HostType, History
  <2>3. Append(History, event) \in Seq(Events) /\ Len(Append(History, event)) = n
    BY <2>2, AppendProperties DEF TypeInv, HostType
  <2>4. /\ histories'[hub.epoch] = Append(History, event)
        /\ \A e \in 1 .. MaxEpochs : e # hub.epoch => histories'[e] = histories[e]
        /\ histories' \in [1 .. MaxEpochs -> Seq(Events)]
    BY <1>1, <2>1, <2>3 DEF TypeInv, HostType, History
  <2>5. History' = histories'[hub.epoch]
    BY <1>3 DEF History
  <2>6. \A e \in 1 .. MaxEpochs :
          Len(histories'[e]) <= MaxEvents /\ (e > hub'.epoch => histories'[e] = <<>>)
    <3> SUFFICES ASSUME NEW e \in 1 .. MaxEpochs
                 PROVE  Len(histories'[e]) <= MaxEvents /\ (e > hub.epoch => histories'[e] = <<>>)
      BY <1>3
    <3>1. CASE e = hub.epoch
      BY <1>1, <1>2, <2>3, <2>4, <3>1
    <3>2. CASE e # hub.epoch
      BY <2>4, <3>2 DEF TypeInv, HostType
    <3> QED
      BY <3>1, <3>2
  <2> QED
    BY <1>3, <2>3, <2>4, <2>5, <2>6 DEF HostType
<1>5. CASE sub = None
  <2>1. UNCHANGED <<sub, frames>>
    BY <1>5 DEF Publish
  <2> QED
    BY <1>2, <1>3, <1>4, <1>5, <2>1 DEF Publish
<1>6. CASE sub # None
  <2>1. sub \in Subscriptions /\ sub.outstanding \in Nat
    BY <1>6 DEF TypeInv, LinkType, Subscriptions
  <2>2. Closes(sub, n, n) <=> sub.outstanding >= MaxOutstanding
    BY <1>2, <2>1 DEF Closes, Delivered
  <2>3. sub.outstanding < MaxOutstanding => Delivered(sub, n, n) = n
    BY <1>2, <2>1 DEF Delivered
  <2>4. CASE sub.outstanding >= MaxOutstanding
    <3>1. /\ EarlyClose \/ ~Unannounced
          /\ sub' = None
          /\ frames' = Append(frames, [type |-> "closed", id |-> sub.id])
      BY <1>6, <2>2, <2>4 DEF Publish
    <3> QED
      BY <1>2, <1>3, <1>4, <1>6, <2>4, <3>1 DEF Publish
  <2>5. CASE sub.outstanding < MaxOutstanding
    <3>1. /\ sub' = AfterDelivery(sub, n, n)
          /\ frames' = frames \o EventFrames(n, n)
      BY <1>6, <2>1, <2>2, <2>3, <2>5 DEF Publish
    <3>2. sub' = [sub EXCEPT !.delivered = n, !.outstanding = @ + 1]
      <4>1. ~(n < n) /\ sub.outstanding + n + 1 - n = sub.outstanding + 1
        BY <1>2, <2>1
      <4> QED
        BY <2>3, <2>5, <3>1, <4>1 DEF AfterDelivery
    <3>3. frames' = Append(frames, Event(n))
      BY <1>2, <3>1, OneEvent DEF TypeInv, LinkType
    <3> QED
      BY <1>2, <1>3, <1>4, <1>6, <2>5, <3>2, <3>3 DEF Publish
  <2> QED
    BY <2>1, <2>4, <2>5
<1> QED
  BY <1>5, <1>6

Subscribed(id, complete) == [type |-> "subscribed", id |-> id, complete |-> complete]

\* events/subscribe: a cursor of another lifetime, ahead of the stream or evicted is told to
\* start over; a replay starts just behind the cursor and is refused if the window is too
\* small for it.
LEMMA SubscribeDoes ==
  ASSUME TypeInv, HostSubscribes
  PROVE  LET after == stream.cursor
             id    == FreshId
         IN  /\ id \in SubIds /\ stream \in Streams /\ worker.pc = "subscribing"
             /\ worker' = [worker EXCEPT !.pc = "subscribeAnswered"]
             /\ \/ /\ sub' = NewSubscription(id, hub.sequence)
                   /\ frames' = Append(frames, Subscribed(id, FALSE))
                \/ /\ after.epoch = hub.epoch
                   /\ after.sequence + MaxOutstanding < hub.sequence
                   /\ sub' = None
                   /\ Replays(frames, frames', after.sequence + 1, after.sequence + MaxOutstanding,
                              [type |-> "refused"])
                \/ /\ after.epoch = hub.epoch
                   /\ after.sequence <= hub.sequence
                   /\ hub.sequence <= after.sequence + MaxOutstanding
                   /\ sub' = [id |-> id, delivered |-> hub.sequence,
                              outstanding |-> hub.sequence - after.sequence]
                   /\ Replays(frames, frames', after.sequence + 1, hub.sequence,
                              Subscribed(id, TRUE))
             /\ UNCHANGED <<host, conn, routed, watched, stream, acking, tasks, reader, bridge,
                            cards, losses, reads>>
<1> USE RemoteAssumption, RetentionAssumption, OutstandingAssumption
<1> DEFINE after    == stream.cursor
           id       == FreshId
           decision == Replay(hub, after)
           fresh    == NewSubscription(FreshId, after.sequence)
           from     == Larger(after.sequence + 1, hub.oldest)
<1>1. /\ worker.pc = "subscribing" /\ worker' = [worker EXCEPT !.pc = "subscribeAnswered"]
      /\ UNCHANGED <<host, conn, routed, watched, stream, acking, tasks, reader, bridge, cards,
                     losses, reads>>
  BY DEF HostSubscribes
<1>2. stream \in Streams /\ stream.id = 0
  BY <1>1 DEF TypeInv, DeskType, Subscribing
<1>3. id \in SubIds
  <2>1. \E i \in SubIds : acking = None \/ acking.id # i
    BY DEF SubIds
  <2>2. \A i \in SubIds : stream.id # i
    BY <1>2 DEF SubIds
  <2> QED
    BY <2>1, <2>2 DEF FreshId
<1>4. /\ after.sequence \in 0 .. MaxEvents /\ after.epoch \in 1 .. MaxEpochs
      /\ hub.sequence \in 0 .. MaxEvents /\ hub.epoch \in 1 .. MaxEpochs
      /\ hub.oldest \in 1 .. hub.sequence + 1
  BY <1>2 DEF TypeInv, HostType, Streams, Cursors, Seqs
<1>5. CASE decision # "replay"
  <2>1. /\ sub' = NewSubscription(id, hub.sequence)
        /\ frames' = Append(frames, Subscribed(id, FALSE))
    BY <1>5 DEF HostSubscribes, NewSubscription, Subscribed
  <2> QED
    BY <1>1, <1>2, <1>3, <2>1
<1>6. CASE decision = "replay"
  <2>1. after.epoch = hub.epoch /\ after.sequence <= hub.sequence /\ hub.oldest <= after.sequence + 1
    <3>1. after.epoch = hub.epoch /\ after.sequence <= hub.sequence
      BY <1>4, <1>6 DEF Replay, Cursor
    <3>2. CASE after = Cursor(hub)
      BY <1>4, <3>1, <3>2 DEF Cursor
    <3>3. CASE after # Cursor(hub)
      <4>1. ~(hub.oldest > after.sequence + 1)
        BY <1>4, <1>6, <3>1, <3>3 DEF Replay
      <4> QED
        BY <1>4, <3>1, <4>1
    <3> QED
      BY <3>2, <3>3
  <2>2. from = after.sequence + 1
    BY <1>4, <2>1 DEF Larger
  <2>3. fresh.outstanding = 0 /\ fresh.delivered = after.sequence /\ fresh.id = id
    BY DEF NewSubscription
  <2> HIDE DEF from, fresh, decision
  <2>4. Closes(fresh, from, hub.sequence) <=> after.sequence + MaxOutstanding < hub.sequence
    BY <1>4, <2>2, <2>3 DEF Closes, Delivered
  <2>5. frames \in Seq(Frames)
    BY DEF TypeInv, LinkType
  <2>6. CASE after.sequence + MaxOutstanding < hub.sequence
    <3> DEFINE last == after.sequence + MaxOutstanding
               refused == [type |-> "refused"]
    <3>1. Delivered(fresh, from, hub.sequence) = last
      BY <1>4, <2>2, <2>3, <2>6 DEF Delivered
    <3>2. sub' = None /\ frames' = frames \o EventFrames(from, last) \o <<refused>>
      BY <1>6, <2>4, <2>6, <3>1 DEF HostSubscribes, decision, fresh, from
    <3>3. refused \in Frames
      BY DEF Frames
    <3>4. from \in Nat \ {0} /\ last \in Nat /\ from <= last + 1 /\ last <= MaxEvents
      BY <1>4, <2>2, <2>6
    <3> HIDE DEF last, refused
    <3>5. Replays(frames, frames', from, last, refused)
      BY <2>5, <3>2, <3>3, <3>4, FramesReplay
    <3> QED
      BY <1>1, <1>2, <1>3, <2>1, <2>2, <2>6, <3>2, <3>5 DEF last, refused
  <2>7. CASE ~(after.sequence + MaxOutstanding < hub.sequence)
    <3> DEFINE last == hub.sequence
               answer == Subscribed(id, TRUE)
    <3>1. Delivered(fresh, from, hub.sequence) = last /\ hub.sequence <= after.sequence + MaxOutstanding
      BY <1>4, <2>2, <2>3, <2>7 DEF Delivered
    <3>2. /\ sub' = AfterDelivery(fresh, from, hub.sequence)
          /\ frames' = frames \o EventFrames(from, last)
                       \o <<[type |-> "subscribed", id |-> fresh.id, complete |-> TRUE]>>
      BY <1>6, <2>4, <2>7, <3>1 DEF HostSubscribes, decision, fresh, from
    <3>3. answer \in Frames
      BY <1>3 DEF Frames, Subscribed
    <3>4. from \in Nat \ {0} /\ last \in Nat /\ from <= last + 1 /\ last <= MaxEvents
      BY <1>4, <2>1, <2>2
    <3>5. sub' = [id |-> id, delivered |-> hub.sequence, outstanding |-> hub.sequence - after.sequence]
      <4>1. CASE last < from
        <5>1. hub.sequence = after.sequence /\ hub.sequence - after.sequence = 0
          BY <1>4, <2>1, <2>2, <4>1
        <5>2. sub' = fresh
          BY <3>1, <3>2, <4>1 DEF AfterDelivery
        <5> QED
          BY <5>1, <5>2 DEF fresh, NewSubscription
      <4>2. CASE ~(last < from)
        <5>1. sub' = [fresh EXCEPT !.delivered = last, !.outstanding = @ + last + 1 - from]
          BY <3>1, <3>2, <4>2 DEF AfterDelivery
        <5>2. fresh.outstanding + last + 1 - from = hub.sequence - after.sequence
          BY <1>4, <2>2, <2>3
        <5> QED
          BY <5>1, <5>2 DEF fresh, NewSubscription
      <4> QED
        BY <4>1, <4>2
    <3>6. frames' = frames \o EventFrames(from, last) \o <<answer>>
      BY <2>3, <3>2 DEF Subscribed
    <3> HIDE DEF last, answer
    <3>7. Replays(frames, frames', from, last, answer)
      BY <2>5, <3>3, <3>4, <3>6, FramesReplay
    <3> QED
      BY <1>1, <1>2, <1>3, <2>1, <2>2, <3>1, <3>5, <3>7 DEF last, answer
  <2> QED
    BY <2>6, <2>7
<1> QED
  BY <1>5, <1>6

-----------------------------------------------------------------------------
(* What the desktop's steps do *)

\* RestoreSnapshot: an outdated snapshot, or one of an earlier lifetime, is left alone.
LEMMA RestoreType ==
  ASSUME TypeInv, NEW snapshot \in Snapshots, RestoreSnapshot(snapshot)
  PROVE  bridge' \in Bridges \cup {None} /\ cards' \subseteq Prompts
<1> DEFINE c == snapshot.cursor
           b == BridgeFor(c.epoch)
<1>1. c \in Cursors /\ snapshot.pending \in SUBSET Prompts
  BY DEF Snapshots
<1>2. bridge \in Bridges \cup {None} /\ cards \subseteq Prompts
  BY DEF TypeInv, DeskType
<1>3. b \in Bridges
  BY <1>1, <1>2, RemoteAssumption DEF BridgeFor, NewBridge, Bridges, Cursors, Seqs
<1> HIDE DEF b
<1>4. [b EXCEPT !.sequence = c.sequence, !.snapshotSequence = c.sequence,
                !.seen = @ \cup snapshot.pending] \in Bridges
  BY <1>1, <1>3 DEF Bridges, Cursors
<1> QED
  BY <1>1, <1>2, <1>4 DEF RestoreSnapshot, b

\* handleSessionScope keeps the types of bridge and cards.
LEMMA HandlesType ==
  ASSUME TypeInv, NEW event \in Events, NEW n \in Seqs, BridgeHandles(event, n)
  PROVE  bridge' \in Bridges /\ cards' \subseteq Prompts
<1> DEFINE b == BridgeFor(hub.epoch)
<1>1. event[2] \in Prompts
  BY DEF Events
<1>2. bridge \in Bridges \cup {None} /\ cards \subseteq Prompts /\ hub.epoch \in 1 .. MaxEpochs
  BY DEF TypeInv, DeskType, HostType
<1>3. b \in Bridges
  BY <1>1, <1>2, RemoteAssumption DEF BridgeFor, NewBridge, Bridges, Cursors, Seqs
<1> HIDE DEF b
<1>4. [b EXCEPT !.sequence = IF n > @ THEN n ELSE @, !.seen = @ \cup {event[2]}] \in Bridges
  BY <1>1, <1>3 DEF Bridges, Cursors
<1> QED
  BY <1>1, <1>2, <1>4 DEF BridgeHandles, b

\* handle: an event is left alone, pauses a stream of an earlier lifetime, or moves the
\* stream's cursor; only an event behind the cursor is handed on.
LEMMA TakesEventDoes ==
  ASSUME TypeInv, NEW n \in 1 .. MaxEvents, n <= hub.sequence, TakesEvent(n)
  PROVE  /\ History[n] \in Events
         /\ stream' \in Streams \cup {None} /\ (stream # None => stream' # None)
         /\ \/ /\ stream = None \/ stream.paused
               /\ UNCHANGED <<stream, tasks, bridge, cards>>
            \/ /\ stream # None /\ ~stream.paused /\ stream.cursor.epoch # hub.epoch
               /\ stream' = [stream EXCEPT !.paused = TRUE]
               /\ tasks' = WithRecovery(tasks)
               /\ UNCHANGED <<bridge, cards>>
            \/ /\ stream # None /\ ~stream.paused /\ stream.cursor.epoch = hub.epoch
               /\ stream' = [stream EXCEPT !.ack = Larger(@, n), !.cursor.sequence = Larger(@, n)]
               /\ UNCHANGED tasks
               /\ \/ n <= stream.cursor.sequence /\ UNCHANGED <<bridge, cards>>
                  \/ n > stream.cursor.sequence /\ BridgeHandles(History[n], n)
<1> USE RemoteAssumption
<1>1. History[n] \in Events
  BY ElementOfSeq DEF TypeInv, HostType, History
<1>2. stream \in Streams \cup {None}
  BY DEF TypeInv, DeskType
<1>3. CASE stream = None \/ stream.paused
  BY <1>1, <1>2, <1>3 DEF TakesEvent
<1>4. CASE stream # None /\ ~stream.paused /\ stream.cursor.epoch # hub.epoch
  <2>1. /\ stream' = [stream EXCEPT !.paused = TRUE]
        /\ tasks' = WithRecovery(tasks)
        /\ UNCHANGED <<bridge, cards>>
    BY <1>4 DEF TakesEvent
  <2>2. stream' \in Streams
    BY <1>2, <1>4, <2>1 DEF Streams
  <2> QED
    BY <1>1, <1>4, <2>1, <2>2, SomethingIsNotNone
<1>5. CASE stream # None /\ ~stream.paused /\ stream.cursor.epoch = hub.epoch
  <2>1. /\ stream' = [stream EXCEPT !.ack = Larger(@, n), !.cursor.sequence = Larger(@, n)]
        /\ IF n <= stream.cursor.sequence THEN UNCHANGED <<bridge, cards>>
                                          ELSE BridgeHandles(History[n], n)
        /\ UNCHANGED tasks
    BY <1>5 DEF TakesEvent
  <2>2. stream \in Streams /\ stream.cursor \in Cursors /\ stream.cursor.sequence \in Seqs
    BY <1>2, <1>5 DEF Streams, Cursors
  <2>3. Larger(stream.ack, n) \in Seqs /\ Larger(stream.cursor.sequence, n) \in Seqs
    BY <2>2 DEF Streams, Cursors, Seqs, Larger
  <2>4. stream' \in Streams
    BY <2>1, <2>2, <2>3 DEF Streams, Cursors
  <2>5. n <= stream.cursor.sequence \/ n > stream.cursor.sequence
    BY <2>2 DEF Seqs
  <2> QED
    BY <1>1, <1>5, <2>1, <2>4, <2>5, SomethingIsNotNone
<1> QED
  BY <1>3, <1>4, <1>5

\* The connection ends: nothing is in flight, and the stream is paused.
LEMMA EndsType ==
  ASSUME TypeInv, ConnectionEnds
  PROVE  /\ LinkType' /\ AnswerType' /\ reader'.pc = "idle" /\ reader' \in Readers
         /\ frames' = <<>> /\ sub' = None /\ conn' = "down" /\ acking' = None /\ routed' = FALSE
         /\ stream' \in Streams \cup {None} /\ (stream # None <=> stream' # None)
         /\ stream # None => stream' = [stream EXCEPT !.paused = TRUE]
<1>1. /\ conn' = "down" /\ frames' = <<>> /\ sub' = None /\ routed' = FALSE /\ acking' = None
      /\ reader' = [pc |-> "idle", snapshot |-> None]
      /\ stream' = IF stream = None THEN None ELSE [stream EXCEPT !.paused = TRUE]
  BY DEF ConnectionEnds, NotReading
<1>2. stream # None => [stream EXCEPT !.paused = TRUE] \in Streams
  BY DEF TypeInv, DeskType, Streams
<1>3. stream' \in Streams \cup {None} /\ (stream # None <=> stream' # None)
  BY <1>1, <1>2, SomethingIsNotNone
<1>4. LinkType'
  BY <1>1, EmptySeq DEF LinkType
<1>5. AnswerType'
  BY <1>1 DEF AnswerType
<1> QED
  BY <1>1, <1>3, <1>4, <1>5 DEF Readers

\* A task starts: it fails its check, reconnects, starts to watch or has nothing to do.
LEMMA StartTaskDoes ==
  ASSUME TypeInv, StartTask
  PROVE  /\ tasks # <<>> /\ Task \in Tasks /\ worker.pc = "idle"
         /\ UNCHANGED <<host, sub, frames, reader, bridge, cards, losses, reads>>
         /\ watched' \in BOOLEAN
         /\ worker' \in Workers
         /\ \/ /\ Task.stale /\ worker'.pc = "failed"
               /\ UNCHANGED <<watched, stream, acking, tasks, conn, routed>>
            \/ /\ ~Task.stale /\ Task.kind = "reconnect"
               /\ stream' = None /\ acking' = None /\ worker'.pc = "removed"
               /\ UNCHANGED <<watched, tasks, conn, routed>>
            \/ /\ ~Task.stale /\ Task.kind = "reconnect"
               /\ stream' = None /\ acking' = None /\ worker'.pc = "idle"
               /\ tasks' = Tail(tasks) /\ conn' = "up" /\ routed' = TRUE
            \/ /\ ~Task.stale
               /\ stream' = None /\ acking' = None
               /\ worker'.pc = IF stream # None /\ stream.id # 0 /\ conn # "down"
                               THEN "unsubscribing" ELSE "removed"
               /\ UNCHANGED <<tasks, conn, routed>>
            \/ /\ ~Task.stale /\ Task.kind # "reconnect"
               /\ worker'.pc = "idle" /\ tasks' = Tail(tasks)
               /\ UNCHANGED <<watched, stream, acking, conn, routed>>
<1>1. /\ tasks # <<>> /\ worker.pc = "idle"
      /\ UNCHANGED <<host, sub, frames, reader, bridge, cards, losses, reads>>
  BY DEF StartTask
<1>2. tasks \in Seq(Tasks) /\ worker \in Workers /\ watched \in BOOLEAN
  BY DEF TypeInv, WorkerType, DeskType
<1>3. Task \in Tasks
  BY <1>1, <1>2, TailTasks DEF Task
<1>4. /\ Idle \in Workers /\ Idle.pc = "idle"
      /\ \A pc \in {"removed", "unsubscribing"} :
           [Idle EXCEPT !.attempt = 1, !.pc = pc] \in Workers
           /\ [Idle EXCEPT !.attempt = 1, !.pc = pc].pc = pc
           /\ [Idle EXCEPT !.pc = pc, !.attempt = 1] \in Workers
           /\ [Idle EXCEPT !.pc = pc, !.attempt = 1].pc = pc
  BY DEF Workers, Idle, NoReply, Replies
<1>5. CASE Task.stale /\ Waits("failed") /\ UNCHANGED <<watched, stream, acking, tasks, conn, routed>>
  <2>1. worker' \in Workers /\ worker'.pc = "failed"
    BY <1>2, <1>5 DEF Waits, Workers
  <2> QED
    BY <1>1, <1>2, <1>3, <1>5, <2>1
<1>6. CASE /\ ~Task.stale /\ Task.kind = "reconnect"
           /\ stream' = None /\ acking' = None
           /\ IF watched
              THEN worker' = [Idle EXCEPT !.pc = "removed", !.attempt = 1]
                   /\ UNCHANGED <<tasks, conn, routed>>
              ELSE TaskReturns
           /\ UNCHANGED watched
  BY <1>1, <1>2, <1>3, <1>4, <1>6 DEF TaskReturns
<1>7. CASE ~Task.stale /\ watched' \in BOOLEAN /\ StartsWatch
  <2> DEFINE pc == IF stream # None /\ stream.id # 0 /\ conn # "down"
                   THEN "unsubscribing" ELSE "removed"
  <2>1. /\ stream' = None /\ acking' = None /\ UNCHANGED <<tasks, conn, routed>>
        /\ worker' = [Idle EXCEPT !.attempt = 1, !.pc = pc]
    BY <1>7 DEF StartsWatch
  <2>2. pc \in {"removed", "unsubscribing"}
    OBVIOUS
  <2> HIDE DEF pc
  <2>3. worker' \in Workers /\ worker'.pc = pc
    BY <1>4, <2>1, <2>2
  <2> QED
    BY <1>1, <1>3, <1>7, <2>1, <2>3 DEF pc
<1>8. CASE /\ ~Task.stale /\ Task.kind # "reconnect" /\ TaskReturns
           /\ UNCHANGED <<watched, stream, acking>>
  BY <1>1, <1>2, <1>3, <1>4, <1>8 DEF TaskReturns
<1> QED
  BY <1>2, <1>5, <1>6, <1>7, <1>8 DEF StartTask

\* subscribe: the answer is refused, comes too late, completes the stream or does not.
LEMMA WatchEndsDoes ==
  ASSUME TypeInv, WatchEnds
  PROVE  LET id == worker.reply.id
         IN  /\ tasks # <<>> /\ Task \in Tasks /\ worker.pc = "subscribed"
             /\ UNCHANGED <<host, sub, frames, watched, reader, bridge, cards, losses, reads>>
             /\ stream \in Streams /\ stream' \in Streams \cup {None}
             /\ worker' \in Workers
             /\ \/ /\ id = 0 /\ stream' = [stream EXCEPT !.paused = TRUE] /\ worker'.pc = "failed"
                   /\ UNCHANGED <<acking, tasks, conn, routed>>
                \/ /\ id # 0 /\ Task.stale /\ worker'.pc = "failed"
                   /\ stream' = stream \/ (conn # "down" /\ stream' = [stream EXCEPT !.id = id])
                   /\ UNCHANGED <<acking, tasks, conn, routed>>
                \/ /\ id # 0 /\ ~Task.stale /\ worker.reply.complete /\ ~stream.paused
                   /\ stream' = [stream EXCEPT !.id = id]
                   /\ worker'.pc = "idle" /\ tasks' = Tail(tasks)
                   /\ \/ Task.kind = "reconnect" /\ conn' = "up" /\ routed' = TRUE
                      \/ Task.kind # "reconnect" /\ UNCHANGED <<conn, routed>>
                   /\ UNCHANGED acking
                \/ /\ id # 0 /\ ~Task.stale /\ ~(worker.reply.complete /\ ~stream.paused)
                   /\ stream' = None /\ acking' = None /\ worker'.pc = "unsubscribing"
                   /\ UNCHANGED <<tasks, conn, routed>>
<1> DEFINE id       == worker.reply.id
           answered == [worker EXCEPT !.reply = NoReply]
<1>1. /\ tasks # <<>> /\ worker.pc = "subscribed"
      /\ UNCHANGED <<host, sub, frames, watched, reader, bridge, cards, losses, reads>>
  BY DEF WatchEnds, Running
<1>2. tasks \in Seq(Tasks) /\ worker \in Workers /\ stream \in Streams
  BY <1>1 DEF TypeInv, WorkerType, DeskType, Subscribing
<1>3. Task \in Tasks
  BY <1>1, <1>2, TailTasks DEF Task
<1>4. id \in SubIds \cup {0} /\ Idle \in Workers /\ Idle.pc = "idle"
  BY <1>2 DEF Workers, Replies, Idle, NoReply
<1>5. /\ [answered EXCEPT !.pc = "failed"] \in Workers
      /\ [answered EXCEPT !.pc = "failed"].pc = "failed"
      /\ [answered EXCEPT !.pc = "unsubscribing", !.attempt = @ + 1] \in Workers
      /\ [answered EXCEPT !.pc = "unsubscribing", !.attempt = @ + 1].pc = "unsubscribing"
  <2>1. answered \in Workers
    BY <1>2 DEF Workers, NoReply, Replies
  <2> HIDE DEF answered
  <2>2. answered.attempt + 1 \in Nat
    BY <2>1 DEF Workers
  <2>3. /\ [answered EXCEPT !.pc = "failed"] \in Workers
        /\ [answered EXCEPT !.pc = "failed"].pc = "failed"
    BY <2>1 DEF Workers
  <2>4. /\ [answered EXCEPT !.pc = "unsubscribing", !.attempt = @ + 1] \in Workers
        /\ [answered EXCEPT !.pc = "unsubscribing", !.attempt = @ + 1].pc = "unsubscribing"
    BY <2>1, <2>2 DEF Workers
  <2> QED
    BY <2>3, <2>4
<1>6. [stream EXCEPT !.paused = TRUE] \in Streams /\ [stream EXCEPT !.id = id] \in Streams
  BY <1>2, <1>4 DEF Streams
<1>7. CASE /\ id = 0
           /\ stream' = [stream EXCEPT !.paused = TRUE]
           /\ worker' = [answered EXCEPT !.pc = "failed"]
           /\ UNCHANGED <<acking, tasks, conn, routed>>
  <2> HIDE DEF answered, id
  <2> QED
    BY <1>1, <1>2, <1>3, <1>5, <1>6, <1>7 DEF id
<1>8. CASE /\ id # 0 /\ Task.stale
           /\ stream' = IF conn = "down" THEN stream ELSE [stream EXCEPT !.id = id]
           /\ worker' = [answered EXCEPT !.pc = "failed"]
           /\ UNCHANGED <<acking, tasks, conn, routed>>
  <2> HIDE DEF answered, id
  <2> QED
    BY <1>1, <1>2, <1>3, <1>5, <1>6, <1>8 DEF id
<1>9. CASE /\ id # 0 /\ ~Task.stale /\ worker.reply.complete /\ ~stream.paused
           /\ stream' = [stream EXCEPT !.id = id]
           /\ TaskReturns
           /\ UNCHANGED acking
  <2> HIDE DEF id
  <2> QED
    BY <1>1, <1>2, <1>3, <1>4, <1>6, <1>9 DEF id, TaskReturns
<1>10. CASE /\ id # 0 /\ ~Task.stale /\ ~(worker.reply.complete /\ ~stream.paused)
            /\ stream' = None /\ acking' = None
            /\ worker' = [answered EXCEPT !.pc = "unsubscribing", !.attempt = @ + 1]
            /\ UNCHANGED <<tasks, conn, routed>>
  <2> HIDE DEF answered, id
  <2> QED
    BY <1>1, <1>2, <1>3, <1>5, <1>10 DEF id
<1> QED
  BY <1>7, <1>8, <1>9, <1>10 DEF WatchEnds

\* A task fails: the connection is given up, or the session is withdrawn.
LEMMA TaskFailsDoes ==
  ASSUME TypeInv, TaskFails
  PROVE  /\ tasks # <<>> /\ Task \in Tasks /\ worker.pc = "failed"
         /\ UNCHANGED <<host, bridge, cards, losses, reads>>
         /\ worker' \in Workers /\ worker'.pc = "idle"
         /\ watched' \in BOOLEAN /\ routed' \in BOOLEAN
         /\ \/ /\ tasks' = Tail(tasks) /\ (Task.kind = "reconnect" => conn # "recovering")
               /\ UNCHANGED <<sub, frames, conn, stream, acking, reader>>
            \/ /\ Task.kind = "reconnect" /\ conn = "recovering"
               /\ ConnectionEnds /\ tasks' = AfterLoss(Tail(tasks))
<1>1. /\ tasks # <<>> /\ worker.pc = "failed" /\ worker' = Idle
      /\ UNCHANGED <<host, bridge, cards, losses, reads>>
  BY DEF TaskFails, Running
<1>2. tasks \in Seq(Tasks) /\ watched \in BOOLEAN /\ routed \in BOOLEAN
  BY DEF TypeInv, WorkerType, DeskType
<1>3. Task \in Tasks
  BY <1>1, <1>2, TailTasks DEF Task
<1>4. worker' \in Workers /\ worker'.pc = "idle"
  BY <1>1 DEF Workers, Idle, NoReply, Replies
<1>5. watched' \in BOOLEAN /\ routed' \in BOOLEAN
  BY <1>2 DEF TaskFails, ConnectionEnds
<1>6. \/ /\ tasks' = Tail(tasks) /\ (Task.kind = "reconnect" => conn # "recovering")
         /\ UNCHANGED <<sub, frames, conn, stream, acking, reader>>
      \/ /\ Task.kind = "reconnect" /\ conn = "recovering"
         /\ ConnectionEnds /\ tasks' = AfterLoss(Tail(tasks))
  BY DEF TaskFails
<1> QED
  BY <1>1, <1>3, <1>4, <1>5, <1>6

\* A lost connection fails the request the worker waits for.
LEMMA WorkerLoss ==
  ASSUME TypeInv, worker' = WorkerAfterLoss
  PROVE  /\ worker' \in Workers
         /\ worker'.pc = IF worker.pc \in {"unsubscribing", "unsubscribeAnswered"} THEN "removed"
                         ELSE IF worker.pc \in Requests THEN "failed" ELSE worker.pc
         /\ worker'.snapshot = worker.snapshot /\ worker'.reply = worker.reply
<1> DEFINE pc == CASE worker.pc \in {"unsubscribing", "unsubscribeAnswered"} -> "removed"
                   [] worker.pc \in {"attaching", "attachAnswered", "subscribing",
                                     "subscribeAnswered"} -> "failed"
                   [] OTHER -> worker.pc
<1>1. worker \in Workers
  BY DEF TypeInv, WorkerType
<1>2. pc = IF worker.pc \in {"unsubscribing", "unsubscribeAnswered"} THEN "removed"
           ELSE IF worker.pc \in Requests THEN "failed" ELSE worker.pc
  BY <1>1 DEF Requests
<1>3. worker' = [worker EXCEPT !.pc = pc]
  BY DEF WorkerAfterLoss
<1>4. pc \in {"idle", "failed", "removed", "unsubscribing", "unsubscribeAnswered", "attaching",
              "attachAnswered", "attached", "subscribing", "subscribeAnswered", "subscribed"}
  BY <1>1, <1>2 DEF Workers
<1> HIDE DEF pc
<1> QED
  BY <1>1, <1>2, <1>3, <1>4 DEF Workers

\* The initial state has its type.
LEMMA TypeInitially == Init => TypeInv
<1> SUFFICES ASSUME Init PROVE TypeInv
  OBVIOUS
<1> USE RemoteAssumption DEF Init
<1>1. <<>> \in Seq(Events) /\ Len(<<>>) = 0 /\ <<>> \in Seq(Frames) /\ <<>> \in Seq(Tasks)
  BY EmptySeq
<1>2. HostType
  <2>1. hub = [epoch |-> 1, sequence |-> 0, oldest |-> 1]
    BY DEF NewStream
  <2>2. History = <<>>
    BY <2>1 DEF History
  <2> QED
    BY <1>1, <2>1, <2>2 DEF HostType, Seqs
<1>3. LinkType
  BY <1>1 DEF LinkType
<1>4. WorkerType
  BY <1>1 DEF WorkerType, Workers, Idle, NoReply, Replies
<1>5. DeskType
  BY DEF DeskType, Subscribing, Idle, NotReading, Readers
<1>6. AnswerType /\ ConnType
  BY DEF AnswerType, ConnType, Idle, NotReading, Requests
<1> QED
  BY <1>2, <1>3, <1>4, <1>5, <1>6 DEF TypeInv

\* What is well formed stays so in every step.
LEMMA TypeKeeps == TypeInv /\ [Next]_vars => TypeInv'
<1> SUFFICES ASSUME TypeInv, [Next]_vars PROVE TypeInv'
  OBVIOUS
<1> USE RemoteAssumption DEF host, client
<1>1. UNCHANGED host => HostType'
  BY DEF TypeInv, HostType, History
<1>2. UNCHANGED <<sub, frames, conn, acking>> => LinkType'
  BY DEF TypeInv, LinkType
<1>3. UNCHANGED <<tasks, worker>> => WorkerType'
  BY DEF TypeInv, WorkerType
<1>4. UNCHANGED <<routed, watched, stream, reader, bridge, cards>> /\ (Subscribing' => Subscribing)
        => DeskType'
  BY DEF TypeInv, DeskType
<1>5. ASSUME UNCHANGED <<frames, conn, hub>>,
             \/ worker' = worker
             \/ worker.pc \notin {"unsubscribeAnswered", "attachAnswered", "subscribeAnswered"},
             reader' = reader \/ reader.pc # "answered"
      PROVE  AnswerType'
  BY <1>5 DEF TypeInv, AnswerType
<1>6. frames' = <<>> => AnswerType'
  BY DEF AnswerType
<1>7. /\ hub.sequence \in Nat /\ hub.epoch \in 1 .. MaxEpochs
      /\ hub.sequence \in Seqs /\ Cursor(hub) \in Cursors
      /\ Snapshot \in Snapshots
  <2>1. hub.sequence \in Seqs /\ hub.epoch \in 1 .. MaxEpochs /\ hub.sequence \in Nat
    BY DEF TypeInv, HostType, Seqs
  <2>2. Cursor(hub) \in Cursors
    BY <2>1 DEF Cursor, Cursors
  <2>3. Pending \in SUBSET Prompts
    BY DEF Pending, Promise!OpenAfter
  <2> QED
    BY <2>1, <2>2, <2>3 DEF Snapshot, Snapshots
<1>8. \A i \in DOMAIN frames : frames[i] \in Frames
  BY ElementOfSeq, LenProperties DEF TypeInv, LinkType
<1>9. \A pc \in STRING : worker' = [worker EXCEPT !.pc = pc] =>
        /\ worker'.pc = pc /\ UNCHANGED <<worker.attempt, worker.snapshot, worker.reply>>
  BY DEF TypeInv, WorkerType, Workers
<1>10. ASSUME NEW p \in Prompts, RequestDecision(p) \/ ResolveDecision(p)
       PROVE  TypeInv'
  <2>1. PICK event \in Events : Publish(event)
    BY <1>10 DEF RequestDecision, ResolveDecision, Events
  <2> DEFINE n == hub.sequence + 1
  <2>2. /\ n \in 1 .. MaxEvents /\ HostType' /\ hub'.sequence = n
        /\ \/ sub = None /\ UNCHANGED <<sub, frames>>
           \/ /\ sub # None /\ sub.outstanding >= MaxOutstanding
              /\ sub' = None
              /\ frames' = Append(frames, [type |-> "closed", id |-> sub.id])
           \/ /\ sub # None /\ sub.outstanding < MaxOutstanding
              /\ sub' = [sub EXCEPT !.delivered = n, !.outstanding = @ + 1]
              /\ frames' = Append(frames, Event(n))
        /\ UNCHANGED <<conn, client, losses, reads>>
    BY <2>1, PublishDoes
  <2>3. sub # None => /\ sub \in Subscriptions
                      /\ [type |-> "closed", id |-> sub.id] \in Frames
                      /\ [sub EXCEPT !.delivered = n, !.outstanding = @ + 1] \in Subscriptions
    <3>1. sub # None => sub \in Subscriptions
      BY DEF TypeInv, LinkType
    <3>2. n \in Seqs
      BY <2>2 DEF Seqs
    <3>3. sub # None => sub.id \in SubIds
      BY <3>1 DEF Subscriptions
    <3>4. sub # None => [type |-> "closed", id |-> sub.id] \in Frames
      BY <3>3 DEF Frames
    <3>5. sub # None => sub.outstanding + 1 \in Nat
      BY <3>1 DEF Subscriptions
    <3>6. sub # None => [sub EXCEPT !.delivered = n, !.outstanding = @ + 1] \in Subscriptions
      <4> HIDE DEF n
      <4> QED
        BY <3>1, <3>2, <3>5 DEF Subscriptions
    <3> QED
      BY <3>1, <3>4, <3>6
  <2>4. Event(n) \in Frames
    BY <2>2 DEF Event, Frames
  <2>5. WorkerType' /\ DeskType'
    BY <1>3, <1>4, <2>2 DEF Subscribing
  <2>6. CASE sub = None /\ UNCHANGED <<sub, frames>>
    <3>1. LinkType'
      BY <1>2, <2>2, <2>6
    <3>2. AnswerType'
      <4>1. ASSUME NEW i \in DOMAIN frames', frames'[i].type = "event"
            PROVE  frames'[i].sequence <= hub'.sequence
        <5>1. frames[i].sequence <= hub.sequence /\ frames[i].sequence \in Nat
          BY <1>8, <2>6, <4>1, FrameKinds DEF TypeInv, AnswerType
        <5> QED
          BY <1>7, <2>2, <2>6, <5>1
      <4> QED
        BY <2>2, <2>6, <4>1 DEF TypeInv, AnswerType
    <3>3. ConnType'
      BY <2>2, <2>6 DEF TypeInv, ConnType
    <3> QED
      BY <2>2, <2>5, <3>1, <3>2, <3>3 DEF TypeInv
  <2>7. ASSUME sub # None, NEW f \in Frames, frames' = Append(frames, f),
               f = Event(n) \/ f.type = "closed", sub' \in Subscriptions \cup {None}
        PROVE  TypeInv'
    <3>0. conn # "down" /\ conn' # "down"
      BY <2>2, <2>7 DEF TypeInv, ConnType
    <3>1. f.type \notin Answers /\ f.type # "read" /\ (f.type = "event" => f.sequence <= hub'.sequence)
      BY <2>2, <2>7 DEF Event, Answers
    <3>2. frames' \in Seq(Frames) /\ AnswerType'
      BY <1>7, <2>2, <2>7, <3>0, <3>1, FrameSent DEF Answers
    <3>3. LinkType'
      BY <2>2, <2>7, <3>2 DEF TypeInv, LinkType
    <3> QED
      BY <2>2, <2>5, <3>0, <3>2, <3>3 DEF TypeInv, ConnType
  <2> QED
    BY <2>2, <2>3, <2>4, <2>6, <2>7
<1>11. CASE HostSubscribes
  <2>1. /\ FreshId \in SubIds /\ stream \in Streams /\ worker.pc = "subscribing"
        /\ worker' = [worker EXCEPT !.pc = "subscribeAnswered"]
        /\ UNCHANGED <<host, conn, routed, watched, stream, acking, tasks, reader, bridge,
                       cards, losses, reads>>
    BY <1>11, SubscribeDoes
  <2>2. worker'.pc = "subscribeAnswered" /\ WorkerType' /\ conn # "down" /\ ConnType'
    BY <2>1 DEF TypeInv, WorkerType, Workers, ConnType, Requests
  <2>3. DeskType'
    BY <1>4, <2>1 DEF Subscribing
  <2>4. sub' \in Subscriptions \cup {None} /\ frames' \in Seq(Frames) /\ AnswerType'
    <3>1. CASE /\ sub' = NewSubscription(FreshId, hub.sequence)
               /\ frames' = Append(frames, Subscribed(FreshId, FALSE))
      <4> DEFINE f == Subscribed(FreshId, FALSE)
      <4>1. f \in Frames /\ f.type = "subscribed" /\ frames' = Append(frames, f)
        BY <2>1, <3>1 DEF Subscribed, Frames
      <4>2. sub' \in Subscriptions
        BY <1>7, <2>1, <3>1 DEF NewSubscription, Subscriptions
      <4> HIDE DEF f
      <4>3. frames' \in Seq(Frames) /\ AnswerType'
        BY <1>7, <2>1, <2>2, <4>1, FrameSent DEF Answers
      <4> QED
        BY <4>2, <4>3
    <3>2. ASSUME NEW from, NEW last, NEW f, Replays(frames, frames', from, last, f),
                 last <= hub.sequence, f.type \in {"subscribed", "refused"},
                 sub' \in Subscriptions \cup {None}
          PROVE  sub' \in Subscriptions \cup {None} /\ frames' \in Seq(Frames) /\ AnswerType'
      BY <2>1, <2>2, <3>2, ReplaySent DEF Replays
    <3>3. stream.cursor.sequence \in Nat
      BY <2>1 DEF Streams, Cursors, Seqs
    <3>4. CASE /\ stream.cursor.sequence + MaxOutstanding < hub.sequence
               /\ sub' = None
               /\ Replays(frames, frames', stream.cursor.sequence + 1,
                          stream.cursor.sequence + MaxOutstanding, [type |-> "refused"])
      <4>1. stream.cursor.sequence + MaxOutstanding <= hub.sequence
        BY <1>7, <3>3, <3>4, OutstandingAssumption
      <4> QED
        BY <3>2, <3>4, <4>1
    <3>5. CASE /\ stream.cursor.sequence <= hub.sequence
               /\ sub' = [id |-> FreshId, delivered |-> hub.sequence,
                          outstanding |-> hub.sequence - stream.cursor.sequence]
               /\ Replays(frames, frames', stream.cursor.sequence + 1, hub.sequence,
                          Subscribed(FreshId, TRUE))
      <4>1. hub.sequence - stream.cursor.sequence \in Nat /\ hub.sequence <= hub.sequence
        BY <1>7, <3>3, <3>5
      <4>2. sub' \in Subscriptions
        BY <1>7, <2>1, <3>5, <4>1 DEF Subscriptions
      <4>3. Subscribed(FreshId, TRUE).type = "subscribed"
        BY DEF Subscribed
      <4> QED
        BY <3>2, <3>5, <4>1, <4>2, <4>3
    <3> QED
      BY <1>11, <3>1, <3>4, <3>5, SubscribeDoes
  <2>5. LinkType'
    BY <2>1, <2>4 DEF TypeInv, LinkType
  <2> QED
    BY <1>1, <2>1, <2>2, <2>3, <2>4, <2>5 DEF TypeInv
<1>12. CASE HostUnsubscribes
  <2> DEFINE f == [type |-> "unsubscribed"]
  <2>1. /\ worker.pc = "unsubscribing" /\ worker' = [worker EXCEPT !.pc = "unsubscribeAnswered"]
        /\ sub' = None /\ frames' = Append(frames, f)
        /\ UNCHANGED <<host, conn, routed, watched, stream, acking, tasks, reader, bridge,
                       cards, losses, reads>>
    BY <1>12 DEF HostUnsubscribes
  <2>2. f \in Frames /\ f.type = "unsubscribed"
    BY DEF Frames
  <2> HIDE DEF f
  <2>3. worker'.pc = "unsubscribeAnswered" /\ WorkerType' /\ conn # "down" /\ ConnType'
    BY <2>1 DEF TypeInv, WorkerType, Workers, ConnType, Requests
  <2>4. DeskType'
    BY <1>4, <2>1, <2>3 DEF Subscribing
  <2>5. frames' \in Seq(Frames) /\ AnswerType'
    BY <1>7, <2>1, <2>2, <2>3, FrameSent DEF Answers
  <2>6. LinkType'
    BY <2>1, <2>5 DEF TypeInv, LinkType
  <2> QED
    BY <1>1, <2>1, <2>3, <2>4, <2>5, <2>6 DEF TypeInv
<1>13. CASE HostAcks
  <2> DEFINE f == [type |-> "acked", id |-> acking.id]
  <2>1. /\ acking # None
        /\ sub' = IF sub # None /\ sub.id = acking.id THEN Acked(sub, acking.sequence) ELSE sub
        /\ acking' = [acking EXCEPT !.answered = TRUE]
        /\ frames' = Append(frames, f)
        /\ UNCHANGED <<host, conn, routed, watched, stream, tasks, worker, reader, bridge,
                       cards, losses, reads>>
    BY <1>13 DEF HostAcks
  <2>2. acking \in Ackings /\ acking' \in Ackings /\ conn # "down" /\ ConnType'
    BY <2>1 DEF TypeInv, LinkType, ConnType, Ackings
  <2>3. f \in Frames /\ f.type = "acked"
    BY <2>2 DEF Frames, Ackings
  <2> HIDE DEF f
  <2>4. sub' \in Subscriptions \cup {None}
    <3>1. CASE sub # None /\ sub.id = acking.id
      <4>1. sub \in Subscriptions /\ sub.delivered \in Nat /\ acking.sequence \in Nat
        BY <2>2, <3>1 DEF TypeInv, LinkType, Subscriptions, Ackings, Seqs
      <4>2. (IF acking.sequence >= sub.delivered THEN 0 ELSE sub.delivered - acking.sequence) \in Nat
        BY <4>1
      <4>3. sub' = [sub EXCEPT !.outstanding =
                     IF acking.sequence >= sub.delivered THEN 0 ELSE sub.delivered - acking.sequence]
        BY <2>1, <3>1 DEF Acked
      <4> QED
        BY <4>1, <4>2, <4>3 DEF Subscriptions
    <3> QED
      BY <2>1, <3>1 DEF TypeInv, LinkType
  <2>5. frames' \in Seq(Frames) /\ AnswerType'
    BY <1>7, <2>1, <2>2, <2>3, FrameSent DEF Answers
  <2>6. LinkType'
    BY <2>1, <2>2, <2>4, <2>5 DEF TypeInv, LinkType
  <2> QED
    BY <1>1, <1>3, <1>4, <2>1, <2>2, <2>5, <2>6 DEF TypeInv, Subscribing
<1>14. CASE HostAttaches
  <2> DEFINE f == [type |-> "attached", snapshot |-> Snapshot]
  <2>1. /\ worker.pc = "attaching" /\ worker' = [worker EXCEPT !.pc = "attachAnswered"]
        /\ frames' = Append(frames, f)
        /\ UNCHANGED <<host, sub, conn, routed, watched, stream, acking, tasks, reader,
                       bridge, cards, losses, reads>>
    BY <1>14 DEF HostAttaches
  <2>2. f \in Frames /\ f.type = "attached"
    BY <1>7 DEF Frames
  <2> HIDE DEF f
  <2>3. worker'.pc = "attachAnswered" /\ WorkerType' /\ conn # "down" /\ ConnType'
    BY <2>1 DEF TypeInv, WorkerType, Workers, ConnType, Requests
  <2>4. DeskType'
    BY <1>4, <2>1, <2>3 DEF Subscribing
  <2>5. frames' \in Seq(Frames) /\ AnswerType'
    BY <1>7, <2>1, <2>2, <2>3, FrameSent DEF Answers
  <2>6. LinkType'
    BY <2>1, <2>5 DEF TypeInv, LinkType
  <2> QED
    BY <1>1, <2>1, <2>3, <2>4, <2>5, <2>6 DEF TypeInv
<1>15. CASE HostAnswersRead
  <2> DEFINE f == [type |-> "read", snapshot |-> Snapshot]
  <2>1. /\ reader.pc = "sent" /\ reader' = [reader EXCEPT !.pc = "answered"]
        /\ frames' = Append(frames, f)
        /\ UNCHANGED <<host, sub, conn, routed, watched, stream, acking, tasks, worker,
                       bridge, cards, losses, reads>>
    BY <1>15 DEF HostAnswersRead
  <2>2. f \in Frames /\ f.type = "read"
    BY <1>7 DEF Frames
  <2> HIDE DEF f
  <2>3. reader'.pc = "answered" /\ DeskType' /\ conn # "down" /\ ConnType'
    BY <2>1 DEF TypeInv, DeskType, Readers, Subscribing, ConnType
  <2>4. frames' \in Seq(Frames) /\ AnswerType'
    BY <1>7, <2>1, <2>2, <2>3, FrameSent DEF Answers
  <2>5. LinkType'
    BY <2>1, <2>4 DEF TypeInv, LinkType
  <2> QED
    BY <1>1, <1>3, <2>1, <2>3, <2>4, <2>5 DEF TypeInv
<1>16. CASE ReceiveEvent
  <2> DEFINE n == Head(frames).sequence
  <2>1. /\ frames # <<>> /\ Head(frames).type = "event" /\ frames' = Tail(frames)
        /\ TakesEvent(n)
        /\ UNCHANGED <<host, sub, conn, routed, watched, acking, worker, reader, losses, reads>>
    BY <1>16 DEF ReceiveEvent
  <2>2. /\ Takes(frames, frames') /\ Head(frames) \in Frames /\ conn # "down" /\ AnswerType'
    BY <2>1, FrameTaken
  <2>3. n \in 1 .. MaxEvents /\ n \in Seqs /\ n <= hub.sequence
    <3>1. n \in 1 .. MaxEvents
      BY <2>1, <2>2, FrameKinds
    <3>2. 1 \in DOMAIN frames /\ Head(frames) = frames[1]
      BY <2>2 DEF Takes
    <3> QED
      BY <2>1, <3>1, <3>2 DEF TypeInv, AnswerType, Seqs
  <2> HIDE DEF n
  <2>4. /\ History[n] \in Events
        /\ stream' \in Streams \cup {None} /\ (stream # None => stream' # None)
        /\ tasks' = tasks \/ tasks' = WithRecovery(tasks)
        /\ UNCHANGED <<bridge, cards>> \/ BridgeHandles(History[n], n)
        /\ stream # None => stream'.id = stream.id
    <3>1. stream # None => stream \in Streams
      BY DEF TypeInv, DeskType
    <3> QED
      BY <2>1, <2>3, <3>1, TakesEventDoes DEF Streams
  <2>5. bridge' \in Bridges \cup {None} /\ cards' \subseteq Prompts
    BY <2>3, <2>4, HandlesType DEF TypeInv, DeskType
  <2>6. DeskType'
    BY <2>1, <2>4, <2>5 DEF TypeInv, DeskType, Subscribing
  <2>7. WorkerType'
    <3>1. tasks \in Seq(Tasks) /\ (tasks' = tasks \/ tasks' = WithRecovery(tasks))
      BY <2>4 DEF TypeInv, WorkerType
    <3>2. tasks' \in Seq(Tasks) /\ (tasks # <<>> => tasks' # <<>>)
      BY <3>1, RecoveryKept
    <3> QED
      BY <2>1, <3>2 DEF TypeInv, WorkerType
  <2>8. LinkType' /\ ConnType'
    BY <2>1, <2>2 DEF TypeInv, LinkType, ConnType, Takes
  <2> QED
    BY <1>1, <2>1, <2>2, <2>6, <2>7, <2>8 DEF TypeInv
<1>17. CASE ReceiveClosed
  <2>1. /\ frames # <<>> /\ Head(frames).type = "closed" /\ frames' = Tail(frames)
        /\ \/ UNCHANGED <<stream, tasks>>
           \/ /\ stream # None
              /\ stream' = [stream EXCEPT !.id = 0, !.paused = TRUE]
              /\ tasks' = WithRecovery(tasks)
        /\ UNCHANGED <<host, sub, conn, routed, watched, acking, worker, reader, bridge, cards,
                       losses, reads>>
    BY <1>17 DEF ReceiveClosed
  <2>2. /\ Takes(frames, frames') /\ Head(frames) \in Frames /\ conn # "down" /\ AnswerType'
    BY <2>1, FrameTaken
  <2>3. /\ stream' \in Streams \cup {None} /\ (stream # None => stream' # None)
        /\ stream # None => stream'.id \in {0, stream.id}
    <3>1. stream # None => stream \in Streams /\ [stream EXCEPT !.id = 0, !.paused = TRUE] \in Streams
      BY DEF TypeInv, DeskType, Streams
    <3> QED
      BY <2>1, <3>1, SomethingIsNotNone DEF TypeInv, DeskType, Streams
  <2>4. DeskType'
    BY <2>1, <2>3 DEF TypeInv, DeskType, Subscribing
  <2>5. WorkerType'
    <3>1. tasks \in Seq(Tasks) /\ (tasks' = tasks \/ tasks' = WithRecovery(tasks))
      BY <2>1 DEF TypeInv, WorkerType
    <3>2. tasks' \in Seq(Tasks) /\ (tasks # <<>> => tasks' # <<>>)
      BY <3>1, RecoveryKept
    <3> QED
      BY <2>1, <3>2 DEF TypeInv, WorkerType
  <2>6. LinkType' /\ ConnType'
    BY <2>1, <2>2 DEF TypeInv, LinkType, ConnType, Takes
  <2> QED
    BY <1>1, <2>1, <2>2, <2>4, <2>5, <2>6 DEF TypeInv
<1>18. CASE ReceiveAcked
  <2>1. /\ frames # <<>> /\ Head(frames).type = "acked" /\ frames' = Tail(frames)
        /\ acking' = None \/ acking' = acking
        /\ UNCHANGED <<host, sub, conn, routed, watched, stream, tasks, worker, reader, bridge,
                       cards, losses, reads>>
    BY <1>18 DEF ReceiveAcked
  <2>2. /\ Takes(frames, frames') /\ conn # "down" /\ AnswerType'
    BY <2>1, FrameTaken
  <2>3. LinkType' /\ ConnType'
    BY <2>1, <2>2 DEF TypeInv, LinkType, ConnType, Takes
  <2> QED
    BY <1>1, <1>3, <1>4, <2>1, <2>2, <2>3 DEF TypeInv, Subscribing
<1>19. CASE ReceiveUnsubscribed
  <2>1. /\ frames # <<>> /\ Head(frames).type = "unsubscribed" /\ frames' = Tail(frames)
        /\ worker' = [worker EXCEPT !.pc = "removed"]
        /\ UNCHANGED <<host, sub, conn, routed, watched, stream, acking, tasks, reader, bridge,
                       cards, losses, reads>>
    BY <1>19 DEF ReceiveUnsubscribed, Waits
  <2>2. /\ Takes(frames, frames') /\ conn # "down" /\ AnswerType'
    BY <2>1, FrameTaken DEF Answers
  <2>3. worker.pc = "unsubscribeAnswered"
    BY <2>1, <2>2 DEF TypeInv, AnswerType, Takes
  <2>4. WorkerType' /\ worker'.pc = "removed"
    BY <2>1, <2>3 DEF TypeInv, WorkerType, Workers
  <2>5. LinkType' /\ ConnType'
    BY <2>1, <2>2 DEF TypeInv, LinkType, ConnType, Takes
  <2>6. DeskType'
    BY <1>4, <2>1, <2>4 DEF Subscribing
  <2> QED
    BY <1>1, <2>1, <2>2, <2>4, <2>5, <2>6 DEF TypeInv
<1>20. CASE ReceiveAttached
  <2>1. /\ frames # <<>> /\ Head(frames).type = "attached" /\ frames' = Tail(frames)
        /\ worker' = [worker EXCEPT !.pc = "attached", !.snapshot = Head(frames).snapshot]
        /\ UNCHANGED <<host, sub, conn, routed, watched, stream, acking, tasks, reader, bridge,
                       cards, losses, reads>>
    BY <1>20 DEF ReceiveAttached
  <2>2. /\ Takes(frames, frames') /\ Head(frames) \in Frames /\ conn # "down" /\ AnswerType'
    BY <2>1, FrameTaken DEF Answers
  <2>3. worker.pc = "attachAnswered" /\ Head(frames).snapshot \in Snapshots
    BY <2>1, <2>2, FrameKinds DEF TypeInv, AnswerType, Takes
  <2>4. WorkerType' /\ worker'.pc = "attached"
    BY <2>1, <2>3 DEF TypeInv, WorkerType, Workers
  <2>5. LinkType' /\ ConnType'
    BY <2>1, <2>2 DEF TypeInv, LinkType, ConnType, Takes
  <2>6. DeskType'
    BY <1>4, <2>1, <2>4 DEF Subscribing
  <2> QED
    BY <1>1, <2>1, <2>2, <2>4, <2>5, <2>6 DEF TypeInv
<1>21. CASE ReceiveSubscribed
  <2> DEFINE reply == IF Head(frames).type = "refused" THEN NoReply
                      ELSE [id |-> Head(frames).id, complete |-> Head(frames).complete]
  <2>1. /\ frames # <<>> /\ Head(frames).type \in {"subscribed", "refused"} /\ frames' = Tail(frames)
        /\ worker' = [worker EXCEPT !.pc = "subscribed", !.reply = reply]
        /\ UNCHANGED <<host, sub, conn, routed, watched, stream, acking, tasks, reader, bridge,
                       cards, losses, reads>>
    BY <1>21 DEF ReceiveSubscribed
  <2>2. /\ Takes(frames, frames') /\ Head(frames) \in Frames /\ conn # "down" /\ AnswerType'
    <3> HIDE DEF reply
    <3> QED
      BY <2>1, FrameTaken DEF Answers
  <2>3. worker.pc = "subscribeAnswered" /\ reply \in Replies
    BY <2>1, <2>2, FrameKinds DEF TypeInv, AnswerType, Takes, NoReply, Replies
  <2> HIDE DEF reply
  <2>4. WorkerType' /\ worker'.pc = "subscribed"
    BY <2>1, <2>3 DEF TypeInv, WorkerType, Workers
  <2>5. LinkType' /\ ConnType'
    BY <2>1, <2>2 DEF TypeInv, LinkType, ConnType, Takes
  <2>6. DeskType'
    BY <1>4, <2>1, <2>3, <2>4 DEF Subscribing
  <2> QED
    BY <1>1, <2>1, <2>2, <2>4, <2>5, <2>6 DEF TypeInv
<1>22. CASE ReceiveRead
  <2>1. /\ frames # <<>> /\ Head(frames).type = "read" /\ frames' = Tail(frames)
        /\ reader' = [pc |-> "read", snapshot |-> Head(frames).snapshot]
        /\ UNCHANGED <<host, sub, conn, routed, watched, stream, acking, tasks, worker, bridge,
                       cards, losses, reads>>
    BY <1>22 DEF ReceiveRead
  <2>2. /\ Takes(frames, frames') /\ Head(frames) \in Frames /\ conn # "down" /\ AnswerType'
    BY <2>1, FrameTaken
  <2>3. Head(frames).snapshot \in Snapshots
    BY <2>1, <2>2, FrameKinds
  <2>4. DeskType'
    BY <2>1, <2>3 DEF TypeInv, DeskType, Readers, Subscribing
  <2>5. LinkType' /\ ConnType'
    BY <2>1, <2>2 DEF TypeInv, LinkType, ConnType, Takes
  <2> QED
    BY <1>1, <1>3, <2>1, <2>2, <2>4, <2>5 DEF TypeInv
<1>23. CASE SendAck
  <2>1. /\ conn # "down" /\ stream # None /\ stream.id # 0
        /\ acking' = [id |-> stream.id, sequence |-> stream.ack, answered |-> FALSE]
        /\ stream' = [stream EXCEPT !.ack = 0]
        /\ UNCHANGED <<host, sub, frames, conn, routed, watched, tasks, worker, reader, bridge,
                       cards, losses, reads>>
    BY <1>23 DEF SendAck
  <2>2. stream \in Streams /\ stream' \in Streams /\ stream'.id = stream.id /\ acking' \in Ackings
    <3>1. stream \in Streams /\ 0 \in Seqs
      BY <2>1 DEF TypeInv, DeskType, Seqs
    <3> QED
      BY <2>1, <3>1 DEF Streams, Ackings
  <2>3. stream' # None
    BY <2>2, SomethingIsNotNone
  <2>4. DeskType' /\ LinkType' /\ ConnType'
    BY <2>1, <2>2, <2>3 DEF TypeInv, DeskType, LinkType, ConnType, Subscribing
  <2> QED
    BY <1>1, <1>3, <1>5, <2>1, <2>4 DEF TypeInv
<1>24. CASE StartTask
  <2>1. /\ tasks # <<>> /\ Task \in Tasks /\ worker.pc = "idle"
        /\ UNCHANGED <<host, sub, frames, reader, bridge, cards, losses, reads>>
        /\ watched' \in BOOLEAN /\ worker' \in Workers
        /\ worker'.pc \in {"failed", "removed", "unsubscribing", "idle"}
        /\ stream' = stream \/ stream' = None
        /\ acking' = acking \/ acking' = None
        /\ tasks' = tasks \/ (tasks' = Tail(tasks) /\ worker'.pc = "idle")
        /\ \/ UNCHANGED <<conn, routed>>
           \/ conn' = "up" /\ routed' = TRUE
        /\ worker'.pc = "unsubscribing" => conn # "down"
    BY <1>24, StartTaskDoes
  <2>2. /\ hub' = hub /\ frames' = frames
        /\ worker.pc \notin {"unsubscribeAnswered", "attachAnswered", "subscribeAnswered"}
        /\ reader' = reader
    BY <2>1
  <2>3. AnswerType'
    BY <2>2 DEF TypeInv, AnswerType
  <2>4. WorkerType'
    BY <2>1, TailTasks DEF TypeInv, WorkerType, NextTasks
  <2>5. LinkType'
    BY <2>1 DEF TypeInv, LinkType
  <2>6. DeskType'
    BY <2>1 DEF TypeInv, DeskType, Subscribing
  <2>7. ConnType'
    BY <2>1 DEF TypeInv, ConnType, Requests
  <2> QED
    BY <1>1, <2>1, <2>3, <2>4, <2>5, <2>6, <2>7 DEF TypeInv
<1>25. CASE WatchAttaches
  <2> DEFINE pc == IF Task.stale \/ conn = "down" \/ worker.attempt > 2 THEN "failed" ELSE "attaching"
  <2>1. /\ tasks # <<>> /\ worker.pc = "removed" /\ worker' = [worker EXCEPT !.pc = pc]
        /\ UNCHANGED <<host, sub, frames, conn, routed, watched, stream, acking, tasks, reader,
                       bridge, cards, losses, reads>>
    BY <1>25 DEF WatchAttaches, Running, Waits
  <2>2. pc \in {"failed", "attaching"} /\ (pc = "attaching" => conn # "down")
    OBVIOUS
  <2> HIDE DEF pc
  <2>3. worker' \in Workers /\ worker'.pc = pc
    BY <2>1, <2>2 DEF TypeInv, WorkerType, Workers
  <2>4. WorkerType' /\ ConnType'
    BY <2>1, <2>2, <2>3 DEF TypeInv, WorkerType, ConnType, Requests
  <2>5. DeskType' /\ AnswerType'
    BY <1>4, <1>5, <2>1, <2>2, <2>3 DEF Subscribing
  <2> QED
    BY <1>1, <1>2, <2>1, <2>4, <2>5 DEF TypeInv
<1>26. CASE WatchRestores
  <2>1. /\ tasks # <<>> /\ worker.pc = "attached"
        /\ UNCHANGED <<host, sub, frames, conn, routed, watched, acking, tasks, reader, losses,
                       reads>>
    BY <1>26 DEF WatchRestores, Running
  <2>2. worker \in Workers /\ worker.snapshot \in Snapshots
    BY <2>1 DEF TypeInv, WorkerType
  <2>3. CASE Task.stale
    <3>1. worker' = [worker EXCEPT !.pc = "failed"] /\ UNCHANGED <<stream, bridge, cards>>
      BY <1>26, <2>3 DEF WatchRestores, Waits
    <3>2. worker' \in Workers /\ worker'.pc = "failed"
      BY <2>2, <3>1 DEF Workers
    <3>3. WorkerType' /\ ConnType'
      BY <2>1, <3>1, <3>2 DEF TypeInv, WorkerType, ConnType, Requests
    <3>4. DeskType' /\ AnswerType'
      BY <1>4, <1>5, <2>1, <3>1, <3>2 DEF Subscribing
    <3> QED
      BY <1>1, <1>2, <2>1, <3>3, <3>4 DEF TypeInv
  <2>4. CASE ~Task.stale
    <3>1. /\ RestoreSnapshot(worker.snapshot)
          /\ stream' = [cursor |-> worker.snapshot.cursor, id |-> 0, paused |-> FALSE, ack |-> 0]
          /\ worker' = [worker EXCEPT !.pc = "subscribing", !.snapshot = None]
      BY <1>26, <2>4 DEF WatchRestores, NewStreamAt
    <3>2. worker' \in Workers /\ worker'.pc = "subscribing"
      BY <2>2, <3>1 DEF Workers
    <3>3. stream' \in Streams /\ stream'.id = 0
      <4>1. worker.snapshot.cursor \in Cursors /\ 0 \in Seqs
        BY <2>2 DEF Snapshots, Seqs
      <4> QED
        BY <3>1, <4>1 DEF Streams
    <3>4. bridge' \in Bridges \cup {None} /\ cards' \subseteq Prompts
      BY <2>2, <3>1, RestoreType
    <3>5. WorkerType'
      BY <2>1, <3>2 DEF TypeInv, WorkerType
    <3>6. ConnType'
      BY <2>1, <2>4 DEF TypeInv, ConnType, Task
    <3>7. DeskType'
      BY <2>1, <3>3, <3>4, SomethingIsNotNone DEF TypeInv, DeskType, Subscribing
    <3>8. AnswerType'
      BY <1>5, <2>1
    <3> QED
      BY <1>1, <1>2, <2>1, <3>5, <3>6, <3>7, <3>8 DEF TypeInv
  <2> QED
    BY <2>3, <2>4
<1>27. CASE WatchEnds
  <2>1. /\ tasks # <<>> /\ Task \in Tasks /\ worker.pc = "subscribed"
        /\ UNCHANGED <<host, sub, frames, watched, reader, bridge, cards, losses, reads>>
        /\ stream \in Streams /\ stream' \in Streams \cup {None} /\ worker' \in Workers
        /\ worker'.pc \in {"failed", "idle", "unsubscribing"}
        /\ tasks' = tasks \/ (tasks' = Tail(tasks) /\ worker'.pc = "idle")
        /\ acking' = acking \/ acking' = None
        /\ UNCHANGED <<conn, routed>> \/ (conn' = "up" /\ routed' = TRUE)
    BY <1>27, WatchEndsDoes
  <2>2. AnswerType'
    BY <2>1 DEF TypeInv, AnswerType
  <2>3. WorkerType'
    BY <2>1, TailTasks DEF TypeInv, WorkerType, NextTasks
  <2>4. LinkType'
    BY <2>1 DEF TypeInv, LinkType
  <2>5. DeskType'
    BY <2>1 DEF TypeInv, DeskType, Subscribing
  <2>6. ConnType'
    <3> SUFFICES ASSUME conn' = "down" PROVE ConnType'
      BY DEF ConnType
    <3>1. conn = "down" /\ UNCHANGED <<conn, routed>>
      BY <2>1
    <3>2. Task.stale /\ stream.paused /\ stream # None
      BY <2>1, <3>1, SomethingIsNotNone DEF TypeInv, ConnType, Task
    <3>3. /\ worker'.pc = "failed"
          /\ stream' = stream \/ stream' = [stream EXCEPT !.paused = TRUE]
      BY <1>27, <3>1, <3>2, WatchEndsDoes
    <3>4. stream'.paused
      BY <2>1, <3>2, <3>3 DEF Streams
    <3> QED
      BY <2>1, <3>1, <3>3, <3>4 DEF TypeInv, ConnType, Requests
  <2> QED
    BY <1>1, <2>1, <2>2, <2>3, <2>4, <2>5, <2>6 DEF TypeInv
<1>28. ASSUME ConnectionEnds, UNCHANGED <<bridge, cards>>, watched' \in BOOLEAN,
              Subscribing' => Subscribing, worker'.pc \notin Requests,
              worker'.pc \in {"attached", "subscribed"} => Head(tasks').stale
       PROVE  LinkType' /\ AnswerType' /\ DeskType' /\ ConnType'
  <2>1. /\ LinkType' /\ AnswerType' /\ reader'.pc = "idle" /\ reader' \in Readers
        /\ frames' = <<>> /\ sub' = None /\ conn' = "down" /\ acking' = None /\ routed' = FALSE
        /\ stream' \in Streams \cup {None} /\ (stream # None <=> stream' # None)
        /\ stream # None => stream' = [stream EXCEPT !.paused = TRUE]
    BY <1>28, EndsType
  <2>2. stream # None => stream'.paused /\ stream'.id = stream.id
    BY <2>1 DEF TypeInv, DeskType, Streams
  <2>3. ConnType'
    BY <1>28, <2>1, <2>2 DEF ConnType
  <2>4. DeskType'
    BY <1>28, <2>1, <2>2 DEF TypeInv, DeskType, Subscribing
  <2> QED
    BY <2>1, <2>3, <2>4
<1>29. CASE TaskFails
  <2>1. /\ tasks # <<>> /\ Task \in Tasks /\ worker.pc = "failed"
        /\ UNCHANGED <<host, bridge, cards, losses, reads>>
        /\ worker' \in Workers /\ worker'.pc = "idle"
        /\ watched' \in BOOLEAN /\ routed' \in BOOLEAN
    BY <1>29, TaskFailsDoes
  <2>2. CASE /\ tasks' = Tail(tasks)
             /\ UNCHANGED <<sub, frames, conn, stream, acking, reader>>
    <3>1. WorkerType'
      BY <2>1, <2>2, TailTasks DEF TypeInv, WorkerType, NextTasks
    <3>2. DeskType' /\ AnswerType' /\ LinkType' /\ ConnType'
      BY <2>1, <2>2 DEF TypeInv, DeskType, AnswerType, LinkType, ConnType, Subscribing, Requests
    <3> QED
      BY <1>1, <2>1, <3>1, <3>2 DEF TypeInv
  <2>3. CASE ConnectionEnds /\ tasks' = AfterLoss(Tail(tasks))
    <3>1. worker'.pc \notin Requests /\ (Subscribing' => Subscribing)
      BY <2>1 DEF Requests, Subscribing
    <3>2. LinkType' /\ AnswerType' /\ DeskType' /\ ConnType'
      BY <1>28, <2>1, <2>3, <3>1
    <3>3. WorkerType'
      BY <2>1, <2>3, TailTasks, LossTasks DEF TypeInv, WorkerType, NextTasks, StaleTasks
    <3> QED
      BY <1>1, <2>1, <3>2, <3>3 DEF TypeInv
  <2> QED
    BY <1>29, <2>2, <2>3, TaskFailsDoes
<1>30. CASE StartRead
  <2>1. /\ conn = "up" /\ reader' = [reader EXCEPT !.pc = "sent"] /\ reader.pc = "idle"
        /\ UNCHANGED <<host, sub, frames, conn, routed, watched, stream, acking, tasks, worker,
                       bridge, cards, losses>>
    BY <1>30 DEF StartRead
  <2>2. AnswerType'
    BY <2>1 DEF TypeInv, AnswerType
  <2>3. DeskType' /\ ConnType'
    BY <2>1 DEF TypeInv, DeskType, Readers, ConnType, Subscribing
  <2> QED
    BY <1>1, <1>2, <1>3, <2>1, <2>2, <2>3 DEF TypeInv
<1>31. CASE ReadEnds
  <2>1. /\ reader.pc = "read" /\ reader' = [pc |-> "idle", snapshot |-> None]
        /\ RestoreSnapshot(reader.snapshot)
        /\ routed' = TRUE /\ tasks' = Enqueued(tasks, "ensure")
        /\ UNCHANGED <<host, sub, frames, conn, watched, stream, acking, worker, losses, reads>>
    BY <1>31 DEF ReadEnds, NotReading
  <2>2. bridge' \in Bridges \cup {None} /\ cards' \subseteq Prompts
    BY <2>1, RestoreType DEF TypeInv, DeskType
  <2>3. AnswerType'
    BY <2>1 DEF TypeInv, AnswerType
  <2>4. DeskType'
    BY <2>1, <2>2 DEF TypeInv, DeskType, Readers, Subscribing
  <2>5. tasks \in Seq(Tasks) /\ MoreTasks(tasks, tasks') /\ tasks' # <<>>
    BY <2>1, EnsureTasks DEF TypeInv, WorkerType
  <2>6. WorkerType'
    BY <2>1, <2>5 DEF TypeInv, WorkerType, MoreTasks
  <2>7. ConnType'
    BY <2>1 DEF TypeInv, ConnType
  <2> QED
    BY <1>1, <1>2, <2>1, <2>3, <2>4, <2>6, <2>7 DEF TypeInv
<1>32. ASSUME ConnectionEnds, tasks' = AfterLoss(tasks), worker' = WorkerAfterLoss,
              UNCHANGED <<watched, bridge, cards>>
       PROVE  LinkType' /\ AnswerType' /\ DeskType' /\ ConnType' /\ WorkerType'
  <2>1. /\ worker' \in Workers
        /\ worker'.pc = IF worker.pc \in {"unsubscribing", "unsubscribeAnswered"} THEN "removed"
                        ELSE IF worker.pc \in Requests THEN "failed" ELSE worker.pc
        /\ worker'.snapshot = worker.snapshot
    BY <1>32, WorkerLoss
  <2>2. worker'.pc \notin Requests /\ (Subscribing' => Subscribing) /\ watched' \in BOOLEAN
    BY <1>32, <2>1 DEF Requests, Subscribing, TypeInv, DeskType
  <2>3. tasks \in Seq(Tasks) /\ StaleTasks(tasks, tasks')
    BY <1>32, LossTasks DEF TypeInv, WorkerType
  <2>4. worker'.pc # "idle" => tasks # <<>>
    BY <2>1 DEF TypeInv, WorkerType, Requests
  <2>5. worker'.pc # "idle" => tasks' # <<>> /\ Head(tasks').stale
    BY <2>3, <2>4, HeadKept
  <2>6. WorkerType'
    BY <2>1, <2>3, <2>5 DEF TypeInv, WorkerType, StaleTasks, Requests
  <2>7. worker'.pc \in {"attached", "subscribed"} => Head(tasks').stale
    BY <2>5
  <2> QED
    BY <1>28, <1>32, <2>2, <2>6, <2>7
<1>33. CASE Drop
  BY <1>1, <1>32, <1>33 DEF Drop, TypeInv
<1>34. CASE HostRestarts
  <2>1. /\ hub.epoch < MaxEpochs /\ hub' = [epoch |-> hub.epoch + 1, sequence |-> 0, oldest |-> 1]
        /\ UNCHANGED <<histories, watched, bridge, cards, reads>>
    BY <1>34 DEF HostRestarts, NewStream
  <2>2. HostType'
    <3>1. hub.epoch + 1 \in 1 .. MaxEpochs /\ 0 \in Seqs /\ 1 \in 1 .. MaxEvents + 1
      BY <1>7, <2>1 DEF Seqs
    <3>2. hub' \in [epoch : 1 .. MaxEpochs, sequence : Seqs, oldest : 1 .. MaxEvents + 1]
      BY <2>1, <3>1
    <3>3. histories'[hub.epoch + 1] = <<>>
      BY <1>7, <2>1, <3>1 DEF TypeInv, HostType
    <3>4. History' = <<>>
      BY <2>1, <3>3 DEF History
    <3>5. \A e \in 1 .. MaxEpochs : e > hub'.epoch => e > hub.epoch
      BY <1>7, <2>1
    <3> QED
      BY <2>1, <3>2, <3>4, <3>5 DEF TypeInv, HostType
  <2>3. CASE /\ conn = "down"
             /\ UNCHANGED <<sub, frames, conn, routed, stream, acking, tasks, worker, reader>>
    <3>1. AnswerType' /\ ConnType'
      BY <1>6, <2>1, <2>3 DEF TypeInv, ConnType
    <3> QED
      BY <1>2, <1>3, <1>4, <2>1, <2>2, <2>3, <3>1 DEF TypeInv, Subscribing
  <2>4. CASE ConnectionEnds /\ tasks' = AfterLoss(tasks) /\ worker' = WorkerAfterLoss
    BY <1>32, <2>1, <2>2, <2>4 DEF TypeInv
  <2> QED
    BY <1>34, <2>3, <2>4 DEF HostRestarts
<1>35. CASE Reconnect
  <2>1. /\ conn = "down" /\ conn' = "recovering"
        /\ tasks' = Enqueued(AllStale(tasks), "reconnect")
        /\ UNCHANGED <<host, sub, frames, routed, watched, stream, acking, worker, reader,
                       bridge, cards, losses, reads>>
    BY <1>35 DEF Reconnect
  <2>2. tasks' \in Seq(Tasks) /\ tasks' # <<>>
    <3> DEFINE us == AllStale(tasks)
    <3>1. us \in Seq(Tasks)
      BY AllStaleTasks DEF TypeInv, WorkerType, StaleTasks
    <3> HIDE DEF us
    <3>2. NewTask(us, tasks', "reconnect")
      BY <2>1, <3>1, EnqueuedTasks DEF us
    <3>3. Len(tasks') # 0
      BY <3>2 DEF NewTask
    <3> QED
      BY <3>2, <3>3, EmptySeq DEF NewTask
  <2>3. WorkerType'
    BY <2>1, <2>2 DEF TypeInv, WorkerType
  <2>4. LinkType' /\ AnswerType' /\ ConnType'
    BY <2>1 DEF TypeInv, LinkType, AnswerType, ConnType
  <2> QED
    BY <1>1, <1>4, <2>1, <2>3, <2>4 DEF TypeInv, Subscribing
<1>36. CASE UNCHANGED vars
  BY <1>1, <1>2, <1>3, <1>4, <1>5, <1>36 DEF vars, TypeInv, ConnType, Subscribing
<1> QED
  BY <1>10, <1>11, <1>12, <1>13, <1>14, <1>15, <1>16, <1>17, <1>18, <1>19, <1>20, <1>21, <1>22,
     <1>23, <1>24, <1>25, <1>26, <1>27, <1>29, <1>30, <1>31, <1>33, <1>34, <1>35, <1>36
     DEF Next, HostSteps, Receive, WorkerSteps

-----------------------------------------------------------------------------
(* The worker, its stream and the Host's subscription *)

\* A request is never that of a stale task; from the unsubscribe to the snapshot there is
\* no stream; what arrived for a stale task finds a paused one; an ack is of the stream.
WorkerInv ==
  /\ worker.pc \in Requests => ~Head(tasks).stale
  /\ worker.pc \in {"unsubscribing", "unsubscribeAnswered", "removed", "attaching",
                    "attachAnswered", "attached"} => stream = None
  /\ worker.pc = "subscribed" /\ Head(tasks).stale => stream.paused
  /\ acking # None => /\ worker.pc \in {"idle", "failed"}
                      /\ stream # None /\ stream.id \in {0, acking.id}

\* A reconnect that is not stale is behind stale tasks only, and until it starts nothing is
\* subscribed.
QueueInv ==
  \A i \in DOMAIN tasks : tasks[i].kind = "reconnect" /\ ~tasks[i].stale =>
    /\ \A j \in DOMAIN tasks : j < i => tasks[j].stale
    /\ i # 1 \/ worker.pc = "idle" => sub = None

\* The Host's subscription is the one being closed, the one being opened or the stream's.
SubInv ==
  sub # None =>
    \/ worker.pc = "unsubscribing"
    \/ worker.pc \in {"subscribeAnswered", "subscribed"} /\ ~Head(tasks).stale
    \/ worker.pc \in {"idle", "failed"} /\ stream # None /\ stream.id = sub.id

\* What the Host pushed is ahead of the answer to an attach, and gone before the next
\* subscription; the answer to a subscribe names the subscription.
SentInv ==
  /\ worker.pc \in {"attached", "subscribing"} =>
       \A i \in DOMAIN frames : frames[i].type \notin {"event", "closed"}
  /\ \A i, j \in DOMAIN frames :
       frames[i].type = "attached" /\ frames[j].type \in {"event", "closed"} => j < i
  /\ \A i \in DOMAIN frames :
       /\ frames[i].type \in {"closed", "refused"} => sub = None
       /\ frames[i].type = "subscribed" => sub = None \/ sub.id = frames[i].id
       /\ frames[i].type = "subscribed" /\ ~EarlyClose => sub # None
  /\ worker.pc = "subscribed" => sub = None \/ sub.id = worker.reply.id
  /\ worker.pc = "subscribed" /\ ~Head(tasks).stale /\ ~EarlyClose /\ worker.reply.id # 0
       => sub # None

ControlInv == WorkerInv /\ QueueInv /\ SubInv /\ SentInv

\* The queue keeps its order, however it changes.
LEMMA QueueKeeps ==
  ASSUME TypeInv, QueueInv,
         \/ /\ MoreTasks(tasks, tasks') /\ (sub = None => sub' = None)
            /\ worker'.pc = "idle" => worker.pc = "idle" \/ sub' = None
         \/ NextTasks(tasks, tasks') /\ (sub = None => sub' = None)
         \/ StaleTasks(tasks, tasks')
         \/ StaleTasks(tasks, AllStale(tasks)) /\ NewTask(AllStale(tasks), tasks', "reconnect")
            /\ Len(AllStale(tasks)) = Len(tasks) /\ sub' = None
  PROVE  QueueInv'
<1>1. tasks \in Seq(Tasks) /\ Len(tasks) \in Nat /\ DOMAIN tasks = 1 .. Len(tasks)
  BY LenProperties DEF TypeInv, WorkerType
<1>2. CASE /\ MoreTasks(tasks, tasks') /\ (sub = None => sub' = None)
           /\ worker'.pc = "idle" => worker.pc = "idle" \/ sub' = None
  <2>1. \A i \in DOMAIN tasks' :
          tasks'[i].kind = "reconnect" => i \in DOMAIN tasks /\ tasks'[i] = tasks[i]
    BY <1>2 DEF MoreTasks
  <2>2. \A i \in DOMAIN tasks : \A j \in DOMAIN tasks' :
          j < i => tasks'[j] = tasks[j] /\ j \in DOMAIN tasks
    <3>1. DOMAIN tasks' = 1 .. Len(tasks') /\ \A i \in DOMAIN tasks : tasks'[i] = tasks[i]
      BY <1>2 DEF MoreTasks
    <3>3. Len(tasks') \in {Len(tasks), Len(tasks) + 1}
      BY <1>2 DEF MoreTasks
    <3>2. ASSUME NEW i \in DOMAIN tasks, NEW j \in DOMAIN tasks', j < i
          PROVE  j \in DOMAIN tasks
      <4>1. i \in 1 .. Len(tasks) /\ j \in 1 .. Len(tasks')
        BY <1>1, <3>1
      <4>2. j \in 1 .. Len(tasks)
        BY <1>1, <3>2, <3>3, <4>1
      <4> QED
        BY <1>1, <4>2
    <3> QED
      BY <3>1, <3>2
  <2> QED
    BY <1>2, <2>1, <2>2 DEF QueueInv
<1>3. CASE NextTasks(tasks, tasks') /\ (sub = None => sub' = None)
  <2>1. \A i \in DOMAIN tasks' :
          i + 1 \in DOMAIN tasks /\ tasks'[i] = tasks[i + 1] /\ i + 1 # 1 /\ i \in Nat
    BY <1>3 DEF NextTasks
  <2>2. ASSUME NEW i \in DOMAIN tasks', tasks'[i].kind = "reconnect", ~tasks'[i].stale
        PROVE  /\ \A j \in DOMAIN tasks' : j < i => tasks'[j].stale
               /\ sub' = None
    <3>1. /\ \A j \in DOMAIN tasks : j < i + 1 => tasks[j].stale
          /\ sub = None
      BY <2>1, <2>2 DEF QueueInv
    <3>2. \A j \in DOMAIN tasks' : j < i => j + 1 < i + 1
      BY <2>1
    <3> QED
      BY <1>3, <2>1, <3>1, <3>2
  <2> QED
    BY <2>2 DEF QueueInv
<1>4. CASE StaleTasks(tasks, tasks')
  BY <1>4 DEF StaleTasks, QueueInv
<1>5. CASE /\ StaleTasks(tasks, AllStale(tasks)) /\ NewTask(AllStale(tasks), tasks', "reconnect")
           /\ Len(AllStale(tasks)) = Len(tasks) /\ sub' = None
  <2> DEFINE us == AllStale(tasks)
  <2>1. /\ DOMAIN us = DOMAIN tasks /\ \A i \in DOMAIN us : us[i].stale
        /\ DOMAIN us = 1 .. Len(us) /\ Len(us) \in Nat
    BY <1>1, <1>5 DEF StaleTasks
  <2>2. /\ DOMAIN tasks' = 1 .. Len(us) + 1
        /\ \A i \in DOMAIN us : tasks'[i] = us[i]
    BY <1>5 DEF NewTask
  <2> HIDE DEF us
  <2>3. \A i \in DOMAIN tasks' : i \in DOMAIN us \/ i = Len(us) + 1
    BY <2>1, <2>2
  <2>4. \A i, j \in DOMAIN tasks' : ~tasks'[i].stale /\ j < i => j \in DOMAIN us
    BY <2>1, <2>2, <2>3
  <2> QED
    BY <1>5, <2>1, <2>2, <2>4 DEF QueueInv
<1> QED
  BY <1>2, <1>3, <1>4, <1>5

\* Nothing is sent and the subscription stays; no new snapshot or answer is looked at.
LEMMA SentSame ==
  ASSUME TypeInv, SentInv, UNCHANGED <<frames, sub>>,
         worker'.pc \in {"attached", "subscribing"} => worker.pc \in {"attached", "subscribing"},
         worker'.pc = "subscribed" => /\ worker' = worker
                                      /\ Head(tasks').stale \/ Head(tasks') = Head(tasks)
  PROVE  SentInv'
  BY DEF SentInv

\* A frame is sent that is no answer to a subscribe.
LEMMA SentAdds ==
  ASSUME TypeInv, SentInv, NEW f, Adds(frames, frames', f),
         f.type \notin {"subscribed", "refused"},
         f.type \in {"event", "closed"} => worker.pc \notin {"attached", "subscribing", "attachAnswered"},
         f.type = "closed" => sub' = None,
         sub' = None \/ (sub # None /\ sub'.id = sub.id),
         sub' = None => sub = None \/ EarlyClose \/ worker.pc \notin {"subscribeAnswered", "subscribed"},
         tasks' = tasks,
         worker' = worker \/ worker'.pc \in {"unsubscribeAnswered", "attachAnswered"}
  PROVE  SentInv'
<1>1. \A i \in DOMAIN frames' :
        \/ i \in DOMAIN frames /\ frames'[i] = frames[i]
        \/ i = Len(frames) + 1 /\ frames'[i] = f
  BY DEF Adds
<1>2. \A i \in DOMAIN frames : i < Len(frames) + 1
  BY DEF Adds
<1>3. f.type \in {"event", "closed"} => \A i \in DOMAIN frames : frames[i].type # "attached"
  BY DEF TypeInv, AnswerType
<1>4. \A i, j \in DOMAIN frames' :
        frames'[i].type = "attached" /\ frames'[j].type \in {"event", "closed"} => j < i
  BY <1>1, <1>2, <1>3 DEF SentInv
<1>5. worker'.pc \in {"attached", "subscribing"} =>
        \A i \in DOMAIN frames' : frames'[i].type \notin {"event", "closed"}
  BY <1>1 DEF SentInv
<1>6. \A i \in DOMAIN frames' :
        /\ frames'[i].type \in {"closed", "refused"} => sub' = None
        /\ frames'[i].type = "subscribed" => sub' = None \/ sub'.id = frames'[i].id
  BY <1>1 DEF SentInv
<1>7. \A i \in DOMAIN frames' : frames'[i].type = "subscribed" /\ ~EarlyClose => sub' # None
  BY <1>1 DEF SentInv, TypeInv, AnswerType
<1> QED
  BY <1>4, <1>5, <1>6, <1>7 DEF SentInv

\* A frame is taken; the answer to an attach or a subscribe is looked at when it is.
LEMMA SentTakes ==
  ASSUME TypeInv, SentInv, Takes(frames, frames'), sub' = sub,
         worker'.pc = "subscribing" => worker.pc = "subscribing",
         worker'.pc = "attached" => worker.pc = "attached" \/ Head(frames).type = "attached",
         worker'.pc = "subscribed" =>
           \/ Head(frames).type = "refused" /\ worker'.reply.id = 0
           \/ Head(frames).type = "subscribed" /\ worker'.reply.id = Head(frames).id
           \/ worker' = worker /\ (Head(tasks').stale \/ Head(tasks') = Head(tasks))
  PROVE  SentInv'
<1>1. \A i \in DOMAIN frames' : i + 1 \in DOMAIN frames /\ frames'[i] = frames[i + 1] /\ i \in Nat
  BY DEF Takes
<1>2. 1 \in DOMAIN frames /\ Head(frames) = frames[1]
  BY DEF Takes
<1>3. \A i, j \in DOMAIN frames' :
        frames'[i].type = "attached" /\ frames'[j].type \in {"event", "closed"} => j < i
  <2> SUFFICES ASSUME NEW i \in DOMAIN frames', NEW j \in DOMAIN frames',
                      frames'[i].type = "attached", frames'[j].type \in {"event", "closed"}
               PROVE  j < i
    OBVIOUS
  <2>1. j + 1 < i + 1
    BY <1>1 DEF SentInv
  <2> QED
    BY <1>1, <2>1
<1>4. Head(frames).type = "attached" =>
        \A i \in DOMAIN frames' : frames'[i].type \notin {"event", "closed"}
  <2> SUFFICES ASSUME Head(frames).type = "attached", NEW i \in DOMAIN frames',
                      frames'[i].type \in {"event", "closed"}
               PROVE  FALSE
    OBVIOUS
  <2>1. i + 1 < 1
    BY <1>1, <1>2 DEF SentInv
  <2> QED
    BY <1>1, <2>1
<1>5. worker'.pc \in {"attached", "subscribing"} =>
        \A i \in DOMAIN frames' : frames'[i].type \notin {"event", "closed"}
  BY <1>1, <1>4 DEF SentInv
<1>6. \A i \in DOMAIN frames' :
        /\ frames'[i].type \in {"closed", "refused"} => sub' = None
        /\ frames'[i].type = "subscribed" => sub' = None \/ sub'.id = frames'[i].id
        /\ frames'[i].type = "subscribed" /\ ~EarlyClose => sub' # None
  BY <1>1 DEF SentInv
<1>7. worker'.pc = "subscribed" => sub' = None \/ sub'.id = worker'.reply.id
  BY <1>2 DEF SentInv
<1>8. worker'.pc = "subscribed" /\ ~Head(tasks').stale /\ ~EarlyClose /\ worker'.reply.id # 0
        => sub' # None
  BY <1>2 DEF SentInv
<1> QED
  BY <1>3, <1>5, <1>6, <1>7, <1>8 DEF SentInv

\* Nothing is subscribed and nothing is asked for in the initial state.
LEMMA ControlInitially == Init => ControlInv
<1> SUFFICES ASSUME Init PROVE ControlInv
  OBVIOUS
<1>1. worker.pc = "idle" /\ acking = None /\ sub = None /\ DOMAIN tasks = {} /\ DOMAIN frames = {}
  BY DEF Init, Idle
<1>2. WorkerInv /\ QueueInv
  BY <1>1 DEF WorkerInv, QueueInv, Requests
<1>3. SubInv /\ SentInv
  BY <1>1 DEF SubInv, SentInv
<1> QED
  BY <1>2, <1>3 DEF ControlInv

\* Every step keeps the worker, its stream and the Host's subscription in agreement.
LEMMA ControlKeeps == TypeInv /\ ControlInv /\ [Next]_vars => ControlInv'
<1> SUFFICES ASSUME TypeInv, ControlInv, [Next]_vars PROVE ControlInv'
  OBVIOUS
<1> USE DEF host, client
<1>1. WorkerInv /\ QueueInv /\ SubInv /\ SentInv
  BY DEF ControlInv
<1>2. tasks \in Seq(Tasks) /\ (worker.pc # "idle" => tasks # <<>>)
  BY DEF TypeInv, WorkerType
<1>3. MoreTasks(tasks, tasks)
  <2>1. Len(tasks) \in Nat /\ DOMAIN tasks = 1 .. Len(tasks)
    BY <1>2, LenProperties
  <2> QED
    BY <1>2, <2>1 DEF MoreTasks
<1>4. sub # None => sub \in Subscriptions /\ sub.id \in SubIds /\ sub.id # 0
  BY DEF TypeInv, LinkType, Subscriptions, SubIds
<1>5. /\ worker.pc \in {"subscribing", "subscribeAnswered", "subscribed"} => stream # None /\ stream.id = 0
      /\ stream # None => stream \in Streams
  BY DEF TypeInv, DeskType, Subscribing
<1>6. ASSUME UNCHANGED <<sub, tasks>>, worker'.pc = "idle" => worker.pc = "idle"
      PROVE  QueueInv'
  BY <1>1, <1>3, <1>6, QueueKeeps
<1>7. ASSUME UNCHANGED <<worker, tasks, stream, acking>>
      PROVE  WorkerInv'
  BY <1>1, <1>7 DEF WorkerInv
<1>8. ASSUME UNCHANGED worker, MoreTasks(tasks, tasks'), sub' = None \/ sub' = sub
      PROVE  QueueInv'
  BY <1>1, <1>8, QueueKeeps
<1>10. ASSUME NEW p \in Prompts, RequestDecision(p) \/ ResolveDecision(p)
       PROVE  ControlInv'
  <2>1. PICK event \in Events : Publish(event)
    BY <1>10 DEF RequestDecision, ResolveDecision, Events
  <2> DEFINE n == hub.sequence + 1
  <2>2. /\ n \in 1 .. MaxEvents
        /\ \/ sub = None /\ UNCHANGED <<sub, frames>>
           \/ /\ sub # None
              /\ EarlyClose \/ ~Unannounced
              /\ sub' = None
              /\ frames' = Append(frames, [type |-> "closed", id |-> sub.id])
           \/ /\ sub # None
              /\ sub' = [sub EXCEPT !.delivered = n, !.outstanding = @ + 1]
              /\ frames' = Append(frames, Event(n))
        /\ UNCHANGED <<conn, client, losses, reads>>
    BY <2>1, PublishDoes
  <2>3. WorkerInv'
    BY <1>7, <2>2
  <2>4. CASE sub = None /\ UNCHANGED <<sub, frames>>
    <3>1. SentInv'
      BY <1>1, <2>2, <2>4, SentSame
    <3>2. QueueInv' /\ SubInv'
      BY <1>6, <2>2, <2>4 DEF SubInv
    <3> QED
      BY <2>3, <3>1, <3>2 DEF ControlInv
  <2>5. sub # None => worker.pc \notin {"attached", "subscribing", "attachAnswered"}
    BY <1>1 DEF SubInv
  <2>6. ASSUME sub # None, EarlyClose \/ ~Unannounced, sub' = None,
               frames' = Append(frames, [type |-> "closed", id |-> sub.id])
        PROVE  ControlInv'
    <3> DEFINE f == [type |-> "closed", id |-> sub.id]
    <3>1. f \in Frames /\ f.type = "closed"
      BY <1>4, <2>6 DEF Frames
    <3> HIDE DEF f
    <3>2. Adds(frames, frames', f)
      BY <2>6, <3>1, AppendAdds DEF f, TypeInv, LinkType
    <3>3. EarlyClose \/ worker.pc \notin {"subscribeAnswered", "subscribed"}
      BY <1>4, <1>5, <2>6 DEF Unannounced
    <3>4. SentInv'
      BY <1>1, <2>2, <2>5, <2>6, <3>1, <3>2, <3>3, SentAdds
    <3>5. QueueInv'
      BY <1>3, <1>8, <2>2, <2>6
    <3>6. SubInv'
      BY <2>6 DEF SubInv
    <3> QED
      BY <2>3, <3>4, <3>5, <3>6 DEF ControlInv
  <2>7. ASSUME sub # None, sub' = [sub EXCEPT !.delivered = n, !.outstanding = @ + 1],
               frames' = Append(frames, Event(n))
        PROVE  ControlInv'
    <3>1. Event(n) \in Frames /\ Event(n).type = "event"
      BY <2>2 DEF Event, Frames
    <3>2. Adds(frames, frames', Event(n))
      BY <2>7, <3>1, AppendAdds DEF TypeInv, LinkType
    <3>3. sub'.id = sub.id
      BY <1>4, <2>7 DEF Subscriptions
    <3>4. SentInv'
      <4> DEFINE f == Event(n)
      <4> HIDE DEF f
      <4>1. Adds(frames, frames', f) /\ f.type = "event"
        BY <3>1, <3>2 DEF f
      <4>2. sub' = None \/ (sub # None /\ sub'.id = sub.id)
        BY <2>7, <3>3
      <4>3. sub' # None
        <5>1. sub' \in Subscriptions
          <6>1. TypeInv'
            BY TypeKeeps
          <6>2. sub.outstanding + 1 \in Nat /\ n \in Seqs
            BY <1>4, <2>2, <2>7 DEF Subscriptions, Seqs
          <6> HIDE DEF n
          <6> QED
            BY <1>4, <2>7, <6>2 DEF Subscriptions
        <5> QED
          BY <5>1, SomethingIsNotNone
      <4> QED
        BY <1>1, <2>2, <2>5, <2>7, <4>1, <4>2, <4>3, SentAdds
    <3>5. QueueInv'
      BY <1>1, <1>3, <2>2, <2>7, QueueKeeps
    <3>6. SubInv'
      BY <1>1, <2>2, <2>7, <3>3 DEF SubInv
    <3> QED
      BY <2>3, <3>4, <3>5, <3>6 DEF ControlInv
  <2> QED
    BY <2>2, <2>4, <2>6, <2>7
<1>11. CASE HostSubscribes
  <2>1. /\ FreshId \in SubIds /\ stream \in Streams /\ worker.pc = "subscribing"
        /\ worker' = [worker EXCEPT !.pc = "subscribeAnswered"]
        /\ UNCHANGED <<host, conn, routed, watched, stream, acking, tasks, reader, bridge,
                       cards, losses, reads>>
    BY <1>11, SubscribeDoes
  <2>2. /\ worker'.pc = "subscribeAnswered" /\ ~Head(tasks).stale /\ tasks # <<>>
        /\ Head(tasks) = tasks[1] /\ 1 \in DOMAIN tasks /\ acking = None
    <3>1. worker'.pc = "subscribeAnswered" /\ worker.pc = "subscribing"
      BY <2>1 DEF TypeInv, WorkerType, Workers
    <3>2. ~Head(tasks).stale /\ tasks # <<>> /\ acking = None
      BY <1>1, <1>2, <3>1 DEF WorkerInv, Requests
    <3> QED
      BY <1>2, <3>1, <3>2, TailTasks DEF NextTasks
  <2>3. WorkerInv'
    BY <1>1, <2>1, <2>2 DEF WorkerInv, Requests
  <2>4. QueueInv'
    <3>1. \A i \in DOMAIN tasks : tasks[i].kind = "reconnect" /\ ~tasks[i].stale => i = 1
      <4> SUFFICES ASSUME NEW i \in DOMAIN tasks, tasks[i].kind = "reconnect", ~tasks[i].stale, i # 1
                   PROVE  FALSE
        OBVIOUS
      <4>1. 1 < i
        BY <1>2, LenProperties
      <4> QED
        BY <1>1, <2>2, <4>1 DEF QueueInv
    <3> QED
      BY <1>1, <2>1, <2>2, <3>1 DEF QueueInv
  <2>5. SubInv'
    BY <2>1, <2>2 DEF SubInv
  <2>6. \A i \in DOMAIN frames :
          frames[i].type \notin {"event", "closed", "attached", "subscribed", "refused"}
    BY <1>1, <2>1 DEF SentInv, TypeInv, AnswerType
  <2>7. PICK f \in Frames :
          /\ f.type \in {"subscribed", "refused"}
          /\ f.type = "refused" => sub' = None
          /\ f.type = "subscribed" => sub' # None /\ sub'.id = f.id
          /\ \A i \in DOMAIN frames' :
               \/ i \in DOMAIN frames /\ frames'[i] = frames[i]
               \/ frames'[i].type = "event"
               \/ frames'[i] = f
    <3>1. CASE /\ sub' = NewSubscription(FreshId, hub.sequence)
               /\ frames' = Append(frames, Subscribed(FreshId, FALSE))
      <4> DEFINE f == Subscribed(FreshId, FALSE)
      <4>1. f \in Frames /\ f.type = "subscribed" /\ f.id = FreshId
        BY <2>1 DEF Subscribed, Frames
      <4> HIDE DEF f
      <4>2. Adds(frames, frames', f)
        BY <3>1, <4>1, AppendAdds DEF f, TypeInv, LinkType
      <4>3. sub' \in Subscriptions /\ sub'.id = FreshId
        BY <2>1, <3>1 DEF NewSubscription, Subscriptions, TypeInv, HostType
      <4>4. \A i \in DOMAIN frames' : (i \in DOMAIN frames /\ frames'[i] = frames[i]) \/ frames'[i] = f
        BY <4>2 DEF Adds
      <4> QED
        BY <4>1, <4>3, <4>4, SomethingIsNotNone
    <3>2. ASSUME NEW f, NEW from, NEW last, Replays(frames, frames', from, last, f)
          PROVE  /\ f \in Frames
                 /\ \A i \in DOMAIN frames' : \/ i \in DOMAIN frames /\ frames'[i] = frames[i]
                                              \/ frames'[i].type = "event"
                                              \/ frames'[i] = f
      <4> DEFINE m == last + 1 - from
      <4>1. /\ Len(frames) \in Nat /\ m \in Nat /\ f \in Frames
            /\ DOMAIN frames = 1 .. Len(frames) /\ DOMAIN frames' = 1 .. Len(frames) + m + 1
            /\ \A i \in DOMAIN frames : frames'[i] = frames[i]
            /\ \A i \in Len(frames) + 1 .. Len(frames) + m : frames'[i].type = "event"
            /\ frames'[Len(frames) + m + 1] = f
        BY <3>2 DEF Replays
      <4> HIDE DEF m
      <4>2. \A i \in DOMAIN frames' : \/ i \in DOMAIN frames
                                      \/ i \in Len(frames) + 1 .. Len(frames) + m
                                      \/ i = Len(frames) + m + 1
        BY <4>1
      <4> QED
        BY <4>1, <4>2
    <3>3. CASE /\ sub' = None
               /\ Replays(frames, frames', stream.cursor.sequence + 1,
                          stream.cursor.sequence + MaxOutstanding, [type |-> "refused"])
      <4> DEFINE f == [type |-> "refused"]
      <4>1. f.type = "refused" /\ f.type # "subscribed"
        OBVIOUS
      <4> HIDE DEF f
      <4>2. Replays(frames, frames', stream.cursor.sequence + 1,
                    stream.cursor.sequence + MaxOutstanding, f)
        BY <3>3 DEF f
      <4> QED
        BY <3>2, <3>3, <4>1, <4>2
    <3>4. CASE /\ sub' = [id |-> FreshId, delivered |-> hub.sequence,
                          outstanding |-> hub.sequence - stream.cursor.sequence]
               /\ stream.cursor.sequence <= hub.sequence
               /\ Replays(frames, frames', stream.cursor.sequence + 1, hub.sequence,
                          Subscribed(FreshId, TRUE))
      <4> DEFINE f == Subscribed(FreshId, TRUE)
      <4>1. f.type = "subscribed" /\ f.type # "refused" /\ f.id = FreshId
        BY DEF Subscribed
      <4> HIDE DEF f
      <4>2. Replays(frames, frames', stream.cursor.sequence + 1, hub.sequence, f)
        BY <3>4 DEF f
      <4>3. sub' # None /\ sub'.id = FreshId
        <5>1. stream.cursor.sequence \in Nat /\ hub.sequence \in Nat /\ hub.sequence \in Seqs
          BY <2>1, RemoteAssumption DEF Streams, Cursors, Seqs, TypeInv, HostType
        <5>2. hub.sequence - stream.cursor.sequence \in Nat
          BY <3>4, <5>1
        <5>3. sub' \in Subscriptions
          BY <2>1, <3>4, <5>1, <5>2 DEF Subscriptions
        <5> QED
          BY <3>4, <5>3, SomethingIsNotNone
      <4> QED
        BY <3>2, <4>1, <4>2, <4>3
    <3> QED
      BY <1>11, <3>1, <3>3, <3>4, SubscribeDoes
  <2>8. SentInv'
    <3>1. worker'.pc \notin {"attached", "subscribing", "subscribed"}
      BY <2>2
    <3>2. \A i \in DOMAIN frames' :
            /\ frames'[i].type \notin {"closed", "attached"}
            /\ frames'[i].type = "refused" => sub' = None
            /\ frames'[i].type = "subscribed" => sub' # None /\ sub'.id = frames'[i].id
      BY <2>6, <2>7
    <3> QED
      BY <3>1, <3>2 DEF SentInv
  <2> QED
    BY <2>3, <2>4, <2>5, <2>8 DEF ControlInv
<1>13. ASSUME MoreTasks(tasks, tasks')
       PROVE  worker.pc # "idle" => Head(tasks') = Head(tasks)
  BY <1>2, <1>13, HeadKept
<1>14. ASSUME UNCHANGED worker, MoreTasks(tasks, tasks'), acking' = acking \/ acking' = None,
              stream = None <=> stream' = None,
              stream # None => stream'.id \in {0, stream.id} /\ (stream.paused => stream'.paused)
       PROVE  WorkerInv'
  <2>1. worker.pc # "idle" => Head(tasks') = Head(tasks)
    BY <1>13, <1>14
  <2>2. /\ worker'.pc \in Requests => ~Head(tasks').stale
        /\ worker'.pc \in {"unsubscribing", "unsubscribeAnswered", "removed", "attaching",
                           "attachAnswered", "attached"} => stream' = None
    BY <1>1, <1>14, <2>1 DEF WorkerInv, Requests
  <2>3. worker'.pc = "subscribed" /\ Head(tasks').stale => stream'.paused
    BY <1>1, <1>5, <1>14, <2>1 DEF WorkerInv
  <2>4. acking' # None => /\ worker'.pc \in {"idle", "failed"}
                          /\ stream' # None /\ stream'.id \in {0, acking'.id}
    BY <1>1, <1>14 DEF WorkerInv
  <2> QED
    BY <2>2, <2>3, <2>4 DEF WorkerInv
<1>15. CASE HostUnsubscribes
  <2> DEFINE f == [type |-> "unsubscribed"]
  <2>1. /\ worker.pc = "unsubscribing" /\ worker' = [worker EXCEPT !.pc = "unsubscribeAnswered"]
        /\ sub' = None /\ frames' = Append(frames, f)
        /\ UNCHANGED <<host, conn, routed, watched, stream, acking, tasks, reader, bridge,
                       cards, losses, reads>>
    BY <1>15 DEF HostUnsubscribes
  <2>2. f \in Frames /\ f.type = "unsubscribed"
    BY DEF Frames
  <2> HIDE DEF f
  <2>3. worker'.pc = "unsubscribeAnswered"
    BY <2>1 DEF TypeInv, WorkerType, Workers
  <2>4. WorkerInv'
    BY <1>1, <2>1, <2>3 DEF WorkerInv, Requests
  <2>5. QueueInv'
    BY <1>1, <1>3, <2>1, <2>3, QueueKeeps
  <2>6. Adds(frames, frames', f)
    BY <2>1, <2>2, AppendAdds DEF TypeInv, LinkType
  <2>7. SentInv'
    BY <1>1, <2>1, <2>2, <2>3, <2>6, SentAdds
  <2> QED
    BY <2>1, <2>4, <2>5, <2>7 DEF ControlInv, SubInv
<1>16. CASE HostAcks
  <2> DEFINE f == [type |-> "acked", id |-> acking.id]
  <2>1. /\ acking # None
        /\ sub' = IF sub # None /\ sub.id = acking.id THEN Acked(sub, acking.sequence) ELSE sub
        /\ acking' = [acking EXCEPT !.answered = TRUE]
        /\ frames' = Append(frames, f)
        /\ UNCHANGED <<host, conn, routed, watched, stream, tasks, worker, reader, bridge,
                       cards, losses, reads>>
    BY <1>16 DEF HostAcks
  <2>2. acking \in Ackings /\ acking' \in Ackings /\ acking'.id = acking.id
    BY <2>1 DEF TypeInv, LinkType, Ackings
  <2>3. f \in Frames /\ f.type = "acked"
    BY <2>2 DEF Frames, Ackings
  <2> HIDE DEF f
  <2>4. sub # None => sub' # None /\ sub'.id = sub.id
    <3>1. CASE sub # None /\ sub.id = acking.id
      <4>1. sub \in Subscriptions /\ sub.delivered \in Nat /\ acking.sequence \in Nat
        BY <1>4, <2>2, <3>1, RemoteAssumption DEF Subscriptions, Ackings, Seqs
      <4>2. (IF acking.sequence >= sub.delivered THEN 0 ELSE sub.delivered - acking.sequence) \in Nat
        BY <4>1
      <4>3. sub' = [sub EXCEPT !.outstanding =
                     IF acking.sequence >= sub.delivered THEN 0 ELSE sub.delivered - acking.sequence]
        BY <2>1, <3>1 DEF Acked
      <4>4. sub' \in Subscriptions /\ sub'.id = sub.id
        BY <4>1, <4>2, <4>3 DEF Subscriptions
      <4> QED
        BY <4>4, SomethingIsNotNone
    <3> QED
      BY <2>1, <3>1
  <2>5. sub = None => sub' = None
    BY <2>1
  <2>6. WorkerInv'
    BY <1>1, <2>1, <2>2 DEF WorkerInv
  <2>7. QueueInv'
    BY <1>1, <1>3, <2>1, <2>5, QueueKeeps
  <2>8. SubInv'
    BY <1>1, <2>1, <2>4, <2>5 DEF SubInv
  <2>9. Adds(frames, frames', f)
    BY <2>1, <2>3, AppendAdds DEF TypeInv, LinkType
  <2>10. SentInv'
    BY <1>1, <2>1, <2>3, <2>4, <2>5, <2>9, SentAdds
  <2> QED
    BY <2>6, <2>7, <2>8, <2>10 DEF ControlInv
<1>17. CASE HostAttaches
  <2> DEFINE f == [type |-> "attached", snapshot |-> Snapshot]
  <2>1. /\ worker.pc = "attaching" /\ worker' = [worker EXCEPT !.pc = "attachAnswered"]
        /\ frames' = Append(frames, f)
        /\ UNCHANGED <<host, sub, conn, routed, watched, stream, acking, tasks, reader,
                       bridge, cards, losses, reads>>
    BY <1>17 DEF HostAttaches
  <2>2. f \in Frames /\ f.type = "attached"
    <3>1. Snapshot \in Snapshots
      BY DEF Snapshot, Snapshots, Cursor, Cursors, Pending, Promise!OpenAfter, TypeInv, HostType
    <3> QED
      BY <3>1 DEF Frames
  <2> HIDE DEF f
  <2>3. worker'.pc = "attachAnswered"
    BY <2>1 DEF TypeInv, WorkerType, Workers
  <2>4. WorkerInv'
    BY <1>1, <2>1, <2>3 DEF WorkerInv, Requests
  <2>5. QueueInv'
    BY <1>1, <1>3, <2>1, <2>3, QueueKeeps
  <2>6. sub = None
    BY <1>1, <2>1 DEF SubInv
  <2>7. Adds(frames, frames', f)
    BY <2>1, <2>2, AppendAdds DEF TypeInv, LinkType
  <2>8. SentInv'
    BY <1>1, <2>1, <2>2, <2>3, <2>6, <2>7, SentAdds
  <2> QED
    BY <2>1, <2>4, <2>5, <2>6, <2>8 DEF ControlInv, SubInv
<1>18. CASE HostAnswersRead
  <2> DEFINE f == [type |-> "read", snapshot |-> Snapshot]
  <2>1. /\ frames' = Append(frames, f)
        /\ UNCHANGED <<host, sub, conn, routed, watched, stream, acking, tasks, worker,
                       bridge, cards, losses, reads>>
    BY <1>18 DEF HostAnswersRead
  <2>2. f \in Frames /\ f.type = "read"
    <3>1. Snapshot \in Snapshots
      BY DEF Snapshot, Snapshots, Cursor, Cursors, Pending, Promise!OpenAfter, TypeInv, HostType
    <3> QED
      BY <3>1 DEF Frames
  <2> HIDE DEF f
  <2>3. WorkerInv' /\ QueueInv' /\ SubInv'
    BY <1>1, <1>6, <1>7, <2>1 DEF SubInv
  <2>4. Adds(frames, frames', f)
    BY <2>1, <2>2, AppendAdds DEF TypeInv, LinkType
  <2>5. SentInv'
    BY <1>1, <2>1, <2>2, <2>4, SentAdds
  <2> QED
    BY <2>3, <2>5 DEF ControlInv
<1>19. CASE ReceiveEvent
  <2> DEFINE n == Head(frames).sequence
  <2>1. /\ frames # <<>> /\ Head(frames).type = "event" /\ frames' = Tail(frames)
        /\ TakesEvent(n)
        /\ UNCHANGED <<host, sub, conn, routed, watched, acking, worker, reader, losses, reads>>
    BY <1>19 DEF ReceiveEvent
  <2>2. /\ Takes(frames, frames') /\ Head(frames) \in Frames
    BY <2>1, FrameTaken
  <2>3. n \in 1 .. MaxEvents /\ n <= hub.sequence
    <3>1. n \in 1 .. MaxEvents
      BY <2>1, <2>2, FrameKinds
    <3>2. 1 \in DOMAIN frames /\ Head(frames) = frames[1]
      BY <2>2 DEF Takes
    <3> QED
      BY <2>1, <3>1, <3>2 DEF TypeInv, AnswerType
  <2> HIDE DEF n
  <2>4. /\ stream = None <=> stream' = None
        /\ stream # None => stream'.id = stream.id /\ (stream.paused => stream'.paused)
        /\ tasks' = tasks \/ tasks' = WithRecovery(tasks)
    BY <1>5, <2>1, <2>3, TakesEventDoes DEF Streams
  <2>5. MoreTasks(tasks, tasks')
    BY <1>2, <1>3, <2>4, RecoveryTasks
  <2>6. WorkerInv' /\ QueueInv'
    BY <1>8, <1>14, <2>1, <2>4, <2>5
  <2>7. worker.pc # "idle" => Head(tasks') = Head(tasks)
    BY <1>13, <2>5
  <2>8. SubInv'
    BY <1>1, <2>1, <2>4, <2>7 DEF SubInv
  <2>9. SentInv'
    BY <1>1, <2>1, <2>2, <2>7, SentTakes
  <2> QED
    BY <2>6, <2>8, <2>9 DEF ControlInv
<1>20. CASE ReceiveClosed
  <2>1. /\ frames # <<>> /\ Head(frames).type = "closed" /\ frames' = Tail(frames)
        /\ \/ UNCHANGED <<stream, tasks>>
           \/ /\ stream # None
              /\ stream' = [stream EXCEPT !.id = 0, !.paused = TRUE]
              /\ tasks' = WithRecovery(tasks)
        /\ UNCHANGED <<host, sub, conn, routed, watched, acking, worker, reader, bridge, cards,
                       losses, reads>>
    BY <1>20 DEF ReceiveClosed
  <2>2. Takes(frames, frames')
    BY <2>1, FrameTaken
  <2>3. sub = None
    <3>1. 1 \in DOMAIN frames /\ Head(frames) = frames[1]
      BY <2>2 DEF Takes
    <3> QED
      BY <1>1, <2>1, <3>1 DEF SentInv
  <2>4. /\ stream = None <=> stream' = None
        /\ stream # None => stream'.id \in {0, stream.id} /\ (stream.paused => stream'.paused)
    <3>1. stream # None => [stream EXCEPT !.id = 0, !.paused = TRUE] \in Streams
      BY <1>5 DEF Streams
    <3> QED
      BY <1>5, <2>1, <3>1, SomethingIsNotNone DEF Streams
  <2>5. MoreTasks(tasks, tasks')
    BY <1>2, <1>3, <2>1, RecoveryTasks
  <2>6. WorkerInv' /\ QueueInv'
    BY <1>8, <1>14, <2>1, <2>4, <2>5
  <2>7. worker.pc # "idle" => Head(tasks') = Head(tasks)
    BY <1>13, <2>5
  <2>8. SentInv'
    BY <1>1, <2>1, <2>2, <2>7, SentTakes
  <2> QED
    BY <2>1, <2>3, <2>6, <2>8 DEF ControlInv, SubInv
<1>21. CASE ReceiveAcked
  <2>1. /\ frames # <<>> /\ frames' = Tail(frames) /\ Head(frames).type = "acked"
        /\ acking' = acking \/ acking' = None
        /\ UNCHANGED <<host, sub, conn, routed, watched, stream, tasks, worker, reader, bridge,
                       cards, losses, reads>>
    BY <1>21 DEF ReceiveAcked
  <2>2. Takes(frames, frames')
    BY <2>1, FrameTaken
  <2>3. WorkerInv' /\ QueueInv' /\ SubInv'
    BY <1>1, <1>6, <1>3, <1>14, <2>1 DEF SubInv
  <2>4. SentInv'
    BY <1>1, <2>1, <2>2, SentTakes
  <2> QED
    BY <2>3, <2>4 DEF ControlInv
<1>22. ASSUME frames # <<>>, frames' = Tail(frames), worker' = worker \/ Head(frames).type \in Answers,
              reader' = reader \/ Head(frames).type = "read",
              UNCHANGED <<host, conn>>
       PROVE  /\ Takes(frames, frames') /\ Head(frames) \in Frames
              /\ Head(frames).type = "unsubscribed" => worker.pc = "unsubscribeAnswered"
              /\ Head(frames).type = "attached" => worker.pc = "attachAnswered"
              /\ Head(frames).type \in {"subscribed", "refused"} => worker.pc = "subscribeAnswered"
  <2>1. Takes(frames, frames') /\ Head(frames) \in Frames
    BY <1>22, FrameTaken
  <2>2. 1 \in DOMAIN frames /\ Head(frames) = frames[1]
    BY <2>1 DEF Takes
  <2> QED
    BY <2>1, <2>2 DEF TypeInv, AnswerType
<1>23. CASE ReceiveUnsubscribed
  <2>1. /\ frames # <<>> /\ Head(frames).type = "unsubscribed" /\ frames' = Tail(frames)
        /\ worker' = [worker EXCEPT !.pc = "removed"]
        /\ UNCHANGED <<host, sub, conn, routed, watched, stream, acking, tasks, reader, bridge,
                       cards, losses, reads>>
    BY <1>23 DEF ReceiveUnsubscribed, Waits
  <2>2. Takes(frames, frames') /\ worker.pc = "unsubscribeAnswered"
    BY <1>22, <2>1 DEF Answers
  <2>3. worker'.pc = "removed" /\ sub = None
    BY <1>1, <2>1, <2>2 DEF TypeInv, WorkerType, Workers, SubInv
  <2>4. WorkerInv'
    BY <1>1, <2>1, <2>2, <2>3 DEF WorkerInv, Requests
  <2>5. QueueInv' /\ SubInv'
    BY <1>6, <2>1, <2>3 DEF SubInv
  <2>6. SentInv'
    BY <1>1, <2>1, <2>2, <2>3, SentTakes
  <2> QED
    BY <2>4, <2>5, <2>6 DEF ControlInv
<1>24. CASE ReceiveAttached
  <2>1. /\ frames # <<>> /\ Head(frames).type = "attached" /\ frames' = Tail(frames)
        /\ worker' = [worker EXCEPT !.pc = "attached", !.snapshot = Head(frames).snapshot]
        /\ UNCHANGED <<host, sub, conn, routed, watched, stream, acking, tasks, reader, bridge,
                       cards, losses, reads>>
    BY <1>24 DEF ReceiveAttached
  <2>2. Takes(frames, frames') /\ worker.pc = "attachAnswered"
    BY <1>22, <2>1 DEF Answers
  <2>3. worker'.pc = "attached" /\ sub = None
    BY <1>1, <2>1, <2>2 DEF TypeInv, WorkerType, Workers, SubInv
  <2>4. WorkerInv'
    BY <1>1, <2>1, <2>2, <2>3 DEF WorkerInv, Requests
  <2>5. QueueInv' /\ SubInv'
    BY <1>6, <2>1, <2>3 DEF SubInv
  <2>6. SentInv'
    BY <1>1, <2>1, <2>2, <2>3, SentTakes
  <2> QED
    BY <2>4, <2>5, <2>6 DEF ControlInv
<1>25. CASE ReceiveSubscribed
  <2> DEFINE reply == IF Head(frames).type = "refused" THEN NoReply
                      ELSE [id |-> Head(frames).id, complete |-> Head(frames).complete]
  <2>1. /\ frames # <<>> /\ Head(frames).type \in {"subscribed", "refused"} /\ frames' = Tail(frames)
        /\ worker' = [worker EXCEPT !.pc = "subscribed", !.reply = reply]
        /\ UNCHANGED <<host, sub, conn, routed, watched, stream, acking, tasks, reader, bridge,
                       cards, losses, reads>>
    BY <1>25 DEF ReceiveSubscribed
  <2>2. Takes(frames, frames') /\ worker.pc = "subscribeAnswered"
    <3> HIDE DEF reply
    <3> QED
      BY <1>22, <2>1 DEF Answers
  <2>3. /\ Head(frames).type = "refused" => reply.id = 0
        /\ Head(frames).type = "subscribed" => reply.id = Head(frames).id
    BY DEF NoReply
  <2> HIDE DEF reply
  <2>4. worker'.pc = "subscribed" /\ worker'.reply = reply
    BY <2>1 DEF TypeInv, WorkerType, Workers
  <2>5. ~Head(tasks).stale
    BY <1>1, <2>2 DEF WorkerInv, Requests
  <2>6. WorkerInv'
    BY <1>1, <2>1, <2>2, <2>4, <2>5 DEF WorkerInv, Requests
  <2>7. QueueInv'
    BY <1>6, <2>1, <2>4
  <2>8. SubInv'
    BY <2>1, <2>4, <2>5 DEF SubInv
  <2>9. SentInv'
    BY <1>1, <2>1, <2>2, <2>3, <2>4, SentTakes
  <2> QED
    BY <2>6, <2>7, <2>8, <2>9 DEF ControlInv
<1>26. CASE ReceiveRead
  <2>1. /\ frames # <<>> /\ Head(frames).type = "read" /\ frames' = Tail(frames)
        /\ UNCHANGED <<host, sub, conn, routed, watched, stream, acking, tasks, worker, bridge,
                       cards, losses, reads>>
    BY <1>26 DEF ReceiveRead
  <2>2. Takes(frames, frames')
    BY <1>22, <2>1
  <2>3. WorkerInv' /\ QueueInv' /\ SubInv'
    BY <1>1, <1>6, <1>7, <2>1 DEF SubInv
  <2>4. SentInv'
    BY <1>1, <2>1, <2>2, SentTakes
  <2> QED
    BY <2>3, <2>4 DEF ControlInv
<1>27. CASE SendAck
  <2>1. /\ stream # None /\ stream.id # 0
        /\ acking' = [id |-> stream.id, sequence |-> stream.ack, answered |-> FALSE]
        /\ stream' = [stream EXCEPT !.ack = 0]
        /\ UNCHANGED <<host, sub, frames, conn, routed, watched, tasks, worker, reader, bridge,
                       cards, losses, reads>>
    BY <1>27 DEF SendAck
  <2>2. /\ stream' # None /\ stream'.id = stream.id /\ stream'.paused = stream.paused
        /\ acking'.id = stream.id
    <3>1. stream \in Streams /\ 0 \in Seqs
      BY <2>1, RemoteAssumption DEF TypeInv, DeskType, Seqs
    <3>2. stream' \in Streams /\ stream'.id = stream.id /\ stream'.paused = stream.paused
      BY <2>1, <3>1 DEF Streams
    <3> QED
      BY <2>1, <3>2, SomethingIsNotNone
  <2>3. worker.pc \in {"idle", "failed"}
    <3>1. worker \in Workers
      BY DEF TypeInv, WorkerType
    <3> QED
      BY <1>1, <1>5, <2>1, <3>1 DEF WorkerInv, Workers
  <2>4. WorkerInv'
    BY <2>1, <2>2, <2>3 DEF WorkerInv, Requests
  <2>5. QueueInv' /\ SubInv'
    BY <1>1, <1>6, <2>1, <2>2 DEF SubInv
  <2>6. SentInv'
    BY <1>1, <2>1, SentSame
  <2> QED
    BY <2>4, <2>5, <2>6 DEF ControlInv
<1>28. CASE StartTask
  <2>1. /\ tasks # <<>> /\ worker.pc = "idle"
        /\ UNCHANGED <<host, sub, frames, reader, bridge, cards, losses, reads>>
    BY <1>28, StartTaskDoes
  <2>2. Task = tasks[1] /\ Task = Head(tasks) /\ 1 \in DOMAIN tasks /\ NextTasks(tasks, Tail(tasks))
    <3>1. NextTasks(tasks, Tail(tasks)) /\ Head(tasks) = tasks[1]
      BY <1>2, <2>1, TailTasks
    <3> QED
      BY <3>1 DEF NextTasks, Task
  <2>3. ~Task.stale /\ Task.kind = "reconnect" => sub = None
    BY <1>1, <2>1, <2>2 DEF QueueInv
  <2>4. sub # None => stream # None /\ stream.id = sub.id /\ sub.id # 0 /\ conn # "down"
    BY <1>1, <1>4, <2>1 DEF SubInv, TypeInv, ConnType
  <2>5. worker'.pc \notin {"attached", "subscribing", "subscribed"}
    BY <1>28, StartTaskDoes
  <2>6. SentInv'
    BY <1>1, <2>1, <2>5, SentSame
  <2>7. QueueInv'
    <3>1. tasks' = tasks \/ tasks' = Tail(tasks)
      BY <1>28, StartTaskDoes
    <3> QED
      BY <1>1, <1>3, <2>1, <2>2, <3>1, QueueKeeps
  <2>8. CASE Task.stale /\ worker'.pc = "failed" /\ UNCHANGED <<stream, acking, tasks>>
    <3>1. WorkerInv' /\ SubInv'
      BY <1>1, <2>1, <2>8 DEF WorkerInv, SubInv, Requests
    <3> QED
      BY <2>6, <2>7, <3>1 DEF ControlInv
  <2>9. CASE /\ ~Task.stale /\ Task.kind = "reconnect"
             /\ stream' = None /\ acking' = None /\ worker'.pc \in {"removed", "idle"}
    <3>1. WorkerInv' /\ SubInv'
      BY <2>1, <2>3, <2>9 DEF WorkerInv, SubInv, Requests
    <3> QED
      BY <2>6, <2>7, <3>1 DEF ControlInv
  <2>10. CASE /\ ~Task.stale
              /\ stream' = None /\ acking' = None
              /\ worker'.pc = IF stream # None /\ stream.id # 0 /\ conn # "down"
                              THEN "unsubscribing" ELSE "removed"
              /\ tasks' = tasks
    <3>1. worker'.pc \in {"unsubscribing", "removed"} /\ (sub' # None => worker'.pc = "unsubscribing")
      BY <2>1, <2>4, <2>10
    <3>2. WorkerInv' /\ SubInv'
      BY <2>2, <2>10, <3>1 DEF WorkerInv, SubInv, Requests
    <3> QED
      BY <2>6, <2>7, <3>2 DEF ControlInv
  <2>11. CASE worker'.pc = "idle" /\ UNCHANGED <<stream, acking>>
    <3>1. WorkerInv' /\ SubInv'
      BY <1>1, <2>1, <2>11 DEF WorkerInv, SubInv, Requests
    <3> QED
      BY <2>6, <2>7, <3>1 DEF ControlInv
  <2> QED
    BY <1>28, <2>8, <2>9, <2>10, <2>11, StartTaskDoes
<1>29. CASE WatchAttaches
  <2> DEFINE pc == IF Task.stale \/ conn = "down" \/ worker.attempt > 2 THEN "failed" ELSE "attaching"
  <2>1. /\ worker.pc = "removed" /\ worker' = [worker EXCEPT !.pc = pc]
        /\ UNCHANGED <<host, sub, frames, conn, routed, watched, stream, acking, tasks, reader,
                       bridge, cards, losses, reads>>
    BY <1>29 DEF WatchAttaches, Waits
  <2>2. pc = "failed" \/ (pc = "attaching" /\ ~Task.stale)
    OBVIOUS
  <2> HIDE DEF pc
  <2>3. worker'.pc = pc /\ sub = None
    BY <1>1, <2>1 DEF TypeInv, WorkerType, Workers, SubInv
  <2>4. WorkerInv'
    BY <1>1, <2>1, <2>2, <2>3 DEF WorkerInv, Requests, Task
  <2>5. QueueInv' /\ SubInv'
    BY <1>6, <2>1, <2>2, <2>3 DEF SubInv
  <2>6. SentInv'
    BY <1>1, <2>1, <2>2, <2>3, SentSame
  <2> QED
    BY <2>4, <2>5, <2>6 DEF ControlInv
<1>30. CASE WatchRestores
  <2>1. /\ worker.pc = "attached" /\ sub = None /\ acking = None /\ stream = None
        /\ UNCHANGED <<host, sub, frames, conn, routed, watched, acking, tasks, reader, losses,
                       reads>>
    BY <1>1, <1>30 DEF WatchRestores, SubInv, WorkerInv
  <2>2. \/ worker'.pc = "failed" /\ stream' = stream
        \/ worker'.pc = "subscribing" /\ ~Head(tasks).stale
    <3>1. \/ worker' = [worker EXCEPT !.pc = "failed"] /\ stream' = stream
          \/ worker' = [worker EXCEPT !.pc = "subscribing", !.snapshot = None] /\ ~Head(tasks).stale
      BY <1>30 DEF WatchRestores, Waits, Task
    <3> QED
      BY <3>1 DEF TypeInv, WorkerType, Workers
  <2>3. WorkerInv'
    BY <2>1, <2>2 DEF WorkerInv, Requests
  <2>4. QueueInv' /\ SubInv'
    BY <1>6, <2>1, <2>2 DEF SubInv
  <2>5. SentInv'
    BY <1>1, <2>1, <2>2, SentSame
  <2> QED
    BY <2>3, <2>4, <2>5 DEF ControlInv
<1>31. CASE WatchEnds
  <2> DEFINE id == worker.reply.id
  <2>1. /\ tasks # <<>> /\ worker.pc = "subscribed" /\ acking = None
        /\ stream \in Streams /\ stream' \in Streams \cup {None}
        /\ UNCHANGED <<host, sub, frames, watched, reader, bridge, cards, losses, reads>>
    BY <1>1, <1>31, WatchEndsDoes DEF WorkerInv
  <2>2. NextTasks(tasks, Tail(tasks)) /\ (sub = None \/ sub.id = id)
    BY <1>1, <1>2, <2>1, TailTasks DEF SentInv
  <2>3. worker'.pc \in {"failed", "idle", "unsubscribing"} /\ acking' = None
    BY <1>31, <2>1, WatchEndsDoes
  <2>4. SentInv'
    BY <1>1, <2>1, <2>3, SentSame
  <2>5. CASE id = 0 /\ worker'.pc = "failed" /\ tasks' = tasks
    <3>1. sub = None
      BY <1>4, <2>2, <2>5
    <3>2. WorkerInv' /\ QueueInv' /\ SubInv'
      BY <1>6, <2>1, <2>3, <2>5, <3>1 DEF WorkerInv, SubInv, Requests
    <3> QED
      BY <2>4, <3>2 DEF ControlInv
  <2>6. CASE Task.stale /\ worker'.pc = "failed" /\ tasks' = tasks
    <3>1. sub = None
      BY <1>1, <2>1, <2>6 DEF SubInv, Task
    <3>2. WorkerInv' /\ QueueInv' /\ SubInv'
      BY <1>6, <2>1, <2>3, <2>6, <3>1 DEF WorkerInv, SubInv, Requests
    <3> QED
      BY <2>4, <3>2 DEF ControlInv
  <2>7. CASE stream' = [stream EXCEPT !.id = id] /\ worker'.pc = "idle" /\ tasks' = Tail(tasks)
    <3>1. QueueInv'
      BY <1>1, <2>1, <2>2, <2>7, QueueKeeps
    <3>2. stream'.id = id /\ stream' # None
      <4>1. id \in SubIds \cup {0}
        BY DEF TypeInv, WorkerType, Workers, Replies
      <4>2. stream' \in Streams /\ stream'.id = id
        BY <2>1, <2>7, <4>1 DEF Streams
      <4> QED
        BY <4>2, SomethingIsNotNone
    <3>3. WorkerInv' /\ SubInv'
      BY <2>1, <2>2, <2>3, <2>7, <3>2 DEF WorkerInv, SubInv, Requests
    <3> QED
      BY <2>4, <3>1, <3>3 DEF ControlInv
  <2>8. CASE ~Task.stale /\ stream' = None /\ worker'.pc = "unsubscribing" /\ tasks' = tasks
    <3>1. WorkerInv' /\ QueueInv' /\ SubInv'
      BY <1>6, <2>1, <2>3, <2>8 DEF WorkerInv, SubInv, Requests, Task
    <3> QED
      BY <2>4, <3>1 DEF ControlInv
  <2> QED
    BY <1>31, <2>5, <2>6, <2>7, <2>8, WatchEndsDoes
<1>32. ASSUME NEW ts, StaleTasks(ts, tasks')
       PROVE  QueueInv'
  BY <1>32 DEF StaleTasks, QueueInv
<1>33. ASSUME ConnectionEnds
       PROVE  /\ sub' = None /\ acking' = None /\ DOMAIN frames' = {}
              /\ stream = None <=> stream' = None
              /\ stream # None => stream'.paused
  <2>1. /\ frames' = <<>> /\ sub' = None /\ acking' = None /\ (stream # None <=> stream' # None)
        /\ stream # None => stream' = [stream EXCEPT !.paused = TRUE]
    BY <1>33, EndsType
  <2>2. stream # None => stream'.paused
    BY <1>5, <2>1 DEF Streams
  <2> QED
    BY <2>1, <2>2
<1>34. CASE TaskFails
  <2>1. /\ tasks # <<>> /\ worker.pc = "failed" /\ worker'.pc = "idle"
        /\ UNCHANGED <<host, bridge, cards, losses, reads>>
    BY <1>34, TaskFailsDoes
  <2>2. CASE tasks' = Tail(tasks) /\ UNCHANGED <<sub, frames, conn, stream, acking, reader>>
    <3>1. NextTasks(tasks, tasks')
      BY <1>2, <2>1, <2>2, TailTasks
    <3>2. QueueInv'
      BY <1>1, <2>2, <3>1, QueueKeeps
    <3>3. WorkerInv' /\ SubInv'
      BY <1>1, <2>1, <2>2 DEF WorkerInv, SubInv, Requests
    <3>4. SentInv'
      BY <1>1, <2>1, <2>2, SentSame
    <3> QED
      BY <3>2, <3>3, <3>4 DEF ControlInv
  <2>3. CASE ConnectionEnds /\ tasks' = AfterLoss(Tail(tasks))
    <3>1. StaleTasks(Tail(tasks), tasks')
      BY <1>2, <2>1, <2>3, TailTasks, LossTasks DEF NextTasks
    <3>2. QueueInv'
      BY <1>32, <3>1
    <3>3. WorkerInv' /\ SubInv' /\ SentInv'
      BY <1>33, <2>1, <2>3 DEF WorkerInv, SubInv, SentInv, Requests
    <3> QED
      BY <3>2, <3>3 DEF ControlInv
  <2> QED
    BY <1>34, <2>2, <2>3, TaskFailsDoes
<1>35. CASE StartRead
  <2>1. UNCHANGED <<host, sub, frames, conn, routed, watched, stream, acking, tasks, worker>>
    BY <1>35 DEF StartRead
  <2>2. WorkerInv' /\ QueueInv' /\ SubInv'
    BY <1>1, <1>6, <1>7, <2>1 DEF SubInv
  <2>3. SentInv'
    BY <1>1, <2>1, SentSame
  <2> QED
    BY <2>2, <2>3 DEF ControlInv
<1>36. CASE ReadEnds
  <2>1. /\ tasks' = Enqueued(tasks, "ensure")
        /\ UNCHANGED <<host, sub, frames, conn, watched, stream, acking, worker>>
    BY <1>36 DEF ReadEnds
  <2>2. MoreTasks(tasks, tasks')
    BY <1>2, <2>1, EnsureTasks
  <2>3. WorkerInv' /\ QueueInv'
    BY <1>8, <1>14, <2>1, <2>2
  <2>4. worker.pc # "idle" => Head(tasks') = Head(tasks)
    BY <1>13, <2>2
  <2>5. SubInv'
    BY <1>1, <2>1, <2>4 DEF SubInv
  <2>6. SentInv'
    BY <1>1, <2>1, <2>4, SentSame
  <2> QED
    BY <2>3, <2>5, <2>6 DEF ControlInv
<1>37. ASSUME ConnectionEnds, tasks' = AfterLoss(tasks), worker' = WorkerAfterLoss
       PROVE  ControlInv'
  <2>1. worker'.pc = IF worker.pc \in {"unsubscribing", "unsubscribeAnswered"} THEN "removed"
                     ELSE IF worker.pc \in Requests THEN "failed" ELSE worker.pc
    BY <1>37, WorkerLoss
  <2>2. StaleTasks(tasks, tasks')
    BY <1>2, <1>37, LossTasks
  <2>3. worker.pc # "idle" => Head(tasks').stale
    BY <1>2, <2>2, HeadKept
  <2>4. QueueInv'
    BY <1>32, <2>2
  <2>5. SubInv'
    BY <1>33, <1>37 DEF SubInv
  <2>6. SentInv'
    BY <1>33, <1>37, <2>1, <2>3 DEF SentInv, Requests
  <2>7. WorkerInv'
    <3>1. worker'.pc \notin Requests
      BY <2>1 DEF Requests
    <3>2. worker'.pc \in {"removed", "attached"} => stream' = None
      BY <1>1, <1>33, <1>37, <2>1 DEF WorkerInv, Requests
    <3>3. worker'.pc = "subscribed" => stream'.paused
      BY <1>5, <1>33, <1>37, <2>1 DEF Requests
    <3> QED
      BY <1>33, <1>37, <3>1, <3>2, <3>3 DEF WorkerInv, Requests
  <2> QED
    BY <2>4, <2>5, <2>6, <2>7 DEF ControlInv
<1>38. CASE Drop
  BY <1>37, <1>38 DEF Drop
<1>39. CASE HostRestarts
  <2>1. CASE UNCHANGED <<sub, frames, conn, routed, stream, acking, tasks, worker, reader>>
    <3>1. WorkerInv' /\ QueueInv' /\ SubInv'
      BY <1>1, <1>6, <1>7, <2>1 DEF SubInv
    <3>2. SentInv'
      BY <1>1, <2>1, SentSame
    <3> QED
      BY <3>1, <3>2 DEF ControlInv
  <2> QED
    BY <1>37, <1>39, <2>1 DEF HostRestarts
<1>40. CASE Reconnect
  <2> DEFINE us == AllStale(tasks)
  <2>1. /\ conn = "down" /\ tasks' = Enqueued(us, "reconnect")
        /\ UNCHANGED <<host, sub, frames, routed, watched, stream, acking, worker, reader>>
    BY <1>40 DEF Reconnect
  <2>2. /\ sub = None /\ acking = None /\ frames = <<>> /\ DOMAIN frames = {}
        /\ stream # None => stream.paused
        /\ worker.pc \notin Requests
    BY <2>1 DEF TypeInv, ConnType
  <2>3. StaleTasks(tasks, us) /\ Len(us) = Len(tasks) /\ us \in Seq(Tasks)
    BY <1>2, AllStaleTasks DEF StaleTasks
  <2> HIDE DEF us
  <2>4. NewTask(us, tasks', "reconnect")
    BY <2>1, <2>3, EnqueuedTasks
  <2>5. QueueInv'
    BY <1>1, <2>1, <2>2, <2>3, <2>4, QueueKeeps DEF us
  <2>6. WorkerInv'
    BY <1>1, <1>5, <2>1, <2>2 DEF WorkerInv
  <2>7. worker.pc # "idle" => Head(tasks').stale
    <3>1. CASE tasks # <<>>
      <4>1. us # <<>> /\ us[1].stale /\ 1 \in DOMAIN us
        BY <1>2, <2>3, <3>1, HeadKept, LenProperties, EmptySeq DEF StaleTasks
      <4>2. tasks'[1] = us[1] /\ tasks' \in Seq(Tasks) /\ Len(tasks') # 0
        BY <2>4, <4>1 DEF NewTask
      <4>3. tasks' # <<>>
        BY <4>2, EmptySeq
      <4> QED
        BY <4>1, <4>2, <4>3, TailTasks
    <3> QED
      BY <1>2, <3>1
  <2>8. SentInv' /\ SubInv'
    BY <1>1, <2>1, <2>2, <2>7 DEF SentInv, SubInv
  <2> QED
    BY <2>5, <2>6, <2>8 DEF ControlInv
<1>41. CASE UNCHANGED vars
  <2>1. UNCHANGED <<sub, frames, stream, acking, tasks, worker>>
    BY <1>41 DEF vars
  <2>2. WorkerInv' /\ QueueInv' /\ SubInv'
    BY <1>1, <1>6, <1>7, <2>1 DEF SubInv
  <2>3. SentInv'
    BY <1>1, <2>1, SentSame
  <2> QED
    BY <2>2, <2>3 DEF ControlInv
<1> QED
  BY <1>10, <1>11, <1>15, <1>16, <1>17, <1>18, <1>19, <1>20, <1>21, <1>23, <1>24, <1>25, <1>26,
     <1>27, <1>28, <1>29, <1>30, <1>31, <1>34, <1>35, <1>36, <1>38, <1>39, <1>40, <1>41
     DEF Next, HostSteps, Receive, WorkerSteps


\* Once a subscription is never closed before its id is known, a stream is live only from the
\* answer that names the Host's subscription on, and until the notice of its end arrives.
LEMMA LiveKeeps ==
  ASSUME ~EarlyClose, TypeInv, ControlInv, LiveIsSubscribed, [Next]_vars
  PROVE  LiveIsSubscribed'
<1> SUFFICES ASSUME stream' # None, stream'.id # 0, ~stream'.paused, conn' # "down"
             PROVE  \/ sub' # None /\ sub'.id = stream'.id
                    \/ \E i \in DOMAIN frames' : frames'[i] = [type |-> "closed", id |-> stream'.id]
  BY DEF LiveIsSubscribed, Live
<1> USE DEF host, client
<1> DEFINE Closed(id) == [type |-> "closed", id |-> id]
           Subscribed1 == sub' # None /\ sub'.id = stream'.id
           Closing1 == \E i \in DOMAIN frames' : frames'[i] = Closed(stream'.id)
<1>1. WorkerInv /\ SubInv /\ SentInv
  BY DEF ControlInv
<1>2. stream # None => stream \in Streams
  BY DEF TypeInv, DeskType
<1>3. ASSUME stream # None, stream.id # 0, ~stream.paused, conn # "down"
      PROVE  \/ sub # None /\ sub.id = stream.id
             \/ \E i \in DOMAIN frames : frames[i] = Closed(stream.id)
  BY <1>3 DEF LiveIsSubscribed, Live
<1>4. ASSUME UNCHANGED <<stream, conn>>, sub # None => sub' # None /\ sub'.id = sub.id,
             \A i \in DOMAIN frames : i \in DOMAIN frames' /\ frames'[i] = frames[i]
      PROVE  Subscribed1 \/ Closing1
  BY <1>3, <1>4
<1>5. ASSUME UNCHANGED <<stream, conn, sub>>, Takes(frames, frames'), Head(frames).type # "closed"
      PROVE  Subscribed1 \/ Closing1
  <2>1. CASE sub # None /\ sub.id = stream.id
    BY <1>5, <2>1
  <2>2. ASSUME NEW i \in DOMAIN frames, frames[i] = Closed(stream.id)
        PROVE  Closing1
    <3>1. i # 1
      BY <1>5, <2>2 DEF Takes
    <3>2. i - 1 \in DOMAIN frames'
      BY <1>5, <3>1 DEF Takes
    <3>3. frames'[i - 1] = frames[i]
      BY <1>5, <3>1, <3>2 DEF Takes
    <3> QED
      BY <1>5, <2>2, <3>2, <3>3
  <2> QED
    BY <1>3, <1>5, <2>1, <2>2
<1>6. ASSUME NEW q \in Seq(Frames), NEW f \in Frames
      PROVE  LET r == Append(q, f)
             IN  /\ \A i \in DOMAIN q : i \in DOMAIN r /\ r[i] = q[i]
                 /\ \E i \in DOMAIN r : r[i] = f
  <2> DEFINE r == Append(q, f)
  <2>1. Adds(q, r, f)
    BY AppendAdds
  <2> HIDE DEF r
  <2>2. Len(q) + 1 \in DOMAIN r
    BY <2>1 DEF Adds
  <2>3. /\ \A i \in DOMAIN q : i \in DOMAIN r /\ r[i] = q[i]
        /\ \E i \in DOMAIN r : r[i] = f
    BY <2>1, <2>2 DEF Adds
  <2> QED
    BY <2>3 DEF r
<1>7. frames \in Seq(Frames)
  BY DEF TypeInv, LinkType
<1>8. Snapshot \in Snapshots
  BY DEF Snapshot, Snapshots, Cursor, Cursors, Pending, Promise!OpenAfter, TypeInv, HostType
<1>9. sub # None => sub \in Subscriptions
  BY DEF TypeInv, LinkType
<1>10. ASSUME NEW p \in Prompts, RequestDecision(p) \/ ResolveDecision(p)
       PROVE  Subscribed1 \/ Closing1
  <2>1. PICK event \in Events : Publish(event)
    BY <1>10 DEF RequestDecision, ResolveDecision, Events
  <2> DEFINE n == hub.sequence + 1
  <2>2. /\ n \in 1 .. MaxEvents
        /\ \/ sub = None /\ UNCHANGED <<sub, frames>>
           \/ /\ sub # None
              /\ frames' = Append(frames, Closed(sub.id))
           \/ /\ sub # None
              /\ sub' = [sub EXCEPT !.delivered = n, !.outstanding = @ + 1]
              /\ frames' = Append(frames, Event(n))
        /\ UNCHANGED <<conn, client>>
    BY <2>1, PublishDoes
  <2>3. CASE sub = None /\ UNCHANGED <<sub, frames>>
    BY <1>4, <2>2, <2>3
  <2>4. ASSUME sub # None, frames' = Append(frames, Closed(sub.id))
        PROVE  Subscribed1 \/ Closing1
    <3> DEFINE f == Closed(sub.id)
    <3>1. f \in Frames
      BY <1>9, <2>4 DEF Frames, Subscriptions
    <3> HIDE DEF f
    <3>2. /\ \A i \in DOMAIN frames : i \in DOMAIN frames' /\ frames'[i] = frames[i]
          /\ \E i \in DOMAIN frames' : frames'[i] = f
      BY <1>6, <1>7, <2>4, <3>1 DEF f
    <3>3. CASE stream.id = sub.id
      BY <2>2, <3>2, <3>3 DEF f
    <3>4. CASE stream.id # sub.id
      BY <1>3, <2>2, <3>2, <3>4
    <3> QED
      BY <3>3, <3>4
  <2>5. ASSUME sub # None, sub' = [sub EXCEPT !.delivered = n, !.outstanding = @ + 1],
               frames' = Append(frames, Event(n))
        PROVE  Subscribed1 \/ Closing1
    <3>1. Event(n) \in Frames
      BY <2>2 DEF Event, Frames
    <3>2. \A i \in DOMAIN frames : i \in DOMAIN frames' /\ frames'[i] = frames[i]
      BY <1>6, <1>7, <2>5, <3>1
    <3>3. sub'.id = sub.id /\ sub' \in Subscriptions
      <4>1. sub.outstanding + 1 \in Nat /\ n \in Seqs
        BY <1>9, <2>2, <2>5 DEF Subscriptions, Seqs
      <4> HIDE DEF n
      <4> QED
        BY <1>9, <2>5, <4>1 DEF Subscriptions
    <3> QED
      BY <1>4, <2>2, <3>2, <3>3, SomethingIsNotNone
  <2> QED
    BY <2>2, <2>3, <2>4, <2>5
<1>11. CASE HostSubscribes
  <2>1. worker.pc = "subscribing" /\ stream' = stream
    BY <1>11 DEF HostSubscribes
  <2> QED
    BY <2>1 DEF TypeInv, DeskType, Subscribing
<1>12. CASE HostUnsubscribes \/ HostAttaches \/ WatchAttaches
  <2>1. worker.pc \in {"unsubscribing", "attaching", "removed"} /\ stream' = stream
    BY <1>12 DEF HostUnsubscribes, HostAttaches, WatchAttaches
  <2> QED
    BY <1>1, <2>1 DEF WorkerInv
<1>13. CASE HostAcks
  <2> DEFINE f == [type |-> "acked", id |-> acking.id]
  <2>1. /\ acking \in Ackings
        /\ sub' = IF sub # None /\ sub.id = acking.id THEN Acked(sub, acking.sequence) ELSE sub
        /\ frames' = Append(frames, f)
        /\ UNCHANGED <<conn, stream>>
    BY <1>13 DEF HostAcks, TypeInv, LinkType
  <2>2. f \in Frames
    BY <2>1 DEF Frames, Ackings
  <2> HIDE DEF f
  <2>3. \A i \in DOMAIN frames : i \in DOMAIN frames' /\ frames'[i] = frames[i]
    BY <1>6, <1>7, <2>1, <2>2
  <2>4. sub # None => sub' # None /\ sub'.id = sub.id
    <3>1. CASE sub # None /\ sub.id = acking.id
      <4>1. sub \in Subscriptions /\ sub.delivered \in Nat /\ acking.sequence \in Nat
        BY <1>9, <2>1, <3>1, RemoteAssumption DEF Subscriptions, Ackings, Seqs
      <4>2. (IF acking.sequence >= sub.delivered THEN 0 ELSE sub.delivered - acking.sequence) \in Nat
        BY <4>1
      <4>3. sub' = [sub EXCEPT !.outstanding =
                     IF acking.sequence >= sub.delivered THEN 0 ELSE sub.delivered - acking.sequence]
        BY <2>1, <3>1 DEF Acked
      <4>4. sub' \in Subscriptions /\ sub'.id = sub.id
        BY <4>1, <4>2, <4>3 DEF Subscriptions
      <4> QED
        BY <4>4, SomethingIsNotNone
    <3> QED
      BY <2>1, <3>1
  <2> QED
    BY <1>4, <2>1, <2>3, <2>4
<1>14. CASE HostAnswersRead
  <2>1. frames' = Append(frames, [type |-> "read", snapshot |-> Snapshot]) /\ UNCHANGED <<conn, stream, sub>>
    BY <1>14 DEF HostAnswersRead
  <2>2. [type |-> "read", snapshot |-> Snapshot] \in Frames
    BY <1>8 DEF Frames
  <2>3. \A i \in DOMAIN frames : i \in DOMAIN frames' /\ frames'[i] = frames[i]
    BY <1>6, <1>7, <2>1, <2>2
  <2> QED
    BY <1>4, <2>1, <2>3
<1>15. CASE ReceiveEvent
  <2> DEFINE n == Head(frames).sequence
  <2>1. /\ frames # <<>> /\ Head(frames).type = "event" /\ frames' = Tail(frames)
        /\ TakesEvent(n)
        /\ UNCHANGED <<sub, conn>>
    BY <1>15 DEF ReceiveEvent
  <2>2. /\ Takes(frames, frames') /\ Head(frames) \in Frames
    BY <1>15, FrameTaken DEF ReceiveEvent
  <2>3. n \in 1 .. MaxEvents /\ n <= hub.sequence
    <3>1. n \in 1 .. MaxEvents
      BY <2>1, <2>2, FrameKinds
    <3>2. 1 \in DOMAIN frames /\ Head(frames) = frames[1]
      BY <2>2 DEF Takes
    <3> QED
      BY <2>1, <3>1, <3>2 DEF TypeInv, AnswerType
  <2> HIDE DEF n
  <2>4. stream # None /\ stream'.id = stream.id /\ ~stream.paused
    <3>1. stream # None
      BY <2>1 DEF TakesEvent
    <3>2. stream'.id = stream.id /\ (stream.paused => stream'.paused)
      BY <1>2, <2>1, <2>3, <3>1, TakesEventDoes DEF Streams
    <3> QED
      BY <3>1, <3>2
  <2>5. CASE sub # None /\ sub.id = stream.id
    BY <2>1, <2>4, <2>5
  <2>6. ASSUME NEW i \in DOMAIN frames, frames[i] = Closed(stream.id)
        PROVE  Closing1
    <3>1. i # 1
      BY <2>1, <2>2, <2>6 DEF Takes
    <3>2. i - 1 \in DOMAIN frames'
      BY <2>2, <3>1 DEF Takes
    <3>3. frames'[i - 1] = frames[i]
      BY <2>2, <3>1, <3>2 DEF Takes
    <3> QED
      BY <2>4, <2>6, <3>2, <3>3
  <2> QED
    BY <1>3, <2>1, <2>4, <2>5, <2>6
<1>16. CASE ReceiveClosed
  <2>1. /\ frames # <<>> /\ frames' = Tail(frames)
        /\ UNCHANGED <<sub, conn>>
        /\ stream = None \/ stream.id # Head(frames).id
        /\ stream' = stream
    <3>1. stream # None => [stream EXCEPT !.id = 0, !.paused = TRUE].id = 0
      BY <1>2 DEF Streams
    <3> QED
      BY <1>16, <3>1 DEF ReceiveClosed
  <2>2. Takes(frames, frames')
    BY <1>16, FrameTaken DEF ReceiveClosed
  <2>3. ASSUME NEW i \in DOMAIN frames, frames[i] = Closed(stream.id)
        PROVE  Closing1
    <3>1. i # 1
      BY <2>1, <2>2, <2>3 DEF Takes
    <3>2. i - 1 \in DOMAIN frames'
      BY <2>2, <3>1 DEF Takes
    <3>3. frames'[i - 1] = frames[i]
      BY <2>2, <3>1, <3>2 DEF Takes
    <3> QED
      BY <2>1, <2>3, <3>2, <3>3
  <2> QED
    BY <1>3, <2>1, <2>3
<1>17. CASE ReceiveAcked \/ ReceiveUnsubscribed \/ ReceiveAttached \/ ReceiveSubscribed \/ ReceiveRead
  <2>1. /\ frames # <<>> /\ frames' = Tail(frames) /\ Head(frames).type # "closed"
        /\ UNCHANGED <<sub, conn, stream>>
    BY <1>17 DEF ReceiveAcked, ReceiveUnsubscribed, ReceiveAttached, ReceiveSubscribed, ReceiveRead
  <2>2. Takes(frames, frames')
    BY <1>7, <2>1, TailTakes
  <2> QED
    BY <1>5, <2>1, <2>2
<1>18. CASE SendAck
  <2>1. /\ stream # None /\ stream.id # 0 /\ stream' = [stream EXCEPT !.ack = 0]
        /\ UNCHANGED <<sub, frames, conn>>
    BY <1>18 DEF SendAck
  <2>2. stream'.id = stream.id /\ stream'.paused = stream.paused
    BY <1>2, <2>1 DEF Streams
  <2> QED
    BY <1>3, <2>1, <2>2
<1>19. CASE StartTask
  <2>1. UNCHANGED <<sub, frames, stream, conn>>
    BY <1>19, StartTaskDoes
  <2> QED
    BY <1>4, <2>1
<1>20. CASE WatchRestores
  <2>1. worker.pc = "attached" /\ stream = None
    BY <1>1, <1>20 DEF WatchRestores, WorkerInv
  <2>2. stream' = stream \/ stream'.id = 0
    BY <1>20 DEF WatchRestores, NewStreamAt
  <2> QED
    BY <2>1, <2>2
<1>21. CASE WatchEnds
  <2> DEFINE id == worker.reply.id
  <2>1. /\ worker.pc = "subscribed" /\ UNCHANGED <<sub, frames>>
        /\ stream \in Streams /\ id \in SubIds \cup {0}
    BY <1>21, WatchEndsDoes DEF TypeInv, WorkerType, Workers, Replies
  <2>2. stream' # [stream EXCEPT !.paused = TRUE]
    BY <2>1 DEF Streams
  <2>3. stream # None /\ stream.id = 0
    BY <2>1 DEF TypeInv, DeskType, Subscribing
  <2>4. Task.stale => stream.paused
    BY <1>1, <2>1 DEF WorkerInv, Task
  <2>5. /\ id # 0 /\ ~Task.stale
        /\ stream' = [stream EXCEPT !.id = id]
    <3>1. stream' = [stream EXCEPT !.id = id] => stream'.paused = stream.paused
      BY <2>1 DEF Streams
    <3> QED
      BY <1>21, <2>2, <2>3, <2>4, <3>1, WatchEndsDoes
  <2>6. stream'.id = id
    BY <2>1, <2>5 DEF Streams
  <2>7. sub # None /\ sub.id = id
    BY <1>1, <2>1, <2>5 DEF SentInv, Task
  <2> QED
    BY <2>1, <2>6, <2>7
<1>22. CASE TaskFails
  <2>1. UNCHANGED <<sub, frames, stream, conn>>
    BY <1>22, TaskFailsDoes DEF ConnectionEnds
  <2> QED
    BY <1>4, <2>1
<1>23. CASE StartRead \/ ReadEnds \/ UNCHANGED vars
  <2>1. UNCHANGED <<sub, frames, stream, conn>>
    BY <1>23 DEF StartRead, ReadEnds, vars
  <2> QED
    BY <1>4, <2>1
<1>24. CASE Drop \/ HostRestarts
  <2>1. UNCHANGED <<sub, frames, stream, conn>>
    BY <1>24 DEF Drop, HostRestarts, ConnectionEnds
  <2> QED
    BY <1>4, <2>1
<1>25. CASE Reconnect
  <2>1. conn = "down" /\ stream' = stream
    BY <1>25 DEF Reconnect
  <2> QED
    BY <2>1 DEF TypeInv, ConnType
<1> QED
  BY <1>10, <1>11, <1>12, <1>13, <1>14, <1>15, <1>16, <1>17, <1>18, <1>19, <1>20, <1>21, <1>22,
     <1>23, <1>24, <1>25 DEF Next, HostSteps, Receive, WorkerSteps

-----------------------------------------------------------------------------
(* The events in flight and their acknowledgement *)

\* The sequences of the events on their way, which are in order.
Flying  == {frames[i].sequence : i \in InFlight}
Ordered == \A i, j \in InFlight : i < j => frames[i].sequence < frames[j].sequence

\* What the Host knows to be applied.
Confirmed == sub.delivered - sub.outstanding

\* The subscription has been sent all events, its window holds those in flight, and what is
\* left of a closed one fits a window.
FlowInv ==
  /\ Ordered
  /\ \E b \in Seqs : Flying \subseteq b + 1 .. b + MaxOutstanding
  /\ sub # None =>
       /\ sub.delivered = hub.sequence
       /\ sub.outstanding <= MaxOutstanding /\ sub.outstanding <= sub.delivered
       /\ \A s \in Flying : Confirmed < s

\* An acknowledgement is of events that arrived, and never takes back an earlier one.
AckInv ==
  /\ worker.pc = "subscribing" => stream.ack = 0
  /\ stream # None =>
       /\ \A s \in Flying : stream.ack < s
       /\ sub # None => stream.ack <= hub.sequence /\ (stream.ack = 0 \/ Confirmed <= stream.ack)
  /\ acking # None =>
       /\ \A s \in Flying : acking.sequence < s
       /\ sub # None => acking.sequence <= hub.sequence
                        /\ (acking.answered \/ Confirmed <= acking.sequence)
       /\ stream.ack = 0 \/ acking.sequence < stream.ack

\* The answer on its way says that the replay is complete.
Completes == \E i \in DOMAIN frames : frames[i].type = "subscribed" /\ frames[i].complete

\* The stream has what it asked for, or will have it when the answer arrives.
Whole ==
  \/ worker.pc \in {"idle", "failed"}
  \/ worker.pc = "subscribeAnswered" /\ Completes
  \/ worker.pc = "subscribed" /\ worker.reply.complete

\* What a whole stream has not taken of the events sent to it is in flight; all of them
\* were, while it is subscribed.
FlightInv ==
  stream # None /\ ~stream.paused /\ Whole =>
    /\ stream.cursor.epoch = hub.epoch
    /\ \E d \in stream.cursor.sequence .. hub.sequence :
         /\ Flying = stream.cursor.sequence + 1 .. d
         /\ sub # None => d = hub.sequence

\* The events on their way are among those published.
LEMMA FlyingType ==
  ASSUME TypeInv
  PROVE  /\ \A i \in InFlight : i \in DOMAIN frames /\ frames[i].sequence \in Flying
         /\ Flying \subseteq 1 .. hub.sequence /\ Flying \subseteq 1 .. MaxEvents
         /\ InFlight \subseteq Nat /\ hub.sequence \in 0 .. MaxEvents
<1>1. \A i \in DOMAIN frames : frames[i] \in Frames /\ i \in Nat
  BY LenProperties, ElementOfSeq DEF TypeInv, LinkType
<1>2. \A i \in InFlight : frames[i].sequence \in 1 .. MaxEvents /\ frames[i].sequence <= hub.sequence
  BY <1>1, FrameKinds DEF InFlight, TypeInv, AnswerType
<1>3. hub.sequence \in 0 .. MaxEvents
  BY DEF TypeInv, HostType, Seqs
<1> QED
  BY <1>1, <1>2, <1>3, RemoteAssumption DEF InFlight, Flying

\* They are the same as long as the frames are.
LEMMA FlyingSame ==
  ASSUME UNCHANGED frames
  PROVE  Flying' = Flying /\ Ordered' = Ordered /\ Completes' = Completes
BY DEF Flying, Ordered, InFlight, Completes

\* There are none when there are no frames.
LEMMA FlyingNone ==
  ASSUME DOMAIN frames = {}
  PROVE  Flying = {} /\ Ordered
BY DEF Flying, Ordered, InFlight

\* A frame is sent: an event, numbered behind those in flight, is one more.
LEMMA FlyingAdds ==
  ASSUME TypeInv, Ordered, NEW f, Adds(frames, frames', f),
         f.type = "event" => \A s \in Flying : s < f.sequence
  PROVE  /\ Ordered'
         /\ Flying' = IF f.type = "event" THEN Flying \cup {f.sequence} ELSE Flying
         /\ f.type # "subscribed" => Completes' = Completes
<1> DEFINE l == Len(frames) + 1
<1>1. /\ \A i \in DOMAIN frames' : i \in DOMAIN frames \/ i = l
      /\ l \in DOMAIN frames' /\ frames'[l] = f /\ l \notin DOMAIN frames
      /\ \A i \in DOMAIN frames : i \in DOMAIN frames' /\ frames'[i] = frames[i] /\ i < l /\ ~(l < i)
  BY DEF Adds
<1> HIDE DEF l
<1>2. /\ \A i \in InFlight' : \/ i \in InFlight /\ frames'[i] = frames[i]
                              \/ i = l /\ f.type = "event"
      /\ \A i \in InFlight : i \in InFlight' /\ frames'[i] = frames[i]
      /\ f.type = "event" => l \in InFlight'
  BY <1>1 DEF InFlight
<1>3. Flying' = IF f.type = "event" THEN Flying \cup {f.sequence} ELSE Flying
  <2>1. \A i \in InFlight' :
          frames'[i].sequence \in IF f.type = "event" THEN Flying \cup {f.sequence} ELSE Flying
    BY <1>1, <1>2 DEF Flying
  <2>2. /\ \A s \in Flying : s \in Flying'
        /\ f.type = "event" => f.sequence \in Flying'
    BY <1>1, <1>2 DEF Flying
  <2>3. \A s \in Flying' : s \in IF f.type = "event" THEN Flying \cup {f.sequence} ELSE Flying
    BY <2>1 DEF Flying
  <2> QED
    BY <2>2, <2>3
<1>4. ASSUME NEW i \in InFlight', NEW j \in InFlight', i < j
      PROVE  frames'[i].sequence < frames'[j].sequence
  <2>1. CASE i \in InFlight /\ j \in InFlight
    BY <1>2, <1>4, <2>1 DEF Ordered
  <2>2. CASE i \in InFlight /\ j = l /\ f.type = "event"
    <3>1. frames'[i].sequence \in Flying
      BY <1>2, <2>2 DEF Flying
    <3> QED
      BY <1>1, <2>2, <3>1
  <2>3. CASE i = l
    <3>1. j \in DOMAIN frames \/ j = l
      BY <1>1 DEF InFlight
    <3>2. ~(l < l)
      BY DEF Adds, l
    <3> QED
      BY <1>1, <1>4, <2>3, <3>1, <3>2
  <2> QED
    BY <1>2, <2>1, <2>2, <2>3
<1>5. Ordered'
  BY <1>4 DEF Ordered
<1>6. f.type # "subscribed" => Completes' = Completes
  BY <1>1 DEF Completes
<1> QED
  BY <1>3, <1>5, <1>6

\* The first frame is taken: an event is the oldest of those in flight.
LEMMA FlyingTakes ==
  ASSUME TypeInv, Ordered, Takes(frames, frames')
  PROVE  /\ Ordered'
         /\ Head(frames).type # "event" => Flying' = Flying
         /\ Head(frames).type = "event" =>
              /\ Head(frames).sequence \in Flying
              /\ Flying' = Flying \ {Head(frames).sequence}
              /\ \A s \in Flying' : Head(frames).sequence < s
         /\ Completes' => Completes
<1>1. /\ 1 \in DOMAIN frames /\ Head(frames) = frames[1]
      /\ \A i \in DOMAIN frames' :
           i + 1 \in DOMAIN frames /\ frames'[i] = frames[i + 1] /\ i \in Nat /\ 1 < i + 1
      /\ \A i \in DOMAIN frames : i \in Nat /\ (i = 1 \/ (1 < i /\ i - 1 \in DOMAIN frames'))
  BY DEF Takes
<1>2. \A i \in DOMAIN frames : i # 1 => i - 1 \in DOMAIN frames' /\ frames'[i - 1] = frames[i]
  <2> SUFFICES ASSUME NEW i \in DOMAIN frames, i # 1
               PROVE  i - 1 \in DOMAIN frames' /\ frames'[i - 1] = frames[i]
    OBVIOUS
  <2>1. i - 1 \in DOMAIN frames' /\ (i - 1) + 1 = i
    BY <1>1
  <2> QED
    BY <1>1, <2>1
<1>3. \A i \in InFlight' : i + 1 \in InFlight /\ frames'[i] = frames[i + 1] /\ i \in Nat /\ 1 < i + 1
  BY <1>1 DEF InFlight
<1>4. \A i \in InFlight : i # 1 => i - 1 \in InFlight' /\ frames'[i - 1] = frames[i]
  BY <1>2 DEF InFlight
<1>5. ASSUME NEW i \in InFlight', NEW j \in InFlight', i < j
      PROVE  frames'[i].sequence < frames'[j].sequence
  <2>1. i + 1 < j + 1
    BY <1>3, <1>5
  <2> QED
    BY <1>3, <2>1 DEF Ordered
<1>6. Ordered'
  BY <1>5 DEF Ordered
<1>7. \A s \in Flying' : s \in Flying
  BY <1>3 DEF Flying
<1>8. CASE Head(frames).type # "event"
  <2>1. 1 \notin InFlight
    BY <1>1, <1>8 DEF InFlight
  <2>2. \A s \in Flying : s \in Flying'
    BY <1>4, <2>1 DEF Flying
  <2> QED
    BY <1>6, <1>7, <1>8, <1>1, <2>2 DEF Completes
<1>9. CASE Head(frames).type = "event"
  <2>1. 1 \in InFlight
    BY <1>1, <1>9 DEF InFlight
  <2>2. \A i \in InFlight' : frames[1].sequence < frames'[i].sequence
    BY <1>3, <2>1 DEF Ordered
  <2>3. \A s \in Flying' : Head(frames).sequence < s
    BY <1>1, <2>2 DEF Flying
  <2>4. Head(frames).sequence \in Flying /\ Head(frames).sequence \in Nat
    BY <1>1, <2>1, FlyingType
  <2>5. \A s \in Flying : s = Head(frames).sequence \/ s \in Flying'
    BY <1>1, <1>4 DEF Flying
  <2>6. \A s \in Flying' : s # Head(frames).sequence
    BY <2>3, <2>4
  <2>7. Flying' = Flying \ {Head(frames).sequence}
    BY <1>7, <2>5, <2>6
  <2> QED
    BY <1>1, <1>6, <1>9, <2>3, <2>4, <2>7 DEF Completes
<1> QED
  BY <1>8, <1>9

\* A replay that ends with a refusal completes no stream.
LEMMA RefusalCompletesNone ==
  ASSUME \A i \in DOMAIN frames : frames[i].type # "subscribed", NEW from, NEW last, NEW f,
         f.type = "refused", Replays(frames, frames', from, last, f)
  PROVE  ~Completes'
<1> DEFINE n == last + 1 - from
           l == Len(frames)
<1>1. l \in Nat /\ n \in Nat
  BY DEF Replays
<1>2. /\ DOMAIN frames = 1 .. l /\ DOMAIN frames' = 1 .. l + n + 1
      /\ \A i \in DOMAIN frames : frames'[i] = frames[i]
      /\ \A i \in l + 1 .. l + n : frames'[i].type = "event"
      /\ frames'[l + n + 1] = f
  BY DEF Replays
<1> HIDE DEF n, l
<1>3. ASSUME NEW i \in DOMAIN frames'
      PROVE  frames'[i].type # "subscribed"
  <2>1. \/ i \in DOMAIN frames
        \/ i \in l + 1 .. l + n
        \/ i = l + n + 1
    BY <1>1, <1>2, ThreeParts
  <2> QED
    BY <1>2, <2>1
<1> QED
  BY <1>3 DEF Completes

\* A replay is sent when nothing is in flight.
LEMMA FlyingReplays ==
  ASSUME TypeInv, InFlight = {}, NEW from, NEW last, NEW f, f.type # "event",
         Replays(frames, frames', from, last, f)
  PROVE  Ordered' /\ Flying' = from .. last
<1> DEFINE n == last + 1 - from
           l == Len(frames)
<1>1. /\ l \in Nat /\ n \in Nat /\ from \in Nat /\ last \in Nat
      /\ DOMAIN frames = 1 .. l /\ DOMAIN frames' = 1 .. l + n + 1
      /\ \A i \in DOMAIN frames : frames'[i] = frames[i]
      /\ \A i \in l + 1 .. l + n :
           frames'[i].type = "event" /\ frames'[i].sequence = from + (i - l) - 1
      /\ frames'[l + n + 1] = f
  BY DEF Replays
<1>2. n = last + 1 - from
  OBVIOUS
<1> HIDE DEF n, l
<1>3. \A i \in DOMAIN frames' : \/ i \in DOMAIN frames
                                \/ i \in l + 1 .. l + n
                                \/ i = l + n + 1
  BY <1>1, ThreeParts
<1>4. InFlight' = l + 1 .. l + n
  <2>1. \A i \in InFlight' : i \in l + 1 .. l + n
    BY <1>1, <1>3 DEF InFlight
  <2>2. \A i \in l + 1 .. l + n : i \in DOMAIN frames'
    BY <1>1
  <2>3. \A i \in l + 1 .. l + n : i \in InFlight'
    BY <1>1, <2>2 DEF InFlight
  <2> QED
    BY <2>1, <2>3
<1>5. \A i \in InFlight' : frames'[i].sequence = from + (i - l) - 1
  BY <1>1, <1>4
<1>6. Ordered'
  <2> SUFFICES ASSUME NEW i \in InFlight', NEW j \in InFlight', i < j
               PROVE  frames'[i].sequence < frames'[j].sequence
    BY DEF Ordered
  <2>1. from + (i - l) - 1 < from + (j - l) - 1
    BY <1>1, <1>4
  <2> QED
    BY <1>5, <2>1
<1>7. \A i \in InFlight' : frames'[i].sequence \in from .. last
  <2> SUFFICES ASSUME NEW i \in InFlight' PROVE frames'[i].sequence \in from .. last
    OBVIOUS
  <2>1. from + (i - l) - 1 \in from .. last
    BY <1>1, <1>2, <1>4
  <2> QED
    BY <1>5, <2>1
<1>8. \A s \in from .. last : \E i \in InFlight' : frames'[i].sequence = s
  <2> SUFFICES ASSUME NEW s \in from .. last
               PROVE  \E i \in InFlight' : frames'[i].sequence = s
    OBVIOUS
  <2> DEFINE i == l + 1 + (s - from)
  <2>1. i \in l + 1 .. l + n /\ from + (i - l) - 1 = s
    BY <1>1, <1>2
  <2> HIDE DEF i
  <2> QED
    BY <1>4, <1>5, <2>1
<1> QED
  BY <1>6, <1>7, <1>8 DEF Flying

\* Nothing is on its way in the initial state.
LEMMA FlowInitially == Init => FlowInv /\ AckInv /\ FlightInv
<1> SUFFICES ASSUME Init PROVE FlowInv /\ AckInv /\ FlightInv
  OBVIOUS
<1>1. Flying = {} /\ Ordered /\ sub = None /\ stream = None /\ acking = None /\ worker.pc = "idle"
  BY FlyingNone DEF Init, Idle
<1>2. 0 \in Seqs
  BY RemoteAssumption DEF Seqs
<1> QED
  BY <1>1, <1>2 DEF FlowInv, AckInv, FlightInv

\* Every step keeps the numbers of the events in flight, of the window and of the
\* acknowledgements in agreement.
LEMMA FlowKeeps ==
  TypeInv /\ ControlInv /\ FlowInv /\ AckInv /\ FlightInv /\ [Next]_vars
    => FlowInv' /\ AckInv' /\ FlightInv'
<1> SUFFICES ASSUME TypeInv, ControlInv, FlowInv, AckInv, FlightInv, [Next]_vars
             PROVE  FlowInv' /\ AckInv' /\ FlightInv'
  OBVIOUS
<1> USE RemoteAssumption, OutstandingAssumption DEF host, client
<1>1. WorkerInv /\ SubInv /\ SentInv /\ Ordered
  BY DEF ControlInv, FlowInv
<1>2. /\ stream # None => stream \in Streams /\ stream.ack \in Nat /\ stream.cursor.sequence \in Nat
      /\ sub # None => /\ sub \in Subscriptions
                       /\ sub.delivered \in Nat /\ sub.outstanding \in Nat
      /\ acking # None => acking \in Ackings /\ acking.sequence \in Nat
  BY DEF TypeInv, DeskType, LinkType, Streams, Cursors, Subscriptions, Ackings, Seqs
<1>3. /\ Flying \subseteq 1 .. hub.sequence /\ Flying \subseteq 1 .. MaxEvents
      /\ hub.sequence \in 0 .. MaxEvents
  BY FlyingType
<1>4. ASSUME \/ sub' = None
             \/ sub' = sub /\ hub' = hub,
             Ordered', Flying' \subseteq Flying
      PROVE  FlowInv'
  BY <1>4 DEF FlowInv, Confirmed
<1>5. ASSUME \/ sub' = None
             \/ sub' = sub /\ hub' = hub,
             Flying' \subseteq Flying,
             acking' = acking \/ acking' = None,
             worker'.pc = "subscribing" => worker.pc = "subscribing" /\ stream' = stream,
             \/ stream' = None /\ acking' = None
             \/ stream # None /\ stream'.ack = stream.ack
             \/ stream' = stream
      PROVE  AckInv'
  <2>1. worker'.pc = "subscribing" => stream'.ack = 0
    BY <1>5 DEF AckInv
  <2>2. CASE stream' = None /\ acking' = None
    BY <2>1, <2>2 DEF AckInv
  <2>3. CASE stream # None /\ stream'.ack = stream.ack
    <3>1. /\ \A s \in Flying' : stream'.ack < s
          /\ sub' # None => /\ stream'.ack <= hub'.sequence
                            /\ stream'.ack = 0 \/ Confirmed' <= stream'.ack
      BY <1>5, <2>3 DEF AckInv, Confirmed
    <3>2. acking' # None =>
             /\ \A s \in Flying' : acking'.sequence < s
             /\ sub' # None => acking'.sequence <= hub'.sequence
                               /\ (acking'.answered \/ Confirmed' <= acking'.sequence)
             /\ stream'.ack = 0 \/ acking'.sequence < stream'.ack
      BY <1>5, <2>3 DEF AckInv, Confirmed
    <3> QED
      BY <2>1, <3>1, <3>2 DEF AckInv
  <2>4. CASE stream' = stream
    <3>1. stream # None \/ acking = None
      BY <1>1 DEF WorkerInv
    <3> QED
      BY <1>5, <2>1, <2>3, <2>4, <3>1 DEF AckInv
  <2> QED
    BY <1>5, <2>2, <2>3, <2>4
<1>6. ASSUME \/ sub' = None
             \/ sub' = sub /\ hub' = hub,
             hub'.epoch = hub.epoch, hub'.sequence \in Nat, hub.sequence <= hub'.sequence,
             Flying' = Flying,
             \/ stream' = None
             \/ stream'.paused
             \/ /\ stream # None /\ ~stream.paused /\ stream'.cursor = stream.cursor
                /\ Whole' => Whole
      PROVE  FlightInv'
  <2> SUFFICES ASSUME stream # None, ~stream.paused, stream'.cursor = stream.cursor, Whole
               PROVE  FlightInv'
    BY <1>6 DEF FlightInv
  <2>1. PICK d \in stream.cursor.sequence .. hub.sequence :
          /\ Flying = stream.cursor.sequence + 1 .. d
          /\ sub # None => d = hub.sequence
    BY DEF FlightInv
  <2>2. stream.cursor.epoch = hub.epoch
    BY DEF FlightInv
  <2>3. d \in stream'.cursor.sequence .. hub'.sequence
    BY <1>2, <1>3, <1>6, <2>1
  <2>4. /\ Flying' = stream'.cursor.sequence + 1 .. d
        /\ sub' # None => d = hub'.sequence
    BY <1>6, <2>1
  <2> QED
    BY <1>6, <2>2, <2>3, <2>4 DEF FlightInv
<1>7. ASSUME sub' = None, DOMAIN frames' = {}, acking' = None, stream' # None => stream'.paused,
             worker'.pc # "subscribing"
      PROVE  FlowInv' /\ AckInv' /\ FlightInv'
  <2>1. Flying' = {} /\ Ordered'
    BY <1>7 DEF Flying, Ordered, InFlight
  <2>2. 0 \in Seqs
    BY DEF Seqs
  <2>3. FlowInv'
    <3>1. \E b \in Seqs : Flying' \subseteq b + 1 .. b + MaxOutstanding
      BY <2>1, <2>2
    <3> QED
      BY <1>7, <2>1, <3>1 DEF FlowInv
  <2>4. AckInv'
    BY <1>7, <2>1 DEF AckInv
  <2>5. FlightInv'
    BY <1>7 DEF FlightInv
  <2> QED
    BY <2>3, <2>4, <2>5
<1>8. ASSUME worker' = worker, Completes' => Completes
      PROVE  Whole' => Whole
  BY <1>8 DEF Whole
<1>9. ASSUME hub' = hub, sub' = sub \/ sub' = None, Ordered', Flying' = Flying,
             acking' = acking \/ acking' = None,
             worker'.pc = "subscribing" => worker.pc = "subscribing",
             \/ stream' = None /\ acking' = None /\ worker'.pc # "subscribing"
             \/ stream' = stream /\ (Whole' => Whole \/ stream = None)
      PROVE  FlowInv' /\ AckInv' /\ FlightInv'
  <2>1. FlowInv'
    BY <1>4, <1>9
  <2>2. AckInv'
    BY <1>5, <1>9
  <2>3. FlightInv'
    BY <1>3, <1>6, <1>9 DEF FlightInv
  <2> QED
    BY <2>1, <2>2, <2>3
<1>10. ASSUME NEW p \in Prompts, RequestDecision(p) \/ ResolveDecision(p)
       PROVE  FlowInv' /\ AckInv' /\ FlightInv'
  <2>1. PICK event \in Events : Publish(event)
    BY <1>10 DEF RequestDecision, ResolveDecision, Events
  <2> DEFINE n == hub.sequence + 1
  <2>2. /\ n \in 1 .. MaxEvents
        /\ hub'.epoch = hub.epoch /\ hub'.sequence = n
        /\ \/ sub = None /\ UNCHANGED <<sub, frames>>
           \/ /\ sub # None /\ sub' = None
              /\ frames' = Append(frames, [type |-> "closed", id |-> sub.id])
           \/ /\ sub # None /\ sub.outstanding < MaxOutstanding
              /\ sub' = [sub EXCEPT !.delivered = n, !.outstanding = @ + 1]
              /\ frames' = Append(frames, Event(n))
        /\ UNCHANGED <<conn, client, losses, reads>>
    BY <2>1, PublishDoes
  <2>3. n \in Nat /\ hub.sequence <= n /\ hub.sequence < n
    BY <1>3
  <2>4. ASSUME sub' = None, Ordered', Flying' = Flying, Completes' = Completes
        PROVE  FlowInv' /\ AckInv' /\ FlightInv'
    <3>1. Whole' => Whole
      BY <1>8, <2>2, <2>4
    <3>2. FlowInv'
      BY <1>4, <2>4
    <3>3. AckInv'
      BY <1>5, <2>2, <2>4
    <3>4. FlightInv'
      BY <1>6, <2>2, <2>3, <2>4, <3>1 DEF FlightInv
    <3> QED
      BY <3>2, <3>3, <3>4
  <2>5. CASE sub = None /\ UNCHANGED <<sub, frames>>
    BY <1>1, <2>4, <2>5, FlyingSame
  <2>6. CASE sub # None /\ sub' = None /\ frames' = Append(frames, [type |-> "closed", id |-> sub.id])
    <3> DEFINE f == [type |-> "closed", id |-> sub.id]
    <3>1. f \in Frames /\ f.type = "closed"
      BY <1>2, <2>6 DEF Frames, Subscriptions
    <3> HIDE DEF f
    <3>2. Adds(frames, frames', f)
      BY <2>6, <3>1, AppendAdds DEF f, TypeInv, LinkType
    <3>3. Ordered' /\ Flying' = Flying /\ Completes' = Completes
      BY <1>1, <3>1, <3>2, FlyingAdds
    <3> QED
      BY <2>4, <2>6, <3>3
  <2>7. CASE /\ sub # None /\ sub.outstanding < MaxOutstanding
             /\ sub' = [sub EXCEPT !.delivered = n, !.outstanding = @ + 1]
             /\ frames' = Append(frames, Event(n))
    <3> HIDE DEF n
    <3>1. Event(n) \in Frames /\ Event(n).type = "event" /\ Event(n).sequence = n
      BY <2>2 DEF Event, Frames
    <3>2. Adds(frames, frames', Event(n))
      BY <2>7, <3>1, AppendAdds DEF TypeInv, LinkType
    <3>3. Ordered' /\ Flying' = Flying \cup {n} /\ Completes' = Completes
      <4> DEFINE f == Event(n)
      <4> HIDE DEF f
      <4>1. /\ f.type = "event" /\ f.sequence = n /\ Adds(frames, frames', f)
            /\ \A s \in Flying : s < f.sequence
        BY <1>3, <2>3, <3>1, <3>2 DEF f
      <4> QED
        BY <1>1, <4>1, FlyingAdds
    <3>4. /\ sub.outstanding + 1 \in Nat /\ n \in Seqs
          /\ sub'.delivered = n /\ sub'.outstanding = sub.outstanding + 1
      BY <1>2, <2>2, <2>7 DEF Subscriptions, Seqs
    <3>5. /\ sub.delivered = hub.sequence
          /\ sub.outstanding <= hub.sequence
          /\ \A s \in Flying : Confirmed < s
      BY <2>7 DEF FlowInv
    <3>6. Confirmed' = Confirmed /\ Confirmed = hub.sequence - sub.outstanding
      <4>1. hub.sequence \in Nat /\ sub.outstanding \in Nat
        BY <1>2, <1>3, <2>7 DEF Subscriptions
      <4>2. Confirmed = hub.sequence - sub.outstanding
        BY <3>5 DEF Confirmed
      <4>3. Confirmed' = (hub.sequence + 1) - (sub.outstanding + 1)
        BY <3>4 DEF Confirmed, n
      <4> QED
        BY <4>1, <4>2, <4>3
    <3>7. Confirmed \in Seqs /\ Confirmed < n /\ n <= Confirmed + MaxOutstanding
          /\ sub'.outstanding <= MaxOutstanding /\ sub'.outstanding <= n
      <4>1. /\ hub.sequence \in Nat /\ hub.sequence <= MaxEvents /\ MaxEvents \in Nat
            /\ sub.outstanding \in Nat /\ sub.outstanding < MaxOutstanding
            /\ MaxOutstanding \in Nat
        BY <1>2, <1>3, <2>7, RemoteAssumption, OutstandingAssumption DEF Subscriptions
      <4>2. Confirmed \in Nat /\ Confirmed <= hub.sequence
        BY <3>5, <3>6, <4>1
      <4>3. Confirmed + sub.outstanding = hub.sequence
        BY <3>6, <4>1
      <4> HIDE DEF Confirmed
      <4> QED
        BY <3>4, <3>5, <4>1, <4>2, <4>3 DEF Seqs, n
    <3>8. FlowInv'
      <4>1. \A s \in Flying' : Confirmed < s /\ s \in Nat /\ s <= n
        BY <1>3, <2>3, <3>3, <3>5, <3>7
      <4>2. Flying' \subseteq Confirmed + 1 .. Confirmed + MaxOutstanding
        BY <2>3, <3>7, <4>1 DEF Seqs
      <4>3. \E b \in Seqs : Flying' \subseteq b + 1 .. b + MaxOutstanding
        BY <3>7, <4>2
      <4> QED
        BY <2>2, <3>3, <3>4, <3>6, <3>7, <4>1, <4>3 DEF FlowInv
    <3>9. AckInv'
      <4>1. stream # None => stream.ack <= hub.sequence /\ (stream.ack = 0 \/ Confirmed <= stream.ack)
                             /\ (\A s \in Flying : stream.ack < s)
        BY <2>7 DEF AckInv
      <4>2. stream # None => /\ stream.ack <= n
                             /\ \A s \in Flying' : stream.ack < s
        BY <1>2, <1>3, <2>3, <3>3, <4>1 DEF n
      <4>3. acking # None => /\ acking.sequence <= hub.sequence
                             /\ acking.answered \/ Confirmed <= acking.sequence
                             /\ \A s \in Flying : acking.sequence < s
        BY <2>7 DEF AckInv
      <4>4. acking # None => /\ acking.sequence <= n
                             /\ \A s \in Flying' : acking.sequence < s
        BY <1>2, <1>3, <2>3, <3>3, <4>3 DEF n
      <4> QED
        BY <2>2, <3>6, <4>1, <4>2, <4>3, <4>4 DEF AckInv
    <3>10. FlightInv'
      <4> SUFFICES ASSUME stream # None, ~stream.paused, Whole' PROVE FlightInv'
        BY <2>2 DEF FlightInv
      <4>1. Whole
        BY <1>8, <2>2, <3>3
      <4>2. /\ stream.cursor.epoch = hub.epoch
            /\ hub.sequence \in stream.cursor.sequence .. hub.sequence
            /\ Flying = stream.cursor.sequence + 1 .. hub.sequence
        BY <2>7, <4>1 DEF FlightInv
      <4>3. n \in stream.cursor.sequence .. n /\ Flying' = stream.cursor.sequence + 1 .. n
        BY <1>2, <1>3, <3>3, <4>2 DEF n
      <4> QED
        BY <2>2, <4>2, <4>3 DEF FlightInv
    <3> QED
      BY <3>8, <3>9, <3>10
  <2> QED
    BY <2>2, <2>5, <2>6, <2>7
<1>11. CASE HostSubscribes
  <2>1. /\ FreshId \in SubIds /\ stream \in Streams /\ worker.pc = "subscribing"
        /\ worker' = [worker EXCEPT !.pc = "subscribeAnswered"]
        /\ UNCHANGED <<host, conn, routed, watched, stream, acking, tasks, reader, bridge,
                       cards, losses, reads>>
    BY <1>11, SubscribeDoes
  <2>2. worker'.pc = "subscribeAnswered" /\ stream # None /\ acking = None /\ stream.ack = 0
    BY <1>1, <1>2, <2>1, SomethingIsNotNone DEF TypeInv, WorkerType, Workers, WorkerInv, AckInv
  <2>3. InFlight = {}
    BY <1>1, <2>1 DEF SentInv, InFlight
  <2>4. \A i \in DOMAIN frames : frames[i].type # "subscribed"
    BY <2>1 DEF TypeInv, AnswerType
  <2>5. Flying = {}
    BY <2>3 DEF Flying
  <2>6. ASSUME Flying' \subseteq 1 .. MaxEvents,
               sub' # None => /\ sub'.delivered = hub.sequence /\ sub'.outstanding \in Nat
                              /\ sub'.outstanding <= hub.sequence
        PROVE  AckInv'
    <3>1. \A s \in Flying' : stream'.ack < s
      BY <2>1, <2>2, <2>6
    <3> QED
      BY <1>3, <2>1, <2>2, <3>1 DEF AckInv
  <2>7. CASE /\ sub' = NewSubscription(FreshId, hub.sequence)
             /\ frames' = Append(frames, Subscribed(FreshId, FALSE))
    <3> DEFINE f == Subscribed(FreshId, FALSE)
    <3>1. f \in Frames /\ f.type = "subscribed" /\ f.complete = FALSE
      BY <2>1 DEF Subscribed, Frames
    <3> HIDE DEF f
    <3>2. Adds(frames, frames', f)
      BY <2>7, <3>1, AppendAdds DEF f, TypeInv, LinkType
    <3>3. Ordered' /\ Flying' = {}
      BY <1>1, <2>5, <3>1, <3>2, FlyingAdds
    <3>4. ~Completes'
      BY <2>4, <3>1, <3>2 DEF Completes, Adds
    <3>5. sub'.delivered = hub.sequence /\ sub'.outstanding = 0
      BY <2>7 DEF NewSubscription
    <3>6. FlowInv'
      <4>1. 0 \in Seqs
        BY DEF Seqs
      <4>2. \E b \in Seqs : Flying' \subseteq b + 1 .. b + MaxOutstanding
        BY <3>3, <4>1
      <4> QED
        BY <1>3, <2>1, <3>3, <3>5, <4>2 DEF FlowInv
    <3>7. AckInv'
      BY <1>3, <2>6, <3>3, <3>5
    <3>8. FlightInv'
      BY <2>2, <3>4 DEF FlightInv, Whole
    <3> QED
      BY <3>6, <3>7, <3>8
  <2>8. stream.cursor.sequence \in 0 .. MaxEvents
    BY <2>1 DEF Streams, Cursors, Seqs
  <2>9. CASE /\ stream.cursor.sequence + MaxOutstanding < hub.sequence
             /\ sub' = None
             /\ Replays(frames, frames', stream.cursor.sequence + 1,
                        stream.cursor.sequence + MaxOutstanding, [type |-> "refused"])
    <3> DEFINE f == [type |-> "refused"]
               from == stream.cursor.sequence + 1
               last == stream.cursor.sequence + MaxOutstanding
    <3>1. f.type = "refused"
      OBVIOUS
    <3> HIDE DEF f
    <3>2. Replays(frames, frames', from, last, f)
      BY <2>9 DEF f
    <3>3. Ordered' /\ Flying' = from .. last
      <4> HIDE DEF from, last
      <4> QED
        BY <2>3, <3>1, <3>2, FlyingReplays
    <3>4. ~Completes'
      <4> HIDE DEF from, last
      <4> QED
        BY <2>4, <3>1, <3>2, RefusalCompletesNone
    <3>5. FlowInv'
      <4>1. stream.cursor.sequence \in Seqs
        BY <2>8 DEF Seqs
      <4>2. \E b \in Seqs : Flying' \subseteq b + 1 .. b + MaxOutstanding
        BY <3>3, <4>1
      <4> QED
        BY <2>9, <3>3, <4>2 DEF FlowInv
    <3>6. AckInv'
      <4>1. from .. last \subseteq 1 .. MaxEvents
        BY <1>3, <2>8, <2>9
      <4> QED
        BY <2>6, <2>9, <3>3, <4>1
    <3>7. FlightInv'
      BY <2>2, <3>4 DEF FlightInv, Whole
    <3> QED
      BY <3>5, <3>6, <3>7
  <2>10. CASE /\ stream.cursor.epoch = hub.epoch
              /\ stream.cursor.sequence <= hub.sequence
              /\ hub.sequence <= stream.cursor.sequence + MaxOutstanding
              /\ sub' = [id |-> FreshId, delivered |-> hub.sequence,
                         outstanding |-> hub.sequence - stream.cursor.sequence]
              /\ Replays(frames, frames', stream.cursor.sequence + 1, hub.sequence,
                         Subscribed(FreshId, TRUE))
    <3> DEFINE f == Subscribed(FreshId, TRUE)
               c == stream.cursor.sequence
               from == c + 1
    <3>1. f.type = "subscribed"
      BY DEF Subscribed
    <3> HIDE DEF f
    <3>2. Replays(frames, frames', from, hub.sequence, f)
      BY <2>10 DEF f
    <3>3. Ordered' /\ Flying' = from .. hub.sequence
      <4> HIDE DEF from
      <4> QED
        BY <2>3, <3>1, <3>2, FlyingReplays
    <3>4. sub'.delivered = hub.sequence /\ sub'.outstanding = hub.sequence - c
      BY <2>10
    <3>5. sub'.outstanding \in Nat /\ sub'.outstanding <= hub.sequence /\ sub'.outstanding <= MaxOutstanding
      BY <1>3, <2>8, <2>10, <3>4
    <3>6. Confirmed' = c
      BY <1>3, <2>8, <3>4 DEF Confirmed
    <3>7. FlowInv'
      <4>1. stream.cursor.sequence \in Seqs
        BY <2>8 DEF Seqs
      <4>2. \A s \in Flying' : c < s /\ s <= c + MaxOutstanding /\ s \in Nat
        BY <1>3, <2>8, <2>10, <3>3
      <4>3. \E b \in Seqs : Flying' \subseteq b + 1 .. b + MaxOutstanding
        <5>1. Flying' \subseteq c + 1 .. c + MaxOutstanding
          BY <2>8, <4>2
        <5> QED
          BY <4>1, <5>1
      <4> QED
        BY <2>1, <3>3, <3>4, <3>5, <3>6, <4>2, <4>3 DEF FlowInv
    <3>8. AckInv'
      <4>1. from .. hub.sequence \subseteq 1 .. MaxEvents
        BY <1>3, <2>8
      <4> QED
        BY <2>6, <3>3, <3>4, <3>5, <4>1
    <3>9. FlightInv'
      <4>1. hub.sequence \in c .. hub.sequence
        BY <1>3, <2>8, <2>10
      <4>2. Flying' = c + 1 .. hub.sequence
        BY <3>3
      <4> QED
        BY <2>1, <2>10, <4>1, <4>2 DEF FlightInv
    <3> QED
      BY <3>7, <3>8, <3>9
  <2> QED
    BY <1>11, <2>7, <2>9, <2>10, SubscribeDoes
<1>13. ASSUME NEW f \in Frames, frames' = Append(frames, f), f.type \notin {"event", "subscribed"}
       PROVE  Ordered' /\ Flying' = Flying /\ Completes' = Completes
  <2>1. Adds(frames, frames', f)
    BY <1>13, AppendAdds DEF TypeInv, LinkType
  <2> QED
    BY <1>1, <1>13, <2>1, FlyingAdds
<1>14. Snapshot \in Snapshots
  BY DEF Snapshot, Snapshots, Cursor, Cursors, Pending, Promise!OpenAfter, TypeInv, HostType
<1>15. CASE HostUnsubscribes
  <2> DEFINE f == [type |-> "unsubscribed"]
  <2>1. /\ worker.pc = "unsubscribing" /\ worker' = [worker EXCEPT !.pc = "unsubscribeAnswered"]
        /\ sub' = None /\ frames' = Append(frames, f)
        /\ UNCHANGED <<hub, stream, acking>>
    BY <1>15 DEF HostUnsubscribes
  <2>2. f \in Frames /\ f.type = "unsubscribed"
    BY DEF Frames
  <2> HIDE DEF f
  <2>3. Ordered' /\ Flying' = Flying
    BY <1>13, <2>1, <2>2
  <2>4. stream = None /\ worker'.pc # "subscribing"
    BY <1>1, <2>1 DEF WorkerInv, TypeInv, WorkerType, Workers
  <2> QED
    BY <1>9, <2>1, <2>3, <2>4
<1>16. CASE HostAttaches
  <2> DEFINE f == [type |-> "attached", snapshot |-> Snapshot]
  <2>1. /\ worker.pc = "attaching" /\ worker' = [worker EXCEPT !.pc = "attachAnswered"]
        /\ frames' = Append(frames, f)
        /\ UNCHANGED <<hub, sub, stream, acking>>
    BY <1>16 DEF HostAttaches
  <2>2. f \in Frames /\ f.type = "attached"
    BY <1>14 DEF Frames
  <2> HIDE DEF f
  <2>3. Ordered' /\ Flying' = Flying
    BY <1>13, <2>1, <2>2
  <2>4. stream = None /\ worker'.pc # "subscribing"
    BY <1>1, <2>1 DEF WorkerInv, TypeInv, WorkerType, Workers
  <2> QED
    BY <1>9, <2>1, <2>3, <2>4
<1>17. CASE HostAnswersRead
  <2> DEFINE f == [type |-> "read", snapshot |-> Snapshot]
  <2>1. frames' = Append(frames, f) /\ UNCHANGED <<hub, sub, stream, acking, worker>>
    BY <1>17 DEF HostAnswersRead
  <2>2. f \in Frames /\ f.type = "read"
    BY <1>14 DEF Frames
  <2> HIDE DEF f
  <2>3. Ordered' /\ Flying' = Flying /\ Completes' = Completes
    BY <1>13, <2>1, <2>2
  <2>4. Whole' => Whole
    BY <1>8, <2>1, <2>3
  <2> QED
    BY <1>9, <2>1, <2>3, <2>4
<1>18. CASE HostAcks
  <2> DEFINE f == [type |-> "acked", id |-> acking.id]
  <2>1. /\ acking # None /\ ~acking.answered
        /\ sub' = IF sub # None /\ sub.id = acking.id THEN Acked(sub, acking.sequence) ELSE sub
        /\ acking' = [acking EXCEPT !.answered = TRUE]
        /\ frames' = Append(frames, f)
        /\ UNCHANGED <<host, worker, stream, tasks>>
    BY <1>18 DEF HostAcks
  <2>2. f \in Frames /\ f.type = "acked"
    BY <1>2, <2>1 DEF Frames, Ackings
  <2> HIDE DEF f
  <2>3. Ordered' /\ Flying' = Flying /\ Completes' = Completes
    BY <1>13, <2>1, <2>2
  <2>4. acking' # None /\ acking'.sequence = acking.sequence /\ acking'.answered
    <3>1. acking' \in Ackings /\ acking'.sequence = acking.sequence /\ acking'.answered
      BY <1>2, <2>1 DEF Ackings
    <3> QED
      BY <3>1, SomethingIsNotNone
  <2>5. Whole' => Whole
    BY <1>8, <2>1, <2>3
  <2>6. CASE sub' = sub
    <3>1. FlowInv'
      BY <1>4, <2>1, <2>3, <2>6
    <3>2. AckInv'
      BY <2>1, <2>3, <2>4, <2>6 DEF AckInv, Confirmed
    <3>3. FlightInv'
      BY <1>3, <1>6, <2>1, <2>3, <2>5, <2>6 DEF FlightInv
    <3> QED
      BY <3>1, <3>2, <3>3
  <2>7. CASE sub # None /\ sub.id = acking.id
    <3>1. /\ sub.delivered = hub.sequence /\ sub.outstanding <= MaxOutstanding
          /\ sub.outstanding <= hub.sequence
          /\ acking.sequence <= hub.sequence /\ Confirmed <= acking.sequence
          /\ \A s \in Flying : acking.sequence < s
          /\ stream.ack = 0 \/ acking.sequence < stream.ack
      BY <2>1, <2>7 DEF FlowInv, AckInv
    <3> DEFINE o == IF acking.sequence >= sub.delivered THEN 0 ELSE sub.delivered - acking.sequence
    <3>2. o = hub.sequence - acking.sequence /\ o \in Nat /\ o <= MaxOutstanding /\ o <= hub.sequence
      <4>1. /\ acking.sequence \in Nat /\ sub.outstanding \in Nat /\ hub.sequence \in Nat
            /\ MaxOutstanding \in Nat
        BY <1>2, <1>3, <2>1, <2>7
      <4>2. hub.sequence - sub.outstanding <= acking.sequence
        BY <3>1 DEF Confirmed
      <4>3. o = hub.sequence - acking.sequence
        BY <3>1, <4>1
      <4> HIDE DEF o
      <4> QED
        BY <3>1, <4>1, <4>2, <4>3
    <3>3. sub' = [sub EXCEPT !.outstanding = o]
      BY <2>1, <2>7 DEF Acked
    <3> HIDE DEF o
    <3>4. sub'.delivered = hub.sequence /\ sub'.outstanding = o
      BY <1>2, <2>7, <3>1, <3>3 DEF Subscriptions
    <3>5. Confirmed' = acking.sequence
      BY <1>2, <1>3, <2>1, <3>2, <3>4 DEF Confirmed
    <3>6. FlowInv'
      BY <2>1, <2>3, <3>1, <3>2, <3>4, <3>5 DEF FlowInv
    <3>7. AckInv'
      <4>1. stream # None
        BY <1>1, <2>1 DEF WorkerInv
      <4>2. stream.ack = 0 \/ acking.sequence <= stream.ack
        BY <1>2, <2>1, <3>1, <4>1
      <4> QED
        BY <2>1, <2>3, <2>4, <2>7, <3>1, <3>5, <4>2 DEF AckInv
    <3>8. FlightInv'
      BY <2>1, <2>3, <2>5, <2>7 DEF FlightInv
    <3> QED
      BY <3>6, <3>7, <3>8
  <2> QED
    BY <2>1, <2>6, <2>7
<1>19. CASE ReceiveEvent
  <2> DEFINE n == Head(frames).sequence
  <2>1. /\ frames # <<>> /\ Head(frames).type = "event" /\ frames' = Tail(frames)
        /\ TakesEvent(n)
        /\ UNCHANGED <<host, sub, conn, routed, watched, acking, worker, reader, losses, reads>>
    BY <1>19 DEF ReceiveEvent
  <2>2. Takes(frames, frames')
    BY <2>1, FrameTaken
  <2>3. /\ Ordered' /\ n \in Flying /\ Flying' = Flying \ {n}
        /\ \A s \in Flying' : n < s
        /\ Completes' => Completes
    BY <1>1, <2>1, <2>2, FlyingTakes
  <2>4. n \in 1 .. MaxEvents /\ n <= hub.sequence /\ n \in Nat
    <3>1. n \in 1 .. hub.sequence /\ n \in 1 .. MaxEvents
      BY <1>3, <2>3
    <3> HIDE DEF n
    <3> QED
      BY <1>3, <3>1
  <2>5. worker.pc # "subscribing"
    <3>1. 1 \in DOMAIN frames /\ frames[1].type = "event"
      BY <2>1, <2>2 DEF Takes
    <3> QED
      BY <1>1, <3>1 DEF SentInv
  <2> HIDE DEF n
  <2>6. FlowInv'
    BY <1>4, <2>1, <2>3
  <2>7. CASE UNCHANGED stream /\ (stream = None \/ stream.paused)
    <3>1. AckInv'
      BY <1>5, <2>1, <2>3, <2>7
    <3> QED
      BY <2>6, <2>7, <3>1 DEF FlightInv
  <2>8. CASE stream # None /\ stream' = [stream EXCEPT !.paused = TRUE]
    <3>1. stream'.ack = stream.ack /\ stream'.paused
      BY <1>2, <2>8 DEF Streams
    <3>2. AckInv'
      BY <1>5, <2>1, <2>3, <2>5, <2>8, <3>1
    <3> QED
      BY <2>6, <3>1, <3>2 DEF FlightInv
  <2>9. CASE /\ stream # None /\ ~stream.paused /\ stream.cursor.epoch = hub.epoch
             /\ stream' = [stream EXCEPT !.ack = Larger(@, n), !.cursor.sequence = Larger(@, n)]
    <3>1. stream.ack < n
      BY <2>3, <2>9 DEF AckInv
    <3>2. Larger(stream.ack, n) = n
      BY <1>2, <2>4, <2>9, <3>1 DEF Larger
    <3>3. /\ stream'.ack = n /\ stream'.paused = stream.paused
          /\ stream'.cursor.epoch = hub.epoch
          /\ stream'.cursor.sequence = Larger(stream.cursor.sequence, n)
      BY <1>2, <2>9, <3>2 DEF Streams, Cursors
    <3>4. AckInv'
      <4>1. sub # None => Confirmed <= n
        <5>1. sub # None => Confirmed < n /\ Confirmed \in Int
          BY <1>2, <2>3 DEF FlowInv, Confirmed
        <5> QED
          BY <2>4, <5>1
      <4>2. acking # None => /\ acking.sequence < n
                             /\ \A s \in Flying' : acking.sequence < s
                             /\ sub # None => acking.sequence <= hub.sequence
                                              /\ (acking.answered \/ Confirmed <= acking.sequence)
        BY <2>3 DEF AckInv
      <4>3. Confirmed' = Confirmed
        BY <2>1 DEF Confirmed
      <4> QED
        BY <2>1, <2>3, <2>4, <2>5, <3>3, <4>1, <4>2, <4>3 DEF AckInv
    <3>5. FlightInv'
      <4> SUFFICES ASSUME Whole' PROVE FlightInv'
        BY DEF FlightInv
      <4> DEFINE c == stream.cursor.sequence
      <4>1. Whole
        BY <1>8, <2>1, <2>3
      <4>2. PICK d \in c .. hub.sequence : Flying = c + 1 .. d /\ (sub # None => d = hub.sequence)
        BY <2>9, <4>1 DEF FlightInv
      <4>3. n \in c + 1 .. d
        BY <2>3, <4>2
      <4>4. c + 1 \in Flying
        BY <1>2, <2>4, <2>9, <4>2, <4>3
      <4>5. n = c + 1
        BY <1>2, <2>3, <2>4, <2>9, <4>3, <4>4
      <4>6. Larger(c, n) = n
        BY <1>2, <2>9, <4>5 DEF Larger
      <4>7. d \in n .. hub.sequence
        BY <1>2, <1>3, <2>9, <4>2, <4>3, <4>5
      <4>8. Flying' = n + 1 .. d
        BY <1>2, <2>3, <2>9, <4>2, <4>5
      <4>9. stream'.cursor.sequence = n
        BY <3>3, <4>6
      <4> HIDE DEF c
      <4> QED
        BY <2>1, <3>3, <4>2, <4>7, <4>8, <4>9 DEF FlightInv
    <3> QED
      BY <2>6, <3>4, <3>5
  <2>10. \/ UNCHANGED stream /\ (stream = None \/ stream.paused)
         \/ stream # None /\ stream' = [stream EXCEPT !.paused = TRUE]
         \/ /\ stream # None /\ ~stream.paused /\ stream.cursor.epoch = hub.epoch
            /\ stream' = [stream EXCEPT !.ack = Larger(@, n), !.cursor.sequence = Larger(@, n)]
    <3>1. TakesEvent(n)
      BY <2>1
    <3> QED
      BY <2>4, <3>1, TakesEventDoes
  <2> QED
    BY <2>7, <2>8, <2>9, <2>10
<1>20. ASSUME frames # <<>>, frames' = Tail(frames), Head(frames).type # "event"
       PROVE  Ordered' /\ Flying' = Flying /\ (Completes' => Completes)
  <2>1. Takes(frames, frames')
    BY <1>20, TailTakes DEF TypeInv, LinkType
  <2> QED
    BY <1>1, <1>20, <2>1, FlyingTakes
<1>21. CASE ReceiveClosed
  <2>1. /\ frames # <<>> /\ Head(frames).type = "closed" /\ frames' = Tail(frames)
        /\ \/ UNCHANGED stream
           \/ stream # None /\ stream' = [stream EXCEPT !.id = 0, !.paused = TRUE]
        /\ UNCHANGED <<hub, sub, acking, worker>>
    BY <1>21 DEF ReceiveClosed
  <2>2. Ordered' /\ Flying' = Flying /\ (Completes' => Completes)
    BY <1>20, <2>1
  <2>3. CASE UNCHANGED stream
    BY <1>8, <1>9, <2>1, <2>2, <2>3
  <2>4. CASE stream # None /\ stream' = [stream EXCEPT !.id = 0, !.paused = TRUE]
    <3>1. stream'.ack = stream.ack /\ stream'.paused
      BY <1>2, <2>4 DEF Streams
    <3>2. worker.pc # "subscribing"
      <4>1. 1 \in DOMAIN frames /\ frames[1].type = "closed"
        <5>1. Takes(frames, frames')
          BY <2>1, TailTakes DEF TypeInv, LinkType
        <5> QED
          BY <2>1, <5>1 DEF Takes
      <4> QED
        BY <1>1, <4>1 DEF SentInv
    <3>3. FlowInv'
      BY <1>4, <2>1, <2>2
    <3>4. AckInv'
      BY <1>5, <2>1, <2>2, <2>4, <3>1, <3>2
    <3> QED
      BY <3>1, <3>3, <3>4 DEF FlightInv
  <2> QED
    BY <2>1, <2>3, <2>4
<1>22. CASE ReceiveAcked \/ ReceiveRead
  <2>1. /\ frames # <<>> /\ frames' = Tail(frames) /\ Head(frames).type # "event"
        /\ acking' = acking \/ acking' = None
        /\ UNCHANGED <<hub, sub, stream, worker>>
    BY <1>22 DEF ReceiveAcked, ReceiveRead
  <2> QED
    BY <1>8, <1>9, <1>20, <2>1
<1>23. CASE ReceiveUnsubscribed \/ ReceiveAttached
  <2>1. /\ frames # <<>> /\ frames' = Tail(frames) /\ Head(frames).type \in {"unsubscribed", "attached"}
        /\ UNCHANGED <<hub, sub, stream, acking>>
        /\ \/ worker' = [worker EXCEPT !.pc = "removed"]
           \/ worker' = [worker EXCEPT !.pc = "attached", !.snapshot = Head(frames).snapshot]
    BY <1>23 DEF ReceiveUnsubscribed, ReceiveAttached, Waits
  <2>2. Ordered' /\ Flying' = Flying
    BY <1>20, <2>1
  <2>3. worker'.pc \notin {"subscribing", "idle", "failed", "subscribeAnswered", "subscribed"}
    BY <2>1 DEF TypeInv, WorkerType, Workers
  <2>4. ~Whole'
    BY <2>3 DEF Whole
  <2> QED
    BY <1>9, <2>1, <2>2, <2>3, <2>4
<1>24. CASE ReceiveSubscribed
  <2> DEFINE reply == IF Head(frames).type = "refused" THEN NoReply
                      ELSE [id |-> Head(frames).id, complete |-> Head(frames).complete]
  <2>1. /\ frames # <<>> /\ Head(frames).type \in {"subscribed", "refused"} /\ frames' = Tail(frames)
        /\ worker' = [worker EXCEPT !.pc = "subscribed", !.reply = reply]
        /\ UNCHANGED <<hub, sub, stream, acking>>
    BY <1>24 DEF ReceiveSubscribed
  <2>2. Ordered' /\ Flying' = Flying
    BY <1>20, <2>1
  <2>3. 1 \in DOMAIN frames /\ Head(frames) = frames[1]
    BY <2>1, TailTakes DEF TypeInv, LinkType, Takes
  <2>4. worker.pc = "subscribeAnswered"
    BY <2>1, <2>3 DEF TypeInv, AnswerType
  <2>5. reply.complete => Completes
    BY <2>1, <2>3 DEF Completes, NoReply
  <2> HIDE DEF reply
  <2>6. worker'.pc = "subscribed" /\ worker'.reply = reply
    BY <2>1 DEF TypeInv, WorkerType, Workers
  <2>7. Whole' => Whole
    BY <2>4, <2>5, <2>6 DEF Whole
  <2> QED
    BY <1>9, <2>1, <2>2, <2>6, <2>7
<1>25. CASE SendAck
  <2>1. /\ stream # None /\ stream.id # 0 /\ stream.ack # 0
        /\ acking' = [id |-> stream.id, sequence |-> stream.ack, answered |-> FALSE]
        /\ stream' = [stream EXCEPT !.ack = 0]
        /\ UNCHANGED <<hub, sub, frames, worker>>
    BY <1>25 DEF SendAck
  <2>2. /\ stream'.ack = 0 /\ stream'.paused = stream.paused /\ stream'.cursor = stream.cursor
        /\ acking'.sequence = stream.ack
    BY <1>2, <2>1 DEF Streams
  <2>3. Ordered' /\ Flying' = Flying /\ Completes' = Completes
    BY <1>1, <2>1, FlyingSame
  <2>4. FlowInv'
    BY <1>4, <2>1, <2>3
  <2>5. AckInv'
    <3>1. \A s \in Flying : 0 < s
      BY <1>3
    <3>2. Confirmed' = Confirmed
      BY <2>1 DEF Confirmed
    <3>3. worker.pc # "subscribing"
      BY <2>1 DEF AckInv
    <3>4. /\ \A s \in Flying : stream.ack < s
          /\ sub # None => stream.ack <= hub.sequence /\ Confirmed <= stream.ack
      BY <2>1 DEF AckInv
    <3> QED
      BY <1>3, <2>1, <2>2, <2>3, <3>1, <3>2, <3>3, <3>4 DEF AckInv
  <2>6. FlightInv'
    <3>1. Whole' => Whole
      BY <1>8, <2>1, <2>3
    <3> QED
      BY <1>3, <1>6, <2>1, <2>2, <2>3, <3>1
  <2> QED
    BY <2>4, <2>5, <2>6
<1>26. ASSUME UNCHANGED frames
       PROVE  Ordered' /\ Flying' = Flying /\ Completes' = Completes
  BY <1>1, <1>26, FlyingSame
<1>27. CASE StartTask
  <2>1. /\ worker.pc = "idle" /\ UNCHANGED <<hub, sub, frames>>
        /\ worker'.pc # "subscribing"
        /\ \/ stream' = stream /\ acking' = acking
           \/ stream' = None /\ acking' = None
    BY <1>27, StartTaskDoes
  <2>2. Whole
    BY <2>1 DEF Whole
  <2> QED
    BY <1>9, <1>26, <2>1, <2>2
<1>28. CASE WatchAttaches
  <2> DEFINE pc == IF Task.stale \/ conn = "down" \/ worker.attempt > 2 THEN "failed" ELSE "attaching"
  <2>1. /\ worker.pc = "removed" /\ worker' = [worker EXCEPT !.pc = pc]
        /\ UNCHANGED <<hub, sub, frames, stream, acking>>
    BY <1>28 DEF WatchAttaches, Waits
  <2>2. pc # "subscribing"
    OBVIOUS
  <2> HIDE DEF pc
  <2>3. worker'.pc # "subscribing" /\ stream = None
    BY <1>1, <2>1, <2>2 DEF TypeInv, WorkerType, Workers, WorkerInv
  <2> QED
    BY <1>9, <1>26, <2>1, <2>3
<1>29. CASE WatchRestores
  <2>1. /\ worker.pc = "attached" /\ sub = None /\ acking = None /\ stream = None
        /\ UNCHANGED <<hub, sub, frames, acking>>
    BY <1>1, <1>29 DEF WatchRestores, SubInv, WorkerInv
  <2>2. CASE Task.stale
    <3>1. worker' = [worker EXCEPT !.pc = "failed"] /\ stream' = stream
      BY <1>29, <2>2 DEF WatchRestores, Waits
    <3>2. worker'.pc # "subscribing"
      BY <3>1 DEF TypeInv, WorkerType, Workers
    <3> QED
      BY <1>9, <1>26, <2>1, <3>1, <3>2
  <2>3. CASE ~Task.stale
    <3>1. /\ stream'.ack = 0
          /\ worker' = [worker EXCEPT !.pc = "subscribing", !.snapshot = None]
      BY <1>29, <2>3 DEF WatchRestores, NewStreamAt
    <3>2. worker'.pc = "subscribing"
      BY <3>1 DEF TypeInv, WorkerType, Workers
    <3>3. FlowInv'
      BY <1>4, <1>26, <2>1
    <3>4. AckInv'
      <4>1. Flying' = Flying
        BY <1>26, <2>1
      <4>2. \A s \in Flying : 0 < s
        BY <1>3
      <4> QED
        BY <2>1, <3>1, <4>1, <4>2 DEF AckInv
    <3>5. FlightInv'
      BY <3>2 DEF FlightInv, Whole
    <3> QED
      BY <3>3, <3>4, <3>5
  <2> QED
    BY <2>2, <2>3
<1>30. CASE WatchEnds
  <2> DEFINE id == worker.reply.id
  <2>1. /\ worker.pc = "subscribed" /\ acking = None
        /\ stream \in Streams /\ stream # None
        /\ UNCHANGED <<hub, sub, frames>>
        /\ worker'.pc # "subscribing" /\ acking' = None
    <3>1. /\ worker.pc = "subscribed" /\ stream \in Streams /\ UNCHANGED <<hub, sub, frames>>
          /\ worker'.pc # "subscribing" /\ acking' \in {acking, None}
      BY <1>30, WatchEndsDoes
    <3> QED
      BY <1>1, <3>1, SomethingIsNotNone DEF WorkerInv
  <2>2. FlowInv'
    BY <1>4, <1>26, <2>1
  <2>3. ASSUME stream'.ack = stream.ack, stream'.cursor = stream.cursor,
               \/ stream'.paused
               \/ ~stream.paused /\ Whole
        PROVE  FlowInv' /\ AckInv' /\ FlightInv'
    <3>1. AckInv'
      BY <1>5, <1>26, <2>1, <2>3
    <3>2. FlightInv'
      BY <1>3, <1>6, <1>26, <2>1, <2>3
    <3> QED
      BY <2>2, <3>1, <3>2
  <2>4. CASE stream' = [stream EXCEPT !.paused = TRUE]
    <3>1. stream'.ack = stream.ack /\ stream'.cursor = stream.cursor
      BY <2>1, <2>4 DEF Streams
    <3>2. stream'.paused
      BY <2>1, <2>4 DEF Streams
    <3> QED
      BY <2>3, <3>1, <3>2, Zenon
  <2>5. CASE Task.stale /\ (stream' = stream \/ stream' = [stream EXCEPT !.id = id])
    <3>1. stream.paused
      BY <1>1, <2>1, <2>5 DEF WorkerInv, Task
    <3>2. stream'.ack = stream.ack /\ stream'.cursor = stream.cursor
      BY <2>1, <2>5, <3>1 DEF Streams
    <3>3. stream'.paused
      BY <2>1, <2>5, <3>1 DEF Streams
    <3> QED
      BY <2>3, <3>2, <3>3, Zenon
  <2>6. CASE worker.reply.complete /\ ~stream.paused /\ stream' = [stream EXCEPT !.id = id]
    <3>1. Whole
      BY <2>1, <2>6 DEF Whole
    <3> QED
      BY <2>1, <2>3, <2>6, <3>1 DEF Streams
  <2>7. CASE stream' = None
    BY <1>9, <1>26, <2>1, <2>7
  <2> QED
    BY <1>30, <2>4, <2>5, <2>6, <2>7, WatchEndsDoes
<1>31. ASSUME ConnectionEnds, worker'.pc # "subscribing"
       PROVE  FlowInv' /\ AckInv' /\ FlightInv'
  <2>1. /\ frames' = <<>> /\ sub' = None /\ acking' = None
        /\ stream' # None => stream # None /\ stream' = [stream EXCEPT !.paused = TRUE]
    BY <1>31, EndsType
  <2>2. stream' # None => stream'.paused
    BY <1>2, <2>1 DEF Streams
  <2>3. DOMAIN frames' = {}
    BY <2>1
  <2> QED
    BY <1>7, <1>31, <2>1, <2>2, <2>3
<1>32. CASE TaskFails
  <2>1. worker.pc = "failed" /\ worker'.pc = "idle" /\ hub' = hub
    BY <1>32, TaskFailsDoes
  <2>2. CASE UNCHANGED <<sub, frames, conn, stream, acking, reader>>
    <3>1. Whole
      BY <2>1 DEF Whole
    <3> QED
      BY <1>9, <1>26, <2>1, <2>2, <3>1
  <2> QED
    BY <1>31, <1>32, <2>1, <2>2, TaskFailsDoes
<1>33. CASE StartRead \/ ReadEnds \/ UNCHANGED vars
  <2>1. UNCHANGED <<hub, sub, frames, stream, acking, worker>>
    BY <1>33 DEF StartRead, ReadEnds, vars
  <2> QED
    BY <1>8, <1>9, <1>26, <2>1
<1>34. CASE Drop
  <2>1. ConnectionEnds /\ worker' = WorkerAfterLoss
    BY <1>34 DEF Drop
  <2>2. worker'.pc # "subscribing"
    BY <2>1, WorkerLoss DEF Requests
  <2> QED
    BY <1>31, <2>1, <2>2
<1>35. ASSUME conn = "down", UNCHANGED <<sub, frames, stream, acking, worker>>
       PROVE  FlowInv' /\ AckInv' /\ FlightInv'
  <2>1. /\ sub = None /\ frames = <<>> /\ acking = None /\ (stream # None => stream.paused)
        /\ worker.pc # "subscribing"
    BY <1>35 DEF TypeInv, ConnType, Requests
  <2>2. DOMAIN frames' = {}
    BY <1>35, <2>1
  <2> QED
    BY <1>7, <1>35, <2>1, <2>2
<1>36. CASE HostRestarts
  <2>1. \/ conn = "down" /\ UNCHANGED <<sub, frames, stream, acking, worker>>
        \/ ConnectionEnds /\ worker' = WorkerAfterLoss
    BY <1>36 DEF HostRestarts
  <2>2. worker' = WorkerAfterLoss => worker'.pc # "subscribing"
    BY WorkerLoss DEF Requests
  <2> QED
    BY <1>31, <1>35, <2>1, <2>2
<1>37. CASE Reconnect
  BY <1>35, <1>37 DEF Reconnect
<1> QED
  BY <1>10, <1>11, <1>15, <1>16, <1>17, <1>18, <1>19, <1>21, <1>22, <1>23, <1>24, <1>25, <1>27,
     <1>28, <1>29, <1>30, <1>32, <1>33, <1>34, <1>36, <1>37
     DEF Next, HostSteps, Receive, WorkerSteps

-----------------------------------------------------------------------------
(* The view: cards and the moment they are of *)

\* The prompts open after the first n events of this lifetime of the Host.
OpenAt(n) == Promise!OpenAfter(History, n)

\* The bridge has come to this lifetime of the Host.
Here == bridge # None /\ bridge.epoch = hub.epoch

\* The first event about a prompt requests it, and nothing requests it again.
HistInv ==
  /\ \A i, j \in 1 .. hub.sequence :
       History[i][1] = "requested" /\ History[i][2] = History[j][2] => i <= j
  /\ \A j \in 1 .. hub.sequence :
       \E i \in 1 .. j : History[i] = <<"requested", History[j][2]>>

\* The snapshot is of a moment of this lifetime.
Sound(s) ==
  /\ s.cursor.epoch = hub.epoch /\ s.cursor.sequence <= hub.sequence
  /\ s.pending = OpenAt(s.cursor.sequence)

\* The task at the head has a snapshot that it will restore.
Restores == worker.pc = "attached" /\ ~Head(tasks).stale

\* The snapshots a watch will restore, and those a transcript read will.
Attaches ==
  {frames[i].snapshot : i \in {i \in DOMAIN frames : frames[i].type = "attached"}}
    \cup {s \in {worker.snapshot} : Restores}
Reads ==
  {frames[i].snapshot : i \in {i \in DOMAIN frames : frames[i].type = "read"}}
    \cup {s \in {reader.snapshot} : reader.pc = "read"}

\* A snapshot that will be restored is sound.
SnapInv == \A s \in Attaches \cup Reads : Sound(s)

\* The bridge never takes up a lifetime again that it left, and has seen only prompts of
\* events it has passed.
BridgeInv == bridge # None =>
  /\ bridge.epoch <= hub.epoch
  /\ \A e \in bridge.retired : e < bridge.epoch
  /\ bridge.snapshotSequence <= bridge.sequence
  /\ Here => /\ bridge.sequence <= hub.sequence
             /\ \A p \in bridge.seen : \E i \in 1 .. bridge.sequence : History[i][2] = p

\* The cards open after n events are those of the first n events only.
LEMMA OpenIs ==
  ASSUME NEW n
  PROVE  OpenAt(n) = {p \in Prompts : \E i \in 1 .. n :
                        /\ History[i] = <<"requested", p>>
                        /\ \A j \in i .. n : History[j] # <<"resolved", p>>}
  BY DEF OpenAt, Promise!OpenAfter

\* What is published later does not change what was open at a moment.
LEMMA OpenSame ==
  ASSUME NEW n \in Nat, \A i \in 1 .. n : History'[i] = History[i]
  PROVE  OpenAt(n)' = OpenAt(n)
<1>1. \A i \in 1 .. n : \A j \in i .. n : j \in 1 .. n
  OBVIOUS
<1> QED
  BY <1>1 DEF OpenAt, Promise!OpenAfter

\* One more event opens its prompt or closes it.
LEMMA OpenNext ==
  ASSUME NEW n \in Nat, History[n + 1] \in Events
  PROVE  LET event == History[n + 1]
         IN  /\ event[1] = "requested" => OpenAt(n + 1) = OpenAt(n) \cup {event[2]}
             /\ event[1] = "resolved" => OpenAt(n + 1) = OpenAt(n) \ {event[2]}
             /\ event[1] \in {"requested", "resolved"} /\ event[2] \in Prompts
<1> DEFINE event == History[n + 1]
<1>1. /\ event[1] \in {"requested", "resolved"} /\ event[2] \in Prompts
      /\ event = <<event[1], event[2]>>
  BY DEF Events
<1>2. n + 1 \in 1 .. n + 1 /\ \A i \in 1 .. n : i \in 1 .. n + 1 /\ i # n + 1
  OBVIOUS
<1>3. \A i \in 1 .. n + 1 : i = n + 1 \/ i \in 1 .. n
  OBVIOUS
<1>4. \A i \in 1 .. n : n + 1 \in i .. n + 1 /\ \A j \in i .. n + 1 : j = n + 1 \/ j \in i .. n
  OBVIOUS
<1>5. \A i \in 1 .. n : \A j \in i .. n : j \in i .. n + 1
  OBVIOUS
<1>6. \A j \in n + 1 .. n + 1 : j = n + 1
  OBVIOUS
<1> HIDE DEF event
<1>7. ASSUME NEW p \in Prompts
      PROVE  p \in OpenAt(n + 1) <=> \/ event = <<"requested", p>>
                                     \/ p \in OpenAt(n) /\ event # <<"resolved", p>>
  <2>1. ASSUME p \in OpenAt(n + 1)
        PROVE  \/ event = <<"requested", p>>
               \/ p \in OpenAt(n) /\ event # <<"resolved", p>>
    <3>1. PICK i \in 1 .. n + 1 : /\ History[i] = <<"requested", p>>
                                  /\ \A j \in i .. n + 1 : History[j] # <<"resolved", p>>
      BY <2>1, OpenIs
    <3>2. CASE i = n + 1
      BY <3>1, <3>2 DEF event
    <3>3. CASE i \in 1 .. n
      <4>1. event # <<"resolved", p>>
        BY <1>4, <3>1, <3>3 DEF event
      <4>2. \A j \in i .. n : History[j] # <<"resolved", p>>
        BY <1>5, <3>1, <3>3
      <4>3. p \in OpenAt(n)
        BY <3>1, <3>3, <4>2, OpenIs
      <4> QED
        BY <4>1, <4>3
    <3> QED
      BY <1>3, <3>2, <3>3
  <2>2. ASSUME event = <<"requested", p>>
        PROVE  p \in OpenAt(n + 1)
    <3>1. \A j \in n + 1 .. n + 1 : History[j] # <<"resolved", p>>
      BY <1>6, <2>2 DEF event
    <3> QED
      BY <1>2, <2>2, <3>1, OpenIs DEF event
  <2>3. ASSUME p \in OpenAt(n), event # <<"resolved", p>>
        PROVE  p \in OpenAt(n + 1)
    <3>1. PICK i \in 1 .. n : /\ History[i] = <<"requested", p>>
                              /\ \A j \in i .. n : History[j] # <<"resolved", p>>
      BY <2>3, OpenIs
    <3>2. \A j \in i .. n + 1 : History[j] # <<"resolved", p>>
      BY <1>4, <2>3, <3>1 DEF event
    <3> QED
      BY <1>2, <3>1, <3>2, OpenIs
  <2> QED
    BY <2>1, <2>2, <2>3
<1>8. OpenAt(n + 1) \subseteq Prompts /\ OpenAt(n) \subseteq Prompts
  BY OpenIs
<1>9. ASSUME event[1] = "requested"
      PROVE  OpenAt(n + 1) = OpenAt(n) \cup {event[2]}
  <2>1. \A p \in Prompts : /\ event = <<"requested", p>> <=> p = event[2]
                           /\ event # <<"resolved", p>>
    BY <1>1, <1>9
  <2> QED
    BY <1>1, <1>7, <1>8, <2>1
<1>10. ASSUME event[1] = "resolved"
       PROVE  OpenAt(n + 1) = OpenAt(n) \ {event[2]}
  <2>1. \A p \in Prompts : /\ event # <<"requested", p>>
                           /\ event = <<"resolved", p>> <=> p = event[2]
    BY <1>1, <1>10
  <2> QED
    BY <1>1, <1>7, <1>8, <2>1
<1> QED
  BY <1>1, <1>9, <1>10 DEF event

\* An open prompt was requested, and nothing that was resolved is open again.
LEMMA OpenOnce ==
  ASSUME TypeInv, HistInv, NEW n \in 1 .. hub.sequence, NEW m \in n .. hub.sequence,
         History[n][1] = "resolved"
  PROVE  History[n][2] \notin OpenAt(m)
<1> SUFFICES ASSUME History[n][2] \in OpenAt(m) PROVE FALSE
  OBVIOUS
<1> DEFINE p == History[n][2]
<1>1. PICK i \in 1 .. m : /\ History[i] = <<"requested", p>>
                          /\ \A j \in i .. m : History[j] # <<"resolved", p>>
  BY OpenIs
<1>2. hub.sequence \in Nat
  BY DEF TypeInv, HostType, Seqs
<1>3. i \in 1 .. hub.sequence
  BY <1>2
<1>4. i <= n
  BY <1>1, <1>3 DEF HistInv
<1>5. n \in i .. m
  BY <1>2, <1>4
<1>6. History[n] \in Events
  <2>1. hub.epoch \in 1 .. MaxEpochs /\ histories \in [1 .. MaxEpochs -> Seq(Events)]
        /\ Len(History) = hub.sequence
    BY DEF TypeInv, HostType
  <2>2. History \in Seq(Events)
    BY <2>1 DEF History
  <2> QED
    BY <2>1, <2>2, ElementOfSeq
<1>7. History[n] = <<"resolved", p>>
  BY <1>6 DEF Events
<1> QED
  BY <1>1, <1>5, <1>7

\* An open prompt has been requested.
LEMMA OpenAsked ==
  ASSUME NEW n, NEW p \in OpenAt(n)
  PROVE  \E i \in 1 .. n : History[i][2] = p
<1>1. PICK i \in 1 .. n : History[i] = <<"requested", p>>
  BY OpenIs
<1> QED
  BY <1>1

\* restoreSnapshot: a sound snapshot is taken up unless the bridge is ahead of it.
LEMMA RestoreDoes ==
  ASSUME TypeInv, BridgeInv, UNCHANGED host, NEW s \in Snapshots, Sound(s), RestoreSnapshot(s)
  PROVE  /\ BridgeInv'
         /\ \/ /\ Here /\ s.cursor.sequence < bridge.sequence
               /\ UNCHANGED <<bridge, cards>>
            \/ /\ Here => bridge.sequence <= s.cursor.sequence
               /\ Here' /\ bridge'.sequence = s.cursor.sequence
               /\ cards' = OpenAt(s.cursor.sequence)
<1> USE RemoteAssumption
<1> DEFINE n == s.cursor.sequence
           b == BridgeFor(s.cursor.epoch)
           restored == [b EXCEPT !.sequence = n, !.snapshotSequence = n, !.seen = @ \cup s.pending]
<1>1. /\ s.cursor.epoch = hub.epoch /\ n <= hub.sequence /\ s.pending = OpenAt(n)
      /\ hub.epoch \in 1 .. MaxEpochs /\ hub.sequence \in Nat /\ n \in Nat /\ n \in Seqs
      /\ hub' = hub /\ histories' = histories
  BY DEF Sound, TypeInv, HostType, Seqs, Snapshots, Cursors, host
<1>2. bridge # None => /\ bridge \in Bridges
                       /\ bridge.epoch \in 1 .. MaxEpochs /\ bridge.sequence \in Nat
                       /\ bridge.snapshotSequence \in Int
                       /\ bridge.retired \subseteq 1 .. MaxEpochs
  BY DEF TypeInv, DeskType, Bridges, Seqs
<1>3. ~Retired(s.cursor.epoch)
  <2> SUFFICES ASSUME bridge # None, hub.epoch \in bridge.retired PROVE FALSE
    BY <1>1 DEF Retired
  <2>1. hub.epoch < bridge.epoch /\ bridge.epoch <= hub.epoch
    BY DEF BridgeInv
  <2> QED
    BY <1>1, <1>2, <2>1
<1>4. CASE Here
  <2>1. b = bridge /\ bridge # None
    BY <1>1, <1>4 DEF Here, BridgeFor
  <2>2. Outdated(b, s.cursor) <=> n < bridge.sequence
    BY <1>1, <1>2, <1>4, <2>1 DEF Outdated, BridgeInv
  <2>3. CASE n < bridge.sequence
    <3>1. UNCHANGED <<bridge, cards>>
      BY <2>2, <2>3 DEF RestoreSnapshot
    <3>2. BridgeInv'
      BY <1>1, <3>1 DEF BridgeInv, Here, History
    <3> QED
      BY <1>4, <2>3, <3>1, <3>2
  <2>4. CASE ~(n < bridge.sequence)
    <3>1. bridge' = restored /\ cards' = s.pending
      BY <1>3, <2>2, <2>4 DEF RestoreSnapshot
    <3>2. /\ bridge'.epoch = bridge.epoch /\ bridge'.sequence = n
          /\ bridge'.snapshotSequence = n /\ bridge'.retired = bridge.retired
          /\ bridge'.seen = bridge.seen \cup s.pending
      BY <1>1, <1>2, <2>1, <3>1 DEF Bridges
    <3>3. restored \in Bridges
      <4>1. s.pending \subseteq Prompts
        BY DEF Snapshots
      <4> QED
        BY <1>1, <1>2, <2>1, <4>1 DEF Bridges
    <3>4. Here'
      BY <1>1, <1>4, <3>1, <3>2, <3>3, SomethingIsNotNone DEF Here
    <3>5. \A p \in bridge.seen \cup s.pending : \E i \in 1 .. n : History[i][2] = p
      <4>1. \A p \in bridge.seen : \E i \in 1 .. bridge.sequence : History[i][2] = p
        BY <1>4 DEF BridgeInv, Here
      <4>2. \A i \in 1 .. bridge.sequence : i \in 1 .. n
        BY <1>1, <1>2, <2>1, <2>4
      <4> QED
        BY <1>1, <4>1, <4>2, OpenAsked
    <3>6. BridgeInv'
      BY <1>1, <1>4, <3>2, <3>4, <3>5 DEF BridgeInv, Here, History
    <3>7. bridge.sequence <= n
      BY <1>1, <1>2, <2>1, <2>4
    <3> QED
      BY <1>1, <3>1, <3>2, <3>4, <3>6, <3>7
  <2> QED
    BY <2>3, <2>4
<1>5. CASE ~Here
  <2>1. PICK retired \in SUBSET (1 .. MaxEpochs) :
          /\ b = NewBridge(hub.epoch, retired)
          /\ \A e \in retired : e < hub.epoch
    <3>1. CASE bridge = None
      BY <1>1, <3>1 DEF BridgeFor
    <3>2. CASE bridge # None
      <4>1. b = NewBridge(hub.epoch, bridge.retired \cup {bridge.epoch})
        BY <1>1, <1>5, <3>2 DEF BridgeFor, Here
      <4>2. /\ bridge.epoch # hub.epoch /\ bridge.epoch <= hub.epoch
            /\ \A e \in bridge.retired : e < bridge.epoch /\ e \in 1 .. MaxEpochs
        BY <1>2, <1>5, <3>2 DEF BridgeInv, Here
      <4>3. \A e \in bridge.retired \cup {bridge.epoch} : e < hub.epoch
        BY <1>1, <1>2, <3>2, <4>2
      <4> QED
        BY <1>2, <3>2, <4>1, <4>3
    <3> QED
      BY <3>1, <3>2
  <2> HIDE DEF b
  <2>2. ~Outdated(b, s.cursor)
    BY <1>1, <2>1 DEF Outdated, NewBridge
  <2>3. bridge' = restored /\ cards' = s.pending
    BY <1>3, <2>2 DEF RestoreSnapshot, b
  <2>4. /\ bridge'.epoch = hub.epoch /\ bridge'.sequence = n
        /\ bridge'.snapshotSequence = n /\ bridge'.retired = retired
        /\ bridge'.seen = s.pending
    BY <1>1, <2>1, <2>3 DEF NewBridge
  <2>5. restored \in Bridges
    <3>1. s.pending \subseteq Prompts
      BY DEF Snapshots
    <3> QED
      BY <1>1, <2>1, <3>1 DEF Bridges, NewBridge
  <2>6. Here'
    BY <1>1, <2>3, <2>4, <2>5, SomethingIsNotNone DEF Here
  <2>7. \A p \in s.pending : \E i \in 1 .. n : History[i][2] = p
    BY <1>1, OpenAsked
  <2>8. BridgeInv'
    <3>1. /\ bridge'.epoch <= hub'.epoch
          /\ \A e \in bridge'.retired : e < bridge'.epoch
          /\ bridge'.snapshotSequence <= bridge'.sequence
          /\ bridge'.sequence <= hub'.sequence
      <4>1. hub.epoch <= hub.epoch /\ n <= n
        BY <1>1
      <4>2. bridge'.epoch <= hub'.epoch /\ bridge'.snapshotSequence <= bridge'.sequence
        BY <1>1, <2>4, <4>1
      <4>3. \A e \in bridge'.retired : e < bridge'.epoch
        BY <2>1, <2>4
      <4> QED
        BY <1>1, <2>4, <4>2, <4>3
    <3>2. History' = History
      BY <1>1 DEF History
    <3>3. \A p \in bridge'.seen : \E i \in 1 .. bridge'.sequence : History'[i][2] = p
      BY <2>4, <2>7, <3>2
    <3> QED
      BY <3>1, <3>3 DEF BridgeInv
  <2> QED
    BY <1>1, <1>5, <2>3, <2>4, <2>6, <2>8
<1> QED
  BY <1>4, <1>5

\* handleSessionScope: the bridge moves on to the event; a prompt it has seen is shown
\* again by nobody but a snapshot.
LEMMA HandlesDoes ==
  ASSUME TypeInv, BridgeInv, UNCHANGED host, NEW n \in 1 .. hub.sequence, History[n] \in Events,
         BridgeHandles(History[n], n)
  PROVE  LET event == History[n]
             p     == History[n][2]
         IN  /\ BridgeInv' /\ Here'
             /\ Here => bridge'.sequence = Larger(n, bridge.sequence)
             /\ ~Here => bridge'.sequence = n
             /\ event[1] = "resolved" => cards' = cards \ {p}
             /\ event[1] = "requested" => cards' = cards \/ cards' = cards \cup {p}
             /\ event[1] = "requested" /\ Here /\ p \notin bridge.seen => cards' = cards \cup {p}
<1> USE RemoteAssumption
<1> DEFINE event == History[n]
           p     == History[n][2]
           b     == BridgeFor(hub.epoch)
           moved == [b EXCEPT !.sequence = IF n > @ THEN n ELSE @, !.seen = @ \cup {p}]
<1>1. /\ hub.epoch \in 1 .. MaxEpochs /\ hub.sequence \in Nat /\ n \in Nat /\ n \in Seqs
      /\ hub' = hub /\ histories' = histories
      /\ p \in Prompts /\ event[1] \in {"requested", "resolved"}
  BY DEF TypeInv, HostType, Seqs, host, Events
<1>2. bridge # None => /\ bridge \in Bridges
                       /\ bridge.epoch \in 1 .. MaxEpochs /\ bridge.sequence \in Nat
                       /\ bridge.snapshotSequence \in Int
                       /\ bridge.retired \subseteq 1 .. MaxEpochs
  BY DEF TypeInv, DeskType, Bridges, Seqs
<1>3. PICK b0 \in Bridges :
        /\ b = b0 /\ b0.epoch = hub.epoch
        /\ \A e \in b0.retired : e < hub.epoch
        /\ b0.snapshotSequence <= b0.sequence /\ b0.sequence <= hub.sequence
        /\ \A q \in b0.seen : \E i \in 1 .. b0.sequence : History[i][2] = q
        /\ Here => b0 = bridge
        /\ ~Here => b0.sequence = 0
  <2>1. CASE Here
    <3>1. b = bridge /\ bridge \in Bridges
      BY <1>1, <1>2, <2>1 DEF Here, BridgeFor
    <3> QED
      BY <1>1, <2>1, <3>1 DEF BridgeInv, Here
  <2>2. CASE ~Here /\ bridge = None
    <3>1. b = NewBridge(hub.epoch, {})
      BY <1>1, <2>2 DEF BridgeFor
    <3>2. NewBridge(hub.epoch, {}) \in Bridges
      BY <1>1 DEF Bridges, NewBridge, Seqs
    <3> QED
      BY <1>1, <2>2, <3>1, <3>2 DEF NewBridge
  <2>3. CASE ~Here /\ bridge # None
    <3>1. b = NewBridge(hub.epoch, bridge.retired \cup {bridge.epoch})
      BY <1>1, <2>3 DEF BridgeFor, Here
    <3>2. NewBridge(hub.epoch, bridge.retired \cup {bridge.epoch}) \in Bridges
      BY <1>1, <1>2, <2>3 DEF Bridges, NewBridge, Seqs
    <3>3. /\ bridge.epoch # hub.epoch /\ bridge.epoch <= hub.epoch
          /\ \A e \in bridge.retired : e < bridge.epoch /\ e \in 1 .. MaxEpochs
      BY <1>2, <2>3 DEF BridgeInv, Here
    <3>4. \A e \in bridge.retired \cup {bridge.epoch} : e < hub.epoch
      BY <1>1, <1>2, <2>3, <3>3
    <3> QED
      BY <1>1, <2>3, <3>1, <3>2, <3>4 DEF NewBridge
  <2> QED
    BY <2>1, <2>2, <2>3
<1>4. bridge' = moved
  BY DEF BridgeHandles
<1>5. b0.sequence \in Nat /\ b0.snapshotSequence \in Int
  BY <1>3 DEF Bridges, Seqs
<1>6. /\ bridge'.epoch = hub.epoch /\ bridge'.sequence = Larger(n, b0.sequence)
      /\ bridge'.snapshotSequence = b0.snapshotSequence /\ bridge'.retired = b0.retired
      /\ bridge'.seen = b0.seen \cup {p}
  BY <1>3, <1>4 DEF Bridges, Larger
<1>7. Here'
  <2>1. bridge' \in Bridges
    BY <1>1, HandlesType
  <2> QED
    BY <1>1, <1>6, <2>1, SomethingIsNotNone DEF Here
<1>8. /\ Larger(n, b0.sequence) \in Nat /\ Larger(n, b0.sequence) <= hub.sequence
      /\ b0.sequence <= Larger(n, b0.sequence) /\ n <= Larger(n, b0.sequence)
      /\ b0.snapshotSequence <= Larger(n, b0.sequence)
  BY <1>1, <1>3, <1>5 DEF Larger
<1>9. \A q \in b0.seen \cup {p} : \E i \in 1 .. Larger(n, b0.sequence) : History[i][2] = q
  <2>1. \A i \in 1 .. b0.sequence : i \in 1 .. Larger(n, b0.sequence)
    BY <1>5, <1>8
  <2>2. n \in 1 .. Larger(n, b0.sequence)
    BY <1>1, <1>8
  <2> QED
    BY <1>3, <2>1, <2>2
<1>10. BridgeInv'
  BY <1>1, <1>3, <1>6, <1>7, <1>8, <1>9 DEF BridgeInv, Here, History
<1>11. /\ event[1] = "resolved" => cards' = cards \ {p}
       /\ event[1] = "requested" => cards' = IF p \notin b0.seen THEN cards \cup {p} ELSE cards
  BY <1>3 DEF BridgeHandles
<1>12. Here => bridge'.sequence = Larger(n, bridge.sequence)
  BY <1>3, <1>6
<1>13. ~Here => bridge'.sequence = n
  BY <1>1, <1>3, <1>6 DEF Larger
<1> QED
  BY <1>3, <1>7, <1>10, <1>11, <1>12, <1>13

\* The moments the desktop has come to, or has been told of by a read that arrived.
Past == {m \in Seqs : \/ Here /\ m = bridge.sequence
                      \/ reader.pc = "read" /\ m = reader.snapshot.cursor.sequence}

\* Those it will have been told of when the i-th frame arrives.
Moments(i) ==
  Past \cup {frames[k].snapshot.cursor.sequence :
               k \in {k \in DOMAIN frames : k < i /\ frames[k].type = "read"}}

\* The event is of a replay whose answer is behind it.
Announced(i) == \E k \in DOMAIN frames : i < k /\ frames[k].type \in {"subscribed", "refused"}

\* An event that is pushed is news when it arrives, and a replay goes on to the latest
\* moment known then.
FreshInv ==
  /\ \A i \in InFlight : ~Announced(i) => \A m \in Moments(i) : m < frames[i].sequence
  /\ Completes => \A i \in InFlight :
       Announced(i) => \E s \in Flying : \A m \in Moments(i) : m <= s

\* A frame is sent behind the others that announces nothing; an event is news.
LEMMA FreshAdds ==
  ASSUME TypeInv, FreshInv, NEW f, Adds(frames, frames', f),
         f.type \notin {"subscribed", "refused"}, Past' \subseteq Past,
         f.type = "event" =>
           /\ \A m \in Past : m < f.sequence
           /\ \A k \in DOMAIN frames :
                frames[k].type = "read" => frames[k].snapshot.cursor.sequence < f.sequence
  PROVE  FreshInv'
<1>0. PICK l : l = Len(frames) + 1
  OBVIOUS
<1>1. /\ \A i \in DOMAIN frames' : i \in DOMAIN frames \/ i = l
      /\ l \in DOMAIN frames' /\ frames'[l] = f /\ l \notin DOMAIN frames
      /\ \A i \in DOMAIN frames : /\ i \in DOMAIN frames' /\ frames'[i] = frames[i]
                                  /\ i < l /\ ~(l < i)
      /\ ~(l < l)
  BY <1>0 DEF Adds
<1>2. \A i \in InFlight' : \/ i \in InFlight /\ frames'[i] = frames[i]
                           \/ i = l /\ f.type = "event"
  BY <1>1 DEF InFlight
<1>3. Flying \subseteq Flying' /\ (Completes' => Completes)
  BY <1>1 DEF Flying, InFlight, Completes
<1>4. ASSUME NEW i \in InFlight
      PROVE  /\ Announced(i)' <=> Announced(i)
             /\ \A m \in Moments(i)' : m \in Moments(i)
  <2>1. Announced(i)' <=> Announced(i)
    BY <1>1 DEF Announced
  <2>2. i \in DOMAIN frames
    BY DEF InFlight
  <2> QED
    BY <1>1, <2>1, <2>2 DEF Moments
<1>5. ASSUME f.type = "event"
      PROVE  /\ ~Announced(l)'
             /\ \A m \in Moments(l)' : m < f.sequence
  <2>1. ~Announced(l)'
    BY <1>1 DEF Announced
  <2>2. \A m \in Moments(l)' : m < f.sequence
    BY <1>1, <1>5 DEF Moments
  <2> QED
    BY <2>1, <2>2
<1>6. \A i \in InFlight' : ~Announced(i)' => \A m \in Moments(i)' : m < frames'[i].sequence
  BY <1>1, <1>2, <1>4, <1>5 DEF FreshInv
<1>7. Completes' => \A i \in InFlight' :
        Announced(i)' => \E s \in Flying' : \A m \in Moments(i)' : m <= s
  BY <1>2, <1>3, <1>4, <1>5 DEF FreshInv
<1> QED
  BY <1>6, <1>7 DEF FreshInv

\* The first frame arrives, and the desktop comes no further than it says.
LEMMA FreshTakes ==
  ASSUME TypeInv, Ordered, FreshInv, Takes(frames, frames'),
         \A m \in Past' :
           \/ m \in Past
           \/ Head(frames).type = "event" /\ m = Head(frames).sequence
           \/ Head(frames).type = "read" /\ m = Head(frames).snapshot.cursor.sequence
  PROVE  FreshInv'
<1>1. /\ 1 \in DOMAIN frames /\ Head(frames) = frames[1]
      /\ \A i \in DOMAIN frames' : /\ i + 1 \in DOMAIN frames /\ frames'[i] = frames[i + 1]
                                   /\ i \in Nat /\ 1 < i + 1
      /\ \A i \in DOMAIN frames : i \in Nat /\ (i = 1 \/ (1 < i /\ i - 1 \in DOMAIN frames'))
  BY DEF Takes
<1>2. \A i \in InFlight' : i + 1 \in InFlight /\ frames'[i] = frames[i + 1] /\ i \in Nat /\ 1 < i + 1
  BY <1>1 DEF InFlight
<1>3. /\ Completes' => Completes
      /\ Head(frames).type # "event" => Flying' = Flying
      /\ Head(frames).type = "event" =>
           /\ Head(frames).sequence \in Flying
           /\ Flying' = Flying \ {Head(frames).sequence}
           /\ \A s \in Flying' : Head(frames).sequence < s
  BY FlyingTakes
<1>4. ASSUME NEW i \in InFlight'
      PROVE  Announced(i)' <=> Announced(i + 1)
  <2>1. ASSUME NEW k \in DOMAIN frames', i < k
        PROVE  k + 1 \in DOMAIN frames /\ i + 1 < k + 1 /\ frames'[k] = frames[k + 1]
    BY <1>1, <1>2, <2>1
  <2>2. ASSUME NEW k \in DOMAIN frames, i + 1 < k
        PROVE  k - 1 \in DOMAIN frames' /\ i < k - 1 /\ frames'[k - 1] = frames[k]
    <3>1. k - 1 \in DOMAIN frames' /\ (k - 1) + 1 = k /\ i < k - 1
      BY <1>1, <1>2, <2>2
    <3> QED
      BY <1>1, <3>1
  <2> QED
    BY <2>1, <2>2 DEF Announced
<1>5. ASSUME NEW i \in InFlight', NEW m \in Moments(i)'
      PROVE  \/ m \in Moments(i + 1)
             \/ Head(frames).type = "event" /\ m = Head(frames).sequence
  <2>1. CASE m \in Past'
    <3>1. Head(frames).type = "read" /\ m = Head(frames).snapshot.cursor.sequence
            => m \in Moments(i + 1)
      BY <1>1, <1>2 DEF Moments
    <3> QED
      BY <2>1, <3>1 DEF Moments
  <2>2. CASE m \notin Past'
    <3>1. PICK k \in DOMAIN frames' : /\ k < i /\ frames'[k].type = "read"
                                      /\ m = frames'[k].snapshot.cursor.sequence
      BY <1>5, <2>2 DEF Moments
    <3>2. k + 1 \in DOMAIN frames /\ k + 1 < i + 1 /\ frames'[k] = frames[k + 1]
      BY <1>1, <1>2, <3>1
    <3> QED
      BY <3>1, <3>2 DEF Moments
  <2> QED
    BY <2>1, <2>2
<1>6. ASSUME NEW i \in InFlight', Head(frames).type = "event"
      PROVE  Head(frames).sequence < frames'[i].sequence
  <2>1. frames'[i].sequence \in Flying'
    BY DEF Flying
  <2> QED
    BY <1>3, <1>6, <2>1
<1>7. ASSUME NEW i \in InFlight', ~Announced(i)', NEW m \in Moments(i)'
      PROVE  m < frames'[i].sequence
  BY <1>2, <1>4, <1>5, <1>6, <1>7 DEF FreshInv
<1>8. ASSUME Completes', NEW i \in InFlight', Announced(i)'
      PROVE  \E s \in Flying' : \A m \in Moments(i)' : m <= s
  <2>1. PICK s \in Flying : \A m \in Moments(i + 1) : m <= s
    BY <1>2, <1>3, <1>4, <1>8 DEF FreshInv
  <2>2. frames'[i].sequence \in Flying'
    BY DEF Flying
  <2>3. CASE Head(frames).type # "event"
    BY <1>3, <1>5, <2>1, <2>3
  <2>4. CASE Head(frames).type = "event" /\ s # Head(frames).sequence
    <3>1. s \in Flying' /\ Head(frames).sequence < s
      BY <1>3, <2>1, <2>4
    <3>2. s \in Nat /\ Head(frames).sequence \in Nat
      BY <1>3, <2>1, <2>4, FlyingType
    <3>3. \A m \in Moments(i)' : m <= s
      BY <1>5, <2>1, <3>1, <3>2
    <3> QED
      BY <3>1, <3>3
  <2>5. CASE Head(frames).type = "event" /\ s = Head(frames).sequence
    <3>1. s < frames'[i].sequence
      BY <1>6, <2>5
    <3>2. s \in Nat /\ frames'[i].sequence \in Nat
      BY <1>3, <2>1, <2>2, <2>5, FlyingType
    <3>3. \A m \in Moments(i)' : m = s \/ m \in Moments(i + 1)
      BY <1>5, <2>5
    <3>4. \A m \in Moments(i + 1) : m \in Nat
      <4>1. \A k \in DOMAIN frames : frames[k].type = "read" =>
              frames[k].snapshot.cursor.sequence \in Nat
        <5>1. \A k \in DOMAIN frames : frames[k] \in Frames
          BY ElementOfSeq, LenProperties DEF TypeInv, LinkType
        <5> QED
          BY <5>1, FrameKinds DEF Snapshots, Cursors, Seqs
      <4> QED
        BY <4>1 DEF Moments, Past, Seqs
    <3>5. \A m \in Moments(i)' : m <= frames'[i].sequence
      BY <2>1, <3>1, <3>2, <3>3, <3>4
    <3> QED
      BY <2>2, <3>5
  <2> QED
    BY <2>3, <2>4, <2>5
<1> QED
  BY <1>7, <1>8 DEF FreshInv

\* A replay is announced as a whole.
LEMMA FreshReplays ==
  ASSUME TypeInv, InFlight = {}, NEW from, NEW last, NEW f, f.type \in {"subscribed", "refused"},
         Replays(frames, frames', from, last, f),
         Completes' => /\ \A m \in Past' : m <= last
                       /\ \A k \in DOMAIN frames :
                            frames[k].type = "read" => frames[k].snapshot.cursor.sequence <= last
  PROVE  FreshInv'
<1> DEFINE n == last + 1 - from
           l == Len(frames)
<1>1. /\ l \in Nat /\ n \in Nat /\ from \in Nat /\ last \in Nat
      /\ DOMAIN frames = 1 .. l /\ DOMAIN frames' = 1 .. l + n + 1
      /\ \A i \in DOMAIN frames : frames'[i] = frames[i]
      /\ \A i \in l + 1 .. l + n :
           frames'[i].type = "event" /\ frames'[i].sequence = from + (i - l) - 1
      /\ frames'[l + n + 1] = f
  BY DEF Replays
<1>2. n = last + 1 - from
  OBVIOUS
<1> HIDE DEF n, l
<1>3. \A i \in DOMAIN frames' : \/ i \in DOMAIN frames
                                \/ i \in l + 1 .. l + n
                                \/ i = l + n + 1
  BY <1>1, ThreeParts
<1>4. \A i \in InFlight' : i \in l + 1 .. l + n
  BY <1>1, <1>3 DEF InFlight
<1>5. \A i \in InFlight' : Announced(i)'
  <2>1. \A i \in InFlight' : i < l + n + 1 /\ l + n + 1 \in DOMAIN frames'
    BY <1>1, <1>4
  <2> QED
    BY <1>1, <2>1 DEF Announced
<1>6. ASSUME Completes', NEW i \in InFlight'
      PROVE  \E s \in Flying' : \A m \in Moments(i)' : m <= s
  <2>1. from <= last
    BY <1>1, <1>2, <1>4
  <2>2. last \in Flying'
    <3>1. Flying' = from .. last
      BY FlyingReplays
    <3> QED
      BY <1>1, <2>1, <3>1
  <2>3. \A k \in DOMAIN frames' : k < i /\ frames'[k].type = "read" =>
          k \in DOMAIN frames /\ frames'[k] = frames[k]
    <3>1. ~(l + n + 1 < i)
      BY <1>1, <1>4
    <3> QED
      BY <1>1, <1>3, <3>1
  <2>4. \A m \in Moments(i)' : m <= last
    BY <1>6, <2>3 DEF Moments
  <2> QED
    BY <2>2, <2>4
<1> QED
  BY <1>5, <1>6 DEF FreshInv

\* The stream is not paused.
Follows == stream # None /\ ~stream.paused

\* The stream waits for the replay of what its snapshot does not have, and gets it all.
Catching ==
  \/ worker.pc = "subscribing"
  \/ worker.pc = "subscribeAnswered" /\ Completes

\* It has the replay.
Caught ==
  \/ worker.pc \in {"idle", "failed"}
  \/ worker.pc = "subscribed" /\ worker.reply.complete

\* While the stream catches up with a bridge that is ahead of it, cards that were resolved
\* may come back: the bridge's moment is then one of those the replay still goes through.
CatchInv == Follows /\ Catching =>
  /\ Here /\ stream.cursor.sequence <= bridge.sequence
  /\ OpenAt(bridge.sequence) \subseteq cards
  /\ cards \subseteq OpenAt(bridge.sequence) \cup OpenAt(stream.cursor.sequence)
  /\ \/ worker.pc = "subscribing"
     \/ cards = OpenAt(bridge.sequence)
     \/ bridge.sequence \in Flying

\* A stream that has caught up shows the cards of the bridge's moment.
StepInv == Follows /\ Caught =>
  /\ Here /\ stream.cursor.sequence <= bridge.sequence
  /\ cards = OpenAt(bridge.sequence)

\* Where a watch's snapshot would not be restored, the cards are right already.
AttachInv == Here =>
  \A s \in Attaches : s.cursor.sequence < bridge.sequence => cards = OpenAt(bridge.sequence)

ViewInv == HistInv /\ SnapInv /\ BridgeInv /\ FreshInv /\ CatchInv /\ StepInv /\ AttachInv

\* What has arrived is told to nobody else.
LEMMA SnapsKeep ==
  ASSUME \A i \in DOMAIN frames' :
           frames'[i].type \in {"attached", "read"} => \E k \in DOMAIN frames : frames[k] = frames'[i],
         Restores' => worker'.snapshot \in Attaches,
         reader'.pc = "read" => reader'.snapshot \in Reads
  PROVE  Attaches' \subseteq Attaches /\ Reads' \subseteq Reads
<1>1. ASSUME NEW s \in Attaches'
      PROVE  s \in Attaches
  <2>1. CASE Restores' /\ s = worker'.snapshot
    BY <2>1
  <2>2. CASE \E i \in DOMAIN frames' : frames'[i].type = "attached" /\ s = frames'[i].snapshot
    BY <2>2 DEF Attaches
  <2> QED
    BY <1>1, <2>1, <2>2 DEF Attaches
<1>2. ASSUME NEW s \in Reads'
      PROVE  s \in Reads
  <2>1. CASE reader'.pc = "read" /\ s = reader'.snapshot
    BY <2>1
  <2>2. CASE \E i \in DOMAIN frames' : frames'[i].type = "read" /\ s = frames'[i].snapshot
    BY <2>2 DEF Reads
  <2> QED
    BY <1>2, <2>1, <2>2 DEF Reads
<1> QED
  BY <1>1, <1>2

\* A snapshot is sent.
LEMMA SnapsAdd ==
  ASSUME NEW f, Adds(frames, frames', f),
         Restores' => worker'.snapshot \in Attaches,
         reader'.pc = "read" => reader'.snapshot \in Reads
  PROVE  \A s \in (Attaches' \ Attaches) \cup (Reads' \ Reads) :
           f.type \in {"attached", "read"} /\ s = f.snapshot
<1>1. \A i \in DOMAIN frames' : \/ i \in DOMAIN frames /\ frames'[i] = frames[i]
                                \/ frames'[i] = f
  BY DEF Adds
<1>2. ASSUME NEW s \in Attaches', s \notin Attaches
      PROVE  f.type = "attached" /\ s = f.snapshot
  BY <1>1, <1>2 DEF Attaches
<1>3. ASSUME NEW s \in Reads', s \notin Reads
      PROVE  f.type = "read" /\ s = f.snapshot
  BY <1>1, <1>3 DEF Reads
<1> QED
  BY <1>2, <1>3

\* Nothing the desktop knows of changed, and nothing was sent or taken.
LEMMA FreshSame ==
  ASSUME FreshInv, UNCHANGED frames, Past' \subseteq Past
  PROVE  FreshInv'
<1>1. InFlight' = InFlight /\ Flying' = Flying /\ Completes' = Completes
  BY DEF InFlight, Flying, Completes
<1>2. \A i : Announced(i)' = Announced(i)
  BY DEF Announced
<1>3. \A i : Moments(i)' \subseteq Moments(i)
  BY DEF Moments
<1> QED
  BY <1>1, <1>2, <1>3 DEF FreshInv

\* Where no event is in flight there is none that could be late.
LEMMA FreshNone ==
  ASSUME InFlight' = {}
  PROVE  FreshInv'
  BY DEF FreshInv

\* A step that leaves bridge and cards alone keeps the view, whatever it publishes, if a
\* snapshot it sends is of the latest moment and it does not claim to have caught up.
LEMMA ViewSame ==
  ASSUME TypeInv, ViewInv, UNCHANGED <<bridge, cards>>,
         hub'.epoch = hub.epoch, hub'.sequence \in Nat, hub.sequence <= hub'.sequence,
         \A i \in 1 .. hub.sequence : History'[i] = History[i],
         HistInv', FreshInv',
         \A s \in (Attaches' \ Attaches) \cup (Reads' \ Reads) :
           s.cursor.sequence = hub.sequence /\ Sound(s),
         Follows' =>
           /\ Follows /\ stream'.cursor = stream.cursor
           /\ Catching' =>
                /\ Catching
                /\ \/ worker'.pc = "subscribing"
                   \/ cards = OpenAt(bridge.sequence)
                   \/ bridge.sequence \in Flying'
           /\ Caught' => Caught \/ (Catching /\ cards = OpenAt(bridge.sequence))
  PROVE  ViewInv'
<1>0. HistInv /\ SnapInv /\ BridgeInv /\ FreshInv /\ CatchInv /\ StepInv /\ AttachInv
  BY DEF ViewInv
<1>1. /\ hub.sequence \in Nat
      /\ bridge # None => bridge.sequence \in Nat
      /\ stream # None => stream.cursor.sequence \in Nat
      /\ Here' = Here
  BY DEF TypeInv, HostType, DeskType, Bridges, Streams, Cursors, Seqs, Here
<1>2. ASSUME NEW n \in Nat, n <= hub.sequence
      PROVE  OpenAt(n)' = OpenAt(n)
  <2>1. \A i \in 1 .. n : History'[i] = History[i]
    BY <1>1, <1>2
  <2> QED
    BY <2>1, OpenSame
<1>3. ASSUME NEW s, Sound(s), s.cursor.sequence \in Nat
      PROVE  Sound(s)'
  BY <1>1, <1>2, <1>3 DEF Sound
<1>4. Here => bridge.sequence \in Nat /\ bridge.sequence <= hub.sequence
  BY <1>0, <1>1 DEF BridgeInv, Here
<1>5. BridgeInv'
  <2>1. bridge # None => /\ bridge.epoch <= hub'.epoch
                         /\ \A e \in bridge.retired : e < bridge.epoch
                         /\ bridge.snapshotSequence <= bridge.sequence
    BY <1>0 DEF BridgeInv
  <2>2. ASSUME Here
        PROVE  /\ bridge.sequence <= hub'.sequence
               /\ \A p \in bridge.seen : \E i \in 1 .. bridge.sequence : History'[i][2] = p
    <3>1. bridge.sequence <= hub'.sequence
      BY <1>1, <1>4, <2>2
    <3>2. \A i \in 1 .. bridge.sequence : History'[i] = History[i]
      BY <1>1, <1>4, <2>2
    <3>3. \A p \in bridge.seen : \E i \in 1 .. bridge.sequence : History[i][2] = p
      BY <1>0, <2>2 DEF BridgeInv, Here
    <3> QED
      BY <3>1, <3>2, <3>3
  <2> QED
    BY <1>1, <2>1, <2>2 DEF BridgeInv
<1>6. \A s \in Attaches \cup Reads : s.cursor.sequence \in Nat
  <2>1. \A i \in DOMAIN frames : frames[i] \in Frames
    BY ElementOfSeq, LenProperties DEF TypeInv, LinkType
  <2>2. \A s \in Snapshots : s.cursor.sequence \in Nat
    BY DEF Snapshots, Cursors, Seqs
  <2>3. \A i \in DOMAIN frames : frames[i].type \in {"attached", "read"} => frames[i].snapshot \in Snapshots
    BY <2>1, FrameKinds
  <2> QED
    BY <2>2, <2>3 DEF Attaches, Reads, Restores, TypeInv, WorkerType, DeskType
<1>7. SnapInv'
  <2> SUFFICES ASSUME NEW s \in (Attaches \cup Reads)' PROVE Sound(s)'
    BY DEF SnapInv
  <2>1. Sound(s) /\ s.cursor.sequence \in Nat
    BY <1>0, <1>1, <1>6 DEF SnapInv
  <2> QED
    BY <1>3, <2>1
<1>8. Here => OpenAt(bridge.sequence)' = OpenAt(bridge.sequence)
  <2> SUFFICES ASSUME Here PROVE OpenAt(bridge.sequence)' = OpenAt(bridge.sequence)
    OBVIOUS
  <2>1. PICK b \in Nat : b = bridge.sequence /\ b <= hub.sequence
    BY <1>4
  <2>2. OpenAt(b)' = OpenAt(b)
    BY <1>2, <2>1
  <2>3. OpenAt(bridge.sequence)' = OpenAt(b)'
    BY <2>1 DEF OpenAt, Promise!OpenAfter
  <2> QED
    BY <2>1, <2>2, <2>3
<1>9. AttachInv'
  <2> SUFFICES ASSUME Here, NEW s \in Attaches', s.cursor.sequence < bridge.sequence
               PROVE  cards = OpenAt(bridge.sequence)
    BY <1>1, <1>8 DEF AttachInv
  <2>1. s \in Attaches
    BY <1>1, <1>4
  <2> QED
    BY <1>0, <2>1 DEF AttachInv
<1>10. CatchInv'
  <2> SUFFICES ASSUME Follows', Catching' PROVE CatchInv'
    BY DEF CatchInv
  <2> DEFINE c == stream.cursor.sequence
  <2>1. /\ Follows /\ Catching /\ stream'.cursor = stream.cursor
        /\ \/ worker'.pc = "subscribing"
           \/ cards = OpenAt(bridge.sequence)
           \/ bridge.sequence \in Flying'
    OBVIOUS
  <2>2. /\ Here /\ c <= bridge.sequence
        /\ OpenAt(bridge.sequence) \subseteq cards
        /\ cards \subseteq OpenAt(bridge.sequence) \cup OpenAt(c)
    BY <1>0, <2>1 DEF CatchInv
  <2>3. OpenAt(stream.cursor.sequence)' = OpenAt(c)
    <3>1. c \in Nat /\ c <= hub.sequence
      BY <1>1, <1>4, <2>1, <2>2 DEF Follows
    <3>2. PICK d \in Nat : d = c /\ d <= hub.sequence
      BY <3>1
    <3>3. OpenAt(d)' = OpenAt(d)
      BY <1>2, <3>2
    <3>4. OpenAt(stream.cursor.sequence)' = OpenAt(d)'
      BY <2>1, <3>2 DEF OpenAt, Promise!OpenAfter
    <3> QED
      BY <3>2, <3>3, <3>4
  <2> QED
    BY <1>1, <1>8, <2>1, <2>2, <2>3 DEF CatchInv
<1>11. StepInv'
  <2> SUFFICES ASSUME Follows', Caught' PROVE StepInv'
    BY DEF StepInv
  <2>1. Follows /\ stream'.cursor = stream.cursor
    OBVIOUS
  <2>2. Here /\ stream.cursor.sequence <= bridge.sequence /\ cards = OpenAt(bridge.sequence)
    BY <1>0, <2>1 DEF CatchInv, StepInv
  <2> QED
    BY <1>1, <1>8, <2>1, <2>2 DEF StepInv
<1> QED
  BY <1>5, <1>7, <1>9, <1>10, <1>11 DEF ViewInv

\* The next event of the stream: the cards, up to those the stream has still to hear of,
\* stay those of the moment the bridge is at.
LEMMA EventShown ==
  ASSUME TypeInv, HistInv, BridgeInv, UNCHANGED host, Here, NEW c \in Nat, c + 1 <= hub.sequence,
         c <= bridge.sequence, History[c + 1] \in Events,
         OpenAt(bridge.sequence) \subseteq cards,
         cards \subseteq OpenAt(bridge.sequence) \cup OpenAt(c),
         BridgeHandles(History[c + 1], c + 1)
  PROVE  /\ BridgeInv' /\ Here'
         /\ bridge'.sequence = Larger(c + 1, bridge.sequence)
         /\ OpenAt(bridge'.sequence) \subseteq cards'
         /\ cards' \subseteq OpenAt(bridge'.sequence) \cup OpenAt(c + 1)
<1> DEFINE n     == c + 1
           event == History[n]
           p     == event[2]
           B     == bridge.sequence
<1>1. hub.sequence \in Nat /\ n \in Nat /\ n \in 1 .. hub.sequence
  BY DEF TypeInv, HostType, Seqs
<1>2. B \in Nat /\ B <= hub.sequence
  BY DEF Here, BridgeInv, TypeInv, DeskType, Bridges, Seqs
<1>3. /\ BridgeInv' /\ Here'
      /\ bridge'.sequence = Larger(n, B)
      /\ event[1] = "resolved" => cards' = cards \ {p}
      /\ event[1] = "requested" => cards' = cards \/ cards' = cards \cup {p}
      /\ event[1] = "requested" /\ p \notin bridge.seen => cards' = cards \cup {p}
  <2> HIDE DEF n
  <2>1. History[n] \in Events /\ BridgeHandles(History[n], n)
    BY DEF n
  <2> QED
    BY <1>1, <2>1, HandlesDoes
<1>4. /\ event[1] = "requested" => OpenAt(n) = OpenAt(c) \cup {p}
      /\ event[1] = "resolved" => OpenAt(n) = OpenAt(c) \ {p}
      /\ event[1] \in {"requested", "resolved"} /\ p \in Prompts
  BY OpenNext
<1>5. CASE B = c
  <2>1. cards = OpenAt(c) /\ bridge'.sequence = n
    <3>1. Larger(n, B) = n
      BY <1>1, <1>2, <1>5 DEF Larger
    <3>2. cards = OpenAt(c)
      BY <1>5
    <3> QED
      BY <1>3, <3>1, <3>2
  <2>2. CASE event[1] = "resolved"
    BY <1>3, <1>4, <2>1, <2>2
  <2>3. CASE event[1] = "requested"
    <3>1. p \notin bridge.seen
      <4> SUFFICES ASSUME p \in bridge.seen PROVE FALSE
        OBVIOUS
      <4>1. PICK i \in 1 .. B : History[i][2] = p
        BY DEF BridgeInv, Here
      <4>2. i \in 1 .. hub.sequence /\ i < n
        BY <1>1, <1>2, <1>5
      <4>3. n <= i
        BY <1>1, <2>3, <4>1, <4>2 DEF HistInv
      <4> QED
        BY <1>1, <4>2, <4>3
    <3> QED
      BY <1>3, <1>4, <2>1, <2>3, <3>1
  <2> QED
    BY <1>3, <1>4, <2>2, <2>3
<1>6. CASE n <= B
  <2>1. bridge'.sequence = B
    BY <1>1, <1>2, <1>3, <1>6 DEF Larger
  <2>2. CASE event[1] = "resolved"
    <3>1. p \notin OpenAt(B)
      BY <1>1, <1>2, <1>6, <2>2, OpenOnce
    <3> QED
      BY <1>3, <1>4, <2>1, <2>2, <3>1
  <2>3. CASE event[1] = "requested"
    BY <1>3, <1>4, <2>1, <2>3
  <2> QED
    BY <1>3, <1>4, <2>2, <2>3
<1>7. B = c \/ n <= B
  BY <1>1, <1>2
<1> QED
  BY <1>5, <1>6, <1>7

\* The view's first state: nothing is shown, nothing is in flight.
LEMMA ViewInitially == Init => ViewInv
<1> SUFFICES ASSUME Init PROVE ViewInv
  OBVIOUS
<1> USE RemoteAssumption
<1>1. /\ hub.sequence = 0 /\ frames = <<>> /\ bridge = None /\ stream = None
      /\ worker.pc = "idle" /\ reader.pc = "idle"
  BY DEF Init, NewStream, Idle, NotReading
<1>2. DOMAIN frames = {} /\ InFlight = {} /\ ~Here /\ ~Restores /\ ~Follows
  BY <1>1 DEF InFlight, Here, Restores, Follows
<1>3. Attaches = {} /\ Reads = {}
  BY <1>1, <1>2 DEF Attaches, Reads
<1>4. HistInv
  BY <1>1 DEF HistInv
<1> QED
  BY <1>1, <1>2, <1>3, <1>4
     DEF ViewInv, SnapInv, BridgeInv, FreshInv, CatchInv, StepInv, AttachInv

\* The bridge, the reader and the Host are where they were.
LEMMA PastSame ==
  ASSUME UNCHANGED <<hub, bridge>>, reader' = reader \/ reader'.pc # "read"
  PROVE  Past' \subseteq Past
  BY DEF Past, Here

\* A task at the head that was stale stays so.
LEMMA RestoresSame ==
  ASSUME TypeInv, worker'.pc # "attached" \/ worker' = worker,
         \/ tasks' = tasks
         \/ MoreTasks(tasks, tasks')
         \/ StaleTasks(tasks, tasks')
  PROVE  Restores' => Restores /\ worker' = worker /\ worker'.snapshot \in Attaches
<1> SUFFICES ASSUME Restores' PROVE Restores /\ worker' = worker /\ worker'.snapshot \in Attaches
  OBVIOUS
<1>1. worker'.pc = "attached" /\ worker' = worker /\ ~Head(tasks').stale
  BY DEF Restores
<1>2. tasks # <<>> /\ tasks \in Seq(Tasks)
  BY <1>1 DEF TypeInv, WorkerType
<1>3. ~Head(tasks).stale
  BY <1>1, <1>2, HeadKept
<1> QED
  BY <1>1, <1>3 DEF Restores, Attaches

\* Nothing is sent or taken, and neither the bridge nor the Host moves.
LEMMA ViewQuiet ==
  ASSUME TypeInv, ViewInv, UNCHANGED <<host, frames, bridge, cards>>,
         reader' = reader \/ reader'.pc # "read",
         Restores' => Restores /\ worker' = worker,
         Follows' =>
           /\ Follows /\ stream'.cursor = stream.cursor
           /\ worker' = worker \/ (worker'.pc \in {"idle", "failed"} /\ Caught)
  PROVE  ViewInv'
<1>1. HistInv' /\ FreshInv'
  <2>1. Past' \subseteq Past
    BY PastSame DEF host
  <2> QED
    BY <2>1, FreshSame DEF ViewInv, HistInv, History, host
<1>2. Attaches' \subseteq Attaches /\ Reads' \subseteq Reads
  <2>1. Restores' => worker'.snapshot \in Attaches
    BY DEF Attaches
  <2>2. reader'.pc = "read" => reader'.snapshot \in Reads
    BY DEF Reads
  <2> QED
    BY <2>1, <2>2, SnapsKeep
<1>3. Flying' = Flying /\ Completes' = Completes
  BY FlyingSame
<1>4. hub.sequence \in Nat /\ hub.sequence <= hub.sequence /\ hub' = hub /\ History' = History
  BY DEF TypeInv, HostType, Seqs, host, History
<1>5. ASSUME Follows'
      PROVE  /\ Follows /\ stream'.cursor = stream.cursor
             /\ Catching' =>
                  /\ Catching
                  /\ \/ worker'.pc = "subscribing"
                     \/ cards = OpenAt(bridge.sequence)
                     \/ bridge.sequence \in Flying'
             /\ Caught' => Caught \/ (Catching /\ cards = OpenAt(bridge.sequence))
  BY <1>3, <1>5 DEF ViewInv, CatchInv, Catching, Caught
<1> QED
  BY <1>1, <1>2, <1>4, <1>5, ViewSame

\* A frame is sent that is not an event, with a snapshot of the latest moment if with one.
LEMMA ViewSends ==
  ASSUME TypeInv, ControlInv, FlowInv, ViewInv, UNCHANGED <<host, bridge, cards>>,
         NEW f \in Frames, frames' = Append(frames, f),
         f.type \in {"unsubscribed", "acked", "attached", "read"},
         f.type \in {"attached", "read"} => f.snapshot = Snapshot,
         reader' = reader \/ reader'.pc # "read",
         Restores' => Restores /\ worker' = worker,
         Follows' => stream' = stream /\ worker' = worker
  PROVE  ViewInv'
<1>1. Adds(frames, frames', f)
  BY AppendAdds DEF TypeInv, LinkType
<1>2. hub.sequence \in Nat /\ hub.sequence <= hub.sequence /\ hub' = hub /\ History' = History
  BY DEF TypeInv, HostType, Seqs, host, History
<1>3. HistInv' /\ FreshInv'
  <2>1. Past' \subseteq Past
    BY PastSame DEF host
  <2> QED
    BY <1>1, <2>1, FreshAdds DEF ViewInv, HistInv, History, host
<1>4. \A s \in (Attaches' \ Attaches) \cup (Reads' \ Reads) : s = Snapshot
  <2>1. Restores' => worker'.snapshot \in Attaches
    BY DEF Attaches
  <2>2. reader'.pc = "read" => reader'.snapshot \in Reads
    BY DEF Reads
  <2>3. \A s \in (Attaches' \ Attaches) \cup (Reads' \ Reads) :
          f.type \in {"attached", "read"} /\ s = f.snapshot
    BY <1>1, <2>1, <2>2, SnapsAdd
  <2> QED
    BY <2>3
<1>5. Snapshot.cursor.sequence = hub.sequence /\ Sound(Snapshot)
  BY <1>2 DEF Snapshot, Cursor, Sound, Pending, OpenAt
<1>6. Flying' = Flying /\ Completes' = Completes
  BY <1>1, FlyingAdds DEF FlowInv
<1>7. ASSUME Follows'
      PROVE  /\ Follows /\ stream'.cursor = stream.cursor
             /\ Catching' =>
                  /\ Catching
                  /\ \/ worker'.pc = "subscribing"
                     \/ cards = OpenAt(bridge.sequence)
                     \/ bridge.sequence \in Flying'
             /\ Caught' => Caught \/ (Catching /\ cards = OpenAt(bridge.sequence))
  <2>1. Follows
    BY <1>7 DEF Follows
  <2> QED
    BY <1>6, <1>7, <2>1 DEF ViewInv, CatchInv, Catching, Caught
<1> QED
  BY <1>2, <1>3, <1>4, <1>5, <1>7, ViewSame

\* A frame arrives that moves neither the bridge nor the cards.
LEMMA ViewReceives ==
  ASSUME TypeInv, ControlInv, FlowInv, ViewInv, UNCHANGED <<host, bridge, cards>>,
         frames # <<>>, frames' = Tail(frames),
         \/ reader' = reader
         \/ Head(frames).type = "read" /\ reader'.snapshot = Head(frames).snapshot,
         \/ Restores' => Restores /\ worker' = worker
         \/ Head(frames).type = "attached" /\ worker'.snapshot = Head(frames).snapshot,
         Follows' =>
           /\ Follows /\ stream'.cursor = stream.cursor
           /\ Catching' => worker' = worker /\ Head(frames).type # "event"
           /\ Caught' => Caught \/ (Catching /\ cards = OpenAt(bridge.sequence))
  PROVE  ViewInv'
<1>1. Takes(frames, frames')
  BY TailTakes DEF TypeInv, LinkType
<1>2. hub.sequence \in Nat /\ hub.sequence <= hub.sequence /\ hub' = hub /\ History' = History
  BY DEF TypeInv, HostType, Seqs, host, History
<1>3. HistInv'
  BY <1>2 DEF ViewInv, HistInv
<1>4. FreshInv'
  <2>1. ASSUME NEW m \in Past'
        PROVE  m \in Past \/ (Head(frames).type = "read" /\ m = Head(frames).snapshot.cursor.sequence)
    BY <1>2, <2>1 DEF Past, Here
  <2> QED
    BY <1>1, <2>1, FreshTakes DEF ViewInv, FlowInv
<1>5. Attaches' \subseteq Attaches /\ Reads' \subseteq Reads
  <2>1. 1 \in DOMAIN frames /\ Head(frames) = frames[1]
    BY <1>1 DEF Takes
  <2>2. Restores' => worker'.snapshot \in Attaches
    BY <2>1 DEF Attaches
  <2>3. reader'.pc = "read" => reader'.snapshot \in Reads
    BY <2>1 DEF Reads
  <2>4. \A i \in DOMAIN frames' : \E k \in DOMAIN frames : frames[k] = frames'[i]
    BY <1>1 DEF Takes
  <2> QED
    BY <2>2, <2>3, <2>4, SnapsKeep
<1>6. /\ Completes' => Completes
      /\ Head(frames).type # "event" => Flying' = Flying
  BY <1>1, FlyingTakes DEF FlowInv
<1>7. ASSUME Follows'
      PROVE  /\ Follows /\ stream'.cursor = stream.cursor
             /\ Catching' =>
                  /\ Catching
                  /\ \/ worker'.pc = "subscribing"
                     \/ cards = OpenAt(bridge.sequence)
                     \/ bridge.sequence \in Flying'
             /\ Caught' => Caught \/ (Catching /\ cards = OpenAt(bridge.sequence))
  BY <1>6, <1>7 DEF ViewInv, CatchInv, Catching
<1> QED
  BY <1>2, <1>3, <1>4, <1>5, <1>7, ViewSame

\* RequestDecision, ResolveDecision: what is published is about a prompt that is not requested
\* yet, or is open.
LEMMA HistoryKeeps ==
  ASSUME TypeInv, HistInv, NEW p \in Prompts, RequestDecision(p) \/ ResolveDecision(p)
  PROVE  /\ HistInv'
         /\ \A i \in 1 .. hub.sequence : History'[i] = History[i]
         /\ hub'.epoch = hub.epoch /\ hub'.sequence = hub.sequence + 1
<1> DEFINE n == hub.sequence + 1
<1>1. PICK event \in Events :
        /\ Publish(event)
        /\ \/ /\ event = <<"requested", p>>
              /\ \A i \in DOMAIN History : History[i] # <<"requested", p>>
           \/ event = <<"resolved", p>> /\ p \in Pending
  BY DEF RequestDecision, ResolveDecision, Events
<1>2. /\ hub'.epoch = hub.epoch /\ hub'.sequence = n
      /\ histories' = [histories EXCEPT ![hub.epoch] = Append(@, event)]
  BY <1>1, PublishDoes
<1>3. /\ hub.epoch \in 1 .. MaxEpochs /\ hub.sequence \in Nat
      /\ histories \in [1 .. MaxEpochs -> Seq(Events)] /\ Len(History) = hub.sequence
      /\ History \in Seq(Events)
  BY DEF TypeInv, HostType, Seqs, History
<1>4. History' = Append(History, event)
  BY <1>2, <1>3 DEF History
<1>5. \A i \in 1 .. hub.sequence : History'[i] = History[i] /\ History[i] \in Events
  BY <1>3, <1>4, ElementOfSeq, AppendProperties
<1>6. History'[n] = event
  BY <1>3, <1>4, AppendProperties
<1>7. \A i \in 1 .. n : i = n \/ i \in 1 .. hub.sequence
  BY <1>3
<1>8. n \in 1 .. n /\ n <= n /\ (\A i \in 1 .. hub.sequence : i \in 1 .. n /\ i <= n)
  BY <1>3
<1>9. event[2] = p /\ event[1] \in {"requested", "resolved"}
  BY <1>1
<1>10. ASSUME NEW j \in 1 .. hub.sequence, History[j][2] = p
       PROVE  event[1] # "requested"
  <2>1. PICK i \in 1 .. j : History[i] = <<"requested", p>>
    BY <1>10 DEF HistInv
  <2>2. i \in DOMAIN History
    BY <1>3, LenProperties
  <2> QED
    BY <1>1, <2>1, <2>2
<1>11. \A i, j \in 1 .. n : History'[i][1] = "requested" /\ History'[i][2] = History'[j][2] => i <= j
  <2> SUFFICES ASSUME NEW i \in 1 .. n, NEW j \in 1 .. n,
                      History'[i][1] = "requested", History'[i][2] = History'[j][2]
               PROVE  i <= j
    OBVIOUS
  <2>1. CASE j = n
    BY <1>3, <2>1
  <2>2. CASE j \in 1 .. hub.sequence /\ i \in 1 .. hub.sequence
    BY <1>5, <2>2 DEF HistInv
  <2>3. CASE j \in 1 .. hub.sequence /\ i = n
    BY <1>5, <1>6, <1>9, <1>10, <2>3
  <2> QED
    BY <1>7, <2>1, <2>2, <2>3
<1>12. \A j \in 1 .. n : \E i \in 1 .. j : History'[i] = <<"requested", History'[j][2]>>
  <2> SUFFICES ASSUME NEW j \in 1 .. n
               PROVE  \E i \in 1 .. j : History'[i] = <<"requested", History'[j][2]>>
    OBVIOUS
  <2>1. CASE j \in 1 .. hub.sequence
    <3>1. PICK i \in 1 .. j : History[i] = <<"requested", History[j][2]>>
      BY <2>1 DEF HistInv
    <3>2. i \in 1 .. hub.sequence
      BY <1>3, <2>1
    <3> QED
      BY <1>5, <2>1, <3>1, <3>2
  <2>2. CASE j = n /\ event[1] = "requested"
    <3>1. n \in 1 .. n
      BY <1>8
    <3> QED
      BY <1>1, <1>6, <2>2, <3>1
  <2>3. CASE j = n /\ event[1] = "resolved"
    <3>1. p \in OpenAt(hub.sequence)
      BY <1>1, <2>3 DEF Pending, OpenAt
    <3>2. PICK i \in 1 .. hub.sequence : History[i] = <<"requested", p>>
      BY <3>1, OpenIs
    <3>3. i \in 1 .. n
      BY <1>8
    <3> QED
      BY <1>5, <1>6, <1>9, <2>3, <3>2, <3>3
  <2> QED
    BY <1>7, <1>9, <2>1, <2>2, <2>3
<1> QED
  BY <1>2, <1>5, <1>11, <1>12 DEF HistInv

\* A published event is news to the desktop.
LEMMA ViewPublishes ==
  ASSUME TypeInv, ControlInv, FlowInv, ViewInv,
         NEW p \in Prompts, RequestDecision(p) \/ ResolveDecision(p)
  PROVE  ViewInv'
<1>1. /\ HistInv'
      /\ \A i \in 1 .. hub.sequence : History'[i] = History[i]
      /\ hub'.epoch = hub.epoch /\ hub'.sequence = hub.sequence + 1
  BY HistoryKeeps DEF ViewInv
<1>2. PICK event \in Events : Publish(event)
  BY DEF RequestDecision, ResolveDecision, Events
<1> DEFINE n == hub.sequence + 1
<1>3. /\ n \in 1 .. MaxEvents
      /\ \/ UNCHANGED frames
         \/ /\ sub # None /\ sub \in Subscriptions
            /\ frames' = Append(frames, [type |-> "closed", id |-> sub.id])
         \/ frames' = Append(frames, Event(n))
      /\ UNCHANGED client
  BY <1>2, PublishDoes DEF TypeInv, LinkType
<1>4. hub.sequence \in Nat /\ n \in Nat /\ hub.sequence <= n /\ hub.sequence < n
  BY DEF TypeInv, HostType, Seqs
<1> HIDE DEF n
<1>5. UNCHANGED <<stream, tasks, worker, reader, bridge, cards>>
  BY <1>3 DEF client
<1>6. /\ Past' \subseteq Past
      /\ Restores' => worker'.snapshot \in Attaches
      /\ reader'.pc = "read" => reader'.snapshot \in Reads
  BY <1>1, <1>5 DEF Past, Here, Restores, Attaches, Reads
<1>7. \A m \in Past : m \in Nat /\ m <= hub.sequence
  <2>1. Here => bridge.sequence <= hub.sequence
    BY DEF Here, ViewInv, BridgeInv
  <2>2. reader.pc = "read" => reader.snapshot.cursor.sequence <= hub.sequence
    BY DEF ViewInv, SnapInv, Reads, Sound
  <2> QED
    BY <2>1, <2>2 DEF Past, Seqs
<1>8. \A k \in DOMAIN frames : frames[k].type = "read" =>
        /\ frames[k].snapshot.cursor.sequence \in Nat
        /\ frames[k].snapshot.cursor.sequence <= hub.sequence
  <2>1. \A k \in DOMAIN frames : frames[k] \in Frames
    BY ElementOfSeq, LenProperties DEF TypeInv, LinkType
  <2>2. \A k \in DOMAIN frames : frames[k].type = "read" =>
          frames[k].snapshot \in Snapshots /\ frames[k].snapshot \in Reads
    BY <2>1, FrameKinds DEF Reads
  <2> QED
    BY <2>2 DEF ViewInv, SnapInv, Sound, Snapshots, Cursors, Seqs
<1>9. ASSUME NEW f \in Frames, frames' = Append(frames, f), f.type \in {"event", "closed"},
             f.type = "event" => f.sequence = n
      PROVE  /\ FreshInv'
             /\ Attaches' \subseteq Attaches /\ Reads' \subseteq Reads
             /\ Flying \subseteq Flying' /\ Completes' = Completes
  <2>1. Adds(frames, frames', f)
    BY <1>9, AppendAdds DEF TypeInv, LinkType
  <2>2. f.type = "event" =>
          /\ \A m \in Past : m < f.sequence
          /\ \A k \in DOMAIN frames :
               frames[k].type = "read" => frames[k].snapshot.cursor.sequence < f.sequence
    BY <1>4, <1>7, <1>8, <1>9
  <2>3. FreshInv'
    BY <1>6, <1>9, <2>1, <2>2, FreshAdds DEF ViewInv
  <2>4. Attaches' \subseteq Attaches /\ Reads' \subseteq Reads
    BY <1>6, <1>9, <2>1, SnapsAdd
  <2>5. \A s \in Flying : s < n
    BY <1>4, FlyingType
  <2>6. Flying \subseteq Flying' /\ Completes' = Completes
    BY <1>9, <2>1, <2>5, FlyingAdds DEF FlowInv
  <2> QED
    BY <2>3, <2>4, <2>6
<1>10. /\ FreshInv'
       /\ Attaches' \subseteq Attaches /\ Reads' \subseteq Reads
       /\ Flying \subseteq Flying' /\ Completes' = Completes
  <2>1. CASE UNCHANGED frames
    <3>1. FreshInv'
      BY <1>6, <2>1, FreshSame DEF ViewInv
    <3>2. Attaches' \subseteq Attaches /\ Reads' \subseteq Reads
      BY <1>6, <2>1, SnapsKeep
    <3> QED
      BY <2>1, <3>1, <3>2, FlyingSame
  <2>2. CASE /\ sub # None /\ sub \in Subscriptions
             /\ frames' = Append(frames, [type |-> "closed", id |-> sub.id])
    <3> DEFINE f == [type |-> "closed", id |-> sub.id]
    <3>1. f \in Frames /\ f.type = "closed" /\ frames' = Append(frames, f)
      BY <2>2 DEF Frames, Subscriptions
    <3> HIDE DEF f
    <3> QED
      BY <1>9, <3>1
  <2>3. CASE frames' = Append(frames, Event(n))
    <3> DEFINE f == Event(n)
    <3>1. f \in Frames /\ f.type = "event" /\ f.sequence = n /\ frames' = Append(frames, f)
      BY <1>3, <2>3 DEF Frames, Event
    <3> HIDE DEF f
    <3> QED
      BY <1>9, <3>1
  <2> QED
    BY <1>3, <2>1, <2>2, <2>3
<1>11. ASSUME Follows'
       PROVE  /\ Follows /\ stream'.cursor = stream.cursor
              /\ Catching' =>
                   /\ Catching
                   /\ \/ worker'.pc = "subscribing"
                      \/ cards = OpenAt(bridge.sequence)
                      \/ bridge.sequence \in Flying'
              /\ Caught' => Caught \/ (Catching /\ cards = OpenAt(bridge.sequence))
  <2>1. Follows
    BY <1>5, <1>11 DEF Follows
  <2> QED
    BY <1>5, <1>10, <2>1 DEF ViewInv, CatchInv, Catching, Caught
<1>12. hub'.sequence \in Nat /\ hub.sequence <= hub'.sequence
  BY <1>1, <1>4 DEF n
<1> QED
  BY <1>1, <1>5, <1>10, <1>11, <1>12, ViewSame

\* events/subscribe: what the answer promises is in flight before it.
LEMMA ViewSubscribes ==
  ASSUME TypeInv, ControlInv, FlowInv, ViewInv, HostSubscribes
  PROVE  ViewInv'
<1>1. /\ FreshId \in SubIds /\ stream \in Streams /\ worker.pc = "subscribing"
      /\ worker' = [worker EXCEPT !.pc = "subscribeAnswered"]
      /\ UNCHANGED <<host, stream, tasks, reader, bridge, cards>>
  BY SubscribeDoes
<1> DEFINE c == stream.cursor.sequence
           last == stream.cursor.sequence + MaxOutstanding
           refused == [type |-> "refused"]
           partial == Subscribed(FreshId, FALSE)
           whole == Subscribed(FreshId, TRUE)
<1>2. worker'.pc = "subscribeAnswered" /\ ~Restores'
  BY <1>1 DEF TypeInv, WorkerType, Workers, Restores
<1>3. /\ refused.type = "refused"
      /\ partial \in Frames /\ partial.type = "subscribed" /\ partial.complete = FALSE
      /\ whole.type = "subscribed"
  BY <1>1 DEF Subscribed, Frames
<1> HIDE DEF refused, partial, whole, last, c
<1>4. \/ frames' = Append(frames, partial)
      \/ Replays(frames, frames', c + 1, last, refused)
      \/ c <= hub.sequence /\ Replays(frames, frames', c + 1, hub.sequence, whole)
  BY SubscribeDoes DEF refused, partial, whole, last, c
<1>5. /\ hub.sequence \in Nat /\ hub.sequence <= hub.sequence /\ hub' = hub /\ History' = History
      /\ c \in Nat
  BY <1>1 DEF TypeInv, HostType, Streams, Cursors, Seqs, host, History, c
<1>6. /\ \A i \in DOMAIN frames : frames[i].type \notin {"subscribed", "event"}
      /\ InFlight = {} /\ Flying = {} /\ Ordered
  <2>1. \A i \in DOMAIN frames : frames[i].type \notin {"subscribed", "event"}
    BY <1>1 DEF ControlInv, SentInv, TypeInv, AnswerType
  <2> QED
    BY <2>1 DEF InFlight, Flying, Ordered
<1>7. /\ Past' \subseteq Past
      /\ \A m \in Past : m <= hub.sequence
      /\ \A k \in DOMAIN frames :
           frames[k].type = "read" => frames[k].snapshot.cursor.sequence <= hub.sequence
  <2>1. Past' \subseteq Past
    BY <1>1, <1>5, PastSame
  <2>2. Here => bridge.sequence <= hub.sequence
    BY DEF Here, ViewInv, BridgeInv
  <2>3. \A s \in Reads : s.cursor.sequence <= hub.sequence
    BY DEF ViewInv, SnapInv, Sound
  <2> QED
    BY <2>1, <2>2, <2>3 DEF Past, Reads
<1>8. ASSUME NEW from, NEW to, NEW f, f.type \in {"subscribed", "refused"},
             Replays(frames, frames', from, to, f)
      PROVE  /\ Attaches' \subseteq Attaches /\ Reads' \subseteq Reads
             /\ f.type = "refused" => ~Completes'
  <2> DEFINE n == to + 1 - from
  <2>1. /\ Len(frames) \in Nat /\ n \in Nat
        /\ DOMAIN frames = 1 .. Len(frames) /\ DOMAIN frames' = 1 .. Len(frames) + n + 1
        /\ \A i \in DOMAIN frames : frames'[i] = frames[i]
        /\ \A i \in Len(frames) + 1 .. Len(frames) + n : frames'[i].type = "event"
        /\ frames'[Len(frames) + n + 1] = f
    BY <1>8 DEF Replays
  <2> HIDE DEF n
  <2>2. \A i \in DOMAIN frames' : \/ i \in DOMAIN frames
                                  \/ i \in Len(frames) + 1 .. Len(frames) + n
                                  \/ i = Len(frames) + n + 1
    BY <2>1
  <2>3. Attaches' \subseteq Attaches /\ Reads' \subseteq Reads
    <3>1. \A i \in DOMAIN frames' : frames'[i].type \in {"attached", "read"} =>
            \E k \in DOMAIN frames : frames[k] = frames'[i]
      BY <1>8, <2>1, <2>2
    <3>2. reader'.pc = "read" => reader'.snapshot \in Reads
      BY <1>1 DEF Reads
    <3> QED
      BY <1>2, <3>1, <3>2, SnapsKeep
  <2>4. f.type = "refused" => ~Completes'
    BY <1>6, <2>1, <2>2 DEF Completes
  <2> QED
    BY <2>3, <2>4
<1>9. ASSUME FreshInv', Attaches' \subseteq Attaches, Reads' \subseteq Reads,
             Completes' => c <= hub.sequence /\ Flying' = c + 1 .. hub.sequence
      PROVE  ViewInv'
  <2>1. HistInv'
    BY <1>5 DEF ViewInv, HistInv
  <2>2. ~Caught'
    BY <1>2 DEF Caught
  <2>3. ASSUME Follows', Catching'
        PROVE  /\ Follows /\ Catching
               /\ cards = OpenAt(bridge.sequence) \/ bridge.sequence \in Flying'
    <3>1. Follows /\ Catching
      BY <1>1, <2>3 DEF Follows, Catching
    <3>2. /\ Here /\ c <= bridge.sequence
          /\ OpenAt(bridge.sequence) \subseteq cards
          /\ cards \subseteq OpenAt(bridge.sequence) \cup OpenAt(c)
      BY <3>1 DEF ViewInv, CatchInv, c
    <3>3. bridge.sequence \in Nat /\ bridge.sequence <= hub.sequence
      BY <3>2 DEF Here, ViewInv, BridgeInv, TypeInv, DeskType, Bridges, Seqs
    <3>4. Flying' = c + 1 .. hub.sequence
      BY <1>2, <1>9, <2>3 DEF Catching
    <3>5. bridge.sequence = c \/ bridge.sequence \in c + 1 .. hub.sequence
      BY <1>5, <3>2, <3>3
    <3> QED
      BY <3>1, <3>2, <3>4, <3>5
  <2>4. Follows' => Follows /\ stream'.cursor = stream.cursor
    BY <1>1 DEF Follows
  <2> QED
    BY <1>1, <1>5, <1>9, <2>1, <2>2, <2>3, <2>4, ViewSame
<1>10. CASE frames' = Append(frames, partial)
  <2>1. Adds(frames, frames', partial)
    BY <1>3, <1>10, AppendAdds DEF TypeInv, LinkType
  <2>2. InFlight' = {} /\ ~Completes'
    BY <1>3, <1>6, <2>1 DEF Adds, InFlight, Completes
  <2>3. reader'.pc = "read" => reader'.snapshot \in Reads
    BY <1>1 DEF Reads
  <2>4. Attaches' \subseteq Attaches /\ Reads' \subseteq Reads
    BY <1>2, <1>3, <2>1, <2>3, SnapsAdd
  <2> QED
    BY <1>9, <2>2, <2>4, FreshNone
<1>11. CASE Replays(frames, frames', c + 1, last, refused)
  <2>1. ~Completes' /\ Attaches' \subseteq Attaches /\ Reads' \subseteq Reads
    BY <1>3, <1>8, <1>11
  <2>2. FreshInv'
    BY <1>3, <1>6, <1>11, <2>1, FreshReplays
  <2> QED
    BY <1>9, <2>1, <2>2
<1>12. CASE c <= hub.sequence /\ Replays(frames, frames', c + 1, hub.sequence, whole)
  <2>1. Attaches' \subseteq Attaches /\ Reads' \subseteq Reads
    BY <1>3, <1>8, <1>12
  <2>2. FreshInv'
    BY <1>3, <1>6, <1>7, <1>12, FreshReplays
  <2>3. Flying' = c + 1 .. hub.sequence
    BY <1>3, <1>6, <1>12, FlyingReplays
  <2> QED
    BY <1>9, <1>12, <2>1, <2>2, <2>3
<1> QED
  BY <1>4, <1>10, <1>11, <1>12

\* An event arrives: a stream that is whole shows it, one that waits for nothing shows what
\* it may before the watch is tried again.
LEMMA ViewShows ==
  ASSUME TypeInv, ControlInv, FlowInv, FlightInv, ViewInv, ReceiveEvent
  PROVE  ViewInv'
<1> DEFINE n == Head(frames).sequence
<1>1. /\ frames # <<>> /\ Head(frames).type = "event" /\ frames' = Tail(frames)
      /\ TakesEvent(n)
      /\ UNCHANGED <<host, worker, reader>>
  BY DEF ReceiveEvent
<1>2. /\ HistInv /\ SnapInv /\ BridgeInv /\ FreshInv /\ CatchInv /\ StepInv /\ AttachInv
      /\ WorkerInv /\ Ordered
  BY DEF ViewInv, ControlInv, FlowInv
<1>3. Takes(frames, frames')
  BY <1>1, TailTakes DEF TypeInv, LinkType
<1>4. /\ n \in Flying /\ Flying' = Flying \ {n}
      /\ \A s \in Flying' : n < s
      /\ Completes' => Completes
  BY <1>1, <1>2, <1>3, FlyingTakes
<1>5. /\ n \in 1 .. hub.sequence /\ n \in 1 .. MaxEvents /\ Flying \subseteq 1 .. hub.sequence
      /\ hub.sequence \in Nat
  BY <1>4, FlyingType
<1> HIDE DEF n
<1>6. /\ n \in Nat /\ n <= hub.sequence /\ hub' = hub /\ histories' = histories
      /\ History' = History /\ hub.sequence <= hub.sequence
  BY <1>1, <1>5 DEF host, History
<1>7. 1 \in DOMAIN frames /\ frames[1] = Head(frames) /\ 1 \in InFlight /\ frames[1].sequence = n
  BY <1>1, <1>3 DEF Takes, InFlight, n
<1>8. worker.pc # "subscribing"
  BY <1>1, <1>7 DEF ControlInv, SentInv
<1>9. ASSUME UNCHANGED <<bridge, cards>>,
             \/ tasks' = tasks
             \/ tasks' = WithRecovery(tasks),
             Follows' => Follows /\ stream'.cursor = stream.cursor /\ ~Catching
      PROVE  ViewInv'
  <2>1. MoreTasks(tasks, tasks') \/ tasks' = tasks
    BY <1>9, RecoveryTasks DEF TypeInv, WorkerType
  <2>2. Restores' => Restores /\ worker' = worker
    BY <1>1, <2>1, RestoresSame
  <2>3. Catching' => Catching
    BY <1>1, <1>4 DEF Catching
  <2>4. Caught' => Caught
    BY <1>1 DEF Caught
  <2> QED
    BY <1>1, <1>9, <2>2, <2>3, <2>4, ViewReceives
<1>10. CASE (stream = None \/ stream.paused) /\ UNCHANGED <<stream, tasks, bridge, cards>>
  <2>1. ~Follows'
    BY <1>10 DEF Follows
  <2> QED
    BY <1>9, <1>10, <2>1
<1>11. CASE /\ stream # None /\ stream' = [stream EXCEPT !.paused = TRUE]
            /\ tasks' = WithRecovery(tasks) /\ UNCHANGED <<bridge, cards>>
  <2>1. stream \in Streams
    BY <1>11 DEF TypeInv, DeskType
  <2>2. stream'.paused
    BY <1>11, <2>1 DEF Streams
  <2>3. ~Follows'
    BY <2>2 DEF Follows
  <2> QED
    BY <1>9, <1>11, <2>3
<1>12. ASSUME stream # None, ~stream.paused, stream.cursor.epoch = hub.epoch,
              stream' = [stream EXCEPT !.ack = Larger(@, n), !.cursor.sequence = Larger(@, n)],
              tasks' = tasks, History[n] \in Events,
              \/ n <= stream.cursor.sequence /\ UNCHANGED <<bridge, cards>>
              \/ n > stream.cursor.sequence /\ BridgeHandles(History[n], n)
       PROVE  ViewInv'
  <2> DEFINE c == stream.cursor.sequence
  <2>1. Follows /\ stream \in Streams /\ c \in Nat
    BY <1>12 DEF Follows, TypeInv, DeskType, Streams, Cursors, Seqs
  <2>2. /\ stream'.cursor.sequence = Larger(c, n) /\ stream'.cursor.epoch = hub.epoch
        /\ stream'.paused = stream.paused
    BY <1>12, <2>1 DEF Streams, Cursors
  <2>3. worker.pc \notin {"attached", "attachAnswered"} /\ ~Restores'
    BY <1>1, <1>2, <1>12 DEF WorkerInv, Restores
  <2>4. Attaches' = {} /\ Reads' \subseteq Reads
    <3>1. \A i \in DOMAIN frames' : \E k \in DOMAIN frames : frames[k] = frames'[i]
      BY <1>3 DEF Takes
    <3>2. \A i \in DOMAIN frames' : frames'[i].type # "attached"
      <4>1. \A k \in DOMAIN frames : frames[k].type # "attached"
        BY <2>3 DEF TypeInv, AnswerType
      <4> QED
        BY <3>1, <4>1
    <3>3. Attaches' = {}
      BY <2>3, <3>2 DEF Attaches
    <3>4. Reads' \subseteq Reads
      <4>1. reader'.pc = "read" => reader'.snapshot \in Reads
        BY <1>1 DEF Reads
      <4> QED
        BY <2>3, <3>1, <4>1, SnapsKeep
    <3> QED
      BY <3>3, <3>4
  \* A stream that is whole: the event is the next one.
  <2>5. ASSUME Catching \/ Caught
        PROVE  /\ n = c + 1
               /\ \E d \in c .. hub.sequence : Flying = c + 1 .. d
    <3>1. Whole
      BY <1>8, <2>5 DEF Whole, Catching, Caught
    <3>2. PICK d \in c .. hub.sequence : Flying = c + 1 .. d
      BY <1>12, <3>1 DEF FlightInv
    <3>3. n \in c + 1 .. d
      BY <1>4, <3>2
    <3>4. c + 1 \in Flying
      BY <1>6, <2>1, <3>2, <3>3
    <3>5. n = c + 1
      BY <1>4, <1>6, <2>1, <3>3, <3>4
    <3> QED
      BY <3>2, <3>5
  <2>6. CASE n <= c /\ UNCHANGED <<bridge, cards>>
    <3>1. ~Catching
      BY <1>6, <2>1, <2>5, <2>6
    <3>2. stream'.cursor = stream.cursor
      <4>1. Larger(c, n) = c
        BY <1>6, <2>1, <2>6 DEF Larger
      <4>2. stream'.cursor = [stream.cursor EXCEPT !.sequence = Larger(@, n)]
        BY <1>12, <2>1 DEF Streams
      <4> QED
        BY <2>1, <4>1, <4>2 DEF Streams, Cursors
    <3> QED
      BY <1>9, <1>12, <2>1, <2>6, <3>1, <3>2
  <2>7. CASE n > c /\ BridgeHandles(History[n], n)
    <3>1. /\ BridgeInv' /\ Here'
          /\ Here => bridge'.sequence = Larger(n, bridge.sequence)
          /\ ~Here => bridge'.sequence = n
      BY <1>1, <1>2, <1>5, <1>12, <2>7, HandlesDoes
    <3>2. Here => bridge.sequence \in Nat /\ bridge.sequence <= hub.sequence
      BY <1>2 DEF Here, BridgeInv, TypeInv, DeskType, Bridges, Seqs
    <3>3. FreshInv'
      <4>1. ASSUME NEW m \in Past'
            PROVE  m \in Past \/ m = n
        <5>1. bridge'.sequence = n \/ (Here /\ bridge'.sequence = bridge.sequence)
          BY <3>1 DEF Larger
        <5> QED
          BY <1>1, <4>1, <5>1 DEF Past
      <4> QED
        BY <1>1, <1>2, <1>3, <4>1, FreshTakes DEF n
    <3>4. HistInv' /\ SnapInv' /\ AttachInv'
      <4>1. \A s : Sound(s)' = Sound(s)
        BY <1>6 DEF Sound, OpenAt, Promise!OpenAfter
      <4> QED
        BY <1>2, <1>6, <2>4, <4>1 DEF HistInv, SnapInv, AttachInv
    <3>5. ASSUME Catching \/ Caught
          PROVE  /\ n = c + 1 /\ Larger(c, n) = n
                 /\ Here /\ c <= bridge.sequence
                 /\ bridge'.sequence = Larger(n, bridge.sequence)
                 /\ OpenAt(bridge'.sequence) \subseteq cards'
                 /\ cards' \subseteq OpenAt(bridge'.sequence) \cup OpenAt(n)
      <4>1. /\ Here /\ c <= bridge.sequence
            /\ OpenAt(bridge.sequence) \subseteq cards
            /\ cards \subseteq OpenAt(bridge.sequence) \cup OpenAt(c)
        BY <1>2, <2>1, <3>5 DEF CatchInv, StepInv
      <4>2. n = c + 1 /\ Larger(c, n) = n
        BY <2>1, <2>5, <3>5 DEF Larger
      <4>3. c + 1 <= hub.sequence /\ History[c + 1] \in Events /\ BridgeHandles(History[c + 1], c + 1)
        BY <1>6, <1>12, <2>7, <4>2
      <4> HIDE DEF c
      <4>4. /\ bridge'.sequence = Larger(c + 1, bridge.sequence)
            /\ OpenAt(bridge'.sequence) \subseteq cards'
            /\ cards' \subseteq OpenAt(bridge'.sequence) \cup OpenAt(c + 1)
        BY <1>1, <1>2, <2>1, <4>1, <4>3, EventShown
      <4> QED
        BY <4>1, <4>2, <4>4
    <3>6. \A i : OpenAt(i)' = OpenAt(i)
      BY <1>6 DEF OpenAt, Promise!OpenAfter
    <3>7. /\ OpenAt(bridge.sequence)' = OpenAt(bridge'.sequence)
          /\ OpenAt(stream.cursor.sequence)' = OpenAt(stream'.cursor.sequence)
      BY <1>6 DEF OpenAt, Promise!OpenAfter
    <3>8. ASSUME Catching'
          PROVE  /\ Here' /\ stream'.cursor.sequence <= bridge'.sequence
                 /\ OpenAt(bridge'.sequence) \subseteq cards'
                 /\ cards' \subseteq OpenAt(bridge'.sequence) \cup OpenAt(stream'.cursor.sequence)
                 /\ cards' = OpenAt(bridge'.sequence) \/ bridge'.sequence \in Flying'
      <4>1. Catching /\ Completes
        BY <1>1, <1>4, <1>8, <3>8 DEF Catching
      <4>2. /\ n = c + 1 /\ stream'.cursor.sequence = n
            /\ Here /\ c <= bridge.sequence
            /\ bridge'.sequence = Larger(n, bridge.sequence)
            /\ OpenAt(bridge'.sequence) \subseteq cards'
            /\ cards' \subseteq OpenAt(bridge'.sequence) \cup OpenAt(n)
        BY <2>2, <3>5, <4>1
      <4>3. n <= Larger(n, bridge.sequence)
        BY <1>6, <3>2, <4>2 DEF Larger
      <4>4. Announced(1)
        <5>1. PICK k \in DOMAIN frames : frames[k].type = "subscribed"
          BY <4>1 DEF Completes
        <5>2. k # 1 /\ k \in Nat \ {0}
          <6>1. k # 1
            BY <1>1, <1>7, <5>1
          <6>2. k \in 1 .. Len(frames) /\ Len(frames) \in Nat
            BY <1>3 DEF Takes
          <6> QED
            BY <6>1, <6>2
        <5>3. 1 < k
          BY <5>2
        <5> QED
          BY <5>1, <5>3 DEF Announced
      <4>5. PICK s \in Flying : bridge.sequence <= s
        <5>1. PICK s \in Flying : \A m \in Moments(1) : m <= s
          BY <1>2, <1>7, <4>1, <4>4 DEF FreshInv
        <5>2. bridge.sequence \in Past
          BY <4>2 DEF Past, Here, TypeInv, DeskType, Bridges
        <5>3. bridge.sequence <= s
          BY <5>1, <5>2 DEF Moments
        <5> QED
          BY <5>3
      <4>6. PICK d \in c .. hub.sequence : Flying = c + 1 .. d
        BY <2>5, <4>1
      <4>7. ASSUME n < bridge.sequence
            PROVE  bridge.sequence \in Flying'
        <5>1. d \in Nat /\ s \in c + 1 .. d
          BY <1>6, <2>1, <4>5, <4>6
        <5>2. bridge.sequence \in Nat /\ bridge.sequence <= d /\ c + 1 <= bridge.sequence
          BY <1>6, <2>1, <3>2, <4>2, <4>5, <4>7, <5>1
        <5>3. bridge.sequence \in Flying
          BY <2>1, <4>6, <5>1, <5>2
        <5>4. bridge.sequence # n
          BY <1>6, <3>2, <4>2, <4>7
        <5> QED
          BY <1>4, <5>3, <5>4
      <4>8. CASE n < bridge.sequence
        <5>1. Larger(n, bridge.sequence) = bridge.sequence
          BY <1>6, <3>2, <4>2, <4>8 DEF Larger
        <5> QED
          BY <3>1, <4>2, <4>3, <4>7, <4>8, <5>1
      <4>9. CASE ~(n < bridge.sequence)
        <5>1. Larger(n, bridge.sequence) = n
          BY <1>6, <3>2, <4>2, <4>9 DEF Larger
        <5>2. cards' = OpenAt(bridge'.sequence)
          BY <4>2, <5>1
        <5> QED
          BY <3>1, <4>2, <4>3, <5>2
      <4> QED
        BY <4>8, <4>9
    <3>9. ASSUME Caught'
          PROVE  /\ Here' /\ stream'.cursor.sequence <= bridge'.sequence
                 /\ cards' = OpenAt(bridge'.sequence)
      <4>1. Caught /\ worker.pc # "subscribeAnswered"
        BY <1>1, <3>9 DEF Caught
      <4>2. /\ n = c + 1 /\ stream'.cursor.sequence = n
            /\ Here /\ c <= bridge.sequence
            /\ bridge'.sequence = Larger(n, bridge.sequence)
            /\ OpenAt(bridge'.sequence) \subseteq cards'
            /\ cards' \subseteq OpenAt(bridge'.sequence) \cup OpenAt(n)
        BY <2>2, <3>5, <4>1
      <4>3. ~Announced(1)
        BY <4>1 DEF Announced, TypeInv, AnswerType
      <4>4. bridge.sequence < n
        <5>1. bridge.sequence \in Past
          BY <4>2 DEF Past, Here, TypeInv, DeskType, Bridges
        <5>2. bridge.sequence \in Moments(1)
          BY <5>1 DEF Moments
        <5> QED
          BY <1>2, <1>7, <4>3, <5>2 DEF FreshInv
      <4>5. Larger(n, bridge.sequence) = n
        BY <1>6, <3>2, <4>2, <4>4 DEF Larger
      <4>6. n <= n
        BY <1>6
      <4>7. cards' = OpenAt(bridge'.sequence)
        BY <4>2, <4>5
      <4> QED
        BY <3>1, <4>2, <4>5, <4>6, <4>7
    <3>10. CatchInv'
      BY <3>7, <3>8 DEF CatchInv
    <3>11. StepInv'
      BY <3>7, <3>9 DEF StepInv
    <3> QED
      BY <3>1, <3>3, <3>4, <3>10, <3>11 DEF ViewInv
  <2> QED
    BY <1>12, <2>6, <2>7
<1> QED
  <2>1. n \in 1 .. MaxEvents /\ n <= hub.sequence /\ TakesEvent(n)
    BY <1>1, <1>5, <1>6
  <2>2. /\ History[n] \in Events
        /\ \/ (stream = None \/ stream.paused) /\ UNCHANGED <<stream, tasks, bridge, cards>>
           \/ /\ stream # None /\ stream' = [stream EXCEPT !.paused = TRUE]
              /\ tasks' = WithRecovery(tasks) /\ UNCHANGED <<bridge, cards>>
           \/ /\ stream # None /\ ~stream.paused /\ stream.cursor.epoch = hub.epoch
              /\ stream' = [stream EXCEPT !.ack = Larger(@, n), !.cursor.sequence = Larger(@, n)]
              /\ tasks' = tasks
              /\ \/ n <= stream.cursor.sequence /\ UNCHANGED <<bridge, cards>>
                 \/ n > stream.cursor.sequence /\ BridgeHandles(History[n], n)
    BY <2>1, TakesEventDoes
  <2> QED
    BY <1>10, <1>11, <1>12, <2>2

\* WatchRestores: the stream starts at the snapshot, the bridge at the later of the two.
LEMMA ViewRestores ==
  ASSUME TypeInv, ControlInv, ViewInv, WatchRestores
  PROVE  ViewInv'
<1>1. /\ worker.pc = "attached" /\ stream = None /\ tasks # <<>>
      /\ UNCHANGED <<host, frames, tasks, reader>>
      /\ HistInv /\ SnapInv /\ BridgeInv /\ AttachInv
  BY DEF WatchRestores, Running, ControlInv, WorkerInv, ViewInv
<1>2. CASE Task.stale
  <2>1. worker' = [worker EXCEPT !.pc = "failed"] /\ UNCHANGED <<stream, bridge, cards>>
    BY <1>2 DEF WatchRestores, Waits
  <2>2. worker'.pc = "failed"
    BY <2>1 DEF TypeInv, WorkerType, Workers
  <2>3. ~Restores' /\ ~Follows'
    BY <1>1, <2>1, <2>2 DEF Restores, Follows
  <2> QED
    BY <1>1, <2>1, <2>3, ViewQuiet
<1>3. CASE ~Task.stale
  <2> DEFINE s == worker.snapshot
  <2>1. /\ RestoreSnapshot(s) /\ stream' = NewStreamAt(s.cursor)
        /\ worker' = [worker EXCEPT !.pc = "subscribing", !.snapshot = None]
    BY <1>3 DEF WatchRestores
  <2>2. worker'.pc = "subscribing" /\ s \in Snapshots
    BY <1>1, <2>1 DEF TypeInv, WorkerType, Workers
  <2>3. Restores /\ s \in Attaches /\ Sound(s)
    BY <1>1, <1>3 DEF Restores, Attaches, SnapInv, Task
  <2>4. /\ BridgeInv'
        /\ \/ /\ Here /\ s.cursor.sequence < bridge.sequence
              /\ UNCHANGED <<bridge, cards>>
           \/ /\ Here' /\ bridge'.sequence = s.cursor.sequence
              /\ cards' = OpenAt(s.cursor.sequence)
    BY <1>1, <2>1, <2>2, <2>3, RestoreDoes
  <2>5. /\ hub' = hub /\ History' = History
        /\ s.cursor.sequence \in Nat /\ (bridge # None => bridge.sequence \in Nat)
        /\ stream'.cursor.sequence = s.cursor.sequence
    BY <1>1, <2>1, <2>2
       DEF host, History, Snapshots, Cursors, Seqs, TypeInv, DeskType, Bridges, NewStreamAt
  <2> HIDE DEF s
  <2>6. HistInv'
    BY <1>1, <2>5 DEF HistInv
  <2>7. FreshInv'
    <3>1. InFlight' = {}
      BY <1>1 DEF ControlInv, SentInv, InFlight
    <3> QED
      BY <3>1, FreshNone
  <2>8. Attaches' = {} /\ Reads' \subseteq Reads
    <3>1. \A i \in DOMAIN frames : frames[i].type # "attached"
      BY <1>1 DEF TypeInv, AnswerType
    <3>2. ~Restores'
      BY <2>2 DEF Restores
    <3> QED
      BY <1>1, <3>1, <3>2 DEF Attaches, Reads
  <2>9. SnapInv' /\ AttachInv'
    <3>1. \A t : Sound(t)' = Sound(t)
      BY <2>5 DEF Sound, OpenAt, Promise!OpenAfter
    <3> QED
      BY <1>1, <2>8, <3>1 DEF SnapInv, AttachInv
  <2>10. StepInv'
    BY <2>2 DEF StepInv, Caught
  <2>11. CatchInv'
    <3>1. /\ OpenAt(bridge.sequence)' = OpenAt(bridge'.sequence)
          /\ OpenAt(stream.cursor.sequence)' = OpenAt(s.cursor.sequence)
      BY <2>5 DEF OpenAt, Promise!OpenAfter
    <3>2. CASE Here /\ s.cursor.sequence < bridge.sequence /\ UNCHANGED <<bridge, cards>>
      <4>1. cards = OpenAt(bridge.sequence)
        BY <1>1, <2>3, <3>2 DEF AttachInv
      <4>2. Here' /\ s.cursor.sequence <= bridge.sequence
        BY <2>5, <3>2 DEF Here
      <4> QED
        BY <2>2, <2>5, <3>1, <3>2, <4>1, <4>2 DEF CatchInv
    <3>3. CASE Here' /\ bridge'.sequence = s.cursor.sequence /\ cards' = OpenAt(s.cursor.sequence)
      <4>1. s.cursor.sequence <= s.cursor.sequence
        BY <2>5
      <4> QED
        BY <2>2, <2>5, <3>1, <3>3, <4>1 DEF CatchInv
    <3> QED
      BY <2>4, <3>2, <3>3
  <2> QED
    BY <2>4, <2>6, <2>7, <2>9, <2>10, <2>11 DEF ViewInv
<1> QED
  BY <1>2, <1>3

\* ReadEnds: the read's snapshot is restored, or the bridge is ahead of it.
LEMMA ViewReads ==
  ASSUME TypeInv, ViewInv, ReadEnds
  PROVE  ViewInv'
<1> DEFINE s == reader.snapshot
<1>1. /\ reader.pc = "read" /\ reader' = NotReading /\ RestoreSnapshot(s)
      /\ tasks' = Enqueued(tasks, "ensure")
      /\ UNCHANGED <<host, frames, stream, worker>>
      /\ HistInv /\ SnapInv /\ BridgeInv /\ FreshInv /\ CatchInv /\ StepInv /\ AttachInv
  BY DEF ReadEnds, ViewInv
<1>2. /\ s \in Snapshots /\ s \in Reads /\ Sound(s)
      /\ s.cursor.sequence \in Nat /\ s.cursor.sequence \in Seqs
      /\ hub' = hub /\ History' = History
      /\ reader'.pc = "idle"
  BY <1>1 DEF TypeInv, DeskType, Reads, SnapInv, Snapshots, Cursors, Seqs, host, History, NotReading
<1>3. /\ BridgeInv'
      /\ \/ UNCHANGED <<bridge, cards>>
         \/ /\ Here => bridge.sequence <= s.cursor.sequence
            /\ Here' /\ bridge'.sequence = s.cursor.sequence
            /\ cards' = OpenAt(s.cursor.sequence)
  BY <1>1, <1>2, RestoreDoes
<1> HIDE DEF s
<1>4. Restores' => Restores /\ worker' = worker /\ worker'.snapshot \in Attaches
  <2>1. MoreTasks(tasks, tasks')
    BY <1>1, EnsureTasks DEF TypeInv, WorkerType
  <2> QED
    BY <1>1, <2>1, RestoresSame
<1>5. CASE UNCHANGED <<bridge, cards>>
  <2>1. Follows' => Follows /\ stream'.cursor = stream.cursor
    BY <1>1 DEF Follows
  <2> QED
    BY <1>1, <1>2, <1>4, <1>5, <2>1, ViewQuiet
<1>6. CASE /\ Here => bridge.sequence <= s.cursor.sequence
           /\ Here' /\ bridge'.sequence = s.cursor.sequence
           /\ cards' = OpenAt(s.cursor.sequence)
  <2>1. HistInv'
    BY <1>1, <1>2 DEF HistInv
  <2>2. FreshInv'
    <3>1. Past' \subseteq Past
      BY <1>1, <1>2, <1>6 DEF Past, s
    <3> QED
      BY <1>1, <3>1, FreshSame
  <2>3. SnapInv'
    <3>1. \A t : Sound(t)' = Sound(t)
      BY <1>2 DEF Sound, OpenAt, Promise!OpenAfter
    <3>2. Attaches' \subseteq Attaches /\ Reads' \subseteq Reads
      BY <1>1, <1>2, <1>4, SnapsKeep
    <3> QED
      BY <1>1, <3>1, <3>2 DEF SnapInv
  <2>4. cards' = OpenAt(bridge.sequence)'
    BY <1>2, <1>6 DEF OpenAt, Promise!OpenAfter
  <2>5. AttachInv'
    BY <2>4 DEF AttachInv
  <2>6. Follows' /\ (Catching' \/ Caught') =>
          Here' /\ stream'.cursor.sequence <= bridge'.sequence
    <3> SUFFICES ASSUME Follows', Catching' \/ Caught'
                 PROVE  stream'.cursor.sequence <= bridge'.sequence
      BY <1>6
    <3>1. Follows /\ (Catching \/ Caught)
      BY <1>1 DEF Follows, Catching, Caught, Completes
    <3>2. Here /\ stream.cursor.sequence <= bridge.sequence
      BY <1>1, <3>1 DEF CatchInv, StepInv
    <3>3. stream.cursor.sequence \in Nat /\ bridge.sequence \in Nat
      BY <3>1, <3>2 DEF Follows, Here, TypeInv, DeskType, Streams, Cursors, Bridges, Seqs
    <3> QED
      BY <1>1, <1>2, <1>6, <3>2, <3>3
  <2>7. CatchInv' /\ StepInv'
    BY <2>4, <2>6 DEF CatchInv, StepInv
  <2> QED
    BY <1>3, <2>1, <2>2, <2>3, <2>5, <2>7 DEF ViewInv
<1> QED
  BY <1>3, <1>5, <1>6

\* The connection is lost: nothing is in flight, nothing is followed.
LEMMA ViewLoses ==
  ASSUME TypeInv, ViewInv, frames' = <<>>, reader'.pc # "read", stream' # None => stream'.paused,
         ~Restores', UNCHANGED <<bridge, cards>>,
         \/ UNCHANGED host
         \/ hub'.sequence = 0 /\ hub.epoch < hub'.epoch /\ hub'.epoch \in Nat
  PROVE  ViewInv'
<1>1. HistInv /\ BridgeInv
  BY DEF ViewInv
<1>2. Attaches' = {} /\ Reads' = {} /\ InFlight' = {}
  BY DEF Attaches, Reads, InFlight
<1>3. SnapInv' /\ AttachInv' /\ FreshInv'
  BY <1>2 DEF SnapInv, AttachInv, FreshInv
<1>4. CatchInv' /\ StepInv'
  BY DEF CatchInv, StepInv, Follows
<1>5. HistInv' /\ BridgeInv'
  <2>1. CASE UNCHANGED host
    BY <1>1, <2>1 DEF HistInv, BridgeInv, Here, History, host
  <2>2. CASE hub'.sequence = 0 /\ hub.epoch < hub'.epoch /\ hub'.epoch \in Nat
    <3>1. HistInv'
      BY <2>2 DEF HistInv
    <3>2. bridge # None => bridge.epoch <= hub'.epoch /\ bridge.epoch # hub'.epoch
      <4>1. bridge # None => bridge.epoch \in Nat /\ bridge.epoch <= hub.epoch /\ hub.epoch \in Nat
        BY <1>1 DEF BridgeInv, TypeInv, HostType, DeskType, Bridges
      <4> QED
        BY <2>2, <4>1
    <3>3. BridgeInv'
      BY <1>1, <3>2 DEF BridgeInv, Here
    <3> QED
      BY <3>1, <3>3
  <2> QED
    BY <2>1, <2>2
<1> QED
  BY <1>3, <1>4, <1>5 DEF ViewInv

\* Every step keeps the view.
LEMMA ViewKeeps ==
  TypeInv /\ ControlInv /\ (FlowInv /\ AckInv /\ FlightInv) /\ ViewInv /\ [Next]_vars => ViewInv'
<1> SUFFICES ASSUME TypeInv, ControlInv, FlowInv, FlightInv, ViewInv, [Next]_vars
             PROVE  ViewInv'
  OBVIOUS
<1> USE DEF host, client
<1>1. WorkerInv /\ SentInv /\ Ordered
  BY DEF ControlInv, FlowInv
<1>2. /\ worker \in Workers /\ tasks \in Seq(Tasks)
      /\ stream # None => stream \in Streams
  BY DEF TypeInv, WorkerType, DeskType
<1>3. CASE HostUnsubscribes
  <2> DEFINE f == [type |-> "unsubscribed"]
  <2>1. /\ worker.pc = "unsubscribing" /\ worker' = [worker EXCEPT !.pc = "unsubscribeAnswered"]
        /\ frames' = Append(frames, f)
        /\ UNCHANGED <<host, stream, reader, bridge, cards>>
    BY <1>3 DEF HostUnsubscribes
  <2>2. f \in Frames /\ f.type = "unsubscribed"
    BY DEF Frames
  <2> HIDE DEF f
  <2>3. ~Restores' /\ ~Follows'
    BY <1>1, <1>2, <2>1 DEF WorkerInv, Workers, Restores, Follows
  <2> QED
    BY <2>1, <2>2, <2>3, ViewSends DEF Follows
<1>4. ASSUME HostAttaches \/ HostAnswersRead
      PROVE  Snapshot \in Snapshots
  BY DEF Snapshot, Snapshots, Cursor, Cursors, Pending, Promise!OpenAfter, TypeInv, HostType
<1>5. CASE HostAttaches
  <2> DEFINE f == [type |-> "attached", snapshot |-> Snapshot]
  <2>1. /\ worker.pc = "attaching" /\ worker' = [worker EXCEPT !.pc = "attachAnswered"]
        /\ frames' = Append(frames, f)
        /\ UNCHANGED <<host, stream, reader, bridge, cards>>
    BY <1>5 DEF HostAttaches
  <2>2. f \in Frames /\ f.type = "attached" /\ f.snapshot = Snapshot
    BY <1>4, <1>5 DEF Frames
  <2> HIDE DEF f
  <2>3. ~Restores' /\ stream' = None
    BY <1>1, <1>2, <2>1 DEF WorkerInv, Workers, Restores
  <2>4. ~Follows'
    BY <2>3 DEF Follows
  <2> QED
    BY <2>1, <2>2, <2>3, <2>4, ViewSends
<1>6. CASE HostAnswersRead
  <2> DEFINE f == [type |-> "read", snapshot |-> Snapshot]
  <2>1. /\ frames' = Append(frames, f) /\ reader' = [reader EXCEPT !.pc = "answered"]
        /\ UNCHANGED <<host, stream, worker, tasks, bridge, cards>>
    BY <1>6 DEF HostAnswersRead
  <2>2. f \in Frames /\ f.type = "read" /\ f.snapshot = Snapshot
    BY <1>4, <1>6 DEF Frames
  <2> HIDE DEF f
  <2>3. reader'.pc # "read"
    BY <2>1 DEF TypeInv, DeskType, Readers
  <2>4. Restores' => Restores
    BY <2>1 DEF Restores
  <2> QED
    BY <2>1, <2>2, <2>3, <2>4, ViewSends
<1>7. CASE HostAcks
  <2> DEFINE f == [type |-> "acked", id |-> acking.id]
  <2>1. /\ acking # None /\ frames' = Append(frames, f)
        /\ UNCHANGED <<host, stream, worker, tasks, reader, bridge, cards>>
    BY <1>7 DEF HostAcks
  <2>2. f \in Frames /\ f.type = "acked"
    BY <2>1 DEF Frames, TypeInv, LinkType, Ackings
  <2> HIDE DEF f
  <2>3. Restores' => Restores
    BY <2>1 DEF Restores
  <2> QED
    BY <2>1, <2>2, <2>3, ViewSends
<1>8. CASE ReceiveClosed
  <2>1. /\ frames # <<>> /\ Head(frames).type = "closed" /\ frames' = Tail(frames)
        /\ \/ UNCHANGED <<stream, tasks>>
           \/ /\ stream # None /\ stream' = [stream EXCEPT !.id = 0, !.paused = TRUE]
              /\ tasks' = WithRecovery(tasks)
        /\ UNCHANGED <<host, worker, reader, bridge, cards>>
    BY <1>8 DEF ReceiveClosed
  <2>2. Restores' => Restores
    BY <1>2, <2>1, RecoveryTasks, RestoresSame
  <2>3. Follows' => stream' = stream /\ Follows
    <3>1. ASSUME stream # None, stream' = [stream EXCEPT !.id = 0, !.paused = TRUE]
          PROVE  stream'.paused
      BY <1>2, <3>1 DEF Streams
    <3> QED
      BY <2>1, <3>1 DEF Follows
  <2>4. Caught' => Caught
    BY <2>1 DEF Caught
  <2> QED
    BY <2>1, <2>2, <2>3, <2>4, ViewReceives
<1>9. CASE ReceiveAcked \/ ReceiveRead
  <2>1. /\ frames # <<>> /\ frames' = Tail(frames) /\ Head(frames).type # "event"
        /\ \/ reader' = reader
           \/ Head(frames).type = "read" /\ reader' = [pc |-> "read", snapshot |-> Head(frames).snapshot]
        /\ UNCHANGED <<host, stream, worker, tasks, bridge, cards>>
    BY <1>9 DEF ReceiveAcked, ReceiveRead
  <2>2. /\ Restores' => Restores
        /\ Follows' => Follows
        /\ Caught' => Caught
    BY <2>1 DEF Restores, Follows, Caught
  <2> QED
    BY <2>1, <2>2, ViewReceives
<1>10. CASE ReceiveUnsubscribed \/ ReceiveAttached
  <2>1. /\ frames # <<>> /\ frames' = Tail(frames) /\ Head(frames).type \in {"unsubscribed", "attached"}
        /\ \/ worker' = [worker EXCEPT !.pc = "removed"]
           \/ Head(frames).type = "attached"
              /\ worker' = [worker EXCEPT !.pc = "attached", !.snapshot = Head(frames).snapshot]
        /\ UNCHANGED <<host, stream, tasks, reader, bridge, cards>>
    BY <1>10 DEF ReceiveUnsubscribed, ReceiveAttached, Waits
  <2>2. worker.pc \in {"unsubscribeAnswered", "attachAnswered"}
    <3>1. 1 \in DOMAIN frames /\ Head(frames) = frames[1]
      BY <2>1, TailTakes DEF TypeInv, LinkType, Takes
    <3> QED
      BY <2>1, <3>1 DEF TypeInv, AnswerType
  <2>3. ~Follows'
    BY <1>1, <2>1, <2>2 DEF WorkerInv, Follows
  <2>4. \/ ~Restores'
        \/ Head(frames).type = "attached" /\ worker'.snapshot = Head(frames).snapshot
    BY <1>2, <2>1 DEF Workers, Restores
  <2> QED
    BY <2>1, <2>3, <2>4, ViewReceives
<1>11. CASE ReceiveSubscribed
  <2> DEFINE reply == IF Head(frames).type = "refused" THEN NoReply
                      ELSE [id |-> Head(frames).id, complete |-> Head(frames).complete]
  <2>1. /\ frames # <<>> /\ Head(frames).type \in {"subscribed", "refused"} /\ frames' = Tail(frames)
        /\ worker' = [worker EXCEPT !.pc = "subscribed", !.reply = reply]
        /\ UNCHANGED <<host, stream, tasks, reader, bridge, cards>>
    BY <1>11 DEF ReceiveSubscribed
  <2>2. 1 \in DOMAIN frames /\ Head(frames) = frames[1] /\ Takes(frames, frames')
    BY <2>1, TailTakes DEF TypeInv, LinkType, Takes
  <2>3. /\ worker.pc = "subscribeAnswered"
        /\ reply.complete => Completes
    BY <2>1, <2>2 DEF TypeInv, AnswerType, Completes, NoReply
  <2> HIDE DEF reply
  <2>4. worker'.pc = "subscribed" /\ worker'.reply = reply
    BY <1>2, <2>1 DEF Workers
  <2>5. ~Restores' /\ ~Catching'
    BY <2>4 DEF Restores, Catching
  <2>6. Follows' => Follows /\ stream'.cursor = stream.cursor
    BY <2>1 DEF Follows
  <2>7. ASSUME Follows', Caught'
        PROVE  Catching /\ cards = OpenAt(bridge.sequence)
    <3>1. Catching
      BY <2>3, <2>4, <2>7 DEF Catching, Caught
    <3>2. /\ Here
          /\ cards = OpenAt(bridge.sequence) \/ bridge.sequence \in Flying
      BY <2>3, <2>6, <2>7, <3>1 DEF ViewInv, CatchInv
    <3>3. bridge.sequence \notin Flying
      <4>1. ASSUME NEW i \in InFlight
            PROVE  ~Announced(i)
        <5>1. i \in DOMAIN frames /\ i \in Nat \ {0}
          <6>1. i \in DOMAIN frames /\ DOMAIN frames = 1 .. Len(frames)
            BY <2>2 DEF InFlight, Takes
          <6> QED
            BY <6>1
        <5>2. ASSUME NEW k \in DOMAIN frames, frames[k].type \in {"subscribed", "refused"}
              PROVE  k = 1
          BY <2>1, <2>2, <5>2 DEF TypeInv, AnswerType, Answers
        <5>3. ~(i < 1)
          BY <5>1
        <5> QED
          BY <5>2, <5>3 DEF Announced
      <4>2. bridge.sequence \in Past
        BY <3>2 DEF Past, Here, TypeInv, DeskType, Bridges
      <4>3. \A i \in InFlight : bridge.sequence < frames[i].sequence
        BY <4>1, <4>2 DEF ViewInv, FreshInv, Moments
      <4>4. bridge.sequence \in Nat
        BY <4>2 DEF Past, Seqs
      <4> QED
        BY <4>3, <4>4 DEF Flying
    <3> QED
      BY <3>1, <3>2, <3>3
  <2> QED
    BY <2>1, <2>5, <2>6, <2>7, ViewReceives
<1>12. ASSUME UNCHANGED <<host, frames, bridge, cards>>,
              reader' = reader \/ reader'.pc # "read",
              worker' = worker \/ worker'.pc # "attached",
              \/ tasks' = tasks
              \/ StaleTasks(tasks, tasks')
              \/ worker'.pc # "attached",
              Follows' =>
                /\ Follows /\ stream'.cursor = stream.cursor
                /\ worker' = worker \/ (worker'.pc \in {"idle", "failed"} /\ Caught)
       PROVE  ViewInv'
  <2>1. Restores' => Restores /\ worker' = worker
    <3>1. CASE worker'.pc # "attached"
      BY <3>1 DEF Restores
    <3>2. CASE worker'.pc = "attached"
      BY <1>12, <3>2, RestoresSame
    <3> QED
      BY <3>1, <3>2
  <2> QED
    BY <1>12, <2>1, ViewQuiet
<1>13. CASE SendAck
  <2>1. /\ stream # None /\ stream' = [stream EXCEPT !.ack = 0]
        /\ UNCHANGED <<host, frames, bridge, cards, reader, worker, tasks>>
    BY <1>13 DEF SendAck
  <2>2. stream'.cursor = stream.cursor /\ stream'.paused = stream.paused
    BY <1>2, <2>1 DEF Streams
  <2>3. Follows' => Follows
    BY <2>1, <2>2 DEF Follows
  <2> QED
    BY <1>12, <2>1, <2>2, <2>3
<1>14. CASE StartTask
  <2>1. /\ worker.pc = "idle" /\ worker'.pc # "attached"
        /\ UNCHANGED <<host, frames, bridge, cards, reader>>
        /\ stream' = None \/ (stream' = stream /\ worker'.pc \in {"idle", "failed"})
    BY <1>14, StartTaskDoes
  <2>2. Follows' => Follows /\ stream' = stream /\ worker'.pc \in {"idle", "failed"} /\ Caught
    BY <2>1 DEF Follows, Caught
  <2> QED
    BY <1>12, <2>1, <2>2
<1>15. CASE WatchAttaches
  <2> DEFINE pc == IF Task.stale \/ conn = "down" \/ worker.attempt > 2 THEN "failed" ELSE "attaching"
  <2>1. /\ worker.pc = "removed" /\ worker' = [worker EXCEPT !.pc = pc]
        /\ UNCHANGED <<host, frames, bridge, cards, reader, stream, tasks>>
    BY <1>15 DEF WatchAttaches, Waits
  <2>2. pc # "attached"
    OBVIOUS
  <2> HIDE DEF pc
  <2>3. worker'.pc # "attached" /\ ~Follows'
    BY <1>1, <1>2, <2>1, <2>2 DEF WorkerInv, Workers, Follows
  <2> QED
    BY <1>12, <2>1, <2>3
<1>16. CASE WatchEnds
  <2> DEFINE id == worker.reply.id
  <2>1. /\ worker.pc = "subscribed" /\ stream \in Streams /\ stream # None
        /\ UNCHANGED <<host, frames, bridge, cards, reader>>
        /\ worker'.pc # "attached"
        /\ \/ stream' = [stream EXCEPT !.paused = TRUE]
           \/ /\ Task.stale /\ worker'.pc = "failed"
              /\ stream' = stream \/ stream' = [stream EXCEPT !.id = id]
           \/ /\ worker.reply.complete /\ ~stream.paused /\ worker'.pc = "idle"
              /\ stream' = [stream EXCEPT !.id = id]
           \/ stream' = None
    BY <1>16, WatchEndsDoes, SomethingIsNotNone
  <2>2. Follows' => Follows /\ stream'.cursor = stream.cursor
                    /\ worker'.pc \in {"idle", "failed"} /\ Caught
    <3>1. CASE stream' = [stream EXCEPT !.paused = TRUE]
      <4>1. stream'.paused
        BY <2>1, <3>1 DEF Streams
      <4> QED
        BY <4>1 DEF Follows
    <3>2. CASE Task.stale /\ (stream' = stream \/ stream' = [stream EXCEPT !.id = id])
      <4>1. stream.paused
        BY <1>1, <2>1, <3>2 DEF WorkerInv, Task
      <4>2. stream'.paused
        BY <2>1, <3>2, <4>1 DEF Streams
      <4> QED
        BY <4>2 DEF Follows
    <3>3. CASE /\ worker.reply.complete /\ ~stream.paused /\ worker'.pc = "idle"
               /\ stream' = [stream EXCEPT !.id = id]
      <4>1. stream'.cursor = stream.cursor
        BY <2>1, <3>3 DEF Streams
      <4> QED
        BY <2>1, <3>3, <4>1 DEF Follows, Caught
    <3>4. CASE stream' = None
      BY <3>4 DEF Follows
    <3> QED
      BY <2>1, <3>1, <3>2, <3>3, <3>4
  <2> QED
    BY <1>12, <2>1, <2>2
<1>17. ASSUME ConnectionEnds, ~Restores', UNCHANGED <<bridge, cards>>,
              \/ UNCHANGED host
              \/ hub'.sequence = 0 /\ hub.epoch < hub'.epoch /\ hub'.epoch \in Nat
       PROVE  ViewInv'
  <2>1. /\ frames' = <<>> /\ reader'.pc # "read"
        /\ stream' # None => stream # None /\ stream' = [stream EXCEPT !.paused = TRUE]
    BY <1>17, EndsType
  <2>2. stream' # None => stream'.paused
    BY <1>2, <2>1 DEF Streams
  <2> QED
    BY <1>17, <2>1, <2>2, ViewLoses
<1>18. CASE TaskFails
  <2>1. /\ worker.pc = "failed" /\ worker'.pc = "idle" /\ UNCHANGED <<host, bridge, cards>>
        /\ \/ UNCHANGED <<frames, stream, reader>>
           \/ ConnectionEnds
    BY <1>18, TaskFailsDoes
  <2>2. CASE UNCHANGED <<frames, stream, reader>>
    <3>1. Caught /\ (Follows' => Follows)
      BY <2>1, <2>2 DEF Caught, Follows
    <3> QED
      BY <1>12, <2>1, <2>2, <3>1
  <2>3. CASE ConnectionEnds
    <3>1. ~Restores'
      BY <2>1 DEF Restores
    <3> QED
      BY <1>17, <2>1, <2>3, <3>1
  <2> QED
    BY <2>1, <2>2, <2>3
<1>19. CASE StartRead \/ UNCHANGED vars
  <2>1. /\ UNCHANGED <<host, frames, bridge, cards, stream, worker, tasks>>
        /\ reader' = reader \/ reader' = [reader EXCEPT !.pc = "sent"]
    BY <1>19 DEF StartRead, vars
  <2>2. reader' = reader \/ reader'.pc # "read"
    BY <2>1 DEF TypeInv, DeskType, Readers
  <2>3. Follows' => Follows
    BY <2>1 DEF Follows
  <2> QED
    BY <1>12, <2>1, <2>2, <2>3
<1>20. ASSUME worker' = WorkerAfterLoss, tasks' = AfterLoss(tasks)
       PROVE  ~Restores'
  <2> SUFFICES ASSUME Restores' PROVE FALSE
    OBVIOUS
  <2>1. worker.pc = "attached"
    BY <1>20, WorkerLoss DEF Restores
  <2>2. tasks # <<>>
    BY <2>1 DEF TypeInv, WorkerType
  <2>3. Head(tasks').stale
    BY <1>2, <1>20, <2>2, LossTasks, HeadKept
  <2> QED
    BY <2>3 DEF Restores
<1>21. CASE Drop
  BY <1>17, <1>20, <1>21 DEF Drop
<1>22. CASE HostRestarts
  <2>1. /\ hub'.sequence = 0 /\ hub.epoch < hub'.epoch /\ hub'.epoch \in Nat
        /\ UNCHANGED <<bridge, cards>>
        /\ \/ conn = "down" /\ UNCHANGED <<frames, stream, tasks, worker, reader>>
           \/ ConnectionEnds /\ tasks' = AfterLoss(tasks) /\ worker' = WorkerAfterLoss
    BY <1>22 DEF HostRestarts, NewStream, TypeInv, HostType
  <2>2. CASE conn = "down" /\ UNCHANGED <<frames, stream, tasks, worker, reader>>
    <3>1. /\ frames' = <<>> /\ reader'.pc # "read" /\ (stream' # None => stream'.paused)
          /\ ~Restores'
      BY <2>2 DEF TypeInv, ConnType, Restores
    <3> QED
      BY <2>1, <3>1, ViewLoses
  <2>3. CASE ConnectionEnds /\ tasks' = AfterLoss(tasks) /\ worker' = WorkerAfterLoss
    BY <1>17, <1>20, <2>1, <2>3
  <2> QED
    BY <2>1, <2>2, <2>3
<1>23. CASE Reconnect
  <2>1. /\ conn = "down" /\ tasks' = Enqueued(AllStale(tasks), "reconnect")
        /\ UNCHANGED <<host, frames, stream, worker, reader, bridge, cards>>
    BY <1>23 DEF Reconnect
  <2>2. ~Follows'
    BY <2>1 DEF Follows, TypeInv, ConnType
  <2>3. ASSUME Restores' PROVE FALSE
    <3>1. worker.pc = "attached" /\ tasks # <<>>
      BY <2>1, <2>3 DEF Restores, TypeInv, WorkerType
    <3>2. StaleTasks(tasks, AllStale(tasks))
      BY <1>2, AllStaleTasks
    <3>3. /\ AllStale(tasks) \in Seq(Tasks) /\ AllStale(tasks) # <<>>
          /\ Head(AllStale(tasks)).stale
      BY <1>2, <3>1, <3>2, HeadKept
    <3>4. NewTask(AllStale(tasks), tasks', "reconnect")
      BY <2>1, <3>3, EnqueuedTasks
    <3>5. /\ tasks' \in Seq(Tasks) /\ Len(tasks') = Len(AllStale(tasks)) + 1
          /\ Len(AllStale(tasks)) \in Nat \ {0}
          /\ \A i \in DOMAIN AllStale(tasks) : tasks'[i] = AllStale(tasks)[i]
      BY <3>3, <3>4, EmptySeq DEF NewTask
    <3>6. 1 \in DOMAIN AllStale(tasks) /\ Head(AllStale(tasks)) = AllStale(tasks)[1]
      BY <3>3, <3>5, LenProperties
    <3>7. Head(tasks') = tasks'[1]
      <4>1. Len(tasks') # 0
        BY <3>5
      <4> QED
        BY <3>5, <4>1, EmptySeq
    <3> QED
      BY <2>3, <3>3, <3>5, <3>6, <3>7 DEF Restores
  <2> QED
    BY <2>1, <2>2, <2>3, ViewQuiet
<1> QED
  BY <1>3, <1>5, <1>6, <1>7, <1>8, <1>9, <1>10, <1>11, <1>13, <1>14, <1>15, <1>16, <1>18, <1>19,
     <1>21, <1>22, <1>23, ViewPublishes, ViewSubscribes, ViewShows, ViewRestores, ViewReads
     DEF Next, HostSteps, Receive, WorkerSteps

\* What a live stream shows: the cards of the moment the bridge is at.
LEMMA LiveShows ==
  ASSUME TypeInv', ControlInv', ViewInv', Live'
  PROVE  Here' /\ cards' = OpenAt(bridge.sequence)'
<1>1. Follows' /\ stream'.id # 0
  BY DEF Live, Follows
<1>2. worker'.pc \in {"idle", "failed"}
  <2>1. worker' \in Workers /\ ~Subscribing'
    BY <1>1 DEF TypeInv, WorkerType, DeskType
  <2>2. worker'.pc \notin {"unsubscribing", "unsubscribeAnswered", "removed", "attaching",
                           "attachAnswered", "attached"}
    BY <1>1 DEF ControlInv, WorkerInv, Follows
  <2> QED
    BY <2>1, <2>2 DEF Workers, Subscribing
<1>3. Caught'
  BY <1>2 DEF Caught
<1> QED
  BY <1>1, <1>3 DEF ViewInv, StepInv

\* How far the bridge has come.
Moment == [epoch    |-> IF bridge = None THEN 0 ELSE bridge.epoch,
           sequence |-> IF bridge = None THEN 0 ELSE bridge.sequence]

\* A step that leaves the Host and the bridge alone turns the desktop at most.
LEMMA StepTurns ==
  ASSUME TypeInv', ControlInv', ViewInv', UNCHANGED <<host, bridge>>
  PROVE  Promise!DesktopTurns
<1>1. /\ hub' = hub /\ histories' = histories /\ bridge' = bridge
      /\ Live' \in BOOLEAN
  BY DEF host, Live
<1>2. ASSUME Live'
      PROVE  /\ Moment.epoch = hub.epoch
             /\ cards' = Promise!OpenAfter(histories[Moment.epoch], Moment.sequence)
  <2>1. Here' /\ cards' = OpenAt(bridge.sequence)'
    BY <1>2, LiveShows
  <2>2. Moment.epoch = hub.epoch /\ Moment.sequence = bridge.sequence
    BY <1>1, <2>1 DEF Here, Moment
  <2>3. OpenAt(bridge.sequence)' = Promise!OpenAfter(histories[hub.epoch], bridge.sequence)
    BY <1>1 DEF OpenAt, Promise!OpenAfter, History
  <2> QED
    BY <2>1, <2>2, <2>3
<1> QED
  BY <1>1, <1>2 DEF Promise!DesktopTurns, Promise!CardsOf, Moment

\* A step that takes the bridge on moves the desktop.
LEMMA StepMoves ==
  ASSUME TypeInv, TypeInv', ControlInv', ViewInv, ViewInv', UNCHANGED host,
         Here', Here => bridge.sequence <= bridge'.sequence
  PROVE  \E e \in 1 .. hub.epoch : \E n \in 0 .. Len(histories[e]) : Promise!DesktopMoves(e, n)
<1> USE RemoteAssumption
<1> DEFINE e == hub.epoch
           n == bridge'.sequence
<1>1. /\ hub' = hub /\ histories' = histories /\ Live' \in BOOLEAN
      /\ hub.epoch \in Nat \ {0}
  BY DEF host, Live, TypeInv, HostType
<1>2. bridge' # None /\ bridge'.epoch = e /\ n \in Nat /\ n <= hub.sequence
  BY <1>1 DEF Here, ViewInv, BridgeInv, TypeInv, DeskType, Bridges, Seqs
<1>3. e \in 1 .. hub.epoch /\ n \in 0 .. Len(histories[e])
  <2>1. Len(histories[e]) = hub.sequence /\ hub.sequence \in Nat
    BY DEF TypeInv, HostType, History, Seqs
  <2> QED
    BY <1>1, <1>2, <2>1
<1>4. Moment' = [epoch |-> e, sequence |-> n]
  BY <1>2 DEF Moment
<1>5. e > Moment.epoch \/ (e = Moment.epoch /\ n >= Moment.sequence)
  <2>1. CASE Here
    <3>1. Moment.epoch = e /\ Moment.sequence = bridge.sequence /\ bridge.sequence \in Nat
      BY <2>1 DEF Here, Moment, TypeInv, DeskType, Bridges, Seqs
    <3> QED
      BY <1>2, <2>1, <3>1
  <2>2. CASE bridge = None
    BY <1>1, <2>2 DEF Moment
  <2>3. CASE bridge # None /\ ~Here
    <3>1. Moment.epoch = bridge.epoch /\ bridge.epoch \in Nat /\ bridge.epoch <= e /\ bridge.epoch # e
      BY <2>3 DEF Here, Moment, ViewInv, BridgeInv, TypeInv, DeskType, Bridges
    <3> QED
      BY <1>1, <3>1
  <2> QED
    BY <2>1, <2>2, <2>3
<1>6. ASSUME Live'
      PROVE  cards' = Promise!OpenAfter(histories[e], n)
  <2>1. cards' = OpenAt(bridge.sequence)'
    BY <1>6, LiveShows
  <2>2. OpenAt(bridge.sequence)' = Promise!OpenAfter(histories[e], n)
    BY <1>1 DEF OpenAt, Promise!OpenAfter, History
  <2> QED
    BY <2>1, <2>2
<1> HIDE DEF e, n
<1>7. Promise!DesktopMoves(e, n)
  <2>1. \/ e > Moment.epoch
        \/ e = Moment.epoch /\ n >= Moment.sequence
    BY <1>5
  <2>2. Live' => cards' = Promise!OpenAfter(histories[Moment'.epoch], Moment'.sequence)
    BY <1>4, <1>6
  <2> QED
    BY <1>1, <1>4, <2>1, <2>2 DEF Promise!DesktopMoves, Promise!CardsOf, Moment
<1> QED
  BY <1>3, <1>7

\* The bridge moves forward or stays, whatever the desktop does.
LEMMA BridgeForward ==
  ASSUME TypeInv, ControlInv, FlowInv, ViewInv, ReceiveEvent \/ WatchRestores \/ ReadEnds
  PROVE  /\ UNCHANGED host
         /\ \/ UNCHANGED bridge
            \/ Here' /\ (Here => bridge.sequence <= bridge'.sequence)
<1>1. BridgeInv /\ Ordered /\ UNCHANGED host
  BY DEF ViewInv, FlowInv, ReceiveEvent, WatchRestores, ReadEnds
<1>2. ASSUME NEW s \in Snapshots, Sound(s), RestoreSnapshot(s)
      PROVE  \/ UNCHANGED bridge
             \/ Here' /\ (Here => bridge.sequence <= bridge'.sequence)
  BY <1>1, <1>2, RestoreDoes
<1>3. CASE ReceiveEvent
  <2> DEFINE n == Head(frames).sequence
  <2>1. frames # <<>> /\ Head(frames).type = "event" /\ frames' = Tail(frames) /\ TakesEvent(n)
    BY <1>3 DEF ReceiveEvent
  <2>2. Takes(frames, frames')
    BY <2>1, TailTakes DEF TypeInv, LinkType
  <2>3. n \in Flying
    BY <1>1, <2>1, <2>2, FlyingTakes
  <2> HIDE DEF n
  <2>4. /\ n \in 1 .. MaxEvents /\ n \in 1 .. hub.sequence /\ n <= hub.sequence /\ n \in Nat
        /\ hub.sequence \in Nat
    BY <2>3, FlyingType
  <2>5. /\ History[n] \in Events
        /\ UNCHANGED bridge \/ BridgeHandles(History[n], n)
    BY <2>1, <2>4, TakesEventDoes
  <2>6. CASE BridgeHandles(History[n], n)
    <3>1. Here' /\ (Here => bridge'.sequence = Larger(n, bridge.sequence))
      BY <1>1, <2>4, <2>5, <2>6, HandlesDoes
    <3>2. Here => bridge.sequence \in Nat
      BY DEF Here, TypeInv, DeskType, Bridges, Seqs
    <3>3. Here => bridge.sequence <= bridge'.sequence
      BY <2>4, <3>1, <3>2 DEF Larger
    <3> QED
      BY <1>1, <3>1, <3>3
  <2> QED
    BY <1>1, <2>5, <2>6
<1>4. CASE WatchRestores
  <2>1. CASE Task.stale
    BY <1>1, <1>4, <2>1 DEF WatchRestores
  <2>2. CASE ~Task.stale
    <3>1. worker.pc = "attached" /\ RestoreSnapshot(worker.snapshot)
      BY <1>4, <2>2 DEF WatchRestores
    <3>2. worker.snapshot \in Snapshots /\ Sound(worker.snapshot)
      BY <2>2, <3>1 DEF TypeInv, WorkerType, ViewInv, SnapInv, Attaches, Restores, Task
    <3> QED
      BY <1>1, <1>2, <3>1, <3>2
  <2> QED
    BY <2>1, <2>2
<1>5. CASE ReadEnds
  <2>1. reader.pc = "read" /\ RestoreSnapshot(reader.snapshot)
    BY <1>5 DEF ReadEnds
  <2>2. reader.snapshot \in Snapshots /\ Sound(reader.snapshot)
    BY <2>1 DEF TypeInv, DeskType, ViewInv, SnapInv, Reads
  <2> QED
    BY <1>1, <1>2, <2>1, <2>2
<1> QED
  BY <1>3, <1>4, <1>5

\* The first state is one of the promise.
LEMMA PromiseInitially == Init => Promise!PromiseInit
<1> SUFFICES ASSUME Init PROVE Promise!PromiseInit
  OBVIOUS
<1>1. /\ histories = [i \in 1 .. MaxEpochs |-> <<>>] /\ hub.epoch = 1
      /\ bridge = None /\ cards = {} /\ Live = FALSE
  BY DEF Init, NewStream, Live
<1> QED
  BY <1>1 DEF Promise!PromiseInit

\* Every step is one of the promise, or leaves all it speaks of as it is.
LEMMA PromiseSteps ==
  TypeInv /\ ControlInv /\ (FlowInv /\ AckInv /\ FlightInv) /\ ViewInv /\ [Next]_vars
    => [Promise!PromiseNext]_(Promise!promiseVars)
<1> SUFFICES ASSUME TypeInv, ControlInv, FlowInv, AckInv, FlightInv, ViewInv, [Next]_vars
             PROVE  [Promise!PromiseNext]_(Promise!promiseVars)
  OBVIOUS
<1>1. TypeInv' /\ ControlInv' /\ ViewInv'
  BY TypeKeeps, ControlKeeps, ViewKeeps
<1>2. ASSUME UNCHANGED <<host, bridge>>
      PROVE  Promise!PromiseNext
  BY <1>1, <1>2, StepTurns DEF Promise!PromiseNext
<1>3. ASSUME NEW p \in Prompts, RequestDecision(p) \/ ResolveDecision(p)
      PROVE  Promise!PromiseNext
  <2>1. PICK kind \in {"requested", "resolved"} : Publish(<<kind, p>>)
    BY <1>3 DEF RequestDecision, ResolveDecision
  <2> DEFINE event == <<kind, p>>
  <2>2. event \in Events /\ Publish(event)
    BY <2>1 DEF Events
  <2> HIDE DEF event
  <2>3. /\ hub'.epoch = hub.epoch
        /\ histories' = [histories EXCEPT ![hub.epoch] = Append(@, event)]
        /\ UNCHANGED client
    BY <2>2, PublishDoes
  <2>4. UNCHANGED <<Moment, cards, Live>>
    BY <2>3 DEF client, Moment, Live
  <2>5. Promise!HostPublishes(event)
    BY <2>3, <2>4 DEF Promise!HostPublishes, Moment
  <2> QED
    BY <2>5 DEF Promise!PromiseNext, event
<1>4. CASE ReceiveEvent \/ WatchRestores \/ ReadEnds
  <2>1. /\ UNCHANGED host
        /\ UNCHANGED bridge \/ (Here' /\ (Here => bridge.sequence <= bridge'.sequence))
    BY <1>4, BridgeForward
  <2>2. CASE UNCHANGED bridge
    BY <1>2, <2>1, <2>2
  <2>3. CASE Here' /\ (Here => bridge.sequence <= bridge'.sequence)
    BY <1>1, <2>1, <2>3, StepMoves DEF Promise!PromiseNext
  <2> QED
    BY <2>1, <2>2, <2>3
<1>5. CASE HostRestarts
  <2>1. /\ hub.epoch < MaxEpochs /\ hub'.epoch = hub.epoch + 1
        /\ UNCHANGED <<histories, bridge, cards>>
        /\ (conn = "down" /\ UNCHANGED stream) \/ ConnectionEnds
    BY <1>5 DEF HostRestarts, NewStream
  <2>2. Live' = FALSE
    <3>1. CASE conn = "down" /\ UNCHANGED stream
      BY <3>1 DEF Live, TypeInv, ConnType
    <3>2. CASE ConnectionEnds
      <4>1. stream' # None => stream \in Streams /\ stream' = [stream EXCEPT !.paused = TRUE]
        BY <3>2, EndsType DEF TypeInv, DeskType
      <4>2. stream' # None => stream'.paused
        BY <4>1 DEF Streams
      <4> QED
        BY <4>2 DEF Live
    <3> QED
      BY <2>1, <3>1, <3>2
  <2>3. UNCHANGED Moment
    BY <2>1 DEF Moment
  <2>4. Promise!HostStartsAgain
    BY <2>1, <2>2, <2>3 DEF Promise!HostStartsAgain, Moment
  <2> QED
    BY <2>4 DEF Promise!PromiseNext
<1>6. CASE \/ HostSteps \/ SendAck \/ StartTask \/ WatchAttaches \/ WatchEnds \/ TaskFails
           \/ ReceiveClosed \/ ReceiveAcked \/ ReceiveUnsubscribed \/ ReceiveAttached
           \/ ReceiveSubscribed \/ ReceiveRead \/ StartRead \/ Drop \/ Reconnect
  <2>1. UNCHANGED <<host, bridge>>
    BY <1>6
       DEF HostSteps, HostSubscribes, HostUnsubscribes, HostAcks, HostAttaches, HostAnswersRead,
           SendAck, StartTask, WatchAttaches, WatchEnds, TaskFails, ReceiveClosed, ReceiveAcked,
           ReceiveUnsubscribed, ReceiveAttached, ReceiveSubscribed, ReceiveRead, StartRead, Drop,
           Reconnect
  <2> QED
    BY <1>2, <2>1
<1>7. CASE UNCHANGED vars
  BY <1>2, <1>7 DEF vars, host
<1> QED
  BY <1>3, <1>4, <1>5, <1>6, <1>7 DEF Next, Receive, WorkerSteps

-----------------------------------------------------------------------------
(* Theorems *)

\* Whatever the connection, the Host and the queue of recoveries do, every value keeps its
\* type and an answer finds the request that waits for it.
THEOREM TypeInvariant == Spec => []TypeInv
<1>1. Init => TypeInv
  BY TypeInitially
<1>2. TypeInv /\ [Next]_vars => TypeInv'
  BY TypeKeeps
<1> QED
  BY <1>1, <1>2, PTL DEF Spec

\* The worker, the stream and the Host's subscription agree: a request is of a task that is
\* not stale, and the Host never keeps a subscription nobody on the desktop knows of.
THEOREM ControlInvariant == Spec => []ControlInv
<1>1. Init => ControlInv
  BY ControlInitially
<1>2. TypeInv /\ ControlInv /\ [Next]_vars => ControlInv'
  BY ControlKeeps
<1> QED
  BY <1>1, <1>2, TypeInvariant, PTL DEF Spec

\* A stream the desktop takes for live is subscribed on the Host, or the notice that it is
\* not is on its way, as long as no subscription is closed before its id arrived.
THEOREM SubscribedWhileLive ==
  ASSUME ~EarlyClose
  PROVE  Spec => []LiveIsSubscribed
<1>1. Init => LiveIsSubscribed
  BY DEF Init, LiveIsSubscribed, Live
<1>2. TypeInv /\ ControlInv /\ LiveIsSubscribed /\ [Next]_vars => LiveIsSubscribed'
  BY LiveKeeps
<1> QED
  BY <1>1, <1>2, TypeInvariant, ControlInvariant, PTL DEF Spec

\* The subscription's window holds the events in flight, an acknowledgement is of events
\* that arrived, and a live stream has missed none.
THEOREM FlowInvariant == Spec => [](FlowInv /\ AckInv /\ FlightInv)
<1>1. Init => FlowInv /\ AckInv /\ FlightInv
  BY FlowInitially
<1>2. TypeInv /\ ControlInv /\ (FlowInv /\ AckInv /\ FlightInv) /\ [Next]_vars
        => (FlowInv /\ AckInv /\ FlightInv)'
  BY FlowKeeps
<1> QED
  BY <1>1, <1>2, TypeInvariant, ControlInvariant, PTL DEF Spec

\* Every variable has its type: the hub never numbers past its bound, a subscription never
\* waits for more acknowledgements than its window, and every cursor is of a lifetime of the
\* Host.
THEOREM SessionTypes == Spec => []TypeOK
<1>1. TypeInv /\ FlowInv => TypeOK
  <2> SUFFICES ASSUME TypeInv, FlowInv PROVE TypeOK
    OBVIOUS
  <2>1. /\ \A i \in DOMAIN frames : frames[i] \in Frames
        /\ \A i \in DOMAIN tasks : tasks[i] \in Tasks
    <3>1. frames \in Seq(Frames) /\ tasks \in Seq(Tasks)
      BY DEF TypeInv, LinkType, WorkerType
    <3>2. DOMAIN frames = 1 .. Len(frames) /\ DOMAIN tasks = 1 .. Len(tasks)
      BY <3>1, LenProperties
    <3> QED
      BY <3>1, <3>2, ElementOfSeq
  <2>2. sub # None => sub \in Subscriptions /\ sub.outstanding <= MaxOutstanding
    BY DEF TypeInv, LinkType, FlowInv
  <2> QED
    BY <2>1, <2>2 DEF TypeOK, Tasks, TypeInv, HostType, LinkType, DeskType
<1> QED
  BY <1>1, TypeInvariant, FlowInvariant, PTL

\* While the desktop holds a live stream, the events it has not yet taken are exactly those
\* in flight on its subscription, in order.
THEOREM LiveMissesNothing == Spec => []NothingLostInFlight
<1>1. TypeInv /\ ControlInv /\ FlowInv /\ FlightInv => NothingLostInFlight
  <2> SUFFICES ASSUME TypeInv, ControlInv, FlowInv, FlightInv,
                      Live, sub # None, sub.id = stream.id
               PROVE  /\ stream.cursor.epoch = hub.epoch
                      /\ Flying = stream.cursor.sequence + 1 .. hub.sequence
                      /\ Ordered
    BY DEF NothingLostInFlight, Flying, Ordered
  <2>1. stream # None /\ stream.id # 0 /\ ~stream.paused
    BY DEF Live
  <2>2. worker.pc \in {"idle", "failed"}
    BY <2>1 DEF ControlInv, SubInv, WorkerInv, TypeInv, DeskType, Subscribing
  <2> QED
    BY <2>1, <2>2 DEF Whole, FlightInv, FlowInv
<1> QED
  BY <1>1, TypeInvariant, ControlInvariant, FlowInvariant, PTL

\* However slow the desktop is, the events on their way to it fit the window: also those
\* left of a subscription that was closed because of them.
THEOREM BacklogIsBounded == Spec => []BacklogBounded
<1>1. TypeInv /\ FlowInv => BacklogBounded
  <2> SUFFICES ASSUME TypeInv, FlowInv PROVE BacklogBounded
    OBVIOUS
  <2>1. PICK b \in Seqs : Flying \subseteq b + 1 .. b + MaxOutstanding
    BY DEF FlowInv
  <2>2. b \in Nat /\ MaxOutstanding \in Nat \ {0}
    BY RemoteAssumption, OutstandingAssumption DEF Seqs
  <2> DEFINE window == b + 1 .. b + MaxOutstanding
             place  == [i \in InFlight |-> frames[i].sequence]
  <2>3. IsFiniteSet(window) /\ Cardinality(window) = MaxOutstanding
    <3>1. b + 1 \in Int /\ b + MaxOutstanding \in Int /\ ~(b + 1 > b + MaxOutstanding)
          /\ (b + MaxOutstanding) - (b + 1) + 1 = MaxOutstanding
      BY <2>2
    <3> QED
      BY <3>1, FS_Interval
  <2> HIDE DEF window
  <2>4. place \in Injection(InFlight, window)
    <3>1. \A i \in InFlight : frames[i].sequence \in window
      BY <2>1 DEF Flying, window
    <3>2. \A i \in InFlight : i \in Nat /\ frames[i].sequence \in Nat
      BY FlyingType
    <3>3. \A i, j \in InFlight : i # j => frames[i].sequence # frames[j].sequence
      BY <3>2 DEF FlowInv, Ordered
    <3> QED
      BY <3>1, <3>3 DEF Injection, IsInjective
  <2>5. Cardinality(InFlight) <= Cardinality(window)
    BY <2>3, <2>4, FS_Injection
  <2> QED
    BY <2>3, <2>5 DEF BacklogBounded
<1> QED
  BY <1>1, TypeInvariant, FlowInvariant, PTL

\* The cards and the moment they are of: a snapshot on its way is of a moment of this lifetime
\* of the Host, an event is news when it arrives, and a stream that has caught up shows the
\* cards of the moment its desktop has come to.
THEOREM ViewInvariant == Spec => []ViewInv
<1>1. Init => ViewInv
  BY ViewInitially
<1>2. TypeInv /\ ControlInv /\ (FlowInv /\ AckInv /\ FlightInv) /\ ViewInv /\ [Next]_vars => ViewInv'
  BY ViewKeeps
<1> QED
  BY <1>1, <1>2, TypeInvariant, ControlInvariant, FlowInvariant, PTL DEF Spec

\* The promise of SessionView: the moment the desktop has come to only moves forward, and
\* while the desktop follows the session its cards are exactly those of that moment.
THEOREM PromiseIsKept == Spec => KeepsView
<1>1. Init => Promise!PromiseInit
  BY PromiseInitially
<1>2. TypeInv /\ ControlInv /\ (FlowInv /\ AckInv /\ FlightInv) /\ ViewInv /\ [Next]_vars
        => [Promise!PromiseNext]_(Promise!promiseVars)
  BY PromiseSteps
<1> QED
  BY <1>1, <1>2, TypeInvariant, ControlInvariant, FlowInvariant, ViewInvariant, PTL
     DEF Spec, KeepsView, Promise!PromiseSpec
=============================================================================
