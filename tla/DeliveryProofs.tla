--------------------------- MODULE DeliveryProofs ---------------------------
(***************************************************************************)
(* Proofs about AgentHost for every value of its constants: what becomes   *)
(* of an input between the client that submits it and the runtime.         *)
(*                                                                         *)
(* DeliveryInv is the inductive invariant (on top of TypeInv).  AskInv and *)
(* PlaceInv say where an input can be, StepInv what a suspended operation  *)
(* found and relies on, RecordInv what the records of queued and delivered *)
(* inputs are, LoopInv which loop holds which input, TakenInv that whoever *)
(* may have an input taken next has not had it taken before.  Each part is *)
(* kept because of the others.  The first section is about the admission   *)
(* chain, the next ones have a lemma for each kind of change, then one for *)
(* each group of actions.                                                  *)
(*                                                                         *)
(* Three sections build on it.  "The promoted block": no step changes the  *)
(* order of the promotions.  "One active turn": TurnInv relates the        *)
(* records, the runs and the owner of the session (RunInv, OwnerInv), the  *)
(* names a run is known by (AliasInv), and the one turn that may be active *)
(* (ActiveInv).  "The promise of TurnDelivery": every step is one of       *)
(* TurnDelivery, because ToldInv says what the clients of the inputs on    *)
(* their way were told.                                                    *)
(***************************************************************************)
EXTENDS AgentHostProofs

-----------------------------------------------------------------------------
(* Who has an input *)

\* The operation that starts the input waits in the chain, or holds the session.
Asks(g, i) ==
  \E k \in DOMAIN g.ops : g.ops[k].kind \in StartKinds /\ g.ops[k].arg = i

\* No input is started by two operations.
AskedOnce(g) ==
  \A k, l \in DOMAIN g.ops :
    /\ g.ops[k].kind \in StartKinds
    /\ g.ops[l].kind \in StartKinds
    /\ g.ops[k].arg = g.ops[l].arg
    => k = l

\* The chain of h starts nothing that the chain of g does not start.
Narrower(g, h) ==
  /\ AskedOnce(g) => AskedOnce(h)
  /\ \A i \in Inputs : Asks(h, i) => Asks(g, i)

\* Asks and AskedOnce read the operations only.
LEMMA SameOps ==
  ASSUME NEW g, NEW h, g.ops = h.ops
  PROVE  Narrower(g, h)
  BY DEF Narrower, Asks, AskedOnce

\* One change of the chain after another.
LEMMA NarrowerTwice ==
  ASSUME NEW f, NEW g, NEW h, Narrower(f, g), Narrower(g, h)
  PROVE  Narrower(f, h)
  BY DEF Narrower

\* An operation that starts nothing joins.
LEMMA CalledNarrows ==
  ASSUME NEW g \in Gates, NEW op \in Ops, op.kind \notin StartKinds
  PROVE  Narrower(g, Called(g, op))
<1> DEFINE h == Called(g, op)
<1>1. g.ops \in Seq(Ops) /\ h.ops = Append(g.ops, op)
  BY DEF Gates, Called
<1>2. /\ DOMAIN g.ops = 1 .. Len(g.ops) /\ Len(g.ops) \in Nat
      /\ DOMAIN h.ops = 1 .. Len(g.ops) + 1
      /\ \A k \in 1 .. Len(g.ops) : h.ops[k] = g.ops[k]
      /\ h.ops[Len(g.ops) + 1] = op
  BY <1>1, AppendProperties, LenProperties
<1> HIDE DEF h
<1>3. ASSUME NEW k \in DOMAIN h.ops, h.ops[k].kind \in StartKinds
      PROVE  k \in DOMAIN g.ops /\ h.ops[k] = g.ops[k]
  BY <1>2, <1>3
<1>4. AskedOnce(g) => AskedOnce(h)
  BY <1>3 DEF AskedOnce
<1>5. \A i \in Inputs : Asks(h, i) => Asks(g, i)
  BY <1>3 DEF Asks
<1> QED
  BY <1>4, <1>5 DEF Narrower, h

\* A client asks for an input nobody asked for.
LEMMA CalledAsks ==
  ASSUME NEW g \in Gates, NEW kind \in StartKinds, NEW i \in Inputs,
         AskedOnce(g), ~Asks(g, i)
  PROVE  /\ AskedOnce(Called(g, Op(kind, i)))
         /\ \A j \in Inputs : Asks(Called(g, Op(kind, i)), j) => Asks(g, j) \/ j = i
<1> DEFINE op == Op(kind, i)
           h == Called(g, op)
<1>0. op \in Ops /\ op.arg = i
  BY OpIsOp DEF InputKinds, Op
<1>1. g.ops \in Seq(Ops) /\ h.ops = Append(g.ops, op)
  BY DEF Gates, Called
<1> HIDE DEF op
<1>2. /\ DOMAIN g.ops = 1 .. Len(g.ops) /\ Len(g.ops) \in Nat
      /\ DOMAIN h.ops = 1 .. Len(g.ops) + 1
      /\ \A k \in 1 .. Len(g.ops) : h.ops[k] = g.ops[k]
      /\ h.ops[Len(g.ops) + 1] = op
  BY <1>0, <1>1, AppendProperties, LenProperties
<1> HIDE DEF h
<1>3. ASSUME NEW k \in DOMAIN h.ops
      PROVE  (k \in DOMAIN g.ops /\ h.ops[k] = g.ops[k]) \/ (k = Len(g.ops) + 1 /\ h.ops[k].arg = i)
  BY <1>0, <1>2, <1>3
<1>4. AskedOnce(h)
  BY <1>3 DEF AskedOnce, Asks
<1>5. \A j \in Inputs : Asks(h, j) => Asks(g, j) \/ j = i
  BY <1>3 DEF Asks
<1> QED
  BY <1>4, <1>5 DEF h, op

\* A drain request.
LEMMA RequestedNarrows ==
  ASSUME NEW g \in Gates
  PROVE  Narrower(g, Requested(g))
<1>1. CASE g.draining
  BY <1>1, SameOps DEF Requested, Gates
<1>2. CASE ~g.draining
  <2> DEFINE h == Called(g, Drain)
  <2>1. h \in Gates /\ Narrower(g, h)
    BY CalledGate, CalledNarrows, DrainIsOp DEF Drain, Op, StartKinds
  <2> HIDE DEF h
  <2>2. Requested(g) = [h EXCEPT !.draining = TRUE, !.pending = FALSE]
    BY <1>2 DEF Requested, h, Drain
  <2>3. Requested(g).ops = h.ops
    BY <2>1, <2>2 DEF Gates
  <2> QED
    BY <2>1, <2>3, SameOps, NarrowerTwice
<1> QED
  BY <1>1, <1>2

\* The operation that holds the session leaves.  If it was to start an input,
\* nobody is to start it any more.
LEMMA PoppedNarrows ==
  ASSUME NEW g \in Gates, g.ops # <<>>
  PROVE  /\ Narrower(g, Popped(g))
         /\ Narrower(g, PassEnds(g))
         /\ AskedOnce(g) /\ Head(g.ops).kind \in StartKinds
              => ~Asks(Popped(g), Head(g.ops).arg)
<1> DEFINE h == Popped(g)
<1>1. g.ops \in Seq(Ops) /\ h.ops = Tail(g.ops) /\ h \in Gates
  BY PoppedGate DEF Gates, Popped
<1>2. /\ DOMAIN g.ops = 1 .. Len(g.ops) /\ Len(g.ops) \in Nat \ {0}
      /\ DOMAIN h.ops = 1 .. Len(g.ops) - 1
      /\ \A k \in 1 .. Len(g.ops) - 1 : h.ops[k] = g.ops[k + 1]
      /\ Head(g.ops) = g.ops[1]
  BY <1>1, HeadTailProperties, LenProperties, EmptySeq
<1> HIDE DEF h
<1>3. ASSUME NEW k \in DOMAIN h.ops
      PROVE  k + 1 \in DOMAIN g.ops /\ h.ops[k] = g.ops[k + 1] /\ k + 1 # 1 /\ k \in Nat
  BY <1>2, <1>3
<1>4. AskedOnce(g) => AskedOnce(h)
  <2> SUFFICES ASSUME AskedOnce(g), NEW k \in DOMAIN h.ops, NEW l \in DOMAIN h.ops,
                      h.ops[k].kind \in StartKinds, h.ops[l].kind \in StartKinds,
                      h.ops[k].arg = h.ops[l].arg
               PROVE  k = l
    BY DEF AskedOnce
  <2>1. k + 1 = l + 1
    BY <1>3 DEF AskedOnce
  <2> QED
    BY <1>3, <2>1
<1>5. \A i \in Inputs : Asks(h, i) => Asks(g, i)
  BY <1>3 DEF Asks
<1>6. Narrower(g, h)
  BY <1>4, <1>5 DEF Narrower
<1>7. Narrower(g, PassEnds(g))
  <2> DEFINE rest == [h EXCEPT !.draining = FALSE]
  <2>1. rest \in Gates /\ rest.ops = h.ops
    BY <1>1 DEF Gates
  <2>2. PassEnds(g) = IF g.pending THEN Requested(rest) ELSE rest
    BY DEF PassEnds, h
  <2> HIDE DEF rest
  <2>3. Narrower(g, rest)
    BY <1>6, <2>1, SameOps, NarrowerTwice
  <2> QED
    BY <2>1, <2>2, <2>3, RequestedNarrows, NarrowerTwice
<1>8. ASSUME AskedOnce(g), Head(g.ops).kind \in StartKinds, Asks(h, Head(g.ops).arg)
      PROVE  FALSE
  <2>1. PICK k \in DOMAIN h.ops : h.ops[k].kind \in StartKinds /\ h.ops[k].arg = Head(g.ops).arg
    BY <1>8 DEF Asks
  <2>2. 1 \in DOMAIN g.ops
    BY <1>2
  <2> QED
    BY <1>2, <1>3, <1>8, <2>1, <2>2 DEF AskedOnce
<1> QED
  BY <1>6, <1>7, <1>8 DEF h

\* So does the operation of a new delivery loop.
LEMMA LaunchesNarrow ==
  ASSUME NEW r \in TurnIds \cup {None}, NEW called \in BOOLEAN, NEW g \in Gates,
         deliverer \in [Deliverers -> Loops], NEW launch \in Launches(r, called, g)
  PROVE  /\ Narrower(g, launch.gate)
         /\ \A d \in Deliverers :
              \/ launch.loops[d] = deliverer[d]
              \/ launch.loops[d].stage = "reserve"
<1> DEFINE free == {d \in Deliverers : deliverer[d].stage = "idle"}
           loop == [Idle EXCEPT !.stage = "reserve", !.target = r, !.called = called]
<1>1. CASE free = {}
  BY <1>1, SameOps DEF Launches
<1>2. CASE free # {}
  <2>1. PICK d \in Deliverers :
          launch = [loops |-> [deliverer EXCEPT ![d] = loop],
                    gate |-> Called(g, Op("reserve", d))]
    BY <1>2 DEF Launches
  <2>2. Narrower(g, Called(g, Op("reserve", d)))
    BY CalledNarrows, OpIsOp DEF DelivererKinds, StartKinds, Op
  <2>3. loop.stage = "reserve"
    BY DEF Idle
  <2> QED
    BY <2>1, <2>2, <2>3
<1> QED
  BY <1>1, <1>2

-----------------------------------------------------------------------------
(* Where an input is *)

\* An input somebody still asks for is told nothing else, and like one nobody
\* has asked for yet it was never reserved.
AskInv ==
  /\ AskedOnce(gate)
  /\ \A i \in Inputs : Asks(gate, i) => fate[i] = "asked" /\ delivery[i] = "no"
  /\ \A i \in Inputs : fate[i] = "new" => delivery[i] = "no"

\* An input is asked for, queued, being started, or the turn of a run: one of these.
PlaceInv ==
  /\ starting # None => /\ starting \notin ToSet(queue)
                        /\ ~Asks(gate, starting)
                        /\ fate[starting] \notin {"new", "asked", "canceled"}
                        /\ delivery[starting] = "no"
  /\ \A i \in ToSet(queue) : fate[i] \notin {"new", "asked", "canceled"} /\ ~Asks(gate, i)
  /\ \A r \in Runs : alias[r] # None => /\ alias[r] \notin ToSet(queue)
                                        /\ ~Asks(gate, alias[r])
                                        /\ fate[alias[r]] # "new"

\* The loop d is removing the row of the input it delivered.
Settling(d) == At(Op("settle", d), "cleanup")

\* What an operation found before it waits holds when it goes on.
StepInv ==
  /\ step \in {"begun", "failing"} => promptRun # None
  /\ starting # None => \E s \in {"enter", "begun", "failing"} : At(Drain, s)
  /\ At(Drain, "store") => delivery[Head(queue)] = "no"
  /\ At(Drain, "cleanup") => delivery[Head(queue)] = "delivered"
  /\ \A i \in Inputs :
       At(Op("cancel", i), "store") => i \in ToSet(queue) /\ delivery[i] = "no"
  /\ \A d \in Deliverers :
       Settling(d) => /\ deliverer[d].stage = "accepted"
                      /\ delivery[deliverer[d].input] = "delivered"

\* The records of queued and of delivered inputs.
RecordInv ==
  /\ \A i \in Inputs : status[i] = "queued" => i \in ToSet(queue) \/ starting = i
  /\ \A i \in ToSet(queue) : delivery[i] = "pending" => status[i] # "none"
  /\ QueuedInputsWait
  /\ \A i \in Inputs : delivery[i] = "delivered" => fate[i] = "injected"

Holds(d) == deliverer[d].stage \in {"steer", "accepted", "refused"}

\* A loop holds an input that is queued and reserved; no other loop has it.
LoopInv ==
  /\ \A d \in Deliverers :
       Holds(d) => /\ deliverer[d].input \in ToSet(queue)
                   /\ delivery[deliverer[d].input] = "pending" \/ Settling(d)
  /\ \A d, e \in Deliverers :
       Holds(d) /\ Holds(e) /\ deliverer[d].input = deliverer[e].input => d = e

\* The prompt of the input may have reached the sidecar.
Prompted(i) ==
  AtPrompt(i, "failing") \/ (AtPrompt(i, "begun") /\ run[promptRun] # "begun")

\* Nobody who will have an input taken has had it taken before.
TakenInv ==
  /\ TakenAtMostOnce
  /\ \A i \in ToSet(queue) : delivery[i] = "no" => taken[i] = 0
  /\ \A d \in Deliverers :
       deliverer[d].stage \in {"steer", "refused"} => taken[deliverer[d].input] = 0
  /\ \A i \in Inputs : Asks(gate, i) \/ starting = i => taken[i] = 0 \/ Prompted(i)
  /\ \A i \in Inputs : fate[i] \in {"new", "canceled"} => taken[i] = 0

DeliveryInv ==
  AskInv /\ PlaceInv /\ StepInv /\ RecordInv /\ LoopInv /\ TakenInv /\ QueueInOrder

\* What the types say of the inputs that are somewhere.
LEMMA KnownInputs ==
  ASSUME TypeInv
  PROVE  /\ ToSet(queue) \subseteq Inputs
         /\ starting # None => starting \in Inputs
         /\ \A r \in Runs : alias[r] # None => alias[r] \in Inputs
         /\ queue # <<>> => Head(queue) \in ToSet(queue)
         /\ queue \in Seq(Inputs) /\ gate \in Gates
<1>1. queue \in Seq(Inputs) /\ gate \in Gates
  BY DEF TypeInv, TypeOK
<1>2. ToSet(queue) \subseteq Inputs
  BY <1>1 DEF ToSet
<1>3. queue # <<>> => Head(queue) \in ToSet(queue)
  BY <1>1, HeadTailProperties, LenProperties, EmptySeq DEF ToSet
<1> QED
  BY <1>1, <1>2, <1>3 DEF TypeInv, TypeOK

\* A step that leaves reservations and answers alone, and at most moves inputs
\* within the queue.
LEMMA MovedKeeps ==
  ASSUME TypeInv, TypeInv', DeliveryInv,
         ToSet(queue') = ToSet(queue), QueueInOrder',
         UNCHANGED <<delivery, fate, taken, starting>>,
         Narrower(gate, gate'), StepInv',
         \A d \in Deliverers :
           Holds(d)' => /\ Holds(d) /\ deliverer'[d] = deliverer[d]
                        /\ Settling(d) => Settling(d)',
         \A i \in Inputs : Asks(gate', i) \/ starting = i => (Prompted(i) => Prompted(i)'),
         \A r \in Runs : alias'[r] \in {alias[r], starting},
         \A i \in ToSet(queue) :
           \/ status'[i] = status[i]
           \/ status[i] = "none" /\ status'[i] = "queued",
         \A i \in Inputs :
           status'[i] = "queued" => status[i] = "queued" \/ i \in ToSet(queue)
  PROVE  DeliveryInv'
<1>0. ToSet(queue) \subseteq Inputs /\ (starting # None => starting \in Inputs)
      /\ \A r \in Runs : alias[r] # None => alias[r] \in Inputs
  BY KnownInputs
<1>1. AskInv'
  BY DEF DeliveryInv, AskInv, Narrower
<1>2. PlaceInv'
  <2>1. starting' # None => ~Asks(gate', starting')
    BY <1>0 DEF DeliveryInv, PlaceInv, Narrower
  <2>2. \A i \in ToSet(queue) : ~Asks(gate', i)
    BY <1>0 DEF DeliveryInv, PlaceInv, Narrower
  <2>3. ASSUME NEW r \in Runs, alias'[r] # None
        PROVE  alias'[r] \notin ToSet(queue) /\ ~Asks(gate', alias'[r]) /\ fate[alias'[r]] # "new"
    <3>1. CASE alias'[r] = alias[r]
      BY <1>0, <2>3, <3>1 DEF DeliveryInv, PlaceInv, Narrower
    <3>2. CASE alias'[r] = starting
      BY <2>1, <2>3, <3>2 DEF DeliveryInv, PlaceInv
    <3> QED
      BY <3>1, <3>2
  <2> QED
    BY <2>1, <2>2, <2>3 DEF DeliveryInv, PlaceInv
<1>3. RecordInv'
  BY <1>0 DEF DeliveryInv, RecordInv, QueuedInputsWait
<1>4. LoopInv'
  BY DEF DeliveryInv, LoopInv, Holds
<1>5. TakenInv'
  <2>1. \A d \in Deliverers :
          deliverer'[d].stage \in {"steer", "refused"} => taken[deliverer'[d].input] = 0
    BY DEF DeliveryInv, TakenInv, Holds
  <2>2. ASSUME NEW i \in Inputs, Asks(gate', i) \/ starting = i
        PROVE  taken[i] = 0 \/ Prompted(i)'
    BY <2>2 DEF DeliveryInv, TakenInv, Narrower
  <2> QED
    BY <2>1, <2>2 DEF DeliveryInv, TakenInv, TakenAtMostOnce
<1> QED
  BY <1>1, <1>2, <1>3, <1>4, <1>5 DEF DeliveryInv

\* A step that leaves queue, reservations and answers alone.
LEMMA QuietKeeps ==
  ASSUME TypeInv, TypeInv', DeliveryInv,
         UNCHANGED <<queue, promoted, delivery, fate, taken, starting>>,
         Narrower(gate, gate'), StepInv',
         \A d \in Deliverers :
           Holds(d)' => /\ Holds(d) /\ deliverer'[d] = deliverer[d]
                        /\ Settling(d) => Settling(d)',
         \A i \in Inputs : Asks(gate', i) \/ starting = i => (Prompted(i) => Prompted(i)'),
         \A r \in Runs : alias'[r] \in {alias[r], starting},
         \A i \in ToSet(queue) :
           \/ status'[i] = status[i]
           \/ status[i] = "none" /\ status'[i] = "queued",
         \A i \in Inputs :
           status'[i] = "queued" => status[i] = "queued" \/ i \in ToSet(queue)
  PROVE  DeliveryInv'
<1>1. ToSet(queue') = ToSet(queue) /\ QueueInOrder'
  BY DEF DeliveryInv, QueueInOrder
<1> QED
  BY <1>1, MovedKeeps

\* While other operations join the chain, the one that holds the session waits
\* where it is.
LEMMA StillAt ==
  ASSUME TypeInv, SameHolder(gate, gate'), step' = step, NEW op, NEW s, s # "begin"
  PROVE  At(op, s)' <=> At(op, s)
  BY DEF TypeInv, Ready, SameHolder, At

\* So it keeps what it found.
LEMMA StillFound ==
  ASSUME TypeInv, DeliveryInv, SameHolder(gate, gate'),
         UNCHANGED <<step, queue, delivery, starting, promptRun>>,
         \A d \in Deliverers : Settling(d) => deliverer'[d] = deliverer[d],
         \A r \in Runs : run[r] # "begun" => run'[r] # "begun"
  PROVE  /\ StepInv'
         /\ \A d \in Deliverers : Settling(d) => Settling(d)'
         /\ \A i \in Inputs : Prompted(i) => Prompted(i)'
<1>1. StepInv'
  <2>1. starting' # None => \E s \in {"enter", "begun", "failing"} : At(Drain, s)'
    <3>1. ASSUME NEW s \in {"enter", "begun", "failing"}
          PROVE  At(Drain, s)' <=> At(Drain, s)
      BY StillAt
    <3> QED
      BY <3>1 DEF DeliveryInv, StepInv
  <2>2. /\ At(Drain, "store")' <=> At(Drain, "store")
        /\ At(Drain, "cleanup")' <=> At(Drain, "cleanup")
    BY StillAt
  <2>3. ASSUME NEW i \in Inputs
        PROVE  At(Op("cancel", i), "store")' <=> At(Op("cancel", i), "store")
    BY StillAt
  <2>4. ASSUME NEW d \in Deliverers
        PROVE  Settling(d)' <=> Settling(d)
    BY StillAt DEF Settling
  <2> QED
    BY <2>1, <2>2, <2>3, <2>4 DEF DeliveryInv, StepInv
<1>2. ASSUME NEW d \in Deliverers, Settling(d)
      PROVE  Settling(d)'
  BY <1>2, StillAt DEF Settling
<1>3. ASSUME NEW i \in Inputs, Prompted(i)
      PROVE  Prompted(i)'
  <2>1. ASSUME NEW s \in {"begun", "failing"}, AtPrompt(i, s)
        PROVE  AtPrompt(i, s)'
    <3>1. At(Drain, s)' <=> At(Drain, s)
      BY StillAt
    <3>2. \A kind \in StartKinds : At(Op(kind, i), s)' <=> At(Op(kind, i), s)
      BY StillAt
    <3> QED
      BY <2>1, <3>1, <3>2 DEF AtPrompt
  <2>2. AtPrompt(i, "begun") => promptRun \in Runs
    BY DEF AtPrompt, At, DeliveryInv, StepInv, TypeInv, TypeOK
  <2> QED
    BY <1>3, <2>1, <2>2 DEF Prompted
<1> QED
  BY <1>1, <1>2, <1>3

\* The turn a run speaks about is not queued.
LEMMA ResolvedIsNotQueued ==
  ASSUME TypeInv, DeliveryInv, NEW r \in Runs
  PROVE  Resolved(r) \notin ToSet(queue)
<1>1. r \notin ToSet(queue)
  BY KnownInputs, HostAssumption DEF Runs
<1> QED
  BY <1>1 DEF Resolved, Adopts, DeliveryInv, PlaceInv

\* The steps outside the chain, without the calls that start an input.
LEMMA OutsideMore ==
  ASSUME TypeInv, OutsideSteps
  PROVE  \/ \E i \in Inputs, kind \in StartKinds : StartTurn(kind, i)
         \/ /\ UNCHANGED <<queue, promoted, fate, taken, promptRun>>
            /\ Narrower(gate, gate')
<1>0. gate \in Gates /\ Narrower(gate, gate)
  BY DEF TypeInv, TypeOK, Narrower
<1> DEFINE Quiet == /\ UNCHANGED <<queue, promoted, fate, taken, promptRun>>
                    /\ Narrower(gate, gate')
<1> USE DEF hostVars, queueVars, aliasVars, admissionVars, runtimeVars, ghostVars
<1>1. ASSUME NEW i \in Inputs, NEW kind \in MoveKinds \cup {"cancel"}, EditQueue(kind, i)
      PROVE  Quiet
  <2>1. Op(kind, i) \in Ops /\ Op(kind, i).kind \notin StartKinds
    BY OpIsOp DEF InputKinds, MoveKinds, StartKinds, Op
  <2> QED
    BY <1>0, <1>1, <2>1, CalledNarrows DEF EditQueue, Call
<1>2. ASSUME NEW r \in Runs, RunSteps(r)
      PROVE  Quiet
  <2>1. CASE AgentStart(r) \/ RunAborted(r) \/ AskUser(r)
    BY <1>0, <2>1 DEF AgentStart, RunAborted, AskUser
  <2>2. CASE AgentEnd(r)
    BY <1>0, <2>2, RequestedNarrows DEF AgentEnd, CloseTurn
  <2>3. CASE AgentError(r)
    BY <1>0, <2>3, RequestedNarrows DEF AgentError, CloseTurn
  <2>4. CASE Settle(r)
    BY <1>0, <2>4, RequestedNarrows, RequestedGate, NarrowerTwice DEF Settle
  <2> QED
    BY <1>2, <2>1, <2>2, <2>3, <2>4 DEF RunSteps, RunStep, RunEnds
<1>3. ASSUME NEW t \in TurnIds, Answered(t)
      PROVE  Quiet
  BY <1>0, <1>3 DEF Answered
<1>4. CASE ExternalEnter \/ ExternalBegin \/ ExternalLeave \/ PlanAwait
           \/ SessionChanged \/ StatusApplied
  BY <1>0, <1>4 DEF ExternalEnter, ExternalBegin, ExternalLeave, PlanAwait,
                    SessionChanged, StatusApplied
<1>5. CASE PlanLeave
  BY <1>0, <1>5, RequestedNarrows DEF PlanLeave
<1> QED
  BY <1>1, <1>2, <1>3, <1>4, <1>5 DEF OutsideSteps

\* What the steps outside the chain do to records and runs.
LEMMA OutsideRecords ==
  ASSUME TypeInv, DeliveryInv, OutsideSteps
  PROVE  /\ \A r \in Runs : alias'[r] \in {alias[r], starting}
         /\ \A i \in ToSet(queue) : status'[i] = status[i]
         /\ \A i \in Inputs : status'[i] = "queued" => status[i] = "queued"
         /\ \A r \in Runs : run[r] # "begun" => run'[r] # "begun"
<1> DEFINE Quiet == /\ \A r \in Runs : alias'[r] \in {alias[r], starting}
                    /\ \A i \in ToSet(queue) : status'[i] = status[i]
                    /\ \A i \in Inputs : status'[i] = "queued" => status[i] = "queued"
                    /\ \A r \in Runs : run[r] # "begun" => run'[r] # "begun"
<1>0. /\ status \in [TurnIds -> Status] /\ alias \in [Runs -> Inputs \cup {None}]
      /\ run \in [Runs -> RunLives]
      /\ ToSet(queue) \subseteq Inputs /\ Inputs \subseteq TurnIds
  BY KnownInputs DEF TypeInv, TypeOK, TurnIds
<1> USE DEF hostVars, queueVars, aliasVars, admissionVars, runtimeVars, ghostVars
<1>1. ASSUME NEW r \in Runs, RunSteps(r)
      PROVE  Quiet
  <2>1. Resolved(r) \notin ToSet(queue)
    BY ResolvedIsNotQueued
  <2>2. \A q \in Runs : alias'[q] \in {alias[q], starting}
    BY <1>0, <1>1
       DEF RunSteps, RunStep, RunEnds, AgentStart, AgentEnd, AgentError, RunAborted,
           Settle, AskUser, Adopt
  <2>3. \A q \in Runs : run[q] # "begun" => run'[q] # "begun"
    BY <1>0, <1>1
       DEF RunSteps, RunStep, RunEnds, AgentStart, AgentEnd, AgentError, RunAborted,
           Settle, AskUser
  <2>4. \/ status' = status
        \/ \E outcome \in Status \ {"queued"} :
             status' = [status EXCEPT ![Resolved(r)] = outcome]
    <3>1. CASE AgentStart(r) \/ RunAborted(r) \/ AskUser(r)
      BY <3>1 DEF AgentStart, RunAborted, AskUser, Status, Active
    <3>2. CASE AgentEnd(r) \/ AgentError(r)
      BY <3>2 DEF AgentEnd, AgentError, CloseTurn, Status, Terminal
    <3>3. CASE Settle(r)
      BY <3>3 DEF Settle, EndTurn, Status, Terminal
    <3> QED
      BY <1>1, <3>1, <3>2, <3>3 DEF RunSteps, RunStep, RunEnds
  <2> QED
    BY <1>0, <2>1, <2>2, <2>3, <2>4
<1>2. ASSUME NEW t \in TurnIds, Answered(t)
      PROVE  Quiet
  <2>1. t \notin ToSet(queue)
    BY <1>2 DEF Answered, DeliveryInv, RecordInv, QueuedInputsWait
  <2> QED
    BY <1>0, <1>2, <2>1 DEF Answered
<1>3. CASE ExternalBegin
  BY <1>0, <1>3 DEF ExternalBegin
<1>4. CASE ExternalEnter \/ ExternalLeave \/ PlanAwait \/ SessionChanged
           \/ StatusApplied \/ PlanLeave
  BY <1>4 DEF ExternalEnter, ExternalLeave, PlanAwait, SessionChanged, StatusApplied,
              PlanLeave
<1>5. ASSUME NEW i \in Inputs, NEW kind \in InputKinds, StartTurn(kind, i) \/ EditQueue(kind, i)
      PROVE  Quiet
  BY <1>5 DEF StartTurn, EditQueue
<1> QED
  BY <1>1, <1>2, <1>3, <1>4, <1>5 DEF OutsideSteps, InputKinds

\* They keep DeliveryInv.
LEMMA OutsideKeeps ==
  ASSUME TypeInv, TypeInv', DeliveryInv, OutsideSteps,
         ~\E i \in Inputs, kind \in StartKinds : StartTurn(kind, i)
  PROVE  DeliveryInv'
<1>1. /\ UNCHANGED <<starting, delivery, deliverer, step>>
      /\ SameHolder(gate, gate')
  BY OutsideFrame
<1>2. /\ UNCHANGED <<queue, promoted, fate, taken, promptRun>>
      /\ Narrower(gate, gate')
  BY OutsideMore
<1>3. /\ \A r \in Runs : alias'[r] \in {alias[r], starting}
      /\ \A i \in ToSet(queue) : status'[i] = status[i]
      /\ \A i \in Inputs : status'[i] = "queued" => status[i] = "queued"
      /\ \A r \in Runs : run[r] # "begun" => run'[r] # "begun"
  BY OutsideRecords
<1>4. /\ StepInv'
      /\ \A d \in Deliverers : Settling(d) => Settling(d)'
      /\ \A i \in Inputs : Prompted(i) => Prompted(i)'
  BY <1>1, <1>2, <1>3, StillFound
<1>5. \A d \in Deliverers : Holds(d)' => /\ Holds(d) /\ deliverer'[d] = deliverer[d]
                                         /\ Settling(d) => Settling(d)'
  BY <1>1, <1>4 DEF Holds
<1> QED
  BY <1>1, <1>2, <1>3, <1>4, <1>5, QuietKeeps

\* A controller attaches: queued inputs without a record get one.
LEMMA AttachKeeps ==
  ASSUME TypeInv, TypeInv', DeliveryInv, Attach
  PROVE  DeliveryInv'
<1>0. gate \in Gates /\ ToSet(queue) \subseteq Inputs /\ Inputs \subseteq TurnIds
  BY KnownInputs DEF TurnIds
<1>1. SameHolder(gate, gate') /\ Narrower(gate, gate')
  BY <1>0, RequestedGate, RequestedNarrows DEF Attach
<1>2. UNCHANGED <<queue, promoted, delivery, deliverer, fate, taken, starting, step, promptRun,
                  run, alias>>
  BY DEF Attach, aliasVars, runtimeVars, ghostVars
<1>3. /\ StepInv'
      /\ \A d \in Deliverers : Settling(d) => Settling(d)'
      /\ \A i \in Inputs : Prompted(i) => Prompted(i)'
  BY <1>1, <1>2, StillFound
<1>4. \A d \in Deliverers : Holds(d)' => /\ Holds(d) /\ deliverer'[d] = deliverer[d]
                                         /\ Settling(d) => Settling(d)'
  BY <1>2, <1>3 DEF Holds
<1>5. /\ \A i \in ToSet(queue) :
           \/ status'[i] = status[i]
           \/ status[i] = "none" /\ status'[i] = "queued"
      /\ \A i \in Inputs :
           status'[i] = "queued" => status[i] = "queued" \/ i \in ToSet(queue)
  BY <1>0 DEF Attach
<1>6. \A r \in Runs : alias'[r] \in {alias[r], starting}
  BY <1>2
<1> QED
  BY <1>1, <1>2, <1>3, <1>4, <1>5, <1>6, QuietKeeps

\* An input is submitted: it is nowhere else.
LEMMA SubmitKeeps ==
  ASSUME TypeInv, TypeInv', DeliveryInv, NEW i \in Inputs, NEW kind \in StartKinds,
         StartTurn(kind, i)
  PROVE  DeliveryInv'
<1>0. gate \in Gates /\ ToSet(queue) \subseteq Inputs /\ (starting # None => starting \in Inputs)
      /\ (\A r \in Runs : alias[r] # None => alias[r] \in Inputs)
      /\ fate \in [Inputs -> Fates] /\ fate[i] = "new" /\ fate' = [fate EXCEPT ![i] = "asked"]
  BY KnownInputs DEF TypeInv, TypeOK, StartTurn
<1>1. UNCHANGED <<queue, promoted, delivery, deliverer, taken, starting, step, promptRun,
                  run, alias, status>>
  BY DEF StartTurn, hostVars, queueVars, aliasVars, runtimeVars
<1>2. ~Asks(gate, i)
  BY <1>0 DEF DeliveryInv, AskInv
<1>3. /\ AskedOnce(gate')
      /\ \A j \in Inputs : Asks(gate', j) => Asks(gate, j) \/ j = i
      /\ SameHolder(gate, gate')
  BY <1>0, <1>2, CalledAsks, CalledGate, OpIsOp
     DEF StartTurn, Call, DeliveryInv, AskInv, InputKinds
<1>4. /\ StepInv'
      /\ \A d \in Deliverers : Settling(d) => Settling(d)'
      /\ \A j \in Inputs : Prompted(j) => Prompted(j)'
  BY <1>1, <1>3, StillFound
<1>5. AskInv'
  BY <1>0, <1>1, <1>3 DEF DeliveryInv, AskInv
<1>6. PlaceInv'
  <2>1. i \notin ToSet(queue) /\ starting # i /\ \A r \in Runs : alias[r] # i
    BY <1>0, HostAssumption DEF DeliveryInv, PlaceInv
  <2> QED
    BY <1>0, <1>1, <1>3, <2>1 DEF DeliveryInv, PlaceInv
<1>7. RecordInv'
  BY <1>0, <1>1 DEF DeliveryInv, RecordInv, QueuedInputsWait, AskInv
<1>8. LoopInv'
  BY <1>1, <1>4 DEF DeliveryInv, LoopInv, Holds
<1>9. TakenInv'
  BY <1>0, <1>1, <1>3, <1>4 DEF DeliveryInv, TakenInv, TakenAtMostOnce
<1>10. QueueInOrder'
  BY <1>1 DEF DeliveryInv, QueueInOrder
<1> QED
  BY <1>4, <1>5, <1>6, <1>7, <1>8, <1>9, <1>10 DEF DeliveryInv

\* Before the prompt nothing is being started.
LEMMA NotPrompted ==
  ASSUME DeliveryInv, step \in {"begin", "store", "cleanup"}
  PROVE  starting = None /\ \A i \in Inputs : ~Prompted(i)
  BY DEF DeliveryInv, StepInv, Prompted, AtPrompt, At

\* An operation without an effect leaves the chain.
LEMMA LeavingKeeps ==
  ASSUME TypeInv, TypeInv', DeliveryInv,
         UNCHANGED <<queue, promoted, delivery, fate, taken, starting, alias, status>>,
         Narrower(gate, gate'), step \in {"begin", "store", "cleanup"}, step' = "begin",
         \A d \in Deliverers :
           Holds(d)' => Holds(d) /\ deliverer'[d] = deliverer[d] /\ ~Settling(d)
  PROVE  DeliveryInv'
<1>1. starting = None /\ \A i \in Inputs : ~Prompted(i)
  BY NotPrompted
<1>2. StepInv'
  BY <1>1 DEF StepInv, At, Settling
<1> QED
  BY <1>1, <1>2, QuietKeeps

\* An operation starts to wait.
LEMMA WaitingKeeps ==
  ASSUME TypeInv, TypeInv', DeliveryInv,
         UNCHANGED <<queue, promoted, delivery, fate, taken, starting, alias, gate, deliverer>>,
         step = "begin", StepInv',
         \/ status' = status
         \/ \E i \in ToSet(queue) :
              status' = [status EXCEPT ![i] = IF @ = "none" THEN "queued" ELSE @]
  PROVE  DeliveryInv'
<1>1. starting = None /\ \A i \in Inputs : ~Prompted(i)
  BY NotPrompted
<1>2. \A d \in Deliverers : ~Settling(d)
  BY DEF Settling, At
<1>3. Narrower(gate, gate')
  BY DEF Narrower
<1>4. ToSet(queue) \subseteq Inputs /\ Inputs \subseteq TurnIds /\ status \in [TurnIds -> Status]
  BY KnownInputs DEF TypeInv, TypeOK, TurnIds
<1>5. /\ \A i \in ToSet(queue) :
           \/ status'[i] = status[i]
           \/ status[i] = "none" /\ status'[i] = "queued"
      /\ \A i \in Inputs :
           status'[i] = "queued" => status[i] = "queued" \/ i \in ToSet(queue)
  BY <1>4
<1>6. \A d \in Deliverers : Holds(d)' => Holds(d) /\ deliverer'[d] = deliverer[d]
  BY DEF Holds
<1> QED
  BY <1>1, <1>2, <1>3, <1>5, <1>6, QuietKeeps

\* The session is held by one operation.
LEMMA OneHolder ==
  ASSUME DeliveryInv, NEW i \in Inputs, NEW kind \in StartKinds, NEW s,
         At(Op(kind, i), s)
  PROVE  /\ starting = None
         /\ \A j \in Inputs, z \in Steps : AtPrompt(j, z) => j = i
         /\ Asks(gate, i) \/ gate \notin Gates
<1>1. Op(kind, i) # Drain /\ Op(kind, i).kind = kind /\ Op(kind, i).arg = i
  BY DEF Op, Drain, StartKinds
<1>2. starting = None
  BY <1>1 DEF DeliveryInv, StepInv, At
<1>3. ASSUME NEW j \in Inputs, NEW z \in Steps, AtPrompt(j, z)
      PROVE  j = i
  <2>1. PICK other \in StartKinds : At(Op(other, j), z)
    BY <1>1, <1>3 DEF AtPrompt, At
  <2>2. Op(other, j) = Op(kind, i)
    BY <2>1 DEF At
  <2> QED
    BY <1>1, <2>2 DEF Op
<1>4. ASSUME gate \in Gates
      PROVE  Asks(gate, i)
  <2>1. gate.ops \in Seq(Ops) /\ gate.ops # <<>>
    BY <1>4 DEF Gates, At
  <2>2. 1 \in DOMAIN gate.ops /\ gate.ops[1] = Op(kind, i)
    BY <2>1, HeadTailProperties, LenProperties, EmptySeq DEF At
  <2> QED
    BY <1>1, <2>2 DEF Asks
<1> QED
  BY <1>2, <1>3, <1>4

\* The client of an input that never was in the queue gets its answer.
LEMMA AnswerKeeps ==
  ASSUME TypeInv, TypeInv', DeliveryInv, NEW i \in Inputs, NEW kind \in StartKinds, NEW s,
         At(Op(kind, i), s), gate' = Popped(gate), step' = "begin",
         NEW told \in Fates \ {"new", "canceled"}, fate' = [fate EXCEPT ![i] = told],
         \A j \in Inputs : status'[j] = status[j],
         starting' = None,
         UNCHANGED <<queue, promoted, delivery, taken, alias, deliverer>>
  PROVE  DeliveryInv'
<1>0. gate \in Gates /\ ToSet(queue) \subseteq Inputs /\ fate \in [Inputs -> Fates]
      /\ (\A r \in Runs : alias[r] # None => alias[r] \in Inputs)
  BY KnownInputs DEF TypeInv, TypeOK
<1>1. /\ starting = None
      /\ \A j \in Inputs : Prompted(j) => j = i
      /\ Asks(gate, i)
  BY <1>0, OneHolder DEF Prompted, Steps
<1>2. Narrower(gate, gate') /\ ~Asks(gate', i)
  <2>1. gate.ops # <<>> /\ Head(gate.ops).kind \in StartKinds /\ Head(gate.ops).arg = i
    BY DEF At, Op
  <2> QED
    BY <1>0, <2>1, PoppedNarrows DEF DeliveryInv, AskInv
<1>3. delivery[i] = "no" /\ i \notin ToSet(queue)
  BY <1>1 DEF DeliveryInv, AskInv, PlaceInv
<1>4. AskInv'
  BY <1>0, <1>2 DEF DeliveryInv, AskInv, Narrower
<1>5. PlaceInv'
  BY <1>0, <1>1, <1>2, <1>3 DEF DeliveryInv, PlaceInv, Narrower
<1>6. StepInv'
  BY <1>1 DEF StepInv, At, Settling
<1>7. RecordInv'
  BY <1>0, <1>1, <1>3 DEF DeliveryInv, RecordInv, QueuedInputsWait
<1>8. LoopInv'
  <2>1. \A d \in Deliverers : ~Settling(d)
    BY DEF Settling, At, Op, StartKinds
  <2> QED
    BY <2>1 DEF DeliveryInv, LoopInv, Holds
<1>9. TakenInv'
  <2>1. ASSUME NEW j \in Inputs, Asks(gate', j) \/ starting' = j
        PROVE  taken[j] = 0
    BY <1>1, <1>2, <2>1, HostAssumption DEF DeliveryInv, TakenInv, Narrower
  <2>2. \A j \in Inputs : fate'[j] \in {"new", "canceled"} => taken[j] = 0
    BY <1>0 DEF DeliveryInv, TakenInv
  <2> QED
    BY <2>1, <2>2 DEF DeliveryInv, TakenInv, TakenAtMostOnce
<1>10. QueueInOrder'
  BY DEF DeliveryInv, QueueInOrder
<1> QED
  BY <1>4, <1>5, <1>6, <1>7, <1>8, <1>9, <1>10 DEF DeliveryInv

\* The input goes to the end of the queue.
LEMMA PushKeeps ==
  ASSUME TypeInv, TypeInv', DeliveryInv, NEW i \in Inputs, NEW kind \in StartKinds,
         Pushed(kind, i)
  PROVE  DeliveryInv'
<1>0. /\ gate \in Gates /\ ToSet(queue) \subseteq Inputs /\ queue \in Seq(Inputs)
      /\ fate \in [Inputs -> Fates] /\ status \in [TurnIds -> Status] /\ Inputs \subseteq TurnIds
      /\ (\A r \in Runs : alias[r] # None => alias[r] \in Inputs)
  BY KnownInputs DEF TypeInv, TypeOK, TurnIds
<1>1. /\ At(Op(kind, i), "store") /\ step' = "begin"
      /\ queue' = Append(queue, i)
      /\ fate' = [fate EXCEPT ![i] = "queued"]
      /\ status' = [status EXCEPT ![i] = "queued"]
      /\ UNCHANGED <<promoted, delivery, taken, alias, deliverer, starting>>
  BY DEF Pushed, aliasVars
<1>2. starting = None /\ (\A j \in Inputs : ~Prompted(j)) /\ Asks(gate, i)
  BY <1>0, <1>1, OneHolder, NotPrompted DEF At
<1>3. Narrower(gate, gate') /\ ~Asks(gate', i)
  <2>1. gate.ops # <<>> /\ Head(gate.ops).kind \in StartKinds /\ Head(gate.ops).arg = i
    BY <1>1 DEF At, Op
  <2>2. Popped(gate) \in Gates /\ Narrower(gate, Popped(gate)) /\ ~Asks(Popped(gate), i)
    BY <1>0, <2>1, PoppedGate, PoppedNarrows DEF DeliveryInv, AskInv
  <2>3. Narrower(Popped(gate), Requested(Popped(gate)))
    BY <2>2, RequestedNarrows
  <2>4. CASE gate' = Popped(gate)
    BY <2>2, <2>4
  <2>5. CASE gate' = Requested(Popped(gate))
    BY <2>2, <2>3, <2>5, NarrowerTwice DEF Narrower
  <2> QED
    BY <2>4, <2>5 DEF Pushed
<1>4. delivery[i] = "no" /\ i \notin ToSet(queue) /\ fate[i] = "asked"
      /\ \A r \in Runs : alias[r] # i
  BY <1>0, <1>2, HostAssumption DEF DeliveryInv, AskInv, PlaceInv
<1>5. /\ ToSet(queue') = ToSet(queue) \cup {i}
      /\ QueueInOrder'
  <2>1. i \notin promoted /\ Ordered(queue, promoted)
    BY <1>4 DEF DeliveryInv, QueueInOrder
  <2>2. /\ ToSet(queue') = ToSet(queue) \cup {i}
        /\ Ordered(queue', promoted)
    BY <1>0, <1>1, <1>4, <2>1, AppendOrdered
  <2> QED
    BY <1>1, <2>2 DEF DeliveryInv, QueueInOrder
<1>6. AskInv'
  BY <1>0, <1>1, <1>3 DEF DeliveryInv, AskInv, Narrower
<1>7. PlaceInv'
  BY <1>0, <1>1, <1>2, <1>3, <1>4, <1>5 DEF DeliveryInv, PlaceInv, Narrower
<1>8. StepInv'
  BY <1>1, <1>2 DEF StepInv, At, Settling
<1>9. RecordInv'
  BY <1>0, <1>1, <1>2, <1>4, <1>5 DEF DeliveryInv, RecordInv, QueuedInputsWait
<1>10. LoopInv'
  <2>1. \A d \in Deliverers : ~Settling(d)
    BY <1>1 DEF Settling, At
  <2> QED
    BY <1>1, <1>5, <2>1 DEF DeliveryInv, LoopInv, Holds
<1>11. TakenInv'
  <2>1. taken[i] = 0
    BY <1>2 DEF DeliveryInv, TakenInv
  <2>2. ASSUME NEW j \in Inputs, Asks(gate', j) \/ starting' = j
        PROVE  taken[j] = 0
    BY <1>1, <1>2, <1>3, <2>2, HostAssumption DEF DeliveryInv, TakenInv, Narrower
  <2>3. \A j \in Inputs : fate'[j] \in {"new", "canceled"} => taken[j] = 0
    BY <1>0, <1>1 DEF DeliveryInv, TakenInv
  <2> QED
    BY <1>1, <1>5, <2>1, <2>2, <2>3 DEF DeliveryInv, TakenInv, TakenAtMostOnce
<1> QED
  BY <1>5, <1>6, <1>7, <1>8, <1>9, <1>10, <1>11 DEF DeliveryInv

\* Starting an input keeps DeliveryInv.
LEMMA StartKeeps ==
  ASSUME TypeInv, TypeInv', DeliveryInv, NEW i \in Inputs, NEW kind \in StartKinds,
         StartSteps(kind, i)
  PROVE  DeliveryInv'
<1> USE DEF hostVars, queueVars, aliasVars, runtimeVars, ghostVars
<1>1. CASE StartRejected(kind, i) \/ PushFails(kind, i)
  <2>1. PICK s : At(Op(kind, i), s)
    BY <1>1 DEF StartRejected, PushFails
  <2>2. "rejected" \in Fates \ {"new", "canceled"}
    BY DEF Fates
  <2>3. /\ gate' = Popped(gate) /\ step' = "begin"
        /\ fate' = [fate EXCEPT ![i] = "rejected"]
        /\ UNCHANGED <<queue, promoted, delivery, taken, alias, deliverer, status, starting>>
    BY <1>1 DEF StartRejected, PushFails, Done
  <2>4. starting = None
    BY <2>1, OneHolder
  <2> QED
    BY <2>1, <2>2, <2>3, <2>4, AnswerKeeps
<1>2. CASE StartReplied(kind, i)
  <2>1. At(Op(kind, i), "begun") /\ starting' = None
    BY <1>2, OneHolder DEF StartReplied
  <2>2. "started" \in Fates \ {"new", "canceled"}
    BY DEF Fates
  <2>3. /\ gate' = Popped(gate) /\ step' = "begin"
        /\ fate' = [fate EXCEPT ![i] = "started"]
        /\ UNCHANGED <<queue, promoted, delivery, taken, alias, deliverer>>
    BY <1>2 DEF StartReplied, Done
  <2>4. \A j \in Inputs : status'[j] = status[j]
    BY <1>2, HostAssumption DEF StartReplied, TypeInv, TypeOK, TurnIds, Runs
  <2> QED
    BY <2>1, <2>2, <2>3, <2>4, AnswerKeeps
<1>3. CASE StartPushes(kind, i) \/ StartPrompts(kind, i)
  <2>1. /\ At(Op(kind, i), "begin") /\ step' \in {"store", "enter"}
        /\ UNCHANGED <<queue, promoted, delivery, fate, taken, starting, alias, gate,
                       deliverer, status>>
    BY <1>3 DEF StartPushes, StartPrompts
  <2>2. StepInv'
    <3>1. starting = None
      BY <2>1, OneHolder
    <3>2. /\ Op(kind, i) # Drain
          /\ \A j \in Inputs : Op(kind, i) # Op("cancel", j)
          /\ \A d \in Deliverers : Op(kind, i) # Op("settle", d)
      BY DEF Op, Drain, StartKinds
    <3> QED
      BY <2>1, <3>1, <3>2 DEF StepInv, At, Settling
  <2>3. step = "begin"
    BY <2>1 DEF At
  <2> QED
    BY <2>1, <2>2, <2>3, WaitingKeeps
<1>4. CASE Pushed(kind, i)
  BY <1>4, PushKeeps
<1> QED
  BY <1>1, <1>2, <1>3, <1>4 DEF StartSteps

\* While the drain starts an input, it prompts for that one.
LEMMA OneStarting ==
  ASSUME DeliveryInv, starting # None
  PROVE  /\ step \in {"enter", "begun", "failing"} /\ gate.ops # <<>> /\ Head(gate.ops) = Drain
         /\ \A j \in Inputs, z \in Steps : AtPrompt(j, z) => j = starting
         /\ \A d \in Deliverers : ~Settling(d)
<1>1. step \in {"enter", "begun", "failing"} /\ gate.ops # <<>> /\ Head(gate.ops) = Drain
  BY DEF DeliveryInv, StepInv, At
<1>2. \A j \in Inputs, kind \in StartKinds : Op(kind, j) # Drain
  BY DEF Op, Drain, StartKinds
<1>3. \A d \in Deliverers : ~Settling(d)
  BY <1>1 DEF Settling, At
<1> QED
  BY <1>1, <1>2, <1>3 DEF AtPrompt, At

\* The drain has started its input, or failed to.
LEMMA StartingEnds ==
  ASSUME TypeInv, TypeInv', DeliveryInv, starting # None, starting' = None,
         step' = "begin", Narrower(gate, gate'),
         NEW told \in Fates \ {"new", "canceled"}, fate' = [fate EXCEPT ![starting] = told],
         \A j \in Inputs \ {starting} : status'[j] = status[j],
         status'[starting] # "queued",
         \A r \in Runs : alias'[r] \in {alias[r], starting},
         \A d \in Deliverers : Holds(d)' => Holds(d) /\ deliverer'[d] = deliverer[d],
         UNCHANGED <<queue, promoted, delivery, taken>>
  PROVE  DeliveryInv'
<1>0. /\ gate \in Gates /\ ToSet(queue) \subseteq Inputs /\ starting \in Inputs
      /\ fate \in [Inputs -> Fates]
      /\ (\A r \in Runs : alias[r] # None => alias[r] \in Inputs)
  BY KnownInputs DEF TypeInv, TypeOK
<1>1. /\ \A j \in Inputs : Prompted(j) => j = starting
      /\ \A d \in Deliverers : ~Settling(d)
  BY <1>0, OneStarting DEF Prompted, Steps
<1>2. /\ starting \notin ToSet(queue) /\ ~Asks(gate, starting) /\ ~Asks(gate', starting)
      /\ delivery[starting] = "no"
  BY <1>0 DEF DeliveryInv, PlaceInv, Narrower
<1>3. AskInv'
  BY <1>0, <1>2 DEF DeliveryInv, AskInv, Narrower
<1>4. PlaceInv'
  <2>1. \A i \in ToSet(queue) : fate'[i] \notin {"new", "asked", "canceled"} /\ ~Asks(gate', i)
    BY <1>0, <1>2 DEF DeliveryInv, PlaceInv, Narrower
  <2>2. ASSUME NEW r \in Runs, alias'[r] # None
        PROVE  /\ alias'[r] \notin ToSet(queue) /\ ~Asks(gate', alias'[r])
               /\ fate'[alias'[r]] # "new"
    BY <1>0, <1>2, <2>2 DEF DeliveryInv, PlaceInv, Narrower
  <2> QED
    BY <2>1, <2>2 DEF DeliveryInv, PlaceInv
<1>5. StepInv'
  BY DEF StepInv, At, Settling
<1>6. RecordInv'
  BY <1>0, <1>2 DEF DeliveryInv, RecordInv, QueuedInputsWait
<1>7. LoopInv'
  BY <1>1 DEF DeliveryInv, LoopInv, Holds
<1>8. TakenInv'
  <2>1. ASSUME NEW j \in Inputs, Asks(gate', j) \/ starting' = j
        PROVE  taken[j] = 0
    <3>1. Asks(gate, j) /\ j # starting
      BY <1>2, <2>1, HostAssumption DEF Narrower
    <3> QED
      BY <1>1, <3>1 DEF DeliveryInv, TakenInv
  <2>2. \A j \in Inputs : fate'[j] \in {"new", "canceled"} => taken[j] = 0
    BY <1>0 DEF DeliveryInv, TakenInv
  <2>3. \A d \in Deliverers :
          deliverer'[d].stage \in {"steer", "refused"} => taken[deliverer'[d].input] = 0
    BY DEF DeliveryInv, TakenInv, Holds
  <2> QED
    BY <2>1, <2>2, <2>3 DEF DeliveryInv, TakenInv, TakenAtMostOnce
<1>9. QueueInOrder'
  BY DEF DeliveryInv, QueueInOrder
<1> QED
  BY <1>3, <1>4, <1>5, <1>6, <1>7, <1>8, <1>9 DEF DeliveryInv

\* prompt() throws.
LEMMA ThrowingKeeps ==
  ASSUME TypeInv, TypeInv', DeliveryInv, NEW i \in Inputs, NEW s, AtPrompt(i, s),
         PromptThrows(i)
  PROVE  DeliveryInv'
<1> USE DEF queueVars, runtimeVars
<1>1. CASE starting = i
  <2>1. "failed" \in Fates \ {"new", "canceled"}
    BY DEF Fates
  <2>2. status \in [TurnIds -> Status] /\ i \in TurnIds
    BY DEF TypeInv, TypeOK, TurnIds
  <2>3. /\ status' = [status EXCEPT ![i] = "failed"] /\ fate' = [fate EXCEPT ![i] = "failed"]
        /\ gate' = gate /\ starting' = None /\ step' = "begin"
        /\ UNCHANGED <<delivery, queue, promoted, alias, deliverer, taken>>
    BY <1>1 DEF PromptThrows
  <2>4. starting # None /\ Narrower(gate, gate')
    BY <1>1, <2>3, HostAssumption DEF Narrower
  <2>5. /\ \A j \in Inputs \ {starting} : status'[j] = status[j]
        /\ status'[starting] # "queued"
        /\ \A d \in Deliverers : Holds(d)' => Holds(d) /\ deliverer'[d] = deliverer[d]
        /\ \A r \in Runs : alias'[r] \in {alias[r], starting}
    BY <1>1, <2>2, <2>3 DEF Holds
  <2> QED
    BY <1>1, <2>1, <2>3, <2>4, <2>5, StartingEnds
<1>2. CASE starting # i
  <2>1. PICK kind \in StartKinds : At(Op(kind, i), s)
    BY <1>2 DEF AtPrompt
  <2>2. "rejected" \in Fates \ {"new", "canceled"}
    BY DEF Fates
  <2>3. /\ gate' = Popped(gate) /\ step' = "begin" /\ starting' = None
        /\ fate' = [fate EXCEPT ![i] = "rejected"]
        /\ UNCHANGED <<queue, promoted, delivery, taken, alias, deliverer, status>>
    BY <1>2 DEF PromptThrows
  <2> QED
    BY <2>1, <2>2, <2>3, AnswerKeeps
<1> QED
  BY <1>1, <1>2

\* The input a prompt is for is in nobody else's hands.
LEMMA PromptedInput ==
  ASSUME TypeInv, DeliveryInv, NEW i \in Inputs, NEW s \in Steps, AtPrompt(i, s)
  PROVE  /\ Asks(gate, i) \/ starting = i
         /\ i \notin ToSet(queue)
         /\ fate[i] \notin {"new", "canceled"}
         /\ \A j \in Inputs, z \in Steps : AtPrompt(j, z) => j = i
         /\ \A d \in Deliverers : ~Settling(d)
         /\ starting # None => starting = i
<1>1. CASE starting = i
  BY <1>1, OneStarting, HostAssumption DEF DeliveryInv, PlaceInv
<1>2. CASE starting # i
  <2>1. PICK kind \in StartKinds : At(Op(kind, i), s)
    BY <1>2 DEF AtPrompt
  <2>2. /\ starting = None /\ Asks(gate, i)
        /\ \A j \in Inputs, z \in Steps : AtPrompt(j, z) => j = i
    BY <2>1, OneHolder, KnownInputs
  <2>3. \A d \in Deliverers : ~Settling(d)
    BY <2>1 DEF Settling, At, Op, StartKinds
  <2>4. i \notin ToSet(queue) /\ fate[i] = "asked"
    BY <2>2 DEF DeliveryInv, PlaceInv, AskInv
  <2> QED
    BY <2>2, <2>3, <2>4
<1> QED
  BY <1>1, <1>2

\* Prompting keeps DeliveryInv: the sidecar takes the input for the first time.
LEMMA PromptKeeps ==
  ASSUME TypeInv, TypeInv', DeliveryInv, NEW i \in Inputs, PromptSteps(i)
  PROVE  DeliveryInv'
<1> USE DEF hostVars, queueVars, aliasVars, runtimeVars, ghostVars
<1>1. CASE PromptRefused(i)
  BY <1>1, ThrowingKeeps DEF PromptRefused
<1>2. CASE PromptFailed(i)
  BY <1>2, ThrowingKeeps DEF PromptFailed
<1>3. CASE PromptBegins(i)
  <2>1. /\ UNCHANGED <<queue, promoted, delivery, fate, taken, starting, alias, gate,
                       deliverer, status>>
        /\ AtPrompt(i, "enter") /\ step' = "begun" /\ promptRun' = spent.runs + 1
    BY <1>3 DEF PromptBegins
  <2>2. step = "enter" /\ promptRun' # None
    BY <1>3, <2>1, NextRun, HostAssumption DEF PromptBegins, AtPrompt, At, Runs
  <2>3. StepInv'
    <3>1. starting # None => At(Drain, "begun")'
      BY <2>1, OneStarting DEF At
    <3> QED
      BY <2>1, <2>2, <3>1 DEF StepInv, At, Settling
  <2>4. \A j \in Inputs : ~Prompted(j)
    BY <2>2 DEF Prompted, AtPrompt, At
  <2>5. \A d \in Deliverers : Holds(d)' => /\ Holds(d) /\ deliverer'[d] = deliverer[d]
                                           /\ ~Settling(d)
    BY <2>1, <2>2 DEF Holds, Settling, At
  <2>6. Narrower(gate, gate')
    BY <2>1 DEF Narrower
  <2> QED
    BY <2>1, <2>3, <2>4, <2>5, <2>6, QuietKeeps
<1>4. CASE PromptAbandoned(i)
  <2>1. /\ UNCHANGED <<queue, promoted, delivery, fate, taken, starting, alias, gate,
                       deliverer, status, promptRun>>
        /\ AtPrompt(i, "begun") /\ step' = "failing"
    BY <1>4 DEF PromptAbandoned
  <2>2. step = "begun" /\ promptRun # None
    BY <2>1 DEF AtPrompt, At, DeliveryInv, StepInv
  <2>3. StepInv'
    <3>1. starting # None => At(Drain, "failing")'
      BY <2>1, OneStarting DEF At
    <3> QED
      BY <2>1, <2>2, <3>1 DEF StepInv, At, Settling
  <2>4. \A j \in Inputs : Prompted(j) => Prompted(j)'
    <3>1. \A j \in Inputs : AtPrompt(j, "begun") => AtPrompt(j, "failing")'
      BY <2>1 DEF AtPrompt, At
    <3> QED
      BY <2>2, <3>1 DEF Prompted, AtPrompt, At
  <2>5. \A d \in Deliverers : Holds(d)' => /\ Holds(d) /\ deliverer'[d] = deliverer[d]
                                           /\ ~Settling(d)
    BY <2>1, <2>2 DEF Holds, Settling, At
  <2>6. Narrower(gate, gate')
    BY <2>1 DEF Narrower
  <2> QED
    BY <2>1, <2>3, <2>4, <2>5, <2>6, QuietKeeps
<1>5. CASE SidecarTakes(i)
  <2>0. /\ taken \in [Inputs -> Nat] /\ run \in [Runs -> RunLives]
        /\ (starting # None => starting \in Inputs)
        /\ (\A r \in Runs : alias[r] # None => alias[r] \in Inputs)
        /\ alias \in [Runs -> Inputs \cup {None}]
    BY KnownInputs DEF TypeInv, TypeOK
  <2>1. /\ UNCHANGED <<queue, promoted, delivery, fate, starting, gate, deliverer, status,
                       step, promptRun>>
        /\ AtPrompt(i, "begun") /\ run[promptRun] = "begun"
        /\ taken' = [taken EXCEPT ![i] = @ + 1]
        /\ run' = [run EXCEPT ![promptRun] = "taken"]
    BY <1>5 DEF SidecarTakes
  <2>2. /\ Asks(gate, i) \/ starting = i
        /\ i \notin ToSet(queue)
        /\ fate[i] \notin {"new", "canceled"}
        /\ \A j \in Inputs, z \in Steps : AtPrompt(j, z) => j = i
        /\ \A d \in Deliverers : ~Settling(d)
    BY <2>1, PromptedInput DEF Steps
  <2>3. step = "begun" /\ promptRun \in Runs /\ ~Prompted(i)
    BY <2>1 DEF AtPrompt, At, DeliveryInv, StepInv, Prompted, TypeInv, TypeOK
  <2>4. taken[i] = 0 /\ taken'[i] = 1
    BY <2>0, <2>1, <2>2, <2>3 DEF DeliveryInv, TakenInv
  <2>5. Prompted(i)'
    <3>1. AtPrompt(i, "begun")'
      BY <2>1 DEF AtPrompt, At
    <3> QED
      BY <2>0, <2>1, <2>3, <3>1 DEF Prompted
  <2>6. TakenInv'
    <3>1. \A d \in Deliverers : Holds(d) => deliverer[d].input # i
      BY <2>2 DEF DeliveryInv, LoopInv
    <3>2. ASSUME NEW j \in Inputs, Asks(gate, j) \/ starting = j
          PROVE  taken'[j] = 0 \/ Prompted(j)'
      <4>1. CASE j = i
        BY <2>5, <4>1
      <4>2. CASE j # i
        <5>1. ~Prompted(j)
          BY <2>2, <4>2 DEF Prompted, Steps
        <5> QED
          BY <2>0, <2>1, <3>2, <4>2, <5>1 DEF DeliveryInv, TakenInv
      <4> QED
        BY <4>1, <4>2
    <3>3. \A j \in ToSet(queue) : taken'[j] = taken[j]
      BY <2>0, <2>1, <2>2, KnownInputs
    <3>4. \A d \in Deliverers : Holds(d) => taken'[deliverer[d].input] = taken[deliverer[d].input]
      BY <3>3 DEF DeliveryInv, LoopInv
    <3>5. \A j \in Inputs : taken'[j] <= 1
      BY <2>0, <2>1, <2>4 DEF DeliveryInv, TakenInv, TakenAtMostOnce
    <3>6. \A j \in Inputs : fate[j] \in {"new", "canceled"} => taken'[j] = 0
      BY <2>0, <2>1, <2>2 DEF DeliveryInv, TakenInv
    <3>7. \A d \in Deliverers :
            deliverer[d].stage \in {"steer", "refused"} => taken'[deliverer[d].input] = 0
      BY <3>4 DEF DeliveryInv, TakenInv, Holds
    <3>8. \A j \in ToSet(queue) : delivery[j] = "no" => taken'[j] = 0
      BY <3>3 DEF DeliveryInv, TakenInv
    <3> QED
      BY <2>1, <3>2, <3>5, <3>6, <3>7, <3>8 DEF TakenInv, TakenAtMostOnce
  <2>7. PlaceInv'
    <3>1. \A r \in Runs : alias'[r] \in {alias[r], starting}
      BY <1>5, <2>0 DEF SidecarTakes, Adopt
    <3> QED
      BY <2>0, <2>1, <3>1 DEF DeliveryInv, PlaceInv
  <2>8. StepInv' /\ AskInv' /\ RecordInv' /\ LoopInv' /\ QueueInOrder'
    BY <2>1 DEF DeliveryInv, StepInv, AskInv, RecordInv, LoopInv, QueueInOrder, At, Settling,
                Holds, QueuedInputsWait
  <2> QED
    BY <2>6, <2>7, <2>8 DEF DeliveryInv
<1> QED
  BY <1>1, <1>2, <1>3, <1>4, <1>5 DEF PromptSteps

\* An input leaves the queue: to be started, delivered before, or canceled.
LEMMA RemovalKeeps ==
  ASSUME TypeInv, TypeInv', DeliveryInv, NEW x \in ToSet(queue),
         step \in {"store", "cleanup"}, Narrower(gate, gate'), StepInv',
         ToSet(queue') = ToSet(queue) \ {x}, QueueInOrder',
         UNCHANGED <<delivery, taken, alias>>,
         starting' \in {None, x},
         starting' = x => delivery[x] = "no" /\ fate'[x] # "canceled",
         \A j \in Inputs \ {x} : status'[j] = status[j] /\ fate'[j] = fate[j],
         status'[x] = "queued" => starting' = x,
         \/ fate'[x] = fate[x]
         \/ fate'[x] = "canceled" /\ delivery[x] = "no",
         \A d \in Deliverers :
           Holds(d)' => /\ Holds(d) /\ deliverer'[d] = deliverer[d]
                        /\ deliverer[d].input # x /\ ~Settling(d)
  PROVE  DeliveryInv'
<1>0. /\ ToSet(queue) \subseteq Inputs /\ x # None
      /\ (\A r \in Runs : alias[r] # None => alias[r] \in Inputs)
  BY KnownInputs, HostAssumption
<1>1. starting = None /\ \A i \in Inputs : ~Prompted(i)
  BY NotPrompted
<1>2. /\ fate[x] \notin {"new", "asked", "canceled"} /\ ~Asks(gate, x) /\ ~Asks(gate', x)
      /\ \A r \in Runs : alias[r] # x
  BY <1>0 DEF DeliveryInv, PlaceInv, Narrower
<1>3. fate'[x] # "new" /\ (delivery[x] = "delivered" => fate'[x] = "injected")
  BY <1>0, <1>2 DEF DeliveryInv, RecordInv
<1>4. AskInv'
  <2>1. ASSUME NEW i \in Inputs, Asks(gate', i)
        PROVE  fate'[i] = "asked" /\ delivery'[i] = "no"
    BY <1>2, <2>1 DEF DeliveryInv, AskInv, Narrower
  <2>2. \A i \in Inputs : fate'[i] = "new" => delivery'[i] = "no"
    BY <1>3 DEF DeliveryInv, AskInv
  <2> QED
    BY <2>1, <2>2 DEF DeliveryInv, AskInv, Narrower
<1>5. PlaceInv'
  <2>1. starting' # None => /\ starting' \notin ToSet(queue') /\ ~Asks(gate', starting')
                            /\ fate'[starting'] \notin {"new", "asked", "canceled"}
                            /\ delivery'[starting'] = "no"
    BY <1>2, <1>3
  <2>2. ASSUME NEW i \in ToSet(queue')
        PROVE  fate'[i] \notin {"new", "asked", "canceled"} /\ ~Asks(gate', i)
    BY <1>0, <2>2 DEF DeliveryInv, PlaceInv, Narrower
  <2>3. ASSUME NEW r \in Runs, alias'[r] # None
        PROVE  /\ alias'[r] \notin ToSet(queue') /\ ~Asks(gate', alias'[r])
               /\ fate'[alias'[r]] # "new"
    BY <1>0, <1>2, <2>3 DEF DeliveryInv, PlaceInv, Narrower
  <2> QED
    BY <2>1, <2>2, <2>3 DEF PlaceInv
<1>6. RecordInv'
  <2>1. \A i \in Inputs : status'[i] = "queued" => i \in ToSet(queue') \/ starting' = i
    BY <1>0, <1>1, HostAssumption DEF DeliveryInv, RecordInv
  <2>2. QueuedInputsWait'
    BY <1>0 DEF DeliveryInv, RecordInv, QueuedInputsWait
  <2>3. \A i \in Inputs : delivery'[i] = "delivered" => fate'[i] = "injected"
    BY <1>3 DEF DeliveryInv, RecordInv
  <2>4. \A i \in ToSet(queue') : delivery'[i] = "pending" => status'[i] # "none"
    BY <1>0 DEF DeliveryInv, RecordInv
  <2> QED
    BY <2>1, <2>2, <2>3, <2>4 DEF RecordInv
<1>7. LoopInv'
  <2>1. ASSUME NEW d \in Deliverers, Holds(d)'
        PROVE  deliverer'[d].input \in ToSet(queue') /\ delivery'[deliverer'[d].input] = "pending"
    BY <2>1 DEF DeliveryInv, LoopInv
  <2>2. \A d, e \in Deliverers :
          Holds(d)' /\ Holds(e)' /\ deliverer'[d].input = deliverer'[e].input => d = e
    BY DEF DeliveryInv, LoopInv
  <2> QED
    BY <2>1, <2>2 DEF LoopInv, Holds
<1>8. TakenInv'
  <2>1. \A i \in ToSet(queue') : delivery'[i] = "no" => taken'[i] = 0
    BY DEF DeliveryInv, TakenInv
  <2>2. \A d \in Deliverers :
          deliverer'[d].stage \in {"steer", "refused"} => taken'[deliverer'[d].input] = 0
    BY DEF DeliveryInv, TakenInv, Holds
  <2>3. delivery[x] = "no" => taken[x] = 0
    BY DEF DeliveryInv, TakenInv
  <2>4. ASSUME NEW i \in Inputs, Asks(gate', i) \/ starting' = i
        PROVE  taken'[i] = 0
    <3>1. CASE Asks(gate', i)
      BY <1>1, <3>1 DEF DeliveryInv, TakenInv, Narrower
    <3>2. CASE starting' = i
      BY <2>3, <3>2, HostAssumption
    <3> QED
      BY <2>4, <3>1, <3>2
  <2>5. ASSUME NEW i \in Inputs, fate'[i] \in {"new", "canceled"}
        PROVE  taken'[i] = 0
    BY <1>2, <2>3, <2>5 DEF DeliveryInv, TakenInv
  <2>6. \A i \in Inputs : taken'[i] <= 1
    BY DEF DeliveryInv, TakenInv, TakenAtMostOnce
  <2> QED
    BY <2>1, <2>2, <2>4, <2>5, <2>6 DEF TakenInv, TakenAtMostOnce
<1> QED
  BY <1>4, <1>5, <1>6, <1>7, <1>8 DEF DeliveryInv

\* The drain removes the head of the queue.
LEMMA HeadLeaves ==
  ASSUME TypeInv, DeliveryInv, queue # <<>>,
         queue' = Tail(queue), promoted' = promoted \ {Head(queue)}
  PROVE  /\ Head(queue) \in ToSet(queue) /\ Head(queue) \in Inputs
         /\ ToSet(queue') = ToSet(queue) \ {Head(queue)}
         /\ QueueInOrder'
<1>1. queue \in Seq(Inputs) /\ Head(queue) \in ToSet(queue) /\ ToSet(queue) \subseteq Inputs
  BY KnownInputs
<1>2. Ordered(queue, promoted) /\ promoted \subseteq ToSet(queue)
  BY DEF DeliveryInv, QueueInOrder
<1>3. /\ Ordered(queue', promoted')
      /\ ToSet(queue') = ToSet(queue) \ {Head(queue)}
  BY <1>1, <1>2, TailOrdered
<1> QED
  BY <1>1, <1>2, <1>3 DEF QueueInOrder

\* Another entry leaves the queue.
LEMMA EntryLeaves ==
  ASSUME TypeInv, DeliveryInv, NEW x \in ToSet(queue),
         queue' = Without(queue, x), promoted' = promoted \ {x}
  PROVE  ToSet(queue') = ToSet(queue) \ {x} /\ QueueInOrder'
<1>1. queue \in Seq(Inputs) /\ ToSet(queue) \subseteq Inputs
  BY KnownInputs
<1>2. Ordered(queue, promoted) /\ promoted \subseteq ToSet(queue)
  BY DEF DeliveryInv, QueueInOrder
<1>3. /\ Ordered(queue', promoted')
      /\ ToSet(queue') = ToSet(queue) \ {x}
  BY <1>1, <1>2, WithoutOrdered
<1> QED
  BY <1>2, <1>3 DEF QueueInOrder

\* Draining keeps DeliveryInv.
LEMMA DrainKeeps ==
  ASSUME TypeInv, TypeInv', DeliveryInv, DrainSteps
  PROVE  DeliveryInv'
<1>0. gate \in Gates
  BY DEF TypeInv, TypeOK
<1>n. \A i \in Inputs, kind \in InputKinds : Op(kind, i) # Drain
  BY DEF Op, Drain, InputKinds, StartKinds, MoveKinds
<1>d. ASSUME NEW s, At(Drain, s)
      PROVE  \A d \in Deliverers : ~Settling(d)
  BY <1>d DEF Settling, At, Op, Drain
<1> USE DEF hostVars, queueVars, aliasVars, runtimeVars, ghostVars
<1>1. CASE DrainStops \/ DrainShiftFails \/ DrainCleanupFails
  <2>1. /\ UNCHANGED <<queue, promoted, delivery, fate, taken, starting, alias, status,
                       deliverer>>
        /\ step' = "begin" /\ step \in {"begin", "store", "cleanup"}
        /\ gate.ops # <<>>
    BY <1>1 DEF DrainStops, DrainShiftFails, DrainCleanupFails, At
  <2>2. Narrower(gate, gate')
    <3>1. CASE gate' = PassEnds(gate)
      BY <1>0, <2>1, <3>1, PoppedNarrows
    <3>2. CASE DrainShiftFails
      <4>1. Popped(gate) \in Gates /\ Narrower(gate, Popped(gate))
        BY <1>0, <2>1, PoppedGate, PoppedNarrows
      <4>2. gate'.ops = Popped(gate).ops
        BY <3>2, <4>1 DEF DrainShiftFails, Gates
      <4> QED
        BY <4>1, <4>2, SameOps, NarrowerTwice
    <3> QED
      BY <1>1, <3>1, <3>2 DEF DrainStops, DrainCleanupFails
  <2>3. \A d \in Deliverers : ~Settling(d)
    BY <1>1, <1>d DEF DrainStops, DrainShiftFails, DrainCleanupFails
  <2>4. \A d \in Deliverers :
          Holds(d)' => Holds(d) /\ deliverer'[d] = deliverer[d] /\ ~Settling(d)
    BY <2>1, <2>3 DEF Holds
  <2> QED
    BY <2>1, <2>2, <2>4, LeavingKeeps
<1>2. CASE DrainTakesHead \/ DrainSkipsDelivered
  <2>1. /\ UNCHANGED <<queue, promoted, delivery, fate, taken, starting, alias, gate, deliverer>>
        /\ At(Drain, "begin") /\ queue # <<>>
    BY <1>2 DEF DrainTakesHead, DrainSkipsDelivered, DrainMayTake
  <2>2. \/ step' = "store" /\ delivery[Head(queue)] = "no"
        \/ step' = "cleanup" /\ delivery[Head(queue)] = "delivered"
    BY <1>2 DEF DrainTakesHead, DrainSkipsDelivered
  <2>3. step = "begin" /\ Head(queue) \in ToSet(queue) /\ gate.ops # <<>> /\ Head(gate.ops) = Drain
    BY <2>1, KnownInputs DEF At
  <2>4. \/ status' = status
        \/ \E i \in ToSet(queue) :
             status' = [status EXCEPT ![i] = IF @ = "none" THEN "queued" ELSE @]
    BY <1>2, <2>3 DEF DrainTakesHead, DrainSkipsDelivered, Ensured
  <2>5. starting = None
    BY <2>3, NotPrompted
  <2>6. \A i \in Inputs : Op("cancel", i) # Drain
    BY <1>n DEF InputKinds
  <2>7. \A d \in Deliverers : Op("settle", d) # Drain
    BY DEF Op, Drain
  <2>8. StepInv'
    BY <2>1, <2>2, <2>3, <2>5, <2>6, <2>7 DEF StepInv, At, Settling
  <2> QED
    BY <2>1, <2>3, <2>4, <2>8, WaitingKeeps
<1>3. CASE DrainShifted \/ DrainCleaned
  <2> DEFINE x == Head(queue)
  <2>1. /\ UNCHANGED <<delivery, fate, taken, alias, gate, deliverer, status>>
        /\ queue' = Tail(queue) /\ promoted' = promoted \ {x}
        /\ step \in {"store", "cleanup"} /\ gate.ops # <<>> /\ Head(gate.ops) = Drain
    BY <1>3 DEF DrainShifted, DrainCleaned, At
  <2>2. queue # <<>>
    BY <2>1 DEF TypeInv, Ready
  <2>3. /\ x \in ToSet(queue) /\ x \in Inputs /\ x # None
        /\ ToSet(queue') = ToSet(queue) \ {x} /\ QueueInOrder'
    BY <2>1, <2>2, HeadLeaves, HostAssumption
  <2>4. \/ step = "store" /\ delivery[x] = "no" /\ starting' = x /\ step' = "enter"
        \/ step = "cleanup" /\ delivery[x] = "delivered" /\ starting' = None /\ step' = "begin"
    <3>1. CASE DrainShifted
      BY <3>1 DEF DrainShifted, At, DeliveryInv, StepInv
    <3>2. CASE DrainCleaned
      <4>1. starting = None
        BY <2>1, NotPrompted
      <4> QED
        BY <3>2, <4>1 DEF DrainCleaned, At, DeliveryInv, StepInv
    <3> QED
      BY <1>3, <3>1, <3>2
  <2>5. StepInv'
    BY <2>1, <2>4 DEF StepInv, At, Settling
  <2>6. fate[x] # "canceled"
    BY <2>3 DEF DeliveryInv, PlaceInv
  <2>7. delivery[x] = "delivered" => status[x] # "queued"
    BY <2>3 DEF DeliveryInv, RecordInv, QueuedInputsWait
  <2>8. \A d \in Deliverers : ~Settling(d)
    BY <2>1 DEF Settling, At, Op, Drain
  <2>9. \A d \in Deliverers : Holds(d) => deliverer[d].input # x
    BY <2>4, <2>8 DEF DeliveryInv, LoopInv
  <2>10. \A d \in Deliverers :
          Holds(d)' => /\ Holds(d) /\ deliverer'[d] = deliverer[d]
                       /\ deliverer[d].input # x /\ ~Settling(d)
    BY <2>1, <2>8, <2>9 DEF Holds
  <2>11. Narrower(gate, gate')
    BY <2>1 DEF Narrower
  <2> HIDE DEF x
  <2>12. /\ starting' \in {None, x}
         /\ starting' = x => delivery[x] = "no" /\ fate'[x] # "canceled"
         /\ \A j \in Inputs \ {x} : status'[j] = status[j] /\ fate'[j] = fate[j]
         /\ status'[x] = "queued" => starting' = x
         /\ fate'[x] = fate[x]
    BY <2>1, <2>3, <2>4, <2>6, <2>7
  <2>13. UNCHANGED <<delivery, taken, alias>>
    BY <2>1
  <2>14. step \in {"store", "cleanup"}
    BY <2>1
  <2> QED
    BY <2>3, <2>5, <2>10, <2>11, <2>12, <2>13, <2>14, RemovalKeeps
<1>4. ASSUME NEW i \in Inputs, DrainReplied(i)
      PROVE  DeliveryInv'
  <2>1. /\ starting = i /\ starting # None /\ starting' = None /\ step' = "begin"
        /\ gate.ops # <<>>
        /\ fate' = [fate EXCEPT ![i] = "started"]
        /\ UNCHANGED <<queue, promoted, delivery, taken>>
    BY <1>4, HostAssumption DEF DrainReplied, At
  <2>2. "started" \in Fates \ {"new", "canceled"}
    BY DEF Fates
  <2>3. status \in [TurnIds -> Status] /\ i \in TurnIds /\ alias \in [Runs -> Inputs \cup {None}]
    BY DEF TypeInv, TypeOK, TurnIds
  <2>4. /\ \A j \in Inputs \ {starting} : status'[j] = status[j]
        /\ status'[starting] # "queued"
        /\ \A r \in Runs : alias'[r] \in {alias[r], starting}
    BY <1>4, <2>1, <2>3 DEF DrainReplied, Active
  <2>5. PICK launch \in Launches(promptRun, FALSE, gate) :
          deliverer' = launch.loops /\ gate' = PassEnds(launch.gate)
    BY <1>4 DEF DrainReplied
  <2>6. promptRun \in TurnIds \cup {None} /\ deliverer \in [Deliverers -> Loops]
    BY DEF TypeInv, TypeOK, TurnIds
  <2>7. /\ launch.gate \in Gates /\ SameHolder(gate, launch.gate)
        /\ Narrower(gate, launch.gate)
        /\ \A d \in Deliverers :
             launch.loops[d] = deliverer[d] \/ launch.loops[d].stage = "reserve"
    BY <1>0, <2>6, LaunchesType, LaunchesNarrow
  <2>8. Narrower(gate, gate')
    BY <2>1, <2>5, <2>7, PoppedNarrows, NarrowerTwice DEF SameHolder
  <2>9. \A d \in Deliverers : Holds(d)' => Holds(d) /\ deliverer'[d] = deliverer[d]
    BY <2>5, <2>7 DEF Holds
  <2> QED
    BY <2>1, <2>2, <2>4, <2>8, <2>9, StartingEnds
<1> QED
  BY <1>1, <1>2, <1>3, <1>4 DEF DrainSteps

\* Canceling and moving keep DeliveryInv.
LEMMA EditKeeps ==
  ASSUME TypeInv, TypeInv', DeliveryInv, NEW i \in Inputs,
         NEW kind \in MoveKinds \cup {"cancel"}, EditSteps(kind, i)
  PROVE  DeliveryInv'
<1>0. /\ gate \in Gates /\ queue \in Seq(Inputs) /\ ToSet(queue) \subseteq Inputs
      /\ Ordered(queue, promoted) /\ promoted \subseteq ToSet(queue)
      /\ deliverer \in [Deliverers -> Loops]
  BY KnownInputs DEF DeliveryInv, QueueInOrder, TypeInv, TypeOK
<1>d. ASSUME NEW other \in InputKinds, NEW s, At(Op(other, i), s)
      PROVE  \A d \in Deliverers : ~Settling(d)
  BY <1>d DEF Settling, At, Op, InputKinds, StartKinds, MoveKinds
<1>p. gate.ops # <<>> => /\ Popped(gate) \in Gates
                         /\ Narrower(gate, Popped(gate))
                         /\ Requested(Popped(gate)) \in Gates
                         /\ Narrower(gate, Requested(Popped(gate)))
  BY <1>0, PoppedGate, PoppedNarrows, RequestedGate, RequestedNarrows, NarrowerTwice
<1> USE DEF hostVars, queueVars, aliasVars, runtimeVars, ghostVars
<1>1. CASE EditRefused(kind, i) \/ EditFails(kind, i)
  <2>1. /\ UNCHANGED <<queue, promoted, delivery, fate, taken, starting, alias, status,
                       deliverer>>
        /\ gate' = Popped(gate) /\ step' = "begin" /\ step \in {"begin", "store"}
        /\ gate.ops # <<>>
    BY <1>1 DEF EditRefused, EditFails, Done, At
  <2>2. \A d \in Deliverers : ~Settling(d)
    BY <1>1, <1>d DEF EditRefused, EditFails, InputKinds
  <2>3. \A d \in Deliverers :
          Holds(d)' => Holds(d) /\ deliverer'[d] = deliverer[d] /\ ~Settling(d)
    BY <2>1, <2>2 DEF Holds
  <2> QED
    BY <1>p, <2>1, <2>3, LeavingKeeps
<1>2. CASE EditAccepted(kind, i)
  <2>1. /\ UNCHANGED <<queue, promoted, delivery, fate, taken, starting, alias, gate, deliverer>>
        /\ At(Op(kind, i), "begin") /\ step' = "store" /\ Editable(kind, i)
        /\ status' = [status EXCEPT ![i] = IF @ = "none" THEN "queued" ELSE @]
    BY <1>2 DEF EditAccepted, Ensured
  <2>2. step = "begin"
    BY <2>1 DEF At
  <2>3. starting = None
    BY <2>2, NotPrompted
  <2>4. status \in [TurnIds -> Status] /\ i \in TurnIds /\ i # None
    BY HostAssumption DEF TypeInv, TypeOK, TurnIds
  <2>5. i \in ToSet(queue) /\ status[i] \in {"none", "queued"}
    BY <2>1, <2>3, <2>4 DEF Editable, Waiting, DeliveryInv, RecordInv
  <2>6. kind = "cancel" => delivery[i] = "no"
    <3>1. CASE Waiting(i)
      BY <3>1 DEF Waiting
    <3>2. CASE ~Waiting(i)
      <4>1. status[i] = "none"
        BY <2>1, <3>2 DEF Editable
      <4>2. delivery[i] \notin {"pending", "delivered"}
        BY <2>5, <4>1 DEF DeliveryInv, RecordInv, QueuedInputsWait
      <4> QED
        BY <4>2 DEF TypeInv, TypeOK
    <3> QED
      BY <3>1, <3>2
  <2>7. gate.ops # <<>> /\ Head(gate.ops) = Op(kind, i)
    BY <2>1 DEF At
  <2>8. /\ Op(kind, i) # Drain
        /\ \A d \in Deliverers : Op(kind, i) # Op("settle", d)
        /\ \A j \in Inputs : Op(kind, i) = Op("cancel", j) => j = i /\ kind = "cancel"
    BY DEF Op, Drain, MoveKinds
  <2>9. StepInv'
    BY <2>1, <2>3, <2>5, <2>6, <2>7, <2>8 DEF StepInv, At, Settling
  <2>10. \/ status' = status
         \/ \E j \in ToSet(queue) :
              status' = [status EXCEPT ![j] = IF @ = "none" THEN "queued" ELSE @]
    BY <2>1, <2>5
  <2> QED
    BY <2>1, <2>2, <2>9, <2>10, WaitingKeeps
<1>3. CASE ReorderCommitted(kind, i)
  <2>1. /\ UNCHANGED <<delivery, fate, taken, starting, alias, status, deliverer, promoted>>
        /\ At(Op(kind, i), "store") /\ step' = "begin" /\ step = "store" /\ gate.ops # <<>>
        /\ gate' = Requested(Popped(gate))
        /\ queue' = Reordered(queue, promoted, i, kind = "reorderUp")
    BY <1>3 DEF ReorderCommitted, At
  <2>2. CanReorder(queue, promoted, i, kind = "reorderUp")
    BY <1>3 DEF ReorderCommitted, At, TypeInv, Ready
  <2>3. Ordered(queue', promoted) /\ ToSet(queue') = ToSet(queue)
    BY <1>0, <2>1, <2>2, ReorderedOrdered
  <2>4. QueueInOrder'
    BY <1>0, <2>1, <2>3 DEF QueueInOrder
  <2>5. /\ starting = None /\ \A j \in Inputs : ~Prompted(j)
    BY <2>1, NotPrompted
  <2>6. StepInv'
    BY <2>1, <2>5 DEF StepInv, At, Settling
  <2>7. \A d \in Deliverers : ~Settling(d)
    BY <1>d, <2>1 DEF InputKinds
  <2>8. \A d \in Deliverers : Holds(d)' => /\ Holds(d) /\ deliverer'[d] = deliverer[d]
                                           /\ Settling(d) => Settling(d)'
    BY <2>1, <2>7 DEF Holds
  <2>9. Narrower(gate, gate')
    BY <1>p, <2>1
  <2> QED
    BY <2>1, <2>3, <2>4, <2>5, <2>6, <2>8, <2>9, MovedKeeps
<1>4. CASE CancelCommitted(i)
  <2>1. /\ UNCHANGED <<delivery, taken, starting, alias, deliverer>>
        /\ At(Op("cancel", i), "store") /\ step' = "begin" /\ step = "store" /\ gate.ops # <<>>
        /\ gate' = Popped(gate)
        /\ queue' = Without(queue, i) /\ promoted' = promoted \ {i}
    BY <1>4 DEF CancelCommitted, Done, At
  <2>2. i \in ToSet(queue) /\ delivery[i] = "no"
    BY <2>1 DEF DeliveryInv, StepInv
  <2>3. /\ status' = [status EXCEPT ![i] = "canceled"]
        /\ fate' = [fate EXCEPT ![i] = "canceled"]
        /\ status \in [TurnIds -> Status] /\ fate \in [Inputs -> Fates] /\ Inputs \subseteq TurnIds
    BY <1>4, <2>2 DEF CancelCommitted, TypeInv, TypeOK, TurnIds
  <2>4. ToSet(queue') = ToSet(queue) \ {i} /\ QueueInOrder'
    BY <2>1, <2>2, EntryLeaves
  <2>5. starting = None
    BY <2>1, NotPrompted
  <2>6. StepInv'
    BY <2>1, <2>5 DEF StepInv, At, Settling
  <2>7. \A d \in Deliverers : ~Settling(d)
    BY <1>d, <2>1 DEF InputKinds
  <2>8. \A d \in Deliverers :
          Holds(d)' => /\ Holds(d) /\ deliverer'[d] = deliverer[d]
                       /\ deliverer[d].input # i /\ ~Settling(d)
    BY <2>1, <2>2, <2>7 DEF Holds, DeliveryInv, LoopInv
  <2>9. /\ starting' \in {None, i}
        /\ starting' = i => delivery[i] = "no" /\ fate'[i] # "canceled"
        /\ \A j \in Inputs \ {i} : status'[j] = status[j] /\ fate'[j] = fate[j]
        /\ status'[i] = "queued" => starting' = i
        /\ fate'[i] = "canceled" /\ delivery[i] = "no"
    BY <2>1, <2>2, <2>3, <2>5, HostAssumption
  <2>10. Narrower(gate, gate') /\ UNCHANGED <<delivery, taken, alias>>
    BY <1>p, <2>1
  <2>11. step \in {"store", "cleanup"}
    BY <2>1
  <2> QED
    BY <2>2, <2>4, <2>6, <2>8, <2>9, <2>10, <2>11, RemovalKeeps
<1>5. CASE PrioritizeCommitted(i)
  <2> DEFINE g == Requested(Popped(gate))
  <2>1. /\ UNCHANGED <<delivery, fate, taken, starting, alias, status>>
        /\ At(Op("prioritize", i), "store") /\ step' = "begin" /\ step = "store"
        /\ gate.ops # <<>>
        /\ queue' = PromoteIn(queue, promoted, i) /\ promoted' = promoted \cup {i}
    BY <1>5 DEF PrioritizeCommitted, At
  <2>2. i \in ToSet(queue) \ promoted
    BY <1>5 DEF PrioritizeCommitted, At, TypeInv, Ready
  <2>3. Ordered(queue', promoted') /\ ToSet(queue') = ToSet(queue)
    BY <1>0, <2>1, <2>2, PromoteInOrdered
  <2>4. QueueInOrder'
    BY <1>0, <2>1, <2>2, <2>3 DEF QueueInOrder
  <2>5. /\ starting = None /\ \A j \in Inputs : ~Prompted(j)
    BY <2>1, NotPrompted
  <2>6. StepInv'
    BY <2>1, <2>5 DEF StepInv, At, Settling
  <2>7. \A d \in Deliverers : ~Settling(d)
    BY <1>d, <2>1 DEF InputKinds, MoveKinds
  <2>8. /\ Narrower(gate, gate')
        /\ \A d \in Deliverers : deliverer'[d] = deliverer[d] \/ deliverer'[d].stage = "reserve"
    <3>1. g \in Gates /\ Narrower(gate, g)
      BY <1>p, <2>1
    <3>2. CASE ActiveRuntimeTurn = None
      BY <1>5, <3>1, <3>2 DEF PrioritizeCommitted
    <3>3. CASE ActiveRuntimeTurn # None
      <4>1. ActiveRuntimeTurn \in TurnIds \cup {None}
        BY DEF ActiveRuntimeTurn, HasActiveTurn, TypeInv, TypeOK, TurnIds
      <4> HIDE DEF g
      <4>2. PICK launch \in Launches(ActiveRuntimeTurn, TRUE, g) :
              deliverer' = launch.loops /\ gate' = launch.gate
        BY <1>5, <3>3 DEF PrioritizeCommitted, g
      <4>3. /\ Narrower(g, launch.gate)
            /\ \A d \in Deliverers :
                 launch.loops[d] = deliverer[d] \/ launch.loops[d].stage = "reserve"
        BY <1>0, <3>1, <4>1, LaunchesNarrow
      <4> QED
        BY <3>1, <4>2, <4>3, NarrowerTwice
    <3> QED
      BY <3>2, <3>3
  <2>9. \A d \in Deliverers : Holds(d)' => /\ Holds(d) /\ deliverer'[d] = deliverer[d]
                                           /\ Settling(d) => Settling(d)'
    BY <2>7, <2>8 DEF Holds
  <2> QED
    BY <2>1, <2>3, <2>4, <2>5, <2>6, <2>8, <2>9, MovedKeeps
<1> QED
  BY <1>1, <1>2, <1>3, <1>4, <1>5 DEF EditSteps

\* An answer to a steer call is asked to be settled.
LEMMA SteeredKeeps ==
  ASSUME TypeInv, TypeInv', DeliveryInv, NEW d \in Deliverers,
         deliverer[d].stage = "steer",
         NEW answer \in {"accepted", "refused"},
         deliverer' = [deliverer EXCEPT ![d].stage = answer],
         gate' = Called(gate, Op("settle", d)),
         \/ taken' = taken
         \/ answer = "accepted" /\ taken' = [taken EXCEPT ![deliverer[d].input] = @ + 1],
         UNCHANGED <<hostVars, queueVars, aliasVars, step, promptRun, run, fate>>
  PROVE  DeliveryInv'
<1>0. /\ gate \in Gates /\ ToSet(queue) \subseteq Inputs
      /\ deliverer \in [Deliverers -> Loops] /\ taken \in [Inputs -> Nat]
      /\ (\A r \in Runs : alias[r] # None => alias[r] \in Inputs)
      /\ (starting # None => starting \in Inputs)
  BY KnownInputs DEF TypeInv, TypeOK
<1> USE DEF hostVars, queueVars, aliasVars
<1>1. SameHolder(gate, gate') /\ Narrower(gate, gate')
  <2>1. Op("settle", d) \in Ops /\ Op("settle", d).kind \notin StartKinds
    BY OpIsOp DEF DelivererKinds, StartKinds, Op
  <2> QED
    BY <1>0, <2>1, CalledGate, CalledNarrows
<1>2. \A op, s : s # "begin" => (At(op, s)' <=> At(op, s))
  BY <1>1, StillAt
<1>3. ~Settling(d)
  BY DEF DeliveryInv, StepInv
<1>4. /\ deliverer'[d].stage = answer /\ deliverer'[d].input = deliverer[d].input
      /\ \A e \in Deliverers \ {d} : deliverer'[e] = deliverer[e]
  BY <1>0 DEF Loops
<1>5. Holds(d) /\ \A e \in Deliverers : Holds(e)' <=> Holds(e)
  BY <1>4 DEF Holds
<1> DEFINE x == deliverer[d].input
<1>6. x \in ToSet(queue) /\ x \in Inputs /\ delivery[x] = "pending" /\ taken[x] = 0
  BY <1>0, <1>3, <1>5 DEF DeliveryInv, LoopInv, TakenInv
<1>7. /\ \A i \in Inputs \ {x} : taken'[i] = taken[i]
      /\ taken'[x] \in {0, 1} /\ (answer = "refused" => taken'[x] = 0)
  BY <1>0, <1>6
<1>8. /\ fate[x] \notin {"new", "asked", "canceled"} /\ ~Asks(gate, x) /\ starting # x
  BY <1>6, HostAssumption DEF DeliveryInv, PlaceInv
<1> HIDE DEF x
<1>9. AskInv'
  BY <1>1 DEF DeliveryInv, AskInv, Narrower
<1>10. PlaceInv'
  BY <1>0, <1>1 DEF DeliveryInv, PlaceInv, Narrower
<1>11. StepInv'
  <2>1. starting' # None => \E s \in {"enter", "begun", "failing"} : At(Drain, s)'
    BY <1>2 DEF DeliveryInv, StepInv
  <2>2. /\ At(Drain, "store")' => delivery'[Head(queue')] = "no"
        /\ At(Drain, "cleanup")' => delivery'[Head(queue')] = "delivered"
    BY <1>2 DEF DeliveryInv, StepInv
  <2>3. \A i \in Inputs :
          At(Op("cancel", i), "store")' => i \in ToSet(queue') /\ delivery'[i] = "no"
    BY <1>2 DEF DeliveryInv, StepInv
  <2>4. \A e \in Deliverers :
          Settling(e)' => /\ deliverer'[e].stage = "accepted"
                          /\ delivery'[deliverer'[e].input] = "delivered"
    BY <1>2, <1>3, <1>4 DEF DeliveryInv, StepInv, Settling
  <2> QED
    BY <2>1, <2>2, <2>3, <2>4 DEF StepInv, DeliveryInv
<1>12. RecordInv'
  BY DEF DeliveryInv, RecordInv, QueuedInputsWait
<1>13. LoopInv'
  <2>1. ASSUME NEW e \in Deliverers, Holds(e)'
        PROVE  /\ deliverer'[e].input \in ToSet(queue')
               /\ delivery'[deliverer'[e].input] = "pending" \/ Settling(e)'
    BY <1>2, <1>4, <1>5, <2>1 DEF DeliveryInv, LoopInv, Settling
  <2>2. \A e, f \in Deliverers :
          Holds(e)' /\ Holds(f)' /\ deliverer'[e].input = deliverer'[f].input => e = f
    BY <1>4, <1>5 DEF DeliveryInv, LoopInv
  <2> QED
    BY <2>1, <2>2 DEF LoopInv, Holds
<1>14. TakenInv'
  <2>1. TakenAtMostOnce'
    BY <1>7 DEF DeliveryInv, TakenInv, TakenAtMostOnce
  <2>2. \A i \in ToSet(queue') : delivery'[i] = "no" => taken'[i] = 0
    BY <1>0, <1>6, <1>7 DEF DeliveryInv, TakenInv
  <2>3. ASSUME NEW e \in Deliverers, deliverer'[e].stage \in {"steer", "refused"}
        PROVE  taken'[deliverer'[e].input] = 0
    <3>1. CASE e = d
      BY <1>4, <1>7, <2>3, <3>1 DEF x
    <3>2. CASE e # d
      <4>1. Holds(e) /\ deliverer'[e] = deliverer[e]
        BY <1>4, <2>3, <3>2 DEF Holds
      <4>2. deliverer[e].input # x /\ deliverer[e].input \in Inputs
        BY <1>0, <1>5, <3>2, <4>1 DEF DeliveryInv, LoopInv, x
      <4> QED
        BY <1>7, <2>3, <4>1, <4>2 DEF DeliveryInv, TakenInv
    <3> QED
      BY <3>1, <3>2
  <2>4. ASSUME NEW i \in Inputs, Asks(gate', i) \/ starting' = i
        PROVE  taken'[i] = 0 \/ Prompted(i)'
    <3>1. Asks(gate, i) \/ starting = i
      BY <1>1, <2>4 DEF Narrower
    <3>2. i # x
      BY <1>8, <3>1
    <3>3. Prompted(i) => Prompted(i)'
      BY <1>2 DEF Prompted, AtPrompt
    <3> QED
      BY <1>7, <3>1, <3>2, <3>3 DEF DeliveryInv, TakenInv
  <2>5. \A i \in Inputs : fate'[i] \in {"new", "canceled"} => taken'[i] = 0
    BY <1>7, <1>8 DEF DeliveryInv, TakenInv
  <2> QED
    BY <2>1, <2>2, <2>3, <2>4, <2>5 DEF TakenInv
<1>15. QueueInOrder'
  BY DEF DeliveryInv, QueueInOrder
<1> QED
  BY <1>9, <1>10, <1>11, <1>12, <1>13, <1>14, <1>15 DEF DeliveryInv

\* The head of the queue is reserved for a steer call.
LEMMA ReserveKeeps ==
  ASSUME TypeInv, TypeInv', DeliveryInv, NEW d \in Deliverers, Reserved(d)
  PROVE  DeliveryInv'
<1> DEFINE x == Head(queue)
<1> USE DEF hostVars, queueVars, aliasVars, runtimeVars, ghostVars
<1>0. /\ gate \in Gates /\ ToSet(queue) \subseteq Inputs /\ Inputs \subseteq TurnIds
      /\ deliverer \in [Deliverers -> Loops]
      /\ delivery \in [Inputs -> {"no", "pending", "delivered"}]
      /\ status \in [TurnIds -> Status]
      /\ (\A r \in Runs : alias[r] # None => alias[r] \in Inputs)
  BY KnownInputs DEF TypeInv, TypeOK, TurnIds
<1>1. /\ UNCHANGED <<queue, promoted, fate, taken, starting, alias>>
      /\ gate' = Popped(gate) /\ step' = "begin" /\ step = "begin" /\ gate.ops # <<>>
      /\ queue # <<>> /\ delivery[x] = "no"
      /\ deliverer[d].stage = "reserve"
      /\ delivery' = [delivery EXCEPT ![x] = "pending"]
      /\ status' = [status EXCEPT ![x] = IF @ = "none" THEN "queued" ELSE @]
      /\ deliverer' = [deliverer EXCEPT ![d].stage = "steer", ![d].input = x]
  BY DEF Reserved, Done, At, CanInject, Ensured
<1>2. x \in ToSet(queue) /\ x \in Inputs
  BY <1>0, <1>1, KnownInputs
<1> HIDE DEF x
<1>3. /\ deliverer'[d].stage = "steer" /\ deliverer'[d].input = x
      /\ \A e \in Deliverers \ {d} : deliverer'[e] = deliverer[e]
  BY <1>0, <1>1 DEF Loops
<1>4. starting = None /\ (\A i \in Inputs : ~Prompted(i)) /\ \A e \in Deliverers : ~Settling(e)
  BY <1>1, NotPrompted DEF Settling, At
<1>5. Narrower(gate, gate')
  BY <1>0, <1>1, PoppedNarrows
<1>6. /\ fate[x] \notin {"new", "asked", "canceled"} /\ ~Asks(gate, x) /\ taken[x] = 0
  BY <1>1, <1>2 DEF DeliveryInv, PlaceInv, TakenInv
<1>7. \A e \in Deliverers : Holds(e) => deliverer[e].input # x
  BY <1>1, <1>4 DEF DeliveryInv, LoopInv
<1>8. AskInv'
  BY <1>0, <1>1, <1>2, <1>5, <1>6 DEF DeliveryInv, AskInv, Narrower
<1>9. PlaceInv'
  BY <1>0, <1>1, <1>4, <1>5 DEF DeliveryInv, PlaceInv, Narrower
<1>10. StepInv'
  BY <1>1, <1>4 DEF StepInv, At, Settling
<1>11. RecordInv'
  <2>1. \A i \in Inputs : status'[i] = "queued" => i \in ToSet(queue') \/ starting' = i
    BY <1>0, <1>1, <1>2 DEF DeliveryInv, RecordInv
  <2>2. \A i \in ToSet(queue') : delivery'[i] = "pending" => status'[i] # "none"
    BY <1>0, <1>1, <1>2 DEF DeliveryInv, RecordInv
  <2>3. QueuedInputsWait'
    BY <1>0, <1>1, <1>2 DEF DeliveryInv, RecordInv, QueuedInputsWait
  <2>4. \A i \in Inputs : delivery'[i] = "delivered" => fate'[i] = "injected"
    BY <1>0, <1>1, <1>2 DEF DeliveryInv, RecordInv
  <2> QED
    BY <2>1, <2>2, <2>3, <2>4 DEF RecordInv
<1>12. LoopInv'
  <2>1. \A e \in Deliverers \ {d} : Holds(e)' <=> Holds(e)
    BY <1>3 DEF Holds
  <2>2. ASSUME NEW e \in Deliverers, Holds(e)'
        PROVE  deliverer'[e].input \in ToSet(queue') /\ delivery'[deliverer'[e].input] = "pending"
    <3>1. CASE e = d
      BY <1>0, <1>1, <1>2, <1>3, <3>1
    <3>2. CASE e # d
      BY <1>0, <1>1, <1>2, <1>3, <1>4, <1>7, <2>1, <2>2, <3>2 DEF DeliveryInv, LoopInv
    <3> QED
      BY <3>1, <3>2
  <2>3. \A e, f \in Deliverers :
          Holds(e)' /\ Holds(f)' /\ deliverer'[e].input = deliverer'[f].input => e = f
    BY <1>3, <1>7, <2>1 DEF DeliveryInv, LoopInv
  <2> QED
    BY <2>2, <2>3 DEF LoopInv, Holds
<1>13. TakenInv'
  <2>1. \A i \in ToSet(queue') : delivery'[i] = "no" => taken'[i] = 0
    BY <1>0, <1>1, <1>2 DEF DeliveryInv, TakenInv
  <2>2. \A e \in Deliverers :
          deliverer'[e].stage \in {"steer", "refused"} => taken'[deliverer'[e].input] = 0
    BY <1>1, <1>3, <1>6 DEF DeliveryInv, TakenInv
  <2>3. \A i \in Inputs : Asks(gate', i) \/ starting' = i => taken'[i] = 0
    BY <1>1, <1>4, <1>5 DEF DeliveryInv, TakenInv, Narrower
  <2> QED
    BY <1>1, <2>1, <2>2, <2>3 DEF DeliveryInv, TakenInv, TakenAtMostOnce
<1>14. QueueInOrder'
  BY <1>1 DEF DeliveryInv, QueueInOrder
<1> QED
  BY <1>8, <1>9, <1>10, <1>11, <1>12, <1>13, <1>14 DEF DeliveryInv

\* An input that waits in the queue, reserved, has no other record than that.
LEMMA SettledInput ==
  ASSUME TypeInv, DeliveryInv, NEW d \in Deliverers, Holds(d), ~Settling(d)
  PROVE  LET x == deliverer[d].input
         IN  /\ x \in ToSet(queue) /\ x \in Inputs
             /\ delivery[x] = "pending" /\ status[x] = "queued"
             /\ fate[x] \notin {"new", "asked", "canceled"} /\ ~Asks(gate, x)
             /\ \A r \in Runs : alias[r] # x
             /\ \A e \in Deliverers \ {d} : Holds(e) => deliverer[e].input # x
<1> DEFINE x == deliverer[d].input
<1>1. x \in ToSet(queue) /\ delivery[x] = "pending"
      /\ \A e \in Deliverers \ {d} : Holds(e) => deliverer[e].input # x
  BY DEF DeliveryInv, LoopInv
<1>2. x \in Inputs /\ x # None
  BY <1>1, KnownInputs, HostAssumption
<1>3. status[x] = "queued"
  BY <1>1 DEF DeliveryInv, RecordInv, QueuedInputsWait
<1>4. fate[x] \notin {"new", "asked", "canceled"} /\ ~Asks(gate, x) /\ \A r \in Runs : alias[r] # x
  BY <1>1, <1>2 DEF DeliveryInv, PlaceInv
<1> QED
  BY <1>1, <1>2, <1>3, <1>4

\* A refused input may be delivered again: the runtime never took it.
LEMMA RefusalKeeps ==
  ASSUME TypeInv, TypeInv', DeliveryInv, NEW d \in Deliverers, SettledRefusal(d)
  PROVE  DeliveryInv'
<1> DEFINE x == deliverer[d].input
<1> USE DEF hostVars, queueVars, aliasVars, runtimeVars, ghostVars
<1>0. /\ gate \in Gates /\ ToSet(queue) \subseteq Inputs
      /\ deliverer \in [Deliverers -> Loops]
      /\ delivery \in [Inputs -> {"no", "pending", "delivered"}]
      /\ (\A r \in Runs : alias[r] # None => alias[r] \in Inputs)
  BY KnownInputs DEF TypeInv, TypeOK
<1>1. /\ UNCHANGED <<queue, promoted, fate, taken, starting, alias, status>>
      /\ gate' = Requested(Popped(gate)) /\ step' = "begin" /\ step = "begin" /\ gate.ops # <<>>
      /\ deliverer[d].stage = "refused"
      /\ delivery' = [delivery EXCEPT ![x] = "no"]
      /\ deliverer' = [deliverer EXCEPT ![d] = IF LastTry(@) THEN Idle ELSE Tried(@, "wait")]
  BY DEF SettledRefusal, At
<1>2. ~Holds(d)' /\ \A e \in Deliverers \ {d} : deliverer'[e] = deliverer[e]
  BY <1>0, <1>1 DEF Holds, Idle, Tried, Loops
<1>3. starting = None /\ (\A i \in Inputs : ~Prompted(i)) /\ \A e \in Deliverers : ~Settling(e)
  BY <1>1, NotPrompted DEF Settling, At
<1>4. Narrower(gate, gate')
  BY <1>0, <1>1, PoppedGate, PoppedNarrows, RequestedNarrows, NarrowerTwice
<1>5. /\ x \in ToSet(queue) /\ x \in Inputs /\ taken[x] = 0
      /\ status[x] = "queued" /\ fate[x] \notin {"new", "asked", "canceled"}
      /\ \A e \in Deliverers \ {d} : Holds(e) => deliverer[e].input # x
  BY <1>1, <1>3, SettledInput DEF Holds, DeliveryInv, TakenInv
<1> HIDE DEF x
<1>6. AskInv'
  BY <1>0, <1>1, <1>4, <1>5 DEF DeliveryInv, AskInv, Narrower
<1>7. PlaceInv'
  BY <1>0, <1>1, <1>3, <1>4 DEF DeliveryInv, PlaceInv, Narrower
<1>8. StepInv'
  BY <1>1, <1>3 DEF StepInv, At, Settling
<1>9. RecordInv'
  BY <1>0, <1>1, <1>5 DEF DeliveryInv, RecordInv, QueuedInputsWait
<1>10. LoopInv'
  <2>1. ASSUME NEW e \in Deliverers, Holds(e)'
        PROVE  /\ Holds(e) /\ deliverer'[e] = deliverer[e]
               /\ deliverer'[e].input \in ToSet(queue')
               /\ delivery'[deliverer'[e].input] = "pending"
    <3>1. e # d /\ deliverer'[e] = deliverer[e]
      BY <1>2, <2>1
    <3>2. Holds(e)
      BY <2>1, <3>1 DEF Holds
    <3>3. delivery[deliverer[e].input] = "pending" /\ deliverer[e].input \in ToSet(queue)
      BY <1>3, <3>2 DEF DeliveryInv, LoopInv
    <3> QED
      BY <1>0, <1>1, <1>5, <3>1, <3>2, <3>3
  <2>2. \A e, f \in Deliverers :
          Holds(e)' /\ Holds(f)' /\ deliverer'[e].input = deliverer'[f].input => e = f
    BY <2>1 DEF DeliveryInv, LoopInv
  <2> QED
    BY <2>1, <2>2 DEF LoopInv, Holds
<1>11. TakenInv'
  <2>1. \A i \in ToSet(queue') : delivery'[i] = "no" => taken'[i] = 0
    BY <1>0, <1>1, <1>5 DEF DeliveryInv, TakenInv
  <2>2. \A e \in Deliverers :
          deliverer'[e].stage \in {"steer", "refused"} => taken'[deliverer'[e].input] = 0
    BY <1>1, <1>2 DEF DeliveryInv, TakenInv, Holds
  <2>3. \A i \in Inputs : Asks(gate', i) \/ starting' = i => taken'[i] = 0
    BY <1>1, <1>3, <1>4 DEF DeliveryInv, TakenInv, Narrower
  <2> QED
    BY <1>1, <2>1, <2>2, <2>3 DEF DeliveryInv, TakenInv, TakenAtMostOnce
<1>12. QueueInOrder'
  BY <1>1 DEF DeliveryInv, QueueInOrder
<1> QED
  BY <1>6, <1>7, <1>8, <1>9, <1>10, <1>11, <1>12 DEF DeliveryInv

\* A taken input is marked before its row is removed.
LEMMA AcceptanceKeeps ==
  ASSUME TypeInv, TypeInv', DeliveryInv, NEW d \in Deliverers, SettledAcceptance(d)
  PROVE  DeliveryInv'
<1> DEFINE x == deliverer[d].input
<1> USE DEF hostVars, queueVars, aliasVars, runtimeVars, ghostVars
<1>0. /\ gate \in Gates /\ ToSet(queue) \subseteq Inputs /\ Inputs \subseteq TurnIds
      /\ delivery \in [Inputs -> {"no", "pending", "delivered"}]
      /\ status \in [TurnIds -> Status] /\ fate \in [Inputs -> Fates]
      /\ (\A r \in Runs : alias[r] # None => alias[r] \in Inputs)
  BY KnownInputs DEF TypeInv, TypeOK, TurnIds
<1>1. /\ UNCHANGED <<queue, promoted, taken, starting, alias, gate, deliverer>>
      /\ step' = "cleanup" /\ step = "begin" /\ gate.ops # <<>>
      /\ Head(gate.ops) = Op("settle", d)
      /\ deliverer[d].stage = "accepted"
  BY DEF SettledAcceptance, At
<1>2. starting = None /\ (\A i \in Inputs : ~Prompted(i)) /\ \A e \in Deliverers : ~Settling(e)
  BY <1>1, NotPrompted DEF Settling, At
<1>3. /\ x \in ToSet(queue) /\ x \in Inputs /\ status[x] = "queued"
      /\ fate[x] \notin {"new", "asked", "canceled"} /\ ~Asks(gate, x)
      /\ \A r \in Runs : alias[r] # x
      /\ \A e \in Deliverers \ {d} : Holds(e) => deliverer[e].input # x
  BY <1>1, <1>2, SettledInput DEF Holds
<1>4. /\ delivery' = [delivery EXCEPT ![x] = "delivered"]
      /\ status' = [status EXCEPT ![x] = "canceled"]
      /\ fate' = [fate EXCEPT ![x] = "injected"]
  BY <1>3 DEF SettledAcceptance, Terminal
<1>5. /\ Op("settle", d) # Drain
      /\ \A i \in Inputs : Op("settle", d) # Op("cancel", i)
      /\ \A e \in Deliverers : Op("settle", e) = Op("settle", d) => e = d
  BY DEF Op, Drain
<1>6. \A e \in Deliverers : Holds(e)' <=> Holds(e)
  BY <1>1 DEF Holds
<1>7. Settling(d)' /\ \A e \in Deliverers : Settling(e)' => e = d
  BY <1>1, <1>5 DEF Settling, At
<1> HIDE DEF x
<1>8. AskInv'
  BY <1>0, <1>1, <1>3, <1>4 DEF DeliveryInv, AskInv
<1>9. PlaceInv'
  BY <1>0, <1>1, <1>2, <1>3, <1>4 DEF DeliveryInv, PlaceInv
<1>10. StepInv'
  <2>1. delivery'[deliverer[d].input] = "delivered"
    BY <1>0, <1>3, <1>4 DEF x
  <2>2. \A e \in Deliverers :
          Settling(e)' => /\ deliverer'[e].stage = "accepted"
                          /\ delivery'[deliverer'[e].input] = "delivered"
    BY <1>1, <1>7, <2>1
  <2> QED
    BY <1>1, <1>2, <1>5, <2>2 DEF StepInv, At
<1>11. RecordInv'
  BY <1>0, <1>1, <1>3, <1>4 DEF DeliveryInv, RecordInv, QueuedInputsWait
<1>12. LoopInv'
  <2>1. ASSUME NEW e \in Deliverers, Holds(e)'
        PROVE  /\ deliverer'[e].input \in ToSet(queue')
               /\ delivery'[deliverer'[e].input] = "pending" \/ Settling(e)'
    <3>1. CASE e = d
      BY <1>1, <1>3, <1>7, <3>1 DEF x
    <3>2. CASE e # d
      BY <1>0, <1>1, <1>2, <1>3, <1>4, <1>6, <2>1, <3>2 DEF DeliveryInv, LoopInv
    <3> QED
      BY <3>1, <3>2
  <2>2. \A e, f \in Deliverers :
          Holds(e)' /\ Holds(f)' /\ deliverer'[e].input = deliverer'[f].input => e = f
    BY <1>1, <1>6 DEF DeliveryInv, LoopInv
  <2> QED
    BY <2>1, <2>2 DEF LoopInv, Holds
<1>13. TakenInv'
  <2>1. \A i \in ToSet(queue') : delivery'[i] = "no" => taken'[i] = 0
    BY <1>0, <1>1, <1>4 DEF DeliveryInv, TakenInv
  <2>2. \A i \in Inputs : Asks(gate', i) \/ starting' = i => taken'[i] = 0
    BY <1>1, <1>2 DEF DeliveryInv, TakenInv
  <2>3. \A i \in Inputs : fate'[i] \in {"new", "canceled"} => taken'[i] = 0
    BY <1>0, <1>1, <1>4 DEF DeliveryInv, TakenInv
  <2> QED
    BY <1>1, <2>1, <2>2, <2>3 DEF DeliveryInv, TakenInv, TakenAtMostOnce
<1>14. QueueInOrder'
  BY <1>1 DEF DeliveryInv, QueueInOrder
<1> QED
  BY <1>8, <1>9, <1>10, <1>11, <1>12, <1>13, <1>14 DEF DeliveryInv

\* Delivering keeps DeliveryInv.
LEMMA DelivererKeeps ==
  ASSUME TypeInv, TypeInv', DeliveryInv, NEW d \in Deliverers, DelivererSteps(d)
  PROVE  DeliveryInv'
<1>0. /\ gate \in Gates /\ ToSet(queue) \subseteq Inputs
      /\ deliverer \in [Deliverers -> Loops]
  BY KnownInputs DEF TypeInv, TypeOK
<1>r. ASSUME NEW g \in Gates
      PROVE  /\ Called(g, Op("reserve", d)) \in Gates
             /\ SameHolder(g, Called(g, Op("reserve", d)))
             /\ Narrower(g, Called(g, Op("reserve", d)))
  <2>1. Op("reserve", d) \in Ops /\ Op("reserve", d).kind \notin StartKinds
    BY OpIsOp DEF DelivererKinds, StartKinds, Op
  <2> QED
    BY <2>1, CalledGate, CalledNarrows
<1>p. gate.ops # <<>> => /\ Popped(gate) \in Gates
                         /\ Narrower(gate, Popped(gate))
                         /\ Requested(Popped(gate)) \in Gates
                         /\ Narrower(gate, Requested(Popped(gate)))
  BY <1>0, PoppedGate, PoppedNarrows, RequestedGate, RequestedNarrows, NarrowerTwice
<1> USE DEF hostVars, queueVars, aliasVars, runtimeVars, ghostVars
<1>1. CASE Reserved(d)
  BY <1>1, ReserveKeeps
<1>2. CASE NothingToReserve(d) \/ CleanupFails(d)
  <2>1. /\ UNCHANGED <<queue, promoted, delivery, fate, taken, starting, alias, status>>
        /\ gate' \in {Popped(gate), Requested(Popped(gate))} /\ gate.ops # <<>>
        /\ step' = "begin" /\ step \in {"begin", "cleanup"}
        /\ deliverer' = [deliverer EXCEPT ![d] = Idle]
    BY <1>2 DEF NothingToReserve, CleanupFails, Done, At
  <2>2. ~Holds(d)' /\ \A e \in Deliverers \ {d} : deliverer'[e] = deliverer[e]
    BY <1>0, <2>1 DEF Holds, Idle
  <2>3. \A e \in Deliverers \ {d} : ~Settling(e)
    BY <1>2 DEF NothingToReserve, CleanupFails, Settling, At, Op
  <2>4. \A e \in Deliverers :
          Holds(e)' => Holds(e) /\ deliverer'[e] = deliverer[e] /\ ~Settling(e)
    BY <2>2, <2>3 DEF Holds
  <2>5. Narrower(gate, gate') /\ step \in {"begin", "store", "cleanup"}
    BY <1>p, <2>1
  <2> QED
    BY <2>1, <2>4, <2>5, LeavingKeeps
<1>3. CASE SettledRefusal(d)
  BY <1>3, RefusalKeeps
<1>4. CASE SettledAcceptance(d)
  BY <1>4, AcceptanceKeeps
<1>5. CASE Cleaned(d)
  <2> DEFINE x == deliverer[d].input
  <2>1. /\ UNCHANGED <<delivery, fate, taken, starting, alias, status>>
        /\ queue' = Without(queue, x) /\ promoted' = promoted \ {x}
        /\ Settling(d) /\ step' = "begin" /\ step = "cleanup" /\ gate.ops # <<>>
        /\ deliverer[d].stage = "accepted"
        /\ deliverer' = [deliverer EXCEPT ![d] =
             IF LastTry(@) THEN Idle ELSE Tried(@, "reserve")]
        /\ \/ gate' = Requested(Popped(gate))
           \/ gate' = Called(Requested(Popped(gate)), Op("reserve", d))
    BY <1>5 DEF Cleaned, At, Settling
  <2>2. x \in ToSet(queue) /\ delivery[x] = "delivered"
    BY <2>1 DEF DeliveryInv, LoopInv, StepInv, Holds
  <2>3. ToSet(queue') = ToSet(queue) \ {x} /\ QueueInOrder'
    BY <2>1, <2>2, EntryLeaves
  <2>4. status[x] # "queued"
    BY <2>2 DEF DeliveryInv, RecordInv, QueuedInputsWait
  <2>5. starting = None
    BY <2>1, NotPrompted
  <2>6. StepInv'
    BY <2>1, <2>5 DEF StepInv, At, Settling
  <2>7. Narrower(gate, gate')
    <3>1. CASE gate' = Requested(Popped(gate))
      BY <1>p, <2>1, <3>1
    <3>2. CASE gate' = Called(Requested(Popped(gate)), Op("reserve", d))
      BY <1>p, <1>r, <2>1, <3>2, NarrowerTwice
    <3> QED
      BY <2>1, <3>1, <3>2
  <2>8. ~Holds(d)' /\ \A e \in Deliverers \ {d} : deliverer'[e] = deliverer[e]
    BY <1>0, <2>1 DEF Holds, Idle, Tried, Loops
  <2>9. \A e \in Deliverers \ {d} :
          ~Settling(e) /\ (Holds(e) => deliverer[e].input # x)
    <3>1. Holds(d)
      BY <2>1 DEF Holds
    <3>2. \A e \in Deliverers \ {d} : ~Settling(e)
      BY <2>1 DEF Settling, At, Op
    <3> QED
      BY <3>1, <3>2 DEF DeliveryInv, LoopInv
  <2>10. \A e \in Deliverers :
          Holds(e)' => /\ Holds(e) /\ deliverer'[e] = deliverer[e]
                       /\ deliverer[e].input # x /\ ~Settling(e)
    BY <2>8, <2>9 DEF Holds
  <2> HIDE DEF x
  <2>11. /\ starting' \in {None, x}
         /\ starting' = x => delivery[x] = "no" /\ fate'[x] # "canceled"
         /\ \A j \in Inputs \ {x} : status'[j] = status[j] /\ fate'[j] = fate[j]
         /\ status'[x] = "queued" => starting' = x
         /\ fate'[x] = fate[x]
    <3>1. x # None
      BY <1>0, <2>2, HostAssumption
    <3> QED
      BY <2>1, <2>4, <2>5, <3>1
  <2>12. step \in {"store", "cleanup"} /\ UNCHANGED <<delivery, taken, alias>>
    BY <2>1
  <2> QED
    BY <2>2, <2>3, <2>6, <2>7, <2>10, <2>11, <2>12, RemovalKeeps
<1>6. CASE SteerTaken(d)
  <2>1. "accepted" \in {"accepted", "refused"}
    OBVIOUS
  <2> QED
    BY <1>6, <2>1, SteeredKeeps DEF SteerTaken
<1>7. CASE SteerRefused(d)
  <2>1. "refused" \in {"accepted", "refused"}
    OBVIOUS
  <2> QED
    BY <1>7, <2>1, SteeredKeeps DEF SteerRefused
<1>8. CASE RetryDelivery(d)
  <2>1. /\ UNCHANGED <<queue, promoted, delivery, fate, taken, starting, alias, status,
                       step, promptRun, run>>
        /\ gate' = Called(gate, Op("reserve", d))
        /\ deliverer[d].stage = "wait"
        /\ deliverer' = [deliverer EXCEPT ![d].stage = "reserve"]
    BY <1>8 DEF RetryDelivery
  <2>2. ~Holds(d)' /\ \A e \in Deliverers \ {d} : deliverer'[e] = deliverer[e]
    BY <1>0, <2>1 DEF Holds, Loops
  <2>3. ~Settling(d)
    BY <2>1 DEF DeliveryInv, StepInv
  <2>4. /\ StepInv'
        /\ \A e \in Deliverers : Settling(e) => Settling(e)'
        /\ \A i \in Inputs : Prompted(i) => Prompted(i)'
    <3>1. SameHolder(gate, gate')
      BY <1>0, <1>r, <2>1
    <3>2. \A e \in Deliverers : Settling(e) => deliverer'[e] = deliverer[e]
      BY <2>2, <2>3
    <3> QED
      BY <2>1, <3>1, <3>2, StillFound
  <2>5. \A e \in Deliverers : Holds(e)' => /\ Holds(e) /\ deliverer'[e] = deliverer[e]
                                           /\ Settling(e) => Settling(e)'
    BY <2>2, <2>4 DEF Holds
  <2>6. Narrower(gate, gate')
    BY <1>0, <1>r, <2>1
  <2> QED
    BY <2>1, <2>4, <2>5, <2>6, QuietKeeps
<1> QED
  BY <1>1, <1>2, <1>3, <1>4, <1>5, <1>6, <1>7, <1>8 DEF DelivererSteps, DelivererStep

\* A restart forgets every operation; the queue and what clients were told stay.
LEMMA RestartKeeps ==
  ASSUME TypeInv, DeliveryInv, Restart
  PROVE  DeliveryInv'
<1>0. ToSet(queue) \subseteq Inputs /\ Inputs \subseteq TurnIds
  BY KnownInputs DEF TurnIds
<1>1. /\ UNCHANGED <<queue, promoted, fate>>
      /\ status' = [t \in TurnIds |-> "none"] /\ delivery' = [i \in Inputs |-> "no"]
      /\ starting' = None /\ alias' = [r \in Runs |-> None]
      /\ gate' = [ops |-> <<>>, draining |-> FALSE, pending |-> FALSE] /\ step' = "begin"
      /\ deliverer' = [d \in Deliverers |-> Idle] /\ taken' = [i \in Inputs |-> 0]
  BY DEF Restart
<1>2. AskedOnce(gate') /\ \A i : ~Asks(gate', i)
  BY <1>1 DEF AskedOnce, Asks
<1>3. \A d \in Deliverers : deliverer'[d].stage = "idle"
  BY <1>1 DEF Idle
<1>4. AskInv'
  BY <1>1, <1>2 DEF AskInv
<1>5. PlaceInv'
  BY <1>1, <1>2 DEF DeliveryInv, PlaceInv
<1>6. StepInv'
  BY <1>1 DEF StepInv, At, Settling
<1>7. RecordInv'
  BY <1>0, <1>1 DEF RecordInv, QueuedInputsWait
<1>8. LoopInv'
  BY <1>3 DEF LoopInv, Holds
<1>9. TakenInv'
  BY <1>0, <1>1, <1>2, <1>3 DEF TakenInv, TakenAtMostOnce
<1>10. QueueInOrder'
  BY <1>1 DEF DeliveryInv, QueueInOrder
<1> QED
  BY <1>4, <1>5, <1>6, <1>7, <1>8, <1>9, <1>10 DEF DeliveryInv

\* Before the first step nobody has anything.
LEMMA InitDelivery == Init => DeliveryInv
<1> SUFFICES ASSUME Init PROVE DeliveryInv
  OBVIOUS
<1>0. Inputs \subseteq TurnIds /\ ToSet(queue) = {} /\ queue = <<>> /\ promoted = {}
  BY DEF TurnIds, Init, ToSet
<1>1. AskInv /\ PlaceInv /\ StepInv /\ RecordInv /\ LoopInv
  BY <1>0 DEF Init, AskInv, PlaceInv, StepInv, RecordInv, LoopInv, AskedOnce, Asks, At, Settling,
              Holds, Idle, QueuedInputsWait
<1>2. TakenInv
  BY <1>0 DEF Init, TakenInv, TakenAtMostOnce, Idle, Asks
<1>3. QueueInOrder
  BY <1>0 DEF QueueInOrder, Ordered
<1> QED
  BY <1>1, <1>2, <1>3 DEF DeliveryInv

\* DeliveryInv holds in every reachable state.
LEMMA DeliveryInvariant == Spec => []DeliveryInv
<1>1. Init => DeliveryInv
  BY InitDelivery
<1>2. TypeInv /\ TypeInv' /\ DeliveryInv /\ [Next]_vars => DeliveryInv'
  <2>1. ASSUME TypeInv, TypeInv', DeliveryInv, Next
        PROVE  DeliveryInv'
    <3>1. \/ OutsideSteps \/ Restart \/ Attach \/ DrainSteps
          \/ \E i \in Inputs, kind \in StartKinds : StartSteps(kind, i)
          \/ \E i \in Inputs : PromptSteps(i)
          \/ \E i \in Inputs, kind \in MoveKinds \cup {"cancel"} : EditSteps(kind, i)
          \/ \E d \in Deliverers : DelivererSteps(d)
      BY <2>1, NextSteps DEF OutsideSteps, ClientSteps, OtherSteps
    <3> QED
      BY <2>1, <3>1, OutsideKeeps, SubmitKeeps, RestartKeeps, AttachKeeps, DrainKeeps,
         StartKeeps, PromptKeeps, EditKeeps, DelivererKeeps
  <2>2. ASSUME DeliveryInv, UNCHANGED vars
        PROVE  DeliveryInv'
    <3> USE <2>2 DEF DeliveryInv, vars, hostVars, queueVars, aliasVars, admissionVars,
                     runtimeVars, ghostVars
    <3>1. AskInv' /\ PlaceInv' /\ QueueInOrder'
      BY DEF AskInv, PlaceInv, QueueInOrder
    <3>2. StepInv' /\ LoopInv'
      BY DEF StepInv, LoopInv, Holds, Settling, At
    <3>3. RecordInv'
      BY DEF RecordInv, QueuedInputsWait
    <3>4. TakenInv'
      BY DEF TakenInv, TakenAtMostOnce, Prompted, AtPrompt, At
    <3> QED
      BY <3>1, <3>2, <3>3, <3>4
  <2> QED
    BY <2>1, <2>2
<1> QED
  BY <1>1, <1>2, TypeInvariant, PTL DEF Spec

\* The queue stays in delivery order, the promoted block first and nobody twice,
\* through every push, move, removal, retry and restart.
THEOREM QueueOrdered == Spec => []QueueInOrder
<1>1. DeliveryInv => QueueInOrder
  BY DEF DeliveryInv
<1> QED
  BY <1>1, DeliveryInvariant, PTL

\* Between two restarts the runtime takes no input twice: neither the drain and a
\* delivery loop, nor two loops, nor a loop that retries hand it over again.
THEOREM TakenOnce == Spec => []TakenAtMostOnce
<1>1. DeliveryInv => TakenAtMostOnce
  BY DEF DeliveryInv, TakenInv
<1> QED
  BY <1>1, DeliveryInvariant, PTL

\* The record of a queued input is touched by nothing but its own reservation:
\* no event, reply or settlement of a run is taken for it.
THEOREM QueuedWait == Spec => []QueuedInputsWait
<1>1. DeliveryInv => QueuedInputsWait
  BY DEF DeliveryInv, RecordInv
<1> QED
  BY <1>1, DeliveryInvariant, PTL

\* An input whose cancellation was confirmed was not and will not be taken.
THEOREM CanceledIsFinal == Spec => []CancelIsFinal
<1>1. DeliveryInv => CancelIsFinal
  BY DEF DeliveryInv, TakenInv, CancelIsFinal
<1> QED
  BY <1>1, DeliveryInvariant, PTL

\* While the process lives, what was queued leaves the queue to be started, to be
\* delivered or because it was canceled, and its client is told.
LEMMA QueuedKeeps ==
  ASSUME TypeInv, DeliveryInv, NoQueuedInputLost, Next, ~Restart
  PROVE  NoQueuedInputLost'
<1>0. /\ ToSet(queue) \subseteq Inputs /\ queue \in Seq(Inputs)
      /\ fate \in [Inputs -> Fates] /\ deliverer \in [Deliverers -> Loops]
      /\ Ordered(queue, promoted)
  BY KnownInputs DEF TypeInv, TypeOK, DeliveryInv, QueueInOrder
<1> USE DEF hostVars, queueVars, aliasVars, runtimeVars, ghostVars, NoQueuedInputLost
<1>1. CASE OutsideSteps \/ Attach
  <2>1. UNCHANGED <<queue, starting>>
        /\ (fate' = fate \/ \E i \in Inputs : fate' = [fate EXCEPT ![i] = "asked"])
    <3>1. ASSUME NEW i \in Inputs, NEW kind \in StartKinds, StartTurn(kind, i)
          PROVE  UNCHANGED <<queue, starting>> /\ fate' = [fate EXCEPT ![i] = "asked"]
      BY <3>1 DEF StartTurn
    <3>2. CASE Attach
      BY <3>2 DEF Attach
    <3>3. CASE OutsideSteps
      BY <3>1, <3>3, OutsideMore, OutsideFrame
    <3> QED
      BY <1>1, <3>2, <3>3
  <2> QED
    BY <1>0, <2>1
<1>2. ASSUME NEW i \in Inputs, NEW kind \in StartKinds, StartSteps(kind, i)
      PROVE  NoQueuedInputLost'
  <2>1. CASE Pushed(kind, i)
    <3>1. ToSet(queue') = ToSet(queue) \cup {i}
      <4>1. At(Op(kind, i), "store") /\ queue' = Append(queue, i)
        BY <2>1 DEF Pushed
      <4>2. i \notin ToSet(queue) /\ i \notin promoted
        BY <4>1, OneHolder, KnownInputs DEF DeliveryInv, PlaceInv, QueueInOrder
      <4> QED
        BY <1>0, <4>1, <4>2, AppendOrdered
    <3> QED
      BY <1>0, <2>1, <3>1 DEF Pushed
  <2>2. CASE ~Pushed(kind, i)
    <3>1. UNCHANGED <<queue, starting>>
          /\ \/ fate' = fate
             \/ \E told \in {"rejected", "started"} : fate' = [fate EXCEPT ![i] = told]
      BY <1>2, <2>2
         DEF StartSteps, StartRejected, StartPushes, PushFails, StartPrompts, StartReplied
    <3> QED
      BY <1>0, <3>1
  <2> QED
    BY <2>1, <2>2
<1>3. ASSUME NEW i \in Inputs, PromptSteps(i)
      PROVE  NoQueuedInputLost'
  <2>1. CASE PromptRefused(i) \/ PromptFailed(i)
    <3>1. PICK s \in Steps : AtPrompt(i, s) /\ PromptThrows(i)
      BY <2>1 DEF PromptRefused, PromptFailed, Steps
    <3>2. starting # None => starting = i
      BY <3>1, PromptedInput
    <3>3. UNCHANGED queue /\ \E told \in {"failed", "rejected"} : fate' = [fate EXCEPT ![i] = told]
      BY <3>1 DEF PromptThrows
    <3> QED
      BY <1>0, <3>2, <3>3, HostAssumption
  <2>2. CASE ~(PromptRefused(i) \/ PromptFailed(i))
    <3>1. UNCHANGED <<queue, starting, fate>>
      BY <1>3, <2>2 DEF PromptSteps, PromptBegins, SidecarTakes, PromptAbandoned
    <3> QED
      BY <3>1
  <2> QED
    BY <2>1, <2>2
<1>4. CASE DrainSteps
  <2>1. CASE DrainShifted \/ DrainCleaned
    <3>1. /\ fate' = fate /\ queue' = Tail(queue) /\ promoted' = promoted \ {Head(queue)}
          /\ step \in {"store", "cleanup"} /\ gate.ops # <<>> /\ Head(gate.ops) = Drain
      BY <2>1 DEF DrainShifted, DrainCleaned, At
    <3>2. queue # <<>>
      BY <3>1 DEF TypeInv, Ready
    <3>3. ToSet(queue') = ToSet(queue) \ {Head(queue)} /\ Head(queue) \in Inputs
      BY <3>1, <3>2, HeadLeaves
    <3>4. starting = None
      BY <3>1, NotPrompted
    <3>5. CASE DrainShifted
      BY <3>1, <3>3, <3>4, <3>5, HostAssumption DEF DrainShifted
    <3>6. CASE DrainCleaned
      <4>1. fate[Head(queue)] = "injected"
        BY <3>3, <3>6 DEF DrainCleaned, DeliveryInv, StepInv, RecordInv
      <4> QED
        BY <3>1, <3>3, <3>4, <3>6, <4>1 DEF DrainCleaned
    <3> QED
      BY <2>1, <3>5, <3>6
  <2>2. ASSUME NEW i \in Inputs, DrainReplied(i)
        PROVE  NoQueuedInputLost'
    BY <1>0, <2>2 DEF DrainReplied
  <2>3. CASE DrainStops \/ DrainTakesHead \/ DrainShiftFails \/ DrainSkipsDelivered
              \/ DrainCleanupFails
    BY <2>3 DEF DrainStops, DrainTakesHead, DrainShiftFails, DrainSkipsDelivered, DrainCleanupFails
  <2> QED
    BY <1>4, <2>1, <2>2, <2>3 DEF DrainSteps
<1>5. ASSUME NEW i \in Inputs, NEW kind \in MoveKinds \cup {"cancel"}, EditSteps(kind, i)
      PROVE  NoQueuedInputLost'
  <2>1. CASE EditRefused(kind, i) \/ EditAccepted(kind, i) \/ EditFails(kind, i)
    BY <2>1 DEF EditRefused, EditAccepted, EditFails
  <2>2. CASE ReorderCommitted(kind, i)
    <3>1. CanReorder(queue, promoted, i, kind = "reorderUp")
      BY <2>2 DEF ReorderCommitted, At, TypeInv, Ready
    <3>2. ToSet(queue') = ToSet(queue)
      BY <1>0, <2>2, <3>1, ReorderedOrdered DEF ReorderCommitted
    <3> QED
      BY <2>2, <3>2 DEF ReorderCommitted
  <2>3. CASE PrioritizeCommitted(i)
    <3>1. i \in ToSet(queue) \ promoted
      BY <2>3 DEF PrioritizeCommitted, At, TypeInv, Ready
    <3>2. ToSet(queue') = ToSet(queue)
      BY <1>0, <2>3, <3>1, PromoteInOrdered DEF PrioritizeCommitted
    <3> QED
      BY <2>3, <3>2 DEF PrioritizeCommitted
  <2>4. CASE CancelCommitted(i)
    <3>1. i \in ToSet(queue)
      BY <2>4 DEF CancelCommitted, DeliveryInv, StepInv
    <3>2. ToSet(queue') = ToSet(queue) \ {i}
      BY <2>4, <3>1, EntryLeaves DEF CancelCommitted
    <3> QED
      BY <1>0, <2>4, <3>1, <3>2 DEF CancelCommitted
  <2> QED
    BY <1>5, <2>1, <2>2, <2>3, <2>4 DEF EditSteps
<1>6. ASSUME NEW d \in Deliverers, DelivererSteps(d)
      PROVE  NoQueuedInputLost'
  <2>1. CASE Cleaned(d)
    <3> DEFINE x == deliverer[d].input
    <3>1. /\ Settling(d) /\ deliverer[d].stage = "accepted"
          /\ queue' = Without(queue, x) /\ promoted' = promoted \ {x}
          /\ UNCHANGED <<fate, starting>>
      BY <2>1 DEF Cleaned, Settling
    <3>2. x \in ToSet(queue) /\ delivery[x] = "delivered"
      BY <3>1 DEF DeliveryInv, LoopInv, StepInv, Holds
    <3>3. ToSet(queue') = ToSet(queue) \ {x}
      BY <3>1, <3>2, EntryLeaves
    <3>4. fate[x] = "injected"
      BY <1>0, <3>2 DEF DeliveryInv, RecordInv
    <3> QED
      BY <3>1, <3>3, <3>4
  <2>2. CASE ~Cleaned(d)
    <3>1. UNCHANGED <<queue, starting>>
          /\ (fate' = fate \/ fate' = [fate EXCEPT ![deliverer[d].input] = "injected"])
      BY <1>6, <2>2
         DEF DelivererSteps, DelivererStep, Reserved, NothingToReserve, SettledRefusal,
             SettledAcceptance, CleanupFails, SteerTaken, SteerRefused, RetryDelivery
    <3> QED
      BY <1>0, <3>1
  <2> QED
    BY <2>1, <2>2
<1> QED
  <2>1. \/ OutsideSteps \/ Attach \/ DrainSteps
        \/ \E i \in Inputs, kind \in StartKinds : StartSteps(kind, i)
        \/ \E i \in Inputs : PromptSteps(i)
        \/ \E i \in Inputs, kind \in MoveKinds \cup {"cancel"} : EditSteps(kind, i)
        \/ \E d \in Deliverers : DelivererSteps(d)
    BY NextSteps DEF OutsideSteps, ClientSteps, OtherSteps
  <2> QED
    BY <1>1, <1>2, <1>3, <1>4, <1>5, <1>6, <2>1

\* Between two restarts no queued input disappears from the queue without being
\* started, whichever failures, moves and deliveries happen.  A restart may lose the
\* input whose start it interrupts.
THEOREM QueuedInputsStay ==
  ASSUME MaxRestarts = 0
  PROVE  Spec => []NoQueuedInputLost
<1>1. Init => NoQueuedInputLost
  BY DEF Init, NoQueuedInputLost
<1>2. TypeInv /\ DeliveryInv /\ NoQueuedInputLost /\ [Next]_vars => NoQueuedInputLost'
  <2>1. ASSUME TypeInv
        PROVE  ~Restart
    <3>1. spent.restarts \in Nat
      BY <2>1 DEF TypeInv, TypeOK, Budget
    <3> QED
      BY <3>1 DEF Restart
  <2>2. ASSUME NoQueuedInputLost, UNCHANGED vars
        PROVE  NoQueuedInputLost'
    BY <2>2 DEF NoQueuedInputLost, vars, queueVars, aliasVars, ghostVars
  <2> QED
    BY <2>1, <2>2, QueuedKeeps
<1> QED
  BY <1>1, <1>2, TypeInvariant, DeliveryInvariant, PTL DEF Spec

-----------------------------------------------------------------------------
(* The promoted block *)

\* Every step keeps the order of the block.
LEMMA BlockKept ==
  ASSUME TypeInv, DeliveryInv, Next
  PROVE  KeepsBlock(queue, promoted, queue', promoted')
<1>0. /\ ToSet(queue) \subseteq Inputs /\ queue \in Seq(Inputs)
      /\ deliverer \in [Deliverers -> Loops]
      /\ Ordered(queue, promoted) /\ promoted \subseteq ToSet(queue)
  BY KnownInputs DEF TypeInv, TypeOK, DeliveryInv, QueueInOrder
<1> USE DEF hostVars, queueVars, aliasVars, runtimeVars, ghostVars
<1>a. ASSUME UNCHANGED <<queue, promoted>>
      PROVE  KeepsBlock(queue, promoted, queue', promoted')
  BY <1>a DEF KeepsBlock
<1>1. CASE OutsideSteps \/ Attach \/ Restart
  <2>1. UNCHANGED <<queue, promoted>>
    <3>1. ASSUME NEW i \in Inputs, NEW kind \in StartKinds, StartTurn(kind, i)
          PROVE  UNCHANGED <<queue, promoted>>
      BY <3>1 DEF StartTurn
    <3>2. CASE Attach
      BY <3>2 DEF Attach
    <3>3. CASE Restart
      BY <3>3 DEF Restart
    <3>4. CASE OutsideSteps
      BY <3>1, <3>4, OutsideMore, OutsideFrame
    <3> QED
      BY <1>1, <3>2, <3>3, <3>4
  <2> QED
    BY <1>a, <2>1
<1>2. ASSUME NEW i \in Inputs, NEW kind \in StartKinds, StartSteps(kind, i)
      PROVE  KeepsBlock(queue, promoted, queue', promoted')
  <2>1. CASE Pushed(kind, i)
    <3>1. At(Op(kind, i), "store") /\ queue' = Append(queue, i) /\ promoted' = promoted
      BY <2>1 DEF Pushed
    <3>2. i \notin ToSet(queue)
      BY <3>1, OneHolder, KnownInputs DEF DeliveryInv, PlaceInv
    <3> QED
      BY <1>0, <3>1, <3>2, AppendKeepsBlock
  <2>2. CASE ~Pushed(kind, i)
    <3>1. UNCHANGED <<queue, promoted>>
      BY <1>2, <2>2
         DEF StartSteps, StartRejected, StartPushes, PushFails, StartPrompts, StartReplied
    <3> QED
      BY <1>a, <3>1
  <2> QED
    BY <2>1, <2>2
<1>3. ASSUME NEW i \in Inputs, PromptSteps(i)
      PROVE  KeepsBlock(queue, promoted, queue', promoted')
  <2>1. UNCHANGED <<queue, promoted>>
    BY <1>3 DEF PromptSteps, PromptBegins, SidecarTakes, PromptAbandoned, PromptRefused,
                PromptFailed, PromptThrows
  <2> QED
    BY <1>a, <2>1
<1>4. CASE DrainSteps
  <2>1. CASE DrainShifted \/ DrainCleaned
    <3>1. /\ queue' = Tail(queue) /\ promoted' = promoted \ {Head(queue)}
          /\ step \in {"store", "cleanup"} /\ gate.ops # <<>> /\ Head(gate.ops) = Drain
      BY <2>1 DEF DrainShifted, DrainCleaned, At
    <3>2. queue # <<>>
      BY <3>1 DEF TypeInv, Ready
    <3> QED
      BY <1>0, <3>1, <3>2, TailKeepsBlock
  <2>2. ASSUME NEW i \in Inputs, DrainReplied(i)
        PROVE  UNCHANGED <<queue, promoted>>
    BY <2>2 DEF DrainReplied
  <2>3. CASE DrainStops \/ DrainTakesHead \/ DrainShiftFails \/ DrainSkipsDelivered
              \/ DrainCleanupFails
    <3>1. UNCHANGED <<queue, promoted>>
      BY <2>3
         DEF DrainStops, DrainTakesHead, DrainShiftFails, DrainSkipsDelivered, DrainCleanupFails
    <3> QED
      BY <1>a, <3>1
  <2> QED
    BY <1>4, <1>a, <2>1, <2>2, <2>3 DEF DrainSteps
<1>5. ASSUME NEW i \in Inputs, NEW kind \in MoveKinds \cup {"cancel"}, EditSteps(kind, i)
      PROVE  KeepsBlock(queue, promoted, queue', promoted')
  <2>1. CASE EditRefused(kind, i) \/ EditAccepted(kind, i) \/ EditFails(kind, i)
    <3>1. UNCHANGED <<queue, promoted>>
      BY <2>1 DEF EditRefused, EditAccepted, EditFails
    <3> QED
      BY <1>a, <3>1
  <2>2. CASE ReorderCommitted(kind, i)
    <3>1. /\ CanReorder(queue, promoted, i, kind = "reorderUp")
          /\ promoted' = promoted
      BY <2>2 DEF ReorderCommitted, At, TypeInv, Ready
    <3>2. queue' = Reordered(queue, promoted, i, kind = "reorderUp")
      BY <2>2 DEF ReorderCommitted
    <3> QED
      BY <1>0, <3>1, <3>2, ReorderedKeepsBlock
  <2>3. CASE PrioritizeCommitted(i)
    <3>1. i \in ToSet(queue) \ promoted
      BY <2>3 DEF PrioritizeCommitted, At, TypeInv, Ready
    <3>2. queue' = PromoteIn(queue, promoted, i) /\ promoted' = promoted \cup {i}
      BY <2>3 DEF PrioritizeCommitted
    <3> QED
      BY <1>0, <3>1, <3>2, PromoteInKeepsBlock
  <2>4. CASE CancelCommitted(i)
    <3>1. queue' = Without(queue, i) /\ promoted' = promoted \ {i}
      BY <2>4 DEF CancelCommitted
    <3> QED
      BY <1>0, <3>1, WithoutKeepsBlock
  <2> QED
    BY <1>5, <2>1, <2>2, <2>3, <2>4 DEF EditSteps
<1>6. ASSUME NEW d \in Deliverers, DelivererSteps(d)
      PROVE  KeepsBlock(queue, promoted, queue', promoted')
  <2>1. CASE Cleaned(d)
    <3>1. /\ queue' = Without(queue, deliverer[d].input)
          /\ promoted' = promoted \ {deliverer[d].input}
      BY <2>1 DEF Cleaned
    <3> QED
      BY <1>0, <3>1, WithoutKeepsBlock
  <2>2. CASE ~Cleaned(d)
    <3>1. UNCHANGED <<queue, promoted>>
      BY <1>6, <2>2
         DEF DelivererSteps, DelivererStep, Reserved, NothingToReserve, SettledRefusal,
             SettledAcceptance, CleanupFails, SteerTaken, SteerRefused, RetryDelivery
    <3> QED
      BY <1>a, <3>1
  <2> QED
    BY <2>1, <2>2
<1> QED
  <2>1. \/ OutsideSteps \/ Restart \/ Attach \/ DrainSteps
        \/ \E i \in Inputs, kind \in StartKinds : StartSteps(kind, i)
        \/ \E i \in Inputs : PromptSteps(i)
        \/ \E i \in Inputs, kind \in MoveKinds \cup {"cancel"} : EditSteps(kind, i)
        \/ \E d \in Deliverers : DelivererSteps(d)
    BY NextSteps DEF OutsideSteps, ClientSteps, OtherSteps
  <2> QED
    BY <1>1, <1>2, <1>3, <1>4, <1>5, <1>6, <2>1

\* Promoted inputs stay in the order they were promoted in: no move, removal,
\* later promotion, delivery or restart puts one before an earlier one.
THEOREM PromotionsFinal == Spec => PromotionIsFinal
<1>1. TypeInv /\ DeliveryInv /\ [Next]_vars
        => [\A i \in promoted \cap promoted' : \A j \in promoted' \ {i} :
              j \notin promoted \/ IndexOf(queue, i) < IndexOf(queue, j)
                => IndexOf(queue', i) < IndexOf(queue', j)]_vars
  BY BlockKept DEF KeepsBlock
<1> QED
  BY <1>1, TypeInvariant, DeliveryInvariant, PTL DEF Spec, PromotionIsFinal

-----------------------------------------------------------------------------
(* One active turn *)

\* A run that has begun and is not settled.
Owning == {"begun", "taken", "live"} \cup Over

\* Runs begin one after the other; the one that is not settled owns the session,
\* and nothing speaks of a run before the sidecar took its prompt.
RunInv ==
  /\ external = "none"
  /\ \A r \in Runs : r > spent.runs => run[r] = "unused"
  /\ \A r \in Runs : run[r] \in Owning <=> owner = r
  /\ \A r \in Runs : run[r] \in {"unused", "begun"} => status[r] = "none" /\ alias[r] = None

\* While an input is prompted for, no other run is there to speak.
OwnerInv ==
  /\ owner # None /\ step \in {"begun", "failing"} => owner = promptRun
  /\ step \in {"begun", "failing"} => run[promptRun] # "unused"
  /\ (starting # None /\ step = "enter") \/ At(Drain, "store") => owner = None

\* Nobody has started the input yet.
Unstarted(i) == i \in ToSet(queue) \/ fate[i] \in {"new", "asked"}

\* The run of the input that is being started is the one of the open prompt, from
\* the announcement of the user message on.
AliasInv ==
  /\ \A i \in Inputs : runtimeOf[i] # None => ~Unstarted(i)
  /\ starting # None =>
       \/ runtimeOf[starting] = None
       \/ /\ step \in {"begun", "failing"}
          /\ runtimeOf[starting] = promptRun
          /\ alias[promptRun] = starting
  /\ starting # None /\ step = "begun" /\ run[promptRun] # "begun" =>
       alias[promptRun] = starting
  /\ starting = None /\ step \in {"begun", "failing"} => alias[promptRun] = None

\* An active record is that of the owner's turn, under the id of its input if it
\* has one.
ActiveInv ==
  \A t \in TurnIds : status[t] \in Active =>
    /\ owner # None
    /\ t \in {owner, alias[owner]}
    /\ t \in Runs => alias[t] = None

TurnInv == RunInv /\ OwnerInv /\ AliasInv /\ ActiveInv

\* Runs are no inputs and neither is None.
LEMMA Apart ==
  /\ Runs \subseteq Nat
  /\ \A r \in Runs : r \notin Inputs
  /\ None \notin TurnIds
  /\ Runs \subseteq TurnIds /\ Inputs \subseteq TurnIds
<1>1. Runs \subseteq Nat
  BY HostAssumption DEF Runs
<1> QED
  BY <1>1, HostAssumption DEF TurnIds

\* A step that starts, takes and ends no run.
LEMMA TurnQuiet ==
  ASSUME TypeInv, TypeInv', DeliveryInv, TurnInv,
         UNCHANGED <<alias, runtimeOf, owner, run, external>>,
         spent'.runs = spent.runs,
         \A t \in TurnIds : status'[t] \in Active => status[t] \in Active,
         \A r \in Runs : status'[r] = status[r] \/ status[r] # "none",
         \A i \in Inputs : Unstarted(i)' => Unstarted(i),
         \/ /\ UNCHANGED <<step, starting, promptRun>>
            /\ SameHolder(gate, gate')
         \/ /\ starting' = None /\ step' \notin {"begun", "failing"}
            /\ At(Drain, "store")' => owner = None
  PROVE  TurnInv'
<1>1. RunInv'
  BY DEF TurnInv, RunInv
<1>2. OwnerInv'
  <2>1. CASE UNCHANGED <<step, starting, promptRun>> /\ SameHolder(gate, gate')
    <3>1. At(Drain, "store")' <=> At(Drain, "store")
      BY <2>1, StillAt
    <3> QED
      BY <2>1, <3>1 DEF TurnInv, OwnerInv
  <2>2. CASE /\ starting' = None /\ step' \notin {"begun", "failing"}
             /\ At(Drain, "store")' => owner = None
    BY <2>2 DEF OwnerInv
  <2> QED
    BY <2>1, <2>2
<1>3. AliasInv'
  <2>1. \A i \in Inputs : runtimeOf'[i] # None => ~Unstarted(i)'
    BY DEF TurnInv, AliasInv
  <2>2. CASE UNCHANGED <<step, starting, promptRun>>
    BY <2>1, <2>2 DEF TurnInv, AliasInv
  <2>3. CASE starting' = None /\ step' \notin {"begun", "failing"}
    BY <2>1, <2>3 DEF TurnInv, AliasInv
  <2> QED
    BY <2>2, <2>3
<1>4. ActiveInv'
  BY DEF TurnInv, ActiveInv
<1> QED
  BY <1>1, <1>2, <1>3, <1>4 DEF TurnInv

\* What a run that speaks is.
LEMMA Speaking ==
  ASSUME TypeInv, DeliveryInv, TurnInv, NEW r \in Runs, owner = r, run[r] # "begun"
  PROVE  /\ Resolved(r) \in TurnIds
         /\ \A t \in TurnIds : status[t] \in Active => t = Resolved(r)
         /\ \A q \in Runs : Resolved(r) = q => q = r
         /\ Adopts(r) => /\ step \in {"begun", "failing"} /\ r = promptRun
                         /\ starting \in Inputs /\ starting # None
                         /\ ~Unstarted(starting)
<1>0. /\ r \in TurnIds /\ alias[r] \in Inputs \cup {None} /\ starting \in Inputs \cup {None}
      /\ Inputs \subseteq TurnIds /\ r # None /\ (\A q \in Runs : q \notin Inputs)
      /\ None \notin TurnIds
  BY Apart DEF TypeInv, TypeOK
<1>1. Resolved(r) \in TurnIds
  BY <1>0 DEF Resolved, Adopts
<1>2. ASSUME NEW t \in TurnIds, status[t] \in Active
      PROVE  t = Resolved(r)
  <2>1. t \in {r, alias[r]} /\ (t \in Runs => alias[t] = None)
    BY <1>2 DEF TurnInv, ActiveInv
  <2>2. CASE t = r
    <3>1. alias[r] = None /\ status[r] # "none"
      BY <1>2, <2>1, <2>2 DEF Active
    <3> QED
      BY <2>2, <3>1 DEF Resolved, Adopts
  <2>3. CASE t # r
    <3>1. t = alias[r] /\ alias[r] # None
      BY <1>0, <2>1, <2>3
    <3> QED
      BY <3>1 DEF Resolved
  <2> QED
    BY <2>2, <2>3
<1>3. \A q \in Runs : Resolved(r) = q => q = r
  BY <1>0 DEF Resolved, Adopts, TurnIds
<1>4. ASSUME Adopts(r)
      PROVE  /\ step \in {"begun", "failing"} /\ r = promptRun
             /\ starting \in Inputs /\ starting # None /\ ~Unstarted(starting)
  <2>1. starting # None /\ starting \in Inputs
    BY <1>0, <1>4 DEF Adopts
  <2>2. step \in {"enter", "begun", "failing"}
    BY <2>1, OneStarting
  <2>3. step # "enter"
    BY <1>0, <2>1 DEF TurnInv, OwnerInv
  <2>4. ~Unstarted(starting)
    BY <2>1 DEF DeliveryInv, PlaceInv, Unstarted
  <2> QED
    BY <1>0, <2>1, <2>2, <2>3, <2>4 DEF TurnInv, OwnerInv
<1> QED
  BY <1>1, <1>2, <1>3, <1>4

\* The run that owns the session speaks, or ends.
LEMMA SpokenKeeps ==
  ASSUME TypeInv, TypeInv', DeliveryInv, TurnInv, NEW r \in Runs, owner = r,
         run[r] # "begun",
         UNCHANGED <<external, queue, fate, starting, step, promptRun, spent>>,
         SameHolder(gate, gate'),
         NEW life \in RunLives \ {"unused", "begun"}, run' = [run EXCEPT ![r] = life],
         owner' = IF life = "settled" THEN None ELSE r,
         Adopt(r) \/ UNCHANGED <<alias, runtimeOf>>,
         \/ status' = status
         \/ \E outcome \in Status : status' = [status EXCEPT ![Resolved(r)] = outcome],
         \/ \A t \in TurnIds : status'[t] \notin Active
         \/ /\ life # "settled"
            /\ Adopt(r) \/ Resolved(r) \in {r, alias[r]}
  PROVE  TurnInv'
<1>0. /\ r \in TurnIds /\ alias \in [Runs -> Inputs \cup {None}]
      /\ starting \in Inputs \cup {None} /\ run \in [Runs -> RunLives]
      /\ status \in [TurnIds -> Status] /\ runtimeOf \in [Inputs -> Runs \cup {None}]
      /\ Inputs \subseteq TurnIds /\ Runs \subseteq TurnIds /\ r # None
      /\ (\A q \in Runs : q \notin Inputs) /\ None \notin TurnIds
  BY Apart DEF TypeInv, TypeOK
<1>1. /\ Resolved(r) \in TurnIds
      /\ \A t \in TurnIds : status[t] \in Active => t = Resolved(r)
      /\ \A q \in Runs : Resolved(r) = q => q = r
      /\ Adopts(r) => /\ step \in {"begun", "failing"} /\ r = promptRun
                      /\ starting \in Inputs /\ starting # None
                      /\ ~Unstarted(starting)
  BY Speaking
<1>2. /\ \A q \in Runs \ {r} : alias'[q] = alias[q] /\ run'[q] = run[q] /\ status'[q] = status[q]
      /\ \A i \in Inputs : i # starting => runtimeOf'[i] = runtimeOf[i]
      /\ run'[r] = life
      /\ ~Adopts(r) => UNCHANGED <<alias, runtimeOf>>
      /\ alias[r] # None => UNCHANGED <<alias, runtimeOf>>
      /\ alias'[r] # alias[r] => /\ Adopts(r) /\ alias[r] = None /\ alias'[r] = starting
                                 /\ runtimeOf'[starting] = r
  BY <1>0, <1>1 DEF Adopt, Adopts
<1>3. RunInv'
  <2>1. \A q \in Runs : q > spent.runs => run'[q] = "unused"
    <3>1. run[r] # "unused"
      BY DEF TurnInv, RunInv, Owning, Over
    <3>2. ~(r > spent.runs)
      BY <3>1 DEF TurnInv, RunInv
    <3> QED
      BY <1>2, <3>2 DEF TurnInv, RunInv
  <2>2. \A q \in Runs : run'[q] \in Owning <=> owner' = q
    <3>1. life \in Owning <=> life # "settled"
      BY DEF RunLives, Owning, Over
    <3> QED
      BY <1>0, <1>2, <3>1 DEF TurnInv, RunInv
  <2>3. \A q \in Runs : run'[q] \in {"unused", "begun"} => status'[q] = "none" /\ alias'[q] = None
    BY <1>2 DEF TurnInv, RunInv
  <2> QED
    BY <2>1, <2>2, <2>3 DEF TurnInv, RunInv
<1>4. OwnerInv'
  <2>1. At(Drain, "store")' <=> At(Drain, "store")
    BY StillAt
  <2> QED
    BY <1>0, <2>1 DEF TurnInv, OwnerInv
<1>5. AliasInv'
  <2>1. \A i \in Inputs : Unstarted(i)' => Unstarted(i)
    BY DEF Unstarted
  <2>2. ASSUME NEW i \in Inputs, runtimeOf'[i] # None
        PROVE  ~Unstarted(i)'
    BY <1>1, <1>2, <2>1, <2>2 DEF TurnInv, AliasInv
  <2>3. CASE Adopts(r) /\ Adopt(r)
    <3>1. /\ alias'[r] = starting /\ runtimeOf'[starting] = r /\ alias[r] = None
      BY <1>0, <1>1, <2>3 DEF Adopt, Adopts
    <3> QED
      BY <1>1, <2>2, <2>3, <3>1 DEF AliasInv
  <2>4. CASE UNCHANGED <<alias, runtimeOf>>
    <3>1. promptRun \in Runs => (run'[promptRun] # "begun" => run[promptRun] # "begun")
      BY <1>0, <1>2
    <3>2. step = "begun" => promptRun \in Runs
      BY DEF DeliveryInv, StepInv, TypeInv, TypeOK
    <3> QED
      BY <2>2, <2>4, <3>1, <3>2 DEF TurnInv, AliasInv
  <2> QED
    BY <1>2, <2>3, <2>4 DEF Adopt
<1>6. ActiveInv'
  <2>1. CASE \A t \in TurnIds : status'[t] \notin Active
    BY <2>1 DEF ActiveInv
  <2>2. CASE /\ life # "settled"
             /\ Adopt(r) \/ Resolved(r) \in {r, alias[r]}
    <3>1. \A t \in TurnIds : status'[t] \in Active => t = Resolved(r)
      BY <1>0, <1>1
    <3>2. Resolved(r) \in {r, alias'[r]} /\ (Resolved(r) \in Runs => alias'[Resolved(r)] = None)
      <4>1. CASE alias[r] # None
        BY <1>0, <1>2, <4>1 DEF Resolved
      <4>2. CASE alias[r] = None /\ Adopts(r)
        <5>1. Resolved(r) = starting
          BY <4>2 DEF Resolved
        <5>2. starting \in Inputs
          BY <1>1, <4>2
        <5>3. Adopt(r)
          BY <1>0, <2>2, <4>2, <5>1, <5>2
        <5>4. alias'[r] = starting
          BY <1>0, <4>2, <5>3 DEF Adopt
        <5> QED
          BY <1>0, <5>1, <5>2, <5>4
      <4>3. CASE alias[r] = None /\ ~Adopts(r)
        BY <1>0, <1>2, <4>3 DEF Resolved
      <4> QED
        BY <4>1, <4>2, <4>3
    <3>3. owner' = r
      BY <2>2
    <3> QED
      BY <1>0, <3>1, <3>2, <3>3 DEF ActiveInv
  <2> QED
    BY <2>1, <2>2
<1> QED
  BY <1>3, <1>4, <1>5, <1>6 DEF TurnInv

\* What the runtime reports keeps TurnInv.
LEMMA RunTurns ==
  ASSUME TypeInv, TypeInv', DeliveryInv, TurnInv, NEW r \in Runs, RunSteps(r)
  PROVE  TurnInv'
<1>0. /\ gate \in Gates /\ status \in [TurnIds -> Status] /\ run \in [Runs -> RunLives]
      /\ r \in TurnIds /\ Runs \subseteq TurnIds
  BY Apart DEF TypeInv, TypeOK
<1>1. SameHolder(gate, gate') /\ UNCHANGED <<starting, step>>
  BY OutsideFrame DEF OutsideSteps
<1>2. UNCHANGED <<queue, fate, promptRun, external, spent>>
  BY DEF RunSteps, RunStep, RunEnds, AgentStart, AgentEnd, AgentError, RunAborted, Settle,
         AskUser, queueVars, ghostVars, admissionVars, runtimeVars
<1>3. run[r] \in {"taken", "live"} \cup Over => owner = r
  BY DEF TurnInv, RunInv, Owning
<1>4. {"taken", "live", "ended", "broken"} \subseteq RunLives \ {"unused", "begun"}
      /\ "settled" \in RunLives \ {"unused", "begun"} /\ Over = {"ended", "broken"}
  BY DEF RunLives, Over
<1> DEFINE Closed == \A t \in TurnIds : status'[t] \notin Active
<1>5. ASSUME run[r] \in {"taken", "live"} \cup Over
      PROVE  /\ Resolved(r) \in TurnIds
             /\ \A t \in TurnIds : status[t] \in Active => t = Resolved(r)
  BY <1>3, <1>4, <1>5, Speaking
<1> USE DEF hostVars, queueVars, aliasVars, runtimeVars
<1>6. CASE AgentStart(r)
  <2>1. run' = [run EXCEPT ![r] = "live"] /\ Adopt(r) /\ run[r] = "taken" /\ owner' = owner
        /\ status' = [status EXCEPT ![Resolved(r)] = "running"] /\ "running" \in Status
    BY <1>6 DEF AgentStart, Status, Active
  <2> QED
    BY <1>1, <1>2, <1>3, <1>4, <2>1, SpokenKeeps
<1>7. CASE AskUser(r)
  <2>1. run' = [run EXCEPT ![r] = run[r]] /\ Adopt(r) /\ run[r] \in {"live"} \cup Over
        /\ owner = r /\ owner' = owner
        /\ status' = [status EXCEPT ![Resolved(r)] = "waiting"] /\ "waiting" \in Status
    BY <1>0, <1>7 DEF AskUser, Status, Active
  <2> QED
    BY <1>1, <1>2, <1>4, <2>1, SpokenKeeps
<1>8. CASE AgentEnd(r)
  <2>1. run' = [run EXCEPT ![r] = "ended"] /\ Adopt(r) /\ run[r] = "live"
        /\ owner = r /\ owner' = owner
        /\ \/ status' = status /\ status[Resolved(r)] = "none"
           \/ status' = [status EXCEPT ![Resolved(r)] = "completed"]
        /\ "completed" \in Status
    BY <1>8 DEF AgentEnd, CloseTurn, Status, Terminal
  <2>2. Closed
    BY <1>0, <1>5, <2>1 DEF Active
  <2> QED
    BY <1>1, <1>2, <1>4, <2>1, <2>2, SpokenKeeps
<1>9. CASE AgentError(r)
  <2>1. run' = [run EXCEPT ![r] = "broken"] /\ Adopt(r) /\ run[r] \in {"taken", "live"}
        /\ owner = r /\ owner' = owner
        /\ \/ status' = status /\ status[Resolved(r)] \notin Active
           \/ status' = [status EXCEPT ![Resolved(r)] = "failed"]
           \/ status' = status /\ status[Resolved(r)] = "none"
        /\ "failed" \in Status
    BY <1>9 DEF AgentError, CloseTurn, Status, Terminal
  <2>2. Closed
    BY <1>0, <1>5, <2>1 DEF Active
  <2> QED
    BY <1>1, <1>2, <1>4, <2>1, <2>2, SpokenKeeps
<1>10. CASE RunAborted(r)
  <2>1. run' = [run EXCEPT ![r] = "broken"] /\ run[r] \in {"taken", "live"}
        /\ owner = r /\ owner' = owner /\ UNCHANGED <<status, alias, runtimeOf>>
    BY <1>10 DEF RunAborted
  <2>2. Resolved(r) \in {r, alias[r]}
    <3>1. ~Adopts(r)
      BY <1>4, <1>10, <2>1, Speaking DEF RunAborted
    <3> QED
      BY <3>1 DEF Resolved
  <2> QED
    BY <1>1, <1>2, <1>4, <2>1, <2>2, SpokenKeeps
<1>11. CASE Settle(r)
  <2>1. run' = [run EXCEPT ![r] = "settled"] /\ Adopt(r) /\ run[r] \in Over
        /\ owner = r /\ owner' = None
        /\ \/ status' = status /\ status[Resolved(r)] \notin Active
           \/ \E outcome \in Terminal : status' = [status EXCEPT ![Resolved(r)] = outcome]
    BY <1>11 DEF Settle, EndTurn, Terminal
  <2>2. Closed /\ Terminal \subseteq Status
    BY <1>0, <1>5, <2>1 DEF Active, Terminal, Status
  <2> QED
    BY <1>1, <1>2, <1>4, <2>1, <2>2, SpokenKeeps
<1> QED
  BY <1>6, <1>7, <1>8, <1>9, <1>10, <1>11 DEF RunSteps, RunStep, RunEnds

\* Admitting, answering and refusing a start keep TurnInv: the turn that is
\* answered for owns the session.
LEMMA StartTurns ==
  ASSUME TypeInv, TypeInv', DeliveryInv, TurnInv, ReplyBeforeSettle,
         NEW i \in Inputs, NEW kind \in StartKinds, StartSteps(kind, i)
  PROVE  TurnInv'
<1>0. /\ status \in [TurnIds -> Status] /\ fate \in [Inputs -> Fates] /\ queue \in Seq(Inputs)
      /\ gate \in Gates /\ i \in TurnIds /\ Inputs \subseteq TurnIds /\ Runs \subseteq TurnIds
      /\ (\A r \in Runs : r \notin Inputs) /\ None \notin TurnIds
  BY Apart, KnownInputs DEF TypeInv, TypeOK
<1>n. Op(kind, i) # Drain
  BY DEF Op, Drain, StartKinds
<1> USE DEF hostVars, queueVars, aliasVars, runtimeVars, ghostVars
<1>1. CASE StartRejected(kind, i) \/ PushFails(kind, i)
  <2>1. starting = None
    BY <1>1, OneHolder DEF StartRejected, PushFails
  <2>2. /\ UNCHANGED <<alias, runtimeOf, owner, run, external, status, queue, starting>>
        /\ step' = "begin" /\ fate' = [fate EXCEPT ![i] = "rejected"]
    BY <1>1 DEF StartRejected, PushFails, Done
  <2>3. spent'.runs = spent.runs
    BY <1>1 DEF StartRejected, PushFails, Fails, TypeInv, TypeOK, Budget
  <2>4. \A j \in Inputs : Unstarted(j)' => Unstarted(j)
    BY <1>0, <2>2 DEF Unstarted
  <2>5. ~At(Drain, "store")'
    BY <2>2 DEF At
  <2> QED
    BY <2>1, <2>2, <2>3, <2>4, <2>5, TurnQuiet
<1>2. CASE StartPushes(kind, i) \/ StartPrompts(kind, i)
  <2>1. starting = None
    BY <1>2, OneHolder DEF StartPushes, StartPrompts
  <2>2. /\ UNCHANGED <<alias, runtimeOf, owner, run, external, status, queue, starting, fate,
                       spent, gate>>
        /\ step' \in {"store", "enter"} /\ At(Op(kind, i), "begin")
    BY <1>2 DEF StartPushes, StartPrompts
  <2>4. \A j \in Inputs : Unstarted(j)' => Unstarted(j)
    BY <2>2 DEF Unstarted
  <2>5. ~At(Drain, "store")'
    BY <1>n, <2>2 DEF At
  <2> QED
    BY <2>1, <2>2, <2>4, <2>5, TurnQuiet
<1>3. CASE Pushed(kind, i)
  <2>1. starting = None /\ Asks(gate, i)
    BY <1>0, <1>3, OneHolder DEF Pushed
  <2>2. /\ UNCHANGED <<alias, runtimeOf, owner, run, external, starting, spent>>
        /\ step' = "begin" /\ fate' = [fate EXCEPT ![i] = "queued"]
        /\ status' = [status EXCEPT ![i] = "queued"] /\ queue' = Append(queue, i)
    BY <1>3 DEF Pushed
  <2>3. fate[i] = "asked" /\ i \notin ToSet(queue) /\ i \notin promoted
        /\ Ordered(queue, promoted)
    BY <2>1 DEF DeliveryInv, AskInv, PlaceInv, QueueInOrder
  <2>4. ToSet(queue') = ToSet(queue) \cup {i}
    BY <1>0, <2>2, <2>3, AppendOrdered
  <2>5. \A j \in Inputs : Unstarted(j)' => Unstarted(j)
    BY <1>0, <2>2, <2>3, <2>4 DEF Unstarted
  <2>6. ~At(Drain, "store")'
    BY <2>2 DEF At
  <2>7. /\ \A t \in TurnIds : status'[t] \in Active => status[t] \in Active
        /\ \A r \in Runs : status'[r] = status[r]
    BY <1>0, <2>2 DEF Active
  <2> QED
    BY <2>1, <2>2, <2>5, <2>6, <2>7, TurnQuiet
<1>4. CASE StartReplied(kind, i)
  <2> DEFINE p == promptRun
  <2>1. starting = None /\ starting' = None
    BY <1>4, OneHolder DEF StartReplied
  <2>2. /\ UNCHANGED <<alias, runtimeOf, owner, run, external, queue, spent>>
        /\ step = "begun" /\ step' = "begin" /\ fate' = [fate EXCEPT ![i] = "started"]
        /\ status' = [status EXCEPT ![p] = IF @ \in Active \cup Terminal THEN @ ELSE "running"]
        /\ run[p] \in {"taken", "live"} \cup Over
    BY <1>4 DEF StartReplied, Done, At
  <2>3. p \in Runs /\ owner = p /\ alias[p] = None
    BY <1>0, <2>1, <2>2 DEF DeliveryInv, StepInv, TypeInv, TypeOK, TurnInv, RunInv, Owning, AliasInv
  <2>4. \A j \in Inputs : Unstarted(j)' => Unstarted(j)
    BY <1>0, <2>2 DEF Unstarted
  <2> HIDE DEF p
  <2>5. RunInv'
    <3>1. \A r \in Runs : run[r] \in {"unused", "begun"} => status'[r] = status[r]
      BY <1>0, <2>2, <2>3 DEF Over
    <3> QED
      BY <2>2, <3>1 DEF TurnInv, RunInv
  <2>6. OwnerInv'
    BY <2>1, <2>2 DEF OwnerInv, At
  <2>7. AliasInv'
    BY <2>1, <2>2, <2>4 DEF TurnInv, AliasInv
  <2>8. ActiveInv'
    <3>1. ASSUME NEW t \in TurnIds, status'[t] \in Active, t # p
          PROVE  status[t] \in Active
      BY <1>0, <2>2, <3>1
    <3>2. owner # None /\ p \in {owner, alias[owner]}
      BY <1>0, <2>3
    <3> QED
      BY <2>2, <2>3, <3>1, <3>2 DEF TurnInv, ActiveInv
  <2> QED
    BY <2>5, <2>6, <2>7, <2>8 DEF TurnInv
<1> QED
  BY <1>1, <1>2, <1>3, <1>4 DEF StartSteps

\* prompt() throws: the run it began, if any, is settled.
LEMMA ThrowingTurns ==
  ASSUME TypeInv, TypeInv', DeliveryInv, TurnInv, NEW i \in Inputs, NEW s \in Steps,
         AtPrompt(i, s), PromptThrows(i), spent'.runs = spent.runs
  PROVE  TurnInv'
<1>0. /\ status \in [TurnIds -> Status] /\ fate \in [Inputs -> Fates]
      /\ i \in TurnIds /\ Runs \subseteq TurnIds /\ (\A r \in Runs : r \notin Inputs)
  BY Apart DEF TypeInv, TypeOK
<1>1. /\ UNCHANGED <<alias, runtimeOf, owner, run, external, queue>>
      /\ step' = "begin" /\ starting' = None
      /\ status' = status \/ status' = [status EXCEPT ![i] = "failed"]
      /\ \/ fate' = [fate EXCEPT ![i] = "failed"] \/ fate' = [fate EXCEPT ![i] = "rejected"]
  BY DEF PromptThrows, queueVars, runtimeVars
<1>2. \A j \in Inputs : Unstarted(j)' => Unstarted(j)
  BY <1>0, <1>1 DEF Unstarted
<1>3. ~At(Drain, "store")'
  BY <1>1 DEF At
<1>4. /\ \A t \in TurnIds : status'[t] \in Active => status[t] \in Active
      /\ \A r \in Runs : status'[r] = status[r]
  BY <1>0, <1>1 DEF Active
<1> QED
  BY <1>1, <1>2, <1>3, <1>4, TurnQuiet

\* Prompting keeps TurnInv: a run begins when no other owns the session, and the
\* input that is being started becomes its turn with the announcement.
LEMMA PromptTurns ==
  ASSUME TypeInv, TypeInv', DeliveryInv, TurnInv, NEW i \in Inputs, PromptSteps(i)
  PROVE  TurnInv'
<1>0. /\ status \in [TurnIds -> Status] /\ alias \in [Runs -> Inputs \cup {None}]
      /\ run \in [Runs -> RunLives] /\ runtimeOf \in [Inputs -> Runs \cup {None}]
      /\ spent \in Budget /\ starting \in Inputs \cup {None}
      /\ Runs \subseteq TurnIds /\ Runs \subseteq Nat /\ (\A r \in Runs : r \notin Inputs)
      /\ None \notin TurnIds /\ Inputs \subseteq TurnIds
  BY Apart DEF TypeInv, TypeOK
<1> USE DEF hostVars, queueVars, aliasVars, runtimeVars, ghostVars
<1>1. CASE PromptRefused(i)
  <2>1. spent'.runs = spent.runs
    BY <1>0, <1>1 DEF PromptRefused, Fails, Budget
  <2> QED
    BY <1>1, <2>1, ThrowingTurns DEF PromptRefused, Steps
<1>2. CASE PromptFailed(i)
  BY <1>2, ThrowingTurns DEF PromptFailed, Steps
<1>3. CASE PromptBegins(i)
  <2> DEFINE r == spent.runs + 1
  <2>1. r \in Runs /\ spent.runs \in Nat
    BY <1>0, <1>3, NextRun DEF PromptBegins, Budget
  <2>2. /\ UNCHANGED <<alias, runtimeOf, status, external, queue, fate, starting>>
        /\ step = "enter" /\ step' = "begun" /\ owner = None /\ owner' = r /\ promptRun' = r
        /\ run' = [run EXCEPT ![r] = "begun"] /\ spent'.runs = r
    BY <1>0, <1>3 DEF PromptBegins, AtPrompt, At, Budget
  <2>3. run[r] = "unused" /\ status[r] = "none" /\ alias[r] = None
    BY <2>1 DEF TurnInv, RunInv
  <2> HIDE DEF r
  <2>4. RunInv'
    <3>1. \A q \in Runs : q > spent'.runs => run'[q] = "unused"
      <4>1. ASSUME NEW q \in Runs, q > r
            PROVE  q # r /\ q > spent.runs
        BY <1>0, <2>1, <4>1 DEF r
      <4> QED
        BY <1>0, <2>2, <4>1 DEF TurnInv, RunInv
    <3>2. \A q \in Runs : run'[q] \in Owning <=> owner' = q
      BY <1>0, <2>1, <2>2 DEF TurnInv, RunInv, Owning
    <3>3. \A q \in Runs : run'[q] \in {"unused", "begun"} => status'[q] = "none" /\ alias'[q] = None
      BY <1>0, <2>2, <2>3 DEF TurnInv, RunInv
    <3> QED
      BY <2>2, <3>1, <3>2, <3>3 DEF TurnInv, RunInv
  <2>5. OwnerInv'
    BY <1>0, <2>1, <2>2 DEF OwnerInv, At
  <2>6. AliasInv'
    <3>1. starting # None => runtimeOf[starting] = None
      BY <2>2 DEF TurnInv, AliasInv
    <3>2. \A j \in Inputs : Unstarted(j)' <=> Unstarted(j)
      BY <2>2 DEF Unstarted
    <3>3. run'[r] = "begun"
      BY <1>0, <2>1, <2>2
    <3> QED
      BY <2>2, <2>3, <3>1, <3>2, <3>3 DEF TurnInv, AliasInv
  <2>7. ActiveInv'
    BY <2>2 DEF TurnInv, ActiveInv
  <2> QED
    BY <2>4, <2>5, <2>6, <2>7 DEF TurnInv
<1>4. CASE SidecarTakes(i)
  <2> DEFINE p == promptRun
  <2>1. /\ UNCHANGED <<status, external, queue, fate, starting, owner, step, promptRun, spent>>
        /\ step = "begun" /\ run[p] = "begun" /\ Adopt(p)
        /\ run' = [run EXCEPT ![p] = "taken"]
    BY <1>4 DEF SidecarTakes, AtPrompt, At
  <2>2. p \in Runs
    BY <1>0, <2>1 DEF DeliveryInv, StepInv, TypeInv, TypeOK
  <2>3. owner = p /\ status[p] = "none" /\ alias[p] = None
    BY <2>1, <2>2 DEF TurnInv, RunInv, Owning
  <2> HIDE DEF p
  <2>4. \A q \in Runs \ {p} : alias'[q] = alias[q] /\ run'[q] = run[q]
    BY <1>0, <2>1 DEF Adopt
  <2>5. run'[p] = "taken" /\ promptRun' = p /\ promptRun = p
    BY <1>0, <2>1, <2>2 DEF p
  <2>6. \A j \in Inputs : Unstarted(j)' <=> Unstarted(j)
    BY <2>1 DEF Unstarted
  <2>7. RunInv'
    <3>1. \A q \in Runs : q > spent.runs => run'[q] = "unused"
      BY <2>1, <2>4 DEF TurnInv, RunInv
    <3>2. \A q \in Runs : run'[q] \in Owning <=> owner = q
      BY <2>1, <2>3, <2>4, <2>5 DEF TurnInv, RunInv, Owning
    <3>3. \A q \in Runs : run'[q] \in {"unused", "begun"} => status[q] = "none" /\ alias'[q] = None
      BY <2>4, <2>5 DEF TurnInv, RunInv
    <3> QED
      BY <2>1, <3>1, <3>2, <3>3 DEF TurnInv, RunInv
  <2>8. OwnerInv'
    BY <2>1, <2>3, <2>5 DEF OwnerInv, At
  <2>9. AliasInv'
    <3>1. CASE starting = None
      <4>1. UNCHANGED <<alias, runtimeOf>>
        BY <2>1, <3>1 DEF Adopt, Adopts
      <4> QED
        BY <2>1, <2>3, <2>5, <2>6, <3>1, <4>1 DEF TurnInv, AliasInv
    <3>2. CASE starting # None
      <4>1. runtimeOf[starting] = None
        BY <2>3, <2>5, <3>2 DEF TurnInv, AliasInv
      <4>2. Adopts(p) /\ starting \in Inputs
        BY <1>0, <2>3, <3>2, <4>1 DEF Adopts
      <4>3. alias'[p] = starting /\ runtimeOf' = [runtimeOf EXCEPT ![starting] = p]
        BY <1>0, <2>1, <2>2, <4>2 DEF Adopt
      <4>4. ~Unstarted(starting)
        BY <3>2 DEF DeliveryInv, PlaceInv, Unstarted
      <4>5. \A j \in Inputs : runtimeOf'[j] # None => ~Unstarted(j)'
        BY <1>0, <2>6, <4>3, <4>4 DEF TurnInv, AliasInv
      <4>6. runtimeOf'[starting] = p
        BY <1>0, <4>2, <4>3
      <4> QED
        BY <2>1, <2>5, <3>2, <4>3, <4>5, <4>6 DEF AliasInv
    <3> QED
      BY <3>1, <3>2
  <2>10. ActiveInv'
    <3>1. \A t \in TurnIds : status[t] \notin Active
      BY <1>0, <2>3 DEF TurnInv, ActiveInv, Active
    <3> QED
      BY <2>1, <3>1 DEF ActiveInv
  <2> QED
    BY <2>7, <2>8, <2>9, <2>10 DEF TurnInv
<1>5. CASE PromptAbandoned(i)
  <2> DEFINE p == promptRun
  <2>1. /\ UNCHANGED <<alias, runtimeOf, status, external, queue, fate, starting, owner, promptRun>>
        /\ step = "begun" /\ step' = "failing" /\ run[p] # "settled"
        /\ run' = [run EXCEPT ![p] = IF @ \in Over THEN @ ELSE "broken"]
        /\ spent'.runs = spent.runs
    BY <1>0, <1>5 DEF PromptAbandoned, AtPrompt, At, Fails, Budget
  <2>2. p \in Runs /\ run[p] # "unused"
    BY <1>0, <2>1 DEF DeliveryInv, StepInv, TypeInv, TypeOK, TurnInv, OwnerInv
  <2>3. run[p] \in Owning
    BY <1>0, <2>1, <2>2 DEF RunLives, Owning
  <2>4. owner = p
    BY <2>2, <2>3 DEF TurnInv, RunInv
  <2> HIDE DEF p
  <2>5. run'[p] \in Over /\ \A q \in Runs \ {p} : run'[q] = run[q]
    BY <1>0, <2>1, <2>2 DEF Over
  <2>6. \A j \in Inputs : Unstarted(j)' <=> Unstarted(j)
    BY <2>1 DEF Unstarted
  <2>7. RunInv'
    <3>1. \A q \in Runs : q > spent.runs => run'[q] = "unused"
      BY <2>2, <2>5 DEF TurnInv, RunInv
    <3>2. \A q \in Runs : run'[q] \in Owning <=> owner = q
      BY <2>4, <2>5 DEF TurnInv, RunInv, Owning
    <3>3. \A q \in Runs : run'[q] \in {"unused", "begun"} => status[q] = "none" /\ alias[q] = None
      BY <2>5 DEF TurnInv, RunInv, Over
    <3> QED
      BY <2>1, <3>1, <3>2, <3>3 DEF TurnInv, RunInv
  <2>8. OwnerInv'
    <3>1. promptRun' = p /\ run'[p] # "unused"
      BY <2>1, <2>5 DEF p, Over
    <3> QED
      BY <2>1, <2>4, <3>1 DEF OwnerInv, At
  <2>9. AliasInv'
    BY <2>1, <2>6 DEF TurnInv, AliasInv
  <2>10. ActiveInv'
    BY <2>1 DEF TurnInv, ActiveInv
  <2> QED
    BY <2>7, <2>8, <2>9, <2>10 DEF TurnInv
<1> QED
  BY <1>1, <1>2, <1>3, <1>4, <1>5 DEF PromptSteps

\* Draining keeps TurnInv: an input is taken when the session is free, and its
\* reply is that of the run it was given.
LEMMA DrainTurns ==
  ASSUME TypeInv, TypeInv', DeliveryInv, TurnInv, ReplyBeforeSettle, DrainSteps
  PROVE  TurnInv'
<1>0. /\ status \in [TurnIds -> Status] /\ alias \in [Runs -> Inputs \cup {None}]
      /\ fate \in [Inputs -> Fates] /\ runtimeOf \in [Inputs -> Runs \cup {None}]
      /\ starting \in Inputs \cup {None}
      /\ Runs \subseteq TurnIds /\ (\A r \in Runs : r \notin Inputs) /\ Inputs \subseteq TurnIds
      /\ None \notin TurnIds /\ ToSet(queue) \subseteq Inputs
  BY Apart, KnownInputs DEF TypeInv, TypeOK
<1> USE DEF hostVars, queueVars, aliasVars, runtimeVars, ghostVars
<1>1. CASE DrainStops \/ DrainShiftFails \/ DrainCleanupFails \/ DrainSkipsDelivered \/ DrainCleaned
  <2>1. /\ UNCHANGED <<alias, runtimeOf, owner, run, external, status, fate, starting>>
        /\ step \in {"begin", "store", "cleanup"} /\ step' \in {"begin", "cleanup"}
    BY <1>1 DEF DrainStops, DrainShiftFails, DrainCleanupFails, DrainSkipsDelivered,
                DrainCleaned, At
  <2>2. starting = None
    BY <2>1, NotPrompted
  <2>3. spent'.runs = spent.runs
    BY <1>1 DEF DrainStops, DrainShiftFails, DrainCleanupFails, DrainSkipsDelivered,
                DrainCleaned, Fails, TypeInv, TypeOK, Budget
  <2>4. ToSet(queue') \subseteq ToSet(queue)
    <3>1. CASE DrainCleaned
      <4>1. queue # <<>>
        BY <3>1 DEF DrainCleaned, At, TypeInv, Ready
      <4> QED
        BY <3>1, <4>1, HeadLeaves DEF DrainCleaned
    <3>2. CASE ~DrainCleaned
      BY <1>1, <3>2 DEF DrainStops, DrainShiftFails, DrainCleanupFails, DrainSkipsDelivered
    <3> QED
      BY <3>1, <3>2
  <2>5. \A j \in Inputs : Unstarted(j)' => Unstarted(j)
    BY <2>1, <2>4 DEF Unstarted
  <2>6. ~At(Drain, "store")'
    BY <2>1 DEF At
  <2> QED
    BY <2>1, <2>2, <2>3, <2>5, <2>6, TurnQuiet
<1>2. CASE DrainTakesHead
  <2>1. /\ UNCHANGED <<alias, runtimeOf, owner, run, external, fate, starting, queue, spent>>
        /\ step = "begin" /\ step' = "store" /\ owner = None /\ queue # <<>>
        /\ status' = Ensured(Head(queue))
    BY <1>2 DEF DrainTakesHead, DrainMayTake, Occupied, At
  <2>2. starting = None
    BY <2>1, NotPrompted
  <2>3. Head(queue) \in Inputs
    BY <1>0, <2>1, KnownInputs
  <2>4. /\ \A t \in TurnIds : status'[t] \in Active => status[t] \in Active
        /\ \A r \in Runs : status'[r] = status[r]
    BY <1>0, <2>1, <2>3 DEF Ensured, Active
  <2>5. \A j \in Inputs : Unstarted(j)' => Unstarted(j)
    BY <2>1 DEF Unstarted
  <2> QED
    BY <2>1, <2>2, <2>4, <2>5, TurnQuiet
<1>3. CASE DrainShifted
  <2> DEFINE x == Head(queue)
  <2>1. /\ UNCHANGED <<status, alias, runtimeOf, owner, run, external, fate, spent, promptRun>>
        /\ step = "store" /\ At(Drain, "store") /\ step' = "enter" /\ starting' = x
        /\ queue' = Tail(queue) /\ promoted' = promoted \ {x}
    BY <1>3 DEF DrainShifted, At
  <2>2. queue # <<>>
    BY <2>1 DEF TypeInv, Ready, At
  <2>3. x \in ToSet(queue) /\ x \in Inputs /\ ToSet(queue') \subseteq ToSet(queue)
    BY <2>1, <2>2, HeadLeaves
  <2> HIDE DEF x
  <2>4. owner = None /\ runtimeOf[x] = None
    BY <2>1, <2>3 DEF TurnInv, OwnerInv, AliasInv, Unstarted
  <2>5. \A j \in Inputs : Unstarted(j)' => Unstarted(j)
    BY <2>1, <2>3 DEF Unstarted
  <2>6. RunInv'
    BY <2>1 DEF TurnInv, RunInv
  <2>7. OwnerInv'
    BY <2>1, <2>4 DEF OwnerInv, At
  <2>8. AliasInv'
    BY <2>1, <2>4, <2>5 DEF TurnInv, AliasInv
  <2>9. ActiveInv'
    BY <2>1 DEF TurnInv, ActiveInv
  <2> QED
    BY <2>6, <2>7, <2>8, <2>9 DEF TurnInv
<1>4. ASSUME NEW i \in Inputs, DrainReplied(i)
      PROVE  TurnInv'
  <2> DEFINE p == promptRun
  <2>1. /\ UNCHANGED <<owner, run, external, queue, spent>>
        /\ step = "begun" /\ step' = "begin" /\ starting = i /\ starting' = None
        /\ fate' = [fate EXCEPT ![i] = "started"]
        /\ status' = [status EXCEPT ![i] = IF @ \in Active THEN @ ELSE "running"]
        /\ runtimeOf' = [runtimeOf EXCEPT ![i] = p] /\ alias' = [alias EXCEPT ![p] = i]
        /\ run[p] \in {"taken", "live"} \cup Over
    BY <1>4 DEF DrainReplied, At
  <2>2. p \in Runs /\ owner = p
    BY <1>0, <2>1 DEF DeliveryInv, StepInv, TypeInv, TypeOK, TurnInv, RunInv, Owning
  <2>3. starting # None /\ alias[p] = i
    BY <1>0, <2>1 DEF TurnInv, AliasInv, Over
  <2>4. i \notin ToSet(queue)
    BY <2>1, <2>3 DEF DeliveryInv, PlaceInv
  <2> HIDE DEF p
  <2>5. alias' = alias
    BY <1>0, <2>1, <2>2, <2>3
  <2>6. RunInv'
    BY <1>0, <2>1, <2>5 DEF TurnInv, RunInv
  <2>7. OwnerInv'
    BY <2>1 DEF OwnerInv, At
  <2>8. AliasInv'
    <3>1. ASSUME NEW j \in Inputs, runtimeOf'[j] # None
          PROVE  ~Unstarted(j)'
      <4>1. CASE j = i
        BY <1>0, <2>1, <2>4, <4>1 DEF Unstarted
      <4>2. CASE j # i
        BY <1>0, <2>1, <3>1, <4>2 DEF TurnInv, AliasInv, Unstarted
      <4> QED
        BY <4>1, <4>2
    <3> QED
      BY <2>1, <3>1 DEF AliasInv
  <2>9. ActiveInv'
    <3>1. ASSUME NEW t \in TurnIds, status'[t] \in Active, t # i
          PROVE  status[t] \in Active
      BY <1>0, <2>1, <3>1
    <3>2. owner # None /\ i \in {owner, alias[owner]}
      BY <1>0, <2>2, <2>3
    <3> QED
      BY <1>0, <2>1, <2>5, <3>1, <3>2 DEF TurnInv, ActiveInv
  <2> QED
    BY <2>6, <2>7, <2>8, <2>9 DEF TurnInv
<1> QED
  BY <1>1, <1>2, <1>3, <1>4 DEF DrainSteps

\* Canceling and moving keep TurnInv: no queued input gets a run.
LEMMA EditTurns ==
  ASSUME TypeInv, TypeInv', DeliveryInv, TurnInv, NEW i \in Inputs,
         NEW kind \in MoveKinds \cup {"cancel"}, EditSteps(kind, i)
  PROVE  TurnInv'
<1>0. /\ status \in [TurnIds -> Status] /\ fate \in [Inputs -> Fates] /\ i \in TurnIds
      /\ Runs \subseteq TurnIds /\ (\A r \in Runs : r \notin Inputs) /\ Inputs \subseteq TurnIds
      /\ queue \in Seq(Inputs) /\ Ordered(queue, promoted) /\ promoted \subseteq ToSet(queue)
  BY Apart, KnownInputs DEF DeliveryInv, QueueInOrder, TypeInv, TypeOK
<1>n. Op(kind, i) # Drain
  BY DEF Op, Drain, MoveKinds
<1> USE DEF hostVars, queueVars, aliasVars, runtimeVars, ghostVars
<1>1. /\ UNCHANGED <<alias, runtimeOf, owner, run, external, starting>>
      /\ step \in {"begin", "store"} /\ step' \in {"begin", "store"}
  BY DEF EditSteps, EditRefused, EditAccepted, EditFails, ReorderCommitted, CancelCommitted,
         PrioritizeCommitted, Done, At
<1>2. starting = None
  BY <1>1, NotPrompted
<1>3. spent'.runs = spent.runs
  BY DEF EditSteps, EditRefused, EditAccepted, EditFails, ReorderCommitted, CancelCommitted,
         PrioritizeCommitted, Fails, TypeInv, TypeOK, Budget
<1>4. ~At(Drain, "store")'
  <2>1. CASE EditAccepted(kind, i)
    BY <1>n, <2>1 DEF EditAccepted, At
  <2>2. CASE ~EditAccepted(kind, i)
    <3>1. step' = "begin"
      BY <2>2 DEF EditSteps, EditRefused, EditFails, ReorderCommitted, CancelCommitted,
                  PrioritizeCommitted, Done
    <3> QED
      BY <3>1 DEF At
  <2> QED
    BY <2>1, <2>2
<1>5. \/ status' = status \/ status' = Ensured(i) \/ status' = [status EXCEPT ![i] = "canceled"]
  BY DEF EditSteps, EditRefused, EditAccepted, EditFails, ReorderCommitted, CancelCommitted,
         PrioritizeCommitted
<1>6. /\ \A t \in TurnIds : status'[t] \in Active => status[t] \in Active
      /\ \A r \in Runs : status'[r] = status[r]
  BY <1>0, <1>5 DEF Ensured, Active
<1>7. fate' = fate \/ fate' = [fate EXCEPT ![i] = "canceled"]
  BY DEF EditSteps, EditRefused, EditAccepted, EditFails, ReorderCommitted, CancelCommitted,
         PrioritizeCommitted
<1>8. ToSet(queue') \subseteq ToSet(queue)
  <2>1. CASE EditRefused(kind, i) \/ EditAccepted(kind, i) \/ EditFails(kind, i)
    BY <2>1 DEF EditRefused, EditAccepted, EditFails
  <2>2. CASE ReorderCommitted(kind, i)
    <3>1. CanReorder(queue, promoted, i, kind = "reorderUp")
      BY <2>2 DEF ReorderCommitted, At, TypeInv, Ready
    <3>2. queue' = Reordered(queue, promoted, i, kind = "reorderUp")
      BY <2>2 DEF ReorderCommitted
    <3>3. Ordered(queue', promoted) /\ ToSet(queue') = ToSet(queue)
      BY <1>0, <3>1, <3>2, ReorderedOrdered
    <3> QED
      BY <3>3
  <2>3. CASE CancelCommitted(i)
    <3>1. i \in ToSet(queue)
      BY <2>3 DEF CancelCommitted, DeliveryInv, StepInv
    <3> QED
      BY <2>3, <3>1, EntryLeaves DEF CancelCommitted
  <2>4. CASE PrioritizeCommitted(i)
    <3>1. i \in ToSet(queue) \ promoted
      BY <2>4 DEF PrioritizeCommitted, At, TypeInv, Ready
    <3> QED
      BY <1>0, <2>4, <3>1, PromoteInOrdered DEF PrioritizeCommitted
  <2> QED
    BY <2>1, <2>2, <2>3, <2>4 DEF EditSteps
<1>9. \A j \in Inputs : Unstarted(j)' => Unstarted(j)
  BY <1>0, <1>7, <1>8 DEF Unstarted
<1> QED
  BY <1>1, <1>2, <1>3, <1>4, <1>6, <1>9, TurnQuiet

\* Delivering keeps TurnInv: an accepted input has no run of its own.
LEMMA DelivererTurns ==
  ASSUME TypeInv, TypeInv', DeliveryInv, TurnInv, NEW d \in Deliverers, DelivererSteps(d)
  PROVE  TurnInv'
<1>0. /\ status \in [TurnIds -> Status] /\ fate \in [Inputs -> Fates] /\ gate \in Gates
      /\ Runs \subseteq TurnIds /\ (\A r \in Runs : r \notin Inputs) /\ Inputs \subseteq TurnIds
      /\ queue \in Seq(Inputs) /\ ToSet(queue) \subseteq Inputs
  BY Apart, KnownInputs DEF TypeInv, TypeOK
<1> USE DEF hostVars, queueVars, aliasVars, runtimeVars, ghostVars
<1>1. CASE DelivererStep(d)
  <2>1. /\ UNCHANGED <<alias, runtimeOf, owner, run, external, starting, status, step, promptRun,
                       fate, queue, spent>>
        /\ \/ gate' = Called(gate, Op("settle", d))
           \/ gate' = Called(gate, Op("reserve", d))
    BY <1>1 DEF DelivererStep, SteerTaken, SteerRefused, RetryDelivery
  <2>2. SameHolder(gate, gate')
    BY <1>0, <2>1, CalledGate, OpIsOp DEF DelivererKinds
  <2>3. \A j \in Inputs : Unstarted(j)' => Unstarted(j)
    BY <2>1 DEF Unstarted
  <2> QED
    BY <2>1, <2>2, <2>3, TurnQuiet
<1>2. CASE ~DelivererStep(d)
  <2>0. \/ Reserved(d) \/ NothingToReserve(d) \/ SettledRefusal(d)
        \/ SettledAcceptance(d) \/ Cleaned(d) \/ CleanupFails(d)
    BY <1>2 DEF DelivererSteps
  <2>1. /\ UNCHANGED <<alias, runtimeOf, owner, run, external, starting>>
        /\ step \in {"begin", "cleanup"} /\ step' \in {"begin", "cleanup"}
        /\ gate.ops # <<>>
    BY <2>0 DEF Reserved, NothingToReserve, SettledRefusal, SettledAcceptance, Cleaned,
                CleanupFails, Done, At
  <2>2. starting = None
    BY <2>1, NotPrompted
  <2>3. spent'.runs = spent.runs
    BY <2>0 DEF Reserved, NothingToReserve, SettledRefusal, SettledAcceptance, Cleaned,
                CleanupFails, Fails, TypeInv, TypeOK, Budget
  <2>4. ~At(Drain, "store")'
    BY <2>1 DEF At
  <2>5. \/ status' = status
        \/ \E j \in Inputs : status' = Ensured(j) \/ status' = [status EXCEPT ![j] = "canceled"]
    <3>1. CASE Reserved(d)
      BY <1>0, <3>1, KnownInputs DEF Reserved, CanInject
    <3>2. CASE SettledAcceptance(d)
      <4>1. deliverer[d].input \in Inputs
        BY <1>0, <3>2 DEF SettledAcceptance, DeliveryInv, LoopInv, Holds
      <4> QED
        BY <3>2, <4>1 DEF SettledAcceptance
    <3> QED
      BY <2>0, <3>1, <3>2 DEF NothingToReserve, SettledRefusal, Cleaned, CleanupFails
  <2>6. /\ \A t \in TurnIds : status'[t] \in Active => status[t] \in Active
        /\ \A r \in Runs : status'[r] = status[r]
    BY <1>0, <2>5 DEF Ensured, Active
  <2>7. fate' = fate \/ \E j \in Inputs : fate' = [fate EXCEPT ![j] = "injected"]
    <3>1. CASE SettledAcceptance(d)
      <4>1. deliverer[d].input \in Inputs
        BY <1>0, <3>1 DEF SettledAcceptance, DeliveryInv, LoopInv, Holds
      <4> QED
        BY <3>1, <4>1 DEF SettledAcceptance
    <3> QED
      BY <2>0, <3>1 DEF Reserved, NothingToReserve, SettledRefusal, Cleaned, CleanupFails
  <2>8. ToSet(queue') \subseteq ToSet(queue)
    <3>1. CASE Cleaned(d)
      <4>1. deliverer[d].input \in ToSet(queue)
        BY <3>1 DEF Cleaned, DeliveryInv, LoopInv, Holds
      <4> QED
        BY <3>1, <4>1, EntryLeaves DEF Cleaned
    <3> QED
      BY <2>0, <3>1 DEF Reserved, NothingToReserve, SettledRefusal, SettledAcceptance,
                        CleanupFails
  <2>9. \A j \in Inputs : Unstarted(j)' => Unstarted(j)
    BY <1>0, <2>7, <2>8 DEF Unstarted
  <2> QED
    BY <2>1, <2>2, <2>3, <2>4, <2>6, <2>9, TurnQuiet
<1> QED
  BY <1>1, <1>2

\* So do the clients and everything outside the chain.
LEMMA OutsideTurns ==
  ASSUME TypeInv, TypeInv', DeliveryInv, TurnInv, MaxExternal = 0, OutsideSteps \/ Attach
  PROVE  TurnInv'
<1>0. /\ status \in [TurnIds -> Status] /\ fate \in [Inputs -> Fates] /\ gate \in Gates
      /\ Runs \subseteq TurnIds /\ (\A r \in Runs : r \notin Inputs) /\ Inputs \subseteq TurnIds
      /\ ToSet(queue) \subseteq Inputs /\ spent \in Budget
  BY Apart, KnownInputs DEF TypeInv, TypeOK
<1> USE DEF hostVars, queueVars, aliasVars, admissionVars, runtimeVars, ghostVars
<1>1. CASE OutsideSteps
  <2>0. SameHolder(gate, gate') /\ UNCHANGED <<starting, step>>
    BY <1>1, OutsideFrame
  <2>1. ASSUME NEW i \in Inputs, NEW kind \in StartKinds, StartTurn(kind, i)
        PROVE  TurnInv'
    <3>1. /\ UNCHANGED <<alias, runtimeOf, owner, run, external, status, promptRun, queue, spent>>
          /\ fate[i] = "new" /\ fate' = [fate EXCEPT ![i] = "asked"]
      BY <2>1 DEF StartTurn
    <3>2. \A j \in Inputs : Unstarted(j)' => Unstarted(j)
      BY <1>0, <3>1 DEF Unstarted
    <3> QED
      BY <2>0, <3>1, <3>2, TurnQuiet
  <2>2. ASSUME NEW i \in Inputs, NEW kind \in MoveKinds \cup {"cancel"}, EditQueue(kind, i)
        PROVE  TurnInv'
    <3>1. UNCHANGED <<alias, runtimeOf, owner, run, external, status, promptRun, queue,
                      spent, fate>>
      BY <2>2 DEF EditQueue
    <3>2. \A j \in Inputs : Unstarted(j)' => Unstarted(j)
      BY <3>1 DEF Unstarted
    <3> QED
      BY <2>0, <3>1, <3>2, TurnQuiet
  <2>3. ASSUME NEW r \in Runs, RunSteps(r)
        PROVE  TurnInv'
    BY <2>3, RunTurns
  <2>4. ASSUME NEW t \in TurnIds, Answered(t)
        PROVE  TurnInv'
    <3>1. /\ UNCHANGED <<alias, runtimeOf, owner, run, external, promptRun, queue, spent, fate>>
          /\ status[t] = "waiting" /\ status' = [status EXCEPT ![t] = "running"]
      BY <2>4 DEF Answered
    <3>2. \A j \in Inputs : Unstarted(j)' => Unstarted(j)
      BY <3>1 DEF Unstarted
    <3>3. /\ \A u \in TurnIds : status'[u] \in Active => status[u] \in Active
          /\ \A r \in Runs : status'[r] = status[r] \/ status[r] # "none"
      BY <1>0, <3>1 DEF Active
    <3> QED
      BY <2>0, <3>1, <3>2, <3>3, TurnQuiet
  <2>5. ~ExternalEnter /\ ~ExternalBegin /\ ~ExternalLeave
    BY <1>0 DEF ExternalEnter, ExternalBegin, ExternalLeave, Budget, TurnInv, RunInv
  <2>6. CASE PlanAwait \/ SessionChanged \/ StatusApplied \/ PlanLeave
    <3>1. UNCHANGED <<alias, runtimeOf, owner, run, external, status, promptRun, queue, fate>>
      BY <2>6 DEF PlanAwait, SessionChanged, StatusApplied, PlanLeave
    <3>2. spent'.runs = spent.runs
      BY <1>0, <2>6 DEF PlanAwait, SessionChanged, StatusApplied, PlanLeave, Budget
    <3>3. \A j \in Inputs : Unstarted(j)' => Unstarted(j)
      BY <3>1 DEF Unstarted
    <3> QED
      BY <2>0, <3>1, <3>2, <3>3, TurnQuiet
  <2> QED
    BY <1>1, <2>1, <2>2, <2>3, <2>4, <2>5, <2>6 DEF OutsideSteps
<1>2. CASE Attach
  <2>1. /\ UNCHANGED <<alias, runtimeOf, owner, run, external, promptRun, step, starting, queue,
                       spent, fate>>
        /\ gate' = Requested(gate)
        /\ status' = [t \in TurnIds |-> IF t \in ToSet(queue) /\ status[t] = "none"
                                        THEN "queued" ELSE status[t]]
    BY <1>2 DEF Attach
  <2>2. SameHolder(gate, gate')
    BY <1>0, <2>1, RequestedGate
  <2>3. /\ \A u \in TurnIds : status'[u] \in Active => status[u] \in Active
        /\ \A r \in Runs : status'[r] = status[r]
    BY <1>0, <2>1 DEF Active
  <2>4. \A j \in Inputs : Unstarted(j)' => Unstarted(j)
    BY <2>1 DEF Unstarted
  <2> QED
    BY <2>1, <2>2, <2>3, <2>4, TurnQuiet
<1> QED
  BY <1>1, <1>2

\* A restart leaves no run and no record.
LEMMA RestartTurns ==
  ASSUME TypeInv, TurnInv, Restart
  PROVE  TurnInv'
<1>0. Runs \subseteq TurnIds /\ None \notin TurnIds /\ spent \in Budget
  BY Apart DEF TypeInv, TypeOK
<1>1. /\ status' = [t \in TurnIds |-> "none"] /\ starting' = None
      /\ alias' = [r \in Runs |-> None] /\ runtimeOf' = [i \in Inputs |-> None]
      /\ step' = "begin" /\ owner' = None /\ external' = "none"
      /\ run' = [r \in Runs |-> IF run[r] = "unused" THEN "unused" ELSE "settled"]
      /\ spent'.runs = spent.runs
  BY <1>0 DEF Restart, Budget
<1>2. RunInv'
  BY <1>0, <1>1 DEF TurnInv, RunInv, Owning, Over
<1>3. OwnerInv'
  BY <1>1 DEF OwnerInv, At
<1>4. AliasInv' /\ ActiveInv'
  BY <1>1 DEF AliasInv, ActiveInv, Active
<1> QED
  BY <1>2, <1>3, <1>4 DEF TurnInv

\* TurnInv holds in every reachable state, when no plan execution takes a turn
\* that the module did not admit.
LEMMA TurnInvariant ==
  ASSUME MaxExternal = 0, ReplyBeforeSettle
  PROVE  Spec => []TurnInv
<1>1. Init => TurnInv
  <2> SUFFICES ASSUME Init PROVE TurnInv
    OBVIOUS
  <2>1. Runs \subseteq TurnIds /\ None \notin TurnIds
    BY Apart
  <2>2. RunInv /\ OwnerInv
    BY <2>1 DEF Init, RunInv, OwnerInv, Owning, Over, At
  <2>3. AliasInv /\ ActiveInv
    BY DEF Init, AliasInv, ActiveInv, Active
  <2> QED
    BY <2>2, <2>3 DEF TurnInv
<1>2. TypeInv /\ TypeInv' /\ DeliveryInv /\ TurnInv /\ [Next]_vars => TurnInv'
  <2>1. ASSUME TypeInv, TypeInv', DeliveryInv, TurnInv, Next
        PROVE  TurnInv'
    <3>1. \/ OutsideSteps \/ Restart \/ Attach \/ DrainSteps
          \/ \E i \in Inputs, kind \in StartKinds : StartSteps(kind, i)
          \/ \E i \in Inputs : PromptSteps(i)
          \/ \E i \in Inputs, kind \in MoveKinds \cup {"cancel"} : EditSteps(kind, i)
          \/ \E d \in Deliverers : DelivererSteps(d)
      BY <2>1, NextSteps DEF OutsideSteps, ClientSteps, OtherSteps
    <3> QED
      BY <2>1, <3>1, OutsideTurns, RestartTurns, DrainTurns, StartTurns, PromptTurns, EditTurns,
         DelivererTurns
  <2>2. ASSUME TurnInv, UNCHANGED vars
        PROVE  TurnInv'
    <3> USE <2>2 DEF TurnInv, vars, hostVars, queueVars, aliasVars, admissionVars, runtimeVars,
                     ghostVars
    <3>1. RunInv' /\ OwnerInv'
      BY DEF RunInv, OwnerInv, At
    <3>2. AliasInv' /\ ActiveInv'
      BY DEF AliasInv, ActiveInv, Unstarted
    <3> QED
      BY <3>1, <3>2
  <2> QED
    BY <2>1, <2>2
<1> QED
  BY <1>1, <1>2, TypeInvariant, DeliveryInvariant, PTL DEF Spec

\* At most one turn is active, whatever the chain, the runtime's events, approvals
\* and the drain do in which order, as long as every turn goes through the module:
\* a plan execution takes a turn it did not admit, and then two may be active.
THEOREM OneTurnActive ==
  ASSUME MaxExternal = 0, ReplyBeforeSettle
  PROVE  Spec => []OneActiveTurn
<1>1. TypeInv /\ TurnInv => OneActiveTurn
  <2> SUFFICES ASSUME TypeInv, TurnInv, NEW s \in TurnIds, NEW t \in TurnIds,
                      status[s] \in Active, status[t] \in Active
               PROVE  s = t
    BY DEF OneActiveTurn
  <2>1. /\ owner \in Runs /\ alias[owner] \in Inputs \cup {None}
        /\ s \in {owner, alias[owner]} /\ t \in {owner, alias[owner]}
        /\ (s \in Runs => alias[s] = None) /\ (t \in Runs => alias[t] = None)
    BY DEF TurnInv, ActiveInv, TypeInv, TypeOK
  <2> QED
    BY <2>1, Apart
<1> QED
  BY <1>1, TypeInvariant, TurnInvariant, PTL

\* A turn the module shows as active is that of the run that owns the session: no
\* reply, event or answer leaves a record active once its run was settled.
THEOREM NoTurnOrphaned ==
  ASSUME MaxExternal = 0, ReplyBeforeSettle
  PROVE  Spec => []NoOrphanedTurn
<1>1. TurnInv => NoOrphanedTurn
  BY DEF TurnInv, ActiveInv, NoOrphanedTurn
<1> QED
  BY <1>1, TurnInvariant, PTL

-----------------------------------------------------------------------------
(* The promise of TurnDelivery *)

\* The run that is prompted for is one the runtime opened; once it has got past
\* "begun", the sidecar took the input.
PromptTold ==
  /\ promptRun # None => promptRun <= spent.runs
  /\ \A i \in Inputs : AtPrompt(i, "begun") /\ run[promptRun] # "begun" => taken[i] = 1

\* What the client of a queued input, or of one being started, was told last.
QueueTold ==
  /\ \A i \in ToSet(queue) :
       fate[i] = IF delivery[i] = "delivered" THEN "injected" ELSE "queued"
  /\ starting # None => fate[starting] = "queued"

\* An accepted input was taken.
LoopTold ==
  \A d \in Deliverers : deliverer[d].stage = "accepted" => taken[deliverer[d].input] = 1

ToldInv == PromptTold /\ QueueTold /\ LoopTold

\* One step of the abstract specification, or none.
Promised == [Delivery!Next]_<<fate, taken>>

\* A step that tells nobody anything and gives nothing to the runtime.
LEMMA Silent ==
  ASSUME fate' = fate, taken' = taken
  PROVE  Promised
  BY DEF Promised

\* No prompt is under way after the step, or it is still where it was.
LEMMA PromptToldKeeps ==
  ASSUME TypeInv, ToldInv, NEW more \in Nat, spent'.runs = spent.runs + more,
         promptRun' \in {promptRun, None},
         \/ step' # "begun"
         \/ /\ SameHolder(gate, gate') /\ UNCHANGED <<step, starting, taken, promptRun>>
            /\ promptRun \in Runs => (run'[promptRun] # "begun" => run[promptRun] # "begun")
            /\ step = "begun" => promptRun # None
  PROVE  PromptTold'
<1>1. promptRun' # None => promptRun' <= spent'.runs
  BY DEF ToldInv, PromptTold, TypeInv, TypeOK, Budget, Runs
<1>2. CASE step' # "begun"
  BY <1>1, <1>2 DEF PromptTold, AtPrompt, At
<1>3. CASE /\ SameHolder(gate, gate') /\ UNCHANGED <<step, starting, taken, promptRun>>
           /\ promptRun \in Runs => (run'[promptRun] # "begun" => run[promptRun] # "begun")
           /\ step = "begun" => promptRun # None
  <2>1. \A op : At(op, "begun")' <=> At(op, "begun")
    BY <1>3, StillAt
  <2>2. \A i \in Inputs : AtPrompt(i, "begun")' <=> AtPrompt(i, "begun")
    BY <1>3, <2>1 DEF AtPrompt
  <2>3. \A i \in Inputs : AtPrompt(i, "begun") => promptRun \in Runs
    BY <1>3 DEF AtPrompt, At, TypeInv, TypeOK
  <2> QED
    BY <1>1, <1>3, <2>2, <2>3 DEF ToldInv, PromptTold
<1> QED
  BY <1>2, <1>3

\* Nobody whose input is queued or being started is told anything.
LEMMA QueueToldKeeps ==
  ASSUME ToldInv, starting' \in {None, starting}, ToSet(queue') \subseteq ToSet(queue),
         \A i \in ToSet(queue') :
           fate'[i] = fate[i] /\ (delivery'[i] = "delivered" <=> delivery[i] = "delivered"),
         starting' # None => fate'[starting] = fate[starting]
  PROVE  QueueTold'
  BY DEF ToldInv, QueueTold

\* No loop gets an answer, and nothing is given to the runtime.
LEMMA LoopToldKeeps ==
  ASSUME ToldInv, taken' = taken,
         \A d \in Deliverers :
           deliverer'[d].stage = "accepted" =>
             /\ deliverer[d].stage = "accepted"
             /\ deliverer'[d].input = deliverer[d].input
  PROVE  LoopTold'
  BY DEF ToldInv, LoopTold

\* The runtime takes an input for the first time.
LEMMA Taking ==
  ASSUME TypeInv, NEW i \in Inputs, fate[i] \in {"asked", "queued"}, taken[i] = 0,
         taken' = [taken EXCEPT ![i] = @ + 1], fate' = fate
  PROVE  Promised /\ taken'[i] = 1 /\ \A j \in Inputs : taken[j] = 1 => taken'[j] = 1
<1>1. taken \in [Inputs -> Nat]
  BY DEF TypeInv, TypeOK
<1>2. taken' = [taken EXCEPT ![i] = 1]
  BY <1>1
<1>3. Delivery!Take(i)
  BY <1>2 DEF Delivery!Take
<1>4. Delivery!Next
  BY <1>3 DEF Delivery!Next
<1> QED
  BY <1>1, <1>2, <1>4 DEF Promised

\* Clients, events and settlements: an input that is submitted waits for its answer.
LEMMA OutsideTold ==
  ASSUME TypeInv, TypeInv', DeliveryInv, ToldInv, OutsideSteps \/ Attach
  PROVE  Promised /\ ToldInv'
<1>0. /\ gate \in Gates /\ ToSet(queue) \subseteq Inputs /\ starting \in Inputs \cup {None}
      /\ fate \in [Inputs -> Fates] /\ run \in [Runs -> RunLives] /\ spent \in Budget
      /\ promptRun \in Runs \cup {None} /\ Runs \subseteq Nat
  BY KnownInputs, Apart DEF TypeInv, TypeOK
<1> USE DEF hostVars, queueVars, aliasVars, admissionVars, runtimeVars, ghostVars
<1>1. /\ SameHolder(gate, gate')
      /\ UNCHANGED <<starting, step, delivery, deliverer>>
  <2>1. CASE OutsideSteps
    BY <2>1, OutsideFrame
  <2>2. CASE Attach
    BY <1>0, <2>2, RequestedGate DEF Attach
  <2> QED
    BY <2>1, <2>2
<1>2. UNCHANGED <<queue, taken, promptRun>>
  <2>1. ASSUME NEW r \in Runs, RunSteps(r)
        PROVE  UNCHANGED <<queue, taken, promptRun>>
    BY <2>1 DEF RunSteps, RunStep, RunEnds, AgentStart, AgentEnd, AgentError, RunAborted, Settle,
                AskUser
  <2>2. CASE ~(\E r \in Runs : RunSteps(r))
    BY <2>2 DEF OutsideSteps, StartTurn, EditQueue, Answered, ExternalEnter, ExternalBegin,
                ExternalLeave, PlanAwait, SessionChanged, StatusApplied, PlanLeave, Attach
  <2> QED
    BY <2>1, <2>2
<1>3. \/ fate' = fate
      \/ \E i \in Inputs : fate[i] = "new" /\ fate' = [fate EXCEPT ![i] = "asked"]
  <2>1. ASSUME NEW r \in Runs, RunSteps(r)
        PROVE  fate' = fate
    BY <2>1 DEF RunSteps, RunStep, RunEnds, AgentStart, AgentEnd, AgentError, RunAborted, Settle,
                AskUser
  <2>2. CASE ~(\E r \in Runs : RunSteps(r))
    BY <2>2 DEF OutsideSteps, StartTurn, EditQueue, Answered, ExternalEnter, ExternalBegin,
                ExternalLeave, PlanAwait, SessionChanged, StatusApplied, PlanLeave, Attach
  <2> QED
    BY <2>1, <2>2
<1>4. /\ \E more \in Nat : spent'.runs = spent.runs + more
      /\ promptRun \in Runs => (run'[promptRun] # "begun" => run[promptRun] # "begun")
  <2>1. ASSUME NEW r \in Runs, RunSteps(r)
        PROVE  spent'.runs = spent.runs + 0
               /\ (promptRun \in Runs => (run'[promptRun] # "begun" => run[promptRun] # "begun"))
    <3>1. UNCHANGED spent
      BY <2>1 DEF RunSteps, RunStep, RunEnds, AgentStart, AgentEnd, AgentError, RunAborted,
                  Settle, AskUser
    <3>2. run' = run \/ (run[r] # "begun" /\ \E life : run' = [run EXCEPT ![r] = life])
      BY <2>1 DEF RunSteps, RunStep, RunEnds, AgentStart, AgentEnd, AgentError, RunAborted,
                  Settle, AskUser, Over
    <3> QED
      BY <1>0, <3>1, <3>2 DEF Budget
  <2>2. CASE ExternalBegin
    <3>1. spent.runs + 1 \in Runs
      BY <2>2, NextRun DEF ExternalBegin
    <3>2. /\ run' = [run EXCEPT ![spent.runs + 1] = "taken"]
          /\ spent'.runs = spent.runs + 1
      BY <1>0, <2>2 DEF ExternalBegin, Budget
    <3>3. promptRun # None => promptRun <= spent.runs
      BY DEF ToldInv, PromptTold
    <3>4. promptRun \in Runs => promptRun # spent.runs + 1
      BY <1>0, <3>3, HostAssumption DEF Budget, Runs
    <3> QED
      BY <1>0, <3>1, <3>2, <3>4
  <2>3. CASE ~(\E r \in Runs : RunSteps(r)) /\ ~ExternalBegin
    <3>1. run' = run /\ spent'.runs = spent.runs
      BY <1>0, <2>3 DEF OutsideSteps, StartTurn, EditQueue, Answered, ExternalEnter,
                        ExternalLeave, PlanAwait, SessionChanged, StatusApplied, PlanLeave,
                        Attach, Budget
    <3> QED
      BY <1>0, <3>1 DEF Budget
  <2> QED
    BY <2>1, <2>2, <2>3
<1>5. PromptTold'
  <2>1. PICK more \in Nat : spent'.runs = spent.runs + more
    BY <1>4
  <2>2. step = "begun" => promptRun # None
    BY DEF DeliveryInv, StepInv
  <2> QED
    BY <1>1, <1>2, <1>4, <2>1, <2>2, PromptToldKeeps
<1>6. \A i \in Inputs : fate[i] # "new" => fate'[i] = fate[i]
  BY <1>0, <1>3
<1>7. QueueTold'
  <2>1. \A i \in ToSet(queue) : fate'[i] = fate[i]
    BY <1>0, <1>6 DEF DeliveryInv, PlaceInv
  <2>2. starting # None => fate'[starting] = fate[starting]
    BY <1>0, <1>6 DEF DeliveryInv, PlaceInv
  <2> QED
    BY <1>1, <1>2, <2>1, <2>2, QueueToldKeeps
<1>8. LoopTold'
  BY <1>1, <1>2, LoopToldKeeps
<1>9. Promised
  <2>1. CASE fate' = fate
    BY <1>2, <2>1, Silent
  <2>2. ASSUME NEW i \in Inputs, fate[i] = "new", fate' = [fate EXCEPT ![i] = "asked"]
        PROVE  Promised
    <3>1. Delivery!Submit(i)
      BY <1>2, <2>2 DEF Delivery!Submit, Delivery!Told
    <3> QED
      BY <3>1 DEF Promised, Delivery!Next
  <2> QED
    BY <1>3, <2>1, <2>2
<1> QED
  BY <1>5, <1>7, <1>8, <1>9 DEF ToldInv

\* The client of a start gets its answer: refused, queued or started.
LEMMA StartTold ==
  ASSUME TypeInv, TypeInv', DeliveryInv, ToldInv, NEW i \in Inputs, NEW kind \in StartKinds,
         StartSteps(kind, i)
  PROVE  Promised /\ ToldInv'
<1>0. /\ gate \in Gates /\ ToSet(queue) \subseteq Inputs /\ queue \in Seq(Inputs)
      /\ fate \in [Inputs -> Fates] /\ spent \in Budget
  BY KnownInputs DEF TypeInv, TypeOK
<1> USE DEF hostVars, queueVars, aliasVars, runtimeVars, ghostVars
<1>1. starting = None /\ Asks(gate, i)
  BY <1>0, OneHolder DEF StartSteps, StartRejected, StartPushes, Pushed, PushFails, StartPrompts,
                         StartReplied
<1>2. fate[i] = "asked" /\ i \notin ToSet(queue) /\ delivery[i] = "no"
  BY <1>1 DEF DeliveryInv, AskInv, PlaceInv
<1>3. UNCHANGED <<taken, starting, deliverer, delivery>>
  BY DEF StartSteps, StartRejected, StartPushes, Pushed, PushFails, StartPrompts, StartReplied
<1>4. PromptTold'
  <2>1. spent'.runs = spent.runs + 0
    BY <1>0 DEF StartSteps, StartRejected, StartPushes, Pushed, PushFails, StartPrompts,
                StartReplied, Fails, Budget
  <2>2. step' # "begun" /\ promptRun' \in {promptRun, None}
    BY DEF StartSteps, StartRejected, StartPushes, Pushed, PushFails, StartPrompts, StartReplied,
           Done
  <2> QED
    BY <2>1, <2>2, PromptToldKeeps
<1>5. LoopTold'
  BY <1>3, LoopToldKeeps
<1>6. CASE Pushed(kind, i)
  <2>1. /\ queue' = Append(queue, i) /\ fate' = [fate EXCEPT ![i] = "queued"]
        /\ step = "store"
    BY <1>6 DEF Pushed, At
  <2>2. i \notin promoted /\ Ordered(queue, promoted)
    BY <1>2 DEF DeliveryInv, QueueInOrder
  <2>3. ToSet(queue') = ToSet(queue) \cup {i}
    BY <1>0, <1>2, <2>1, <2>2, AppendOrdered
  <2>4. QueueTold'
    BY <1>0, <1>1, <1>2, <1>3, <2>1, <2>3 DEF ToldInv, QueueTold
  <2>5. taken[i] = 0
    BY <1>1, <2>1, NotPrompted DEF DeliveryInv, TakenInv
  <2>6. Delivery!Enqueue(i)
    BY <1>2, <1>3, <2>1, <2>5 DEF Delivery!Enqueue, Delivery!Told
  <2>7. Promised
    BY <2>6 DEF Promised, Delivery!Next
  <2> QED
    BY <1>4, <1>5, <2>4, <2>7 DEF ToldInv
<1>7. CASE ~Pushed(kind, i)
  <2>1. queue' = queue /\ \E told : fate' = fate \/ fate' = [fate EXCEPT ![i] = told]
    BY <1>7 DEF StartSteps, StartRejected, StartPushes, PushFails, StartPrompts, StartReplied
  <2>2. QueueTold'
    <3>1. \A j \in ToSet(queue) : fate'[j] = fate[j]
      BY <1>0, <1>2, <2>1
    <3> QED
      BY <1>1, <1>3, <2>1, <3>1, QueueToldKeeps
  <2>3. Promised
    <3>1. CASE StartRejected(kind, i) \/ PushFails(kind, i)
      <4>1. Delivery!Reject(i)
        BY <1>2, <1>3, <3>1 DEF StartRejected, PushFails, Delivery!Reject, Delivery!Told
      <4> QED
        BY <4>1 DEF Promised, Delivery!Next
    <3>2. CASE StartPushes(kind, i) \/ StartPrompts(kind, i)
      BY <1>3, <3>2, Silent DEF StartPushes, StartPrompts
    <3>3. CASE StartReplied(kind, i)
      <4>1. AtPrompt(i, "begun") /\ run[promptRun] # "begun"
        BY <3>3 DEF StartReplied, AtPrompt, Over
      <4>2. taken[i] = 1
        BY <4>1 DEF ToldInv, PromptTold
      <4>3. Delivery!Start(i)
        BY <1>2, <1>3, <3>3, <4>2 DEF StartReplied, Delivery!Start, Delivery!Told
      <4> QED
        BY <4>3 DEF Promised, Delivery!Next, Delivery!Leave
    <3> QED
      BY <1>7, <3>1, <3>2, <3>3 DEF StartSteps
  <2> QED
    BY <1>4, <1>5, <2>2, <2>3 DEF ToldInv
<1> QED
  BY <1>6, <1>7

\* prompt() throws: the queued input fails, or the client that asked gets the error.
LEMMA ThrowingTold ==
  ASSUME TypeInv, TypeInv', DeliveryInv, ToldInv, NEW i \in Inputs, NEW s \in Steps,
         AtPrompt(i, s), PromptThrows(i), spent'.runs = spent.runs
  PROVE  Promised /\ ToldInv'
<1>0. /\ gate \in Gates /\ ToSet(queue) \subseteq Inputs /\ fate \in [Inputs -> Fates]
      /\ spent \in Budget /\ i # None
  BY KnownInputs, HostAssumption DEF TypeInv, TypeOK
<1>1. /\ UNCHANGED <<taken, deliverer, delivery, queue>>
      /\ starting' = None /\ step' = "begin" /\ promptRun' = None
      /\ starting = i => fate' = [fate EXCEPT ![i] = "failed"]
      /\ starting # i => fate' = [fate EXCEPT ![i] = "rejected"]
  BY DEF PromptThrows, queueVars, runtimeVars
<1>2. i \notin ToSet(queue) /\ (Asks(gate, i) \/ starting = i)
  BY PromptedInput
<1>3. PromptTold'
  <2>1. spent'.runs = spent.runs + 0
    BY <1>0 DEF Budget
  <2> QED
    BY <1>1, <2>1, PromptToldKeeps
<1>4. QueueTold'
  <2>1. \A j \in ToSet(queue) : fate'[j] = fate[j]
    BY <1>0, <1>1, <1>2
  <2> QED
    BY <1>1, <2>1, QueueToldKeeps
<1>5. LoopTold'
  BY <1>1, LoopToldKeeps
<1>6. CASE starting = i
  <2>1. fate[i] = "queued"
    BY <1>0, <1>6 DEF ToldInv, QueueTold
  <2>2. Delivery!Fail(i)
    BY <1>1, <1>6, <2>1 DEF Delivery!Fail, Delivery!Told
  <2>3. Promised
    BY <2>2 DEF Promised, Delivery!Next, Delivery!Leave
  <2> QED
    BY <1>3, <1>4, <1>5, <2>3 DEF ToldInv
<1>7. CASE starting # i
  <2>1. fate[i] = "asked"
    BY <1>2, <1>7 DEF DeliveryInv, AskInv
  <2>2. Delivery!Reject(i)
    BY <1>1, <1>7, <2>1 DEF Delivery!Reject, Delivery!Told
  <2>3. Promised
    BY <2>2 DEF Promised, Delivery!Next
  <2> QED
    BY <1>3, <1>4, <1>5, <2>3 DEF ToldInv
<1> QED
  BY <1>6, <1>7

\* The sidecar takes an input that was asked for or is being started.
LEMMA PromptingTold ==
  ASSUME TypeInv, TypeInv', DeliveryInv, ToldInv, NEW i \in Inputs, PromptSteps(i)
  PROVE  Promised /\ ToldInv'
<1>0. /\ gate \in Gates /\ ToSet(queue) \subseteq Inputs /\ spent \in Budget
      /\ run \in [Runs -> RunLives] /\ starting \in Inputs \cup {None}
      /\ Runs \subseteq Nat
  BY KnownInputs, Apart DEF TypeInv, TypeOK
<1> USE DEF hostVars, queueVars, aliasVars, runtimeVars, ghostVars
<1>1. CASE PromptRefused(i)
  <2>1. spent'.runs = spent.runs
    BY <1>0, <1>1 DEF PromptRefused, Fails, Budget
  <2> QED
    BY <1>1, <2>1, ThrowingTold DEF PromptRefused, Steps
<1>2. CASE PromptFailed(i)
  BY <1>2, ThrowingTold DEF PromptFailed, Steps
<1>3. CASE PromptBegins(i) \/ PromptAbandoned(i)
  <2>1. UNCHANGED <<fate, taken, queue, starting, deliverer, delivery>>
    BY <1>3 DEF PromptBegins, PromptAbandoned
  <2>2. QueueTold' /\ LoopTold' /\ Promised
    BY <2>1, QueueToldKeeps, LoopToldKeeps, Silent
  <2>3. PromptTold'
    <3>1. CASE PromptBegins(i)
      <4>1. spent.runs + 1 \in Runs
        BY <3>1, NextRun DEF PromptBegins
      <4>2. /\ promptRun' = spent.runs + 1 /\ spent'.runs = spent.runs + 1
            /\ run' = [run EXCEPT ![spent.runs + 1] = "begun"]
        BY <1>0, <3>1 DEF PromptBegins, Budget
      <4>3. run'[promptRun'] = "begun" /\ promptRun' <= spent'.runs
        BY <1>0, <4>1, <4>2
      <4> QED
        BY <4>3 DEF PromptTold
    <3>2. CASE PromptAbandoned(i)
      <4>1. spent'.runs = spent.runs + 0 /\ step' # "begun" /\ promptRun' = promptRun
        BY <1>0, <3>2 DEF PromptAbandoned, Fails, Budget
      <4> QED
        BY <4>1, PromptToldKeeps
    <3> QED
      BY <1>3, <3>1, <3>2
  <2> QED
    BY <2>2, <2>3 DEF ToldInv
<1>4. CASE SidecarTakes(i)
  <2>1. /\ UNCHANGED <<fate, queue, starting, deliverer, delivery, step, promptRun, gate, spent>>
        /\ AtPrompt(i, "begun") /\ run[promptRun] = "begun" /\ step = "begun"
        /\ taken' = [taken EXCEPT ![i] = @ + 1]
    BY <1>4 DEF SidecarTakes, AtPrompt, At
  <2>2. /\ Asks(gate, i) \/ starting = i
        /\ \A j \in Inputs, z \in Steps : AtPrompt(j, z) => j = i
    BY <2>1, PromptedInput DEF Steps
  <2>3. taken[i] = 0
    <3>1. ~Prompted(i)
      BY <2>1 DEF Prompted, AtPrompt, At
    <3> QED
      BY <2>2, <3>1 DEF DeliveryInv, TakenInv
  <2>4. fate[i] \in {"asked", "queued"}
    <3>1. starting = i => starting # None
      BY HostAssumption
    <3> QED
      BY <2>2, <3>1 DEF DeliveryInv, AskInv, ToldInv, QueueTold
  <2>5. Promised /\ taken'[i] = 1 /\ \A j \in Inputs : taken[j] = 1 => taken'[j] = 1
    BY <2>1, <2>3, <2>4, Taking
  <2>6. PromptTold'
    <3>1. \A j \in Inputs : AtPrompt(j, "begun")' => j = i
      BY <2>1, <2>2 DEF AtPrompt, At, Steps
    <3>2. promptRun' # None => promptRun' <= spent'.runs
      BY <2>1 DEF ToldInv, PromptTold
    <3> QED
      BY <2>5, <3>1, <3>2 DEF PromptTold
  <2>7. QueueTold'
    BY <2>1, QueueToldKeeps
  <2>8. LoopTold'
    <3>1. \A d \in Deliverers : deliverer[d].stage = "accepted" => deliverer[d].input \in Inputs
      BY <1>0 DEF DeliveryInv, LoopInv, Holds
    <3> QED
      BY <2>1, <2>5, <3>1 DEF ToldInv, LoopTold
  <2> QED
    BY <2>5, <2>6, <2>7, <2>8 DEF ToldInv
<1> QED
  BY <1>1, <1>2, <1>3, <1>4 DEF PromptSteps

\* A drain pass starts an input that was reported as queued.
LEMMA DrainTold ==
  ASSUME TypeInv, TypeInv', DeliveryInv, ToldInv, DrainSteps
  PROVE  Promised /\ ToldInv'
<1>0. /\ gate \in Gates /\ ToSet(queue) \subseteq Inputs /\ spent \in Budget
      /\ fate \in [Inputs -> Fates] /\ deliverer \in [Deliverers -> Loops]
      /\ promptRun \in TurnIds \cup {None}
  BY KnownInputs DEF TypeInv, TypeOK, TurnIds
<1> USE DEF hostVars, queueVars, aliasVars, runtimeVars, ghostVars
<1>1. CASE DrainStops \/ DrainTakesHead \/ DrainShiftFails \/ DrainSkipsDelivered
           \/ DrainCleanupFails
  <2>1. UNCHANGED <<fate, taken, queue, starting, deliverer, delivery, promptRun>>
    BY <1>1 DEF DrainStops, DrainTakesHead, DrainShiftFails, DrainSkipsDelivered,
                DrainCleanupFails
  <2>2. spent'.runs = spent.runs + 0 /\ step' # "begun"
    BY <1>0, <1>1 DEF DrainStops, DrainTakesHead, DrainShiftFails, DrainSkipsDelivered,
                      DrainCleanupFails, Fails, Budget, At
  <2>3. PromptTold'
    BY <2>1, <2>2, PromptToldKeeps
  <2>4. QueueTold' /\ LoopTold' /\ Promised
    BY <2>1, QueueToldKeeps, LoopToldKeeps, Silent
  <2> QED
    BY <2>3, <2>4 DEF ToldInv
<1>2. CASE DrainShifted \/ DrainCleaned
  <2> DEFINE x == Head(queue)
  <2>1. /\ UNCHANGED <<fate, taken, deliverer, delivery, promptRun, spent>>
        /\ queue' = Tail(queue) /\ promoted' = promoted \ {x}
        /\ step' \in {"enter", "begin"} /\ queue # <<>>
    BY <1>2 DEF DrainShifted, DrainCleaned, At, TypeInv, Ready
  <2>2. x \in ToSet(queue) /\ ToSet(queue') \subseteq ToSet(queue)
    BY <2>1, HeadLeaves
  <2>3. starting' = None \/ (starting' = x /\ delivery[x] = "no")
    <3>1. CASE DrainShifted
      BY <3>1 DEF DrainShifted, DeliveryInv, StepInv
    <3>2. CASE DrainCleaned
      BY <3>2, NotPrompted DEF DrainCleaned, At
    <3> QED
      BY <1>2, <3>1, <3>2
  <2> HIDE DEF x
  <2>4. QueueTold'
    BY <2>1, <2>2, <2>3 DEF ToldInv, QueueTold
  <2>5. PromptTold'
    <3>1. spent'.runs = spent.runs + 0 /\ step' # "begun"
      BY <1>0, <2>1 DEF Budget
    <3> QED
      BY <2>1, <3>1, PromptToldKeeps
  <2>6. LoopTold' /\ Promised
    BY <2>1, LoopToldKeeps, Silent
  <2> QED
    BY <2>4, <2>5, <2>6 DEF ToldInv
<1>3. ASSUME NEW i \in Inputs, DrainReplied(i)
      PROVE  Promised /\ ToldInv'
  <2>1. /\ UNCHANGED <<taken, delivery, queue, spent>>
        /\ starting = i /\ starting' = None /\ step' = "begin" /\ promptRun' = None
        /\ fate' = [fate EXCEPT ![i] = "started"]
        /\ AtPrompt(i, "begun") /\ run[promptRun] # "begun"
    BY <1>3 DEF DrainReplied, AtPrompt, Over
  <2>2. i \notin ToSet(queue) /\ fate[i] = "queued" /\ taken[i] = 1
    BY <2>1, HostAssumption DEF DeliveryInv, PlaceInv, ToldInv, PromptTold, QueueTold
  <2>3. PromptTold'
    <3>1. spent'.runs = spent.runs + 0
      BY <1>0, <2>1 DEF Budget
    <3> QED
      BY <2>1, <3>1, PromptToldKeeps
  <2>4. QueueTold'
    <3>1. \A j \in ToSet(queue) : fate'[j] = fate[j]
      BY <1>0, <2>1, <2>2
    <3> QED
      BY <2>1, <3>1, QueueToldKeeps
  <2>5. LoopTold'
    <3>1. PICK launch \in Launches(promptRun, FALSE, gate) : deliverer' = launch.loops
      BY <1>3 DEF DrainReplied
    <3>2. \A d \in Deliverers :
            launch.loops[d] = deliverer[d] \/ launch.loops[d].stage = "reserve"
      BY <1>0, LaunchesNarrow
    <3> QED
      BY <2>1, <3>1, <3>2, LoopToldKeeps
  <2>6. Delivery!Start(i)
    BY <2>1, <2>2 DEF Delivery!Start, Delivery!Told
  <2>7. Promised
    BY <2>6 DEF Promised, Delivery!Next, Delivery!Leave
  <2> QED
    BY <2>3, <2>4, <2>5, <2>7 DEF ToldInv
<1> QED
  BY <1>1, <1>2, <1>3 DEF DrainSteps

\* Only an input that the runtime has not taken is canceled.
LEMMA EditTold ==
  ASSUME TypeInv, TypeInv', DeliveryInv, ToldInv, NEW i \in Inputs,
         NEW kind \in MoveKinds \cup {"cancel"}, EditSteps(kind, i)
  PROVE  Promised /\ ToldInv'
<1>0. /\ gate \in Gates /\ ToSet(queue) \subseteq Inputs /\ spent \in Budget
      /\ queue \in Seq(Inputs) /\ Ordered(queue, promoted) /\ promoted \subseteq ToSet(queue)
      /\ fate \in [Inputs -> Fates] /\ deliverer \in [Deliverers -> Loops]
  BY KnownInputs DEF DeliveryInv, QueueInOrder, TypeInv, TypeOK
<1> USE DEF hostVars, queueVars, aliasVars, runtimeVars, ghostVars
<1>1. UNCHANGED <<starting, taken, delivery, promptRun>> /\ step' # "begun"
  BY DEF EditSteps, EditRefused, EditAccepted, EditFails, ReorderCommitted, CancelCommitted,
         PrioritizeCommitted, Done
<1>2. PromptTold'
  <2>1. spent' = spent \/ Fails
    BY DEF EditSteps, EditRefused, EditAccepted, EditFails, ReorderCommitted, CancelCommitted,
           PrioritizeCommitted
  <2>2. spent'.runs = spent.runs + 0
    BY <1>0, <2>1 DEF Fails, Budget
  <2> QED
    BY <1>1, <2>2, PromptToldKeeps
<1>3. LoopTold'
  <2>1. \A d \in Deliverers : deliverer'[d] = deliverer[d] \/ deliverer'[d].stage = "reserve"
    <3>1. CASE PrioritizeCommitted(i)
      <4>1. gate.ops # <<>>
        BY <3>1 DEF PrioritizeCommitted, At
      <4>2. Requested(Popped(gate)) \in Gates
        BY <1>0, <4>1, PoppedGate, RequestedGate
      <4>3. CASE ActiveRuntimeTurn = None
        BY <3>1, <4>3 DEF PrioritizeCommitted
      <4>4. CASE ActiveRuntimeTurn # None
        <5>1. ActiveRuntimeTurn \in TurnIds \cup {None}
          BY DEF ActiveRuntimeTurn, HasActiveTurn, TypeInv, TypeOK, TurnIds
        <5>2. PICK launch \in Launches(ActiveRuntimeTurn, TRUE, Requested(Popped(gate))) :
                deliverer' = launch.loops
          BY <3>1, <4>4 DEF PrioritizeCommitted
        <5>3. \A d \in Deliverers :
                launch.loops[d] = deliverer[d] \/ launch.loops[d].stage = "reserve"
          BY <1>0, <4>2, <5>1, LaunchesNarrow
        <5> QED
          BY <5>2, <5>3
      <4> QED
        BY <4>3, <4>4
    <3>2. CASE ~PrioritizeCommitted(i)
      BY <3>2 DEF EditSteps, EditRefused, EditAccepted, EditFails, ReorderCommitted,
                  CancelCommitted
    <3> QED
      BY <3>1, <3>2
  <2> QED
    BY <1>1, <2>1, LoopToldKeeps
<1>4. CASE CancelCommitted(i)
  <2>1. i \in ToSet(queue) /\ delivery[i] = "no"
    BY <1>4 DEF CancelCommitted, DeliveryInv, StepInv
  <2>2. /\ fate' = [fate EXCEPT ![i] = "canceled"]
        /\ queue' = Without(queue, i) /\ promoted' = promoted \ {i}
    BY <1>4, <2>1 DEF CancelCommitted
  <2>3. ToSet(queue') = ToSet(queue) \ {i}
    BY <2>1, <2>2, EntryLeaves
  <2>4. starting = None
    BY <1>4, NotPrompted DEF CancelCommitted, At
  <2>5. QueueTold'
    <3>1. \A j \in ToSet(queue') : fate'[j] = fate[j]
      BY <1>0, <2>2, <2>3
    <3> QED
      BY <1>1, <2>3, <2>4, <3>1, QueueToldKeeps
  <2>6. fate[i] = "queued" /\ taken[i] = 0
    BY <2>1 DEF ToldInv, QueueTold, DeliveryInv, TakenInv
  <2>7. Delivery!Cancel(i)
    BY <1>1, <2>2, <2>6 DEF Delivery!Cancel, Delivery!Told
  <2>8. Promised
    BY <2>7 DEF Promised, Delivery!Next, Delivery!Leave
  <2> QED
    BY <1>2, <1>3, <2>5, <2>8 DEF ToldInv
<1>5. CASE ~CancelCommitted(i)
  <2>1. fate' = fate
    BY <1>5 DEF EditSteps, EditRefused, EditAccepted, EditFails, ReorderCommitted,
                PrioritizeCommitted
  <2>2. ToSet(queue') = ToSet(queue)
    <3>1. CASE ReorderCommitted(kind, i)
      <4>1. CanReorder(queue, promoted, i, kind = "reorderUp")
        BY <3>1 DEF ReorderCommitted, At, TypeInv, Ready
      <4>2. queue' = Reordered(queue, promoted, i, kind = "reorderUp")
        BY <3>1 DEF ReorderCommitted
      <4>3. Ordered(queue', promoted) /\ ToSet(queue') = ToSet(queue)
        BY <1>0, <4>1, <4>2, ReorderedOrdered
      <4> QED
        BY <4>3
    <3>2. CASE PrioritizeCommitted(i)
      <4>1. i \in ToSet(queue) \ promoted
        BY <3>2 DEF PrioritizeCommitted, At, TypeInv, Ready
      <4> QED
        BY <1>0, <3>2, <4>1, PromoteInOrdered DEF PrioritizeCommitted
    <3>3. CASE EditRefused(kind, i) \/ EditAccepted(kind, i) \/ EditFails(kind, i)
      BY <3>3 DEF EditRefused, EditAccepted, EditFails
    <3> QED
      BY <1>5, <3>1, <3>2, <3>3 DEF EditSteps
  <2>3. QueueTold' /\ Promised
    BY <1>1, <2>1, <2>2, QueueToldKeeps, Silent
  <2> QED
    BY <1>2, <1>3, <2>3 DEF ToldInv
<1> QED
  BY <1>4, <1>5

\* A running turn takes a queued input once, and then its client is told.
LEMMA DelivererTold ==
  ASSUME TypeInv, TypeInv', DeliveryInv, ToldInv, NEW d \in Deliverers, DelivererSteps(d)
  PROVE  Promised /\ ToldInv'
<1> DEFINE x == deliverer[d].input
<1>0. /\ gate \in Gates /\ queue \in Seq(Inputs) /\ ToSet(queue) \subseteq Inputs
      /\ spent \in Budget /\ delivery \in [Inputs -> {"no", "pending", "delivered"}]
      /\ fate \in [Inputs -> Fates] /\ deliverer \in [Deliverers -> Loops]
  BY KnownInputs DEF TypeInv, TypeOK
<1> USE DEF hostVars, queueVars, aliasVars, runtimeVars, ghostVars
<1>1. UNCHANGED <<starting, promptRun>> /\ spent'.runs = spent.runs + 0
  BY <1>0 DEF DelivererSteps, DelivererStep, Reserved, NothingToReserve, SettledRefusal,
              SettledAcceptance, Cleaned, CleanupFails, SteerTaken, SteerRefused, RetryDelivery,
              Fails, Budget, Done
<1>2. ASSUME Holds(d), ~Settling(d)
      PROVE  /\ x \in ToSet(queue) /\ x \in Inputs /\ delivery[x] = "pending"
             /\ status[x] = "queued" /\ fate[x] = "queued"
             /\ \A e \in Deliverers \ {d} : Holds(e) => deliverer[e].input # x
  BY <1>2, SettledInput DEF ToldInv, QueueTold
<1>3. CASE SteerTaken(d)
  <2>1. /\ UNCHANGED <<fate, queue, delivery, step, run>>
        /\ deliverer[d].stage = "steer" /\ gate' = Called(gate, Op("settle", d))
        /\ deliverer' = [deliverer EXCEPT ![d].stage = "accepted"]
        /\ taken' = [taken EXCEPT ![x] = @ + 1]
    BY <1>3 DEF SteerTaken
  <2>2. Holds(d) /\ ~Settling(d) /\ taken[x] = 0
    BY <2>1 DEF Holds, DeliveryInv, StepInv, TakenInv
  <2>3. x \in ToSet(queue) /\ x \in Inputs /\ fate[x] = "queued"
    BY <1>2, <2>2
  <2> HIDE DEF x
  <2>4. Promised /\ taken'[x] = 1 /\ \A j \in Inputs : taken[j] = 1 => taken'[j] = 1
    BY <2>1, <2>2, <2>3, Taking
  <2>5. QueueTold'
    BY <1>1, <2>1, QueueToldKeeps
  <2>6. LoopTold'
    <3>1. \A e \in Deliverers : /\ deliverer'[e].input = deliverer[e].input
                                /\ e # d => deliverer'[e].stage = deliverer[e].stage
      BY <1>0, <2>1 DEF Loops
    <3>2. \A e \in Deliverers : deliverer[e].stage = "accepted" => deliverer[e].input \in Inputs
      BY <1>0 DEF DeliveryInv, LoopInv, Holds
    <3>3. deliverer'[d].input = x
      BY <3>1 DEF x
    <3> QED
      BY <2>4, <3>1, <3>2, <3>3 DEF ToldInv, LoopTold
  <2>7. PromptTold'
    <3>1. SameHolder(gate, gate')
      BY <1>0, <2>1, CalledGate, OpIsOp DEF DelivererKinds
    <3>2. /\ \A i \in Inputs : AtPrompt(i, "begun")' <=> AtPrompt(i, "begun")
      <4>1. \A op : At(op, "begun")' <=> At(op, "begun")
        BY <2>1, <3>1, StillAt
      <4> QED
        BY <1>1, <4>1 DEF AtPrompt
    <3> QED
      BY <1>0, <1>1, <2>1, <2>4, <3>2 DEF ToldInv, PromptTold, Budget
  <2> QED
    BY <2>4, <2>5, <2>6, <2>7 DEF ToldInv
<1>4. CASE SteerRefused(d) \/ RetryDelivery(d)
  <2>1. /\ UNCHANGED <<fate, taken, queue, delivery, step, run>>
        /\ \/ gate' = Called(gate, Op("settle", d)) \/ gate' = Called(gate, Op("reserve", d))
        /\ \/ deliverer' = [deliverer EXCEPT ![d].stage = "refused"]
           \/ deliverer' = [deliverer EXCEPT ![d].stage = "reserve"]
    BY <1>4 DEF SteerRefused, RetryDelivery
  <2>2. SameHolder(gate, gate')
    BY <1>0, <2>1, CalledGate, OpIsOp DEF DelivererKinds
  <2>3. step = "begun" => promptRun # None
    BY DEF DeliveryInv, StepInv
  <2>4. PromptTold'
    BY <1>1, <2>1, <2>2, <2>3, PromptToldKeeps
  <2>5. \A e \in Deliverers :
          deliverer'[e].stage = "accepted" => deliverer'[e] = deliverer[e]
    BY <1>0, <2>1 DEF Loops
  <2>6. LoopTold' /\ QueueTold' /\ Promised
    BY <1>1, <2>1, <2>5, LoopToldKeeps, QueueToldKeeps, Silent
  <2> QED
    BY <2>4, <2>6 DEF ToldInv
<1>5. CASE SettledAcceptance(d)
  <2>1. /\ UNCHANGED <<taken, queue, deliverer>>
        /\ deliverer[d].stage = "accepted" /\ step = "begin" /\ step' = "cleanup"
    BY <1>5 DEF SettledAcceptance, At
  <2>2. Holds(d) /\ ~Settling(d)
    BY <2>1 DEF Holds, Settling, At
  <2>3. x \in ToSet(queue) /\ x \in Inputs /\ status[x] = "queued" /\ fate[x] = "queued"
    BY <1>2, <2>2
  <2>4. /\ delivery' = [delivery EXCEPT ![x] = "delivered"]
        /\ fate' = [fate EXCEPT ![x] = "injected"]
    BY <1>5, <2>3 DEF SettledAcceptance, Terminal
  <2>5. taken[x] = 1
    BY <2>1 DEF ToldInv, LoopTold
  <2> HIDE DEF x
  <2>6. PromptTold'
    BY <1>1, <2>1, PromptToldKeeps
  <2>7. QueueTold'
    <3>1. starting = None
      BY <2>1, NotPrompted
    <3> QED
      BY <1>0, <1>1, <2>1, <2>3, <2>4, <3>1 DEF ToldInv, QueueTold
  <2>8. LoopTold'
    BY <2>1, LoopToldKeeps
  <2>9. Delivery!Inject(x)
    BY <2>1, <2>3, <2>4, <2>5 DEF Delivery!Inject, Delivery!Told
  <2>10. Promised
    BY <2>3, <2>9 DEF Promised, Delivery!Next, Delivery!Leave
  <2> QED
    BY <2>6, <2>7, <2>8, <2>10 DEF ToldInv
<1>6. CASE Reserved(d) \/ NothingToReserve(d) \/ SettledRefusal(d) \/ Cleaned(d) \/ CleanupFails(d)
  <2>1. UNCHANGED <<fate, taken>> /\ step' = "begin" /\ step \in {"begin", "cleanup"}
    BY <1>6 DEF Reserved, NothingToReserve, SettledRefusal, Cleaned, CleanupFails, Done, At
  <2>2. PromptTold'
    BY <1>1, <2>1, PromptToldKeeps
  <2>3. \A e \in Deliverers :
          deliverer'[e].stage = "accepted" => deliverer'[e] = deliverer[e]
    <3>1. CASE Reserved(d)
      BY <1>0, <3>1 DEF Reserved, Loops
    <3>2. CASE NothingToReserve(d) \/ CleanupFails(d)
      BY <1>0, <3>2 DEF NothingToReserve, CleanupFails, Idle
    <3>3. CASE SettledRefusal(d) \/ Cleaned(d)
      <4>1. \E loop : /\ deliverer' = [deliverer EXCEPT ![d] = loop]
                      /\ loop.stage # "accepted"
        <5>1. \E stage \in {"wait", "reserve"} :
                deliverer' = [deliverer EXCEPT ![d] =
                                IF LastTry(@) THEN Idle ELSE Tried(@, stage)]
          BY <3>3 DEF SettledRefusal, Cleaned
        <5>2. /\ Idle.stage = "idle"
              /\ \A stage : Tried(deliverer[d], stage).stage = stage
          BY <1>0 DEF Idle, Tried, Loops
        <5> QED
          BY <5>1, <5>2
      <4> QED
        BY <1>0, <4>1
    <3> QED
      BY <1>6, <3>1, <3>2, <3>3
  <2>4. LoopTold' /\ Promised
    BY <2>1, <2>3, LoopToldKeeps, Silent
  <2>5. QueueTold'
    <3>1. CASE Reserved(d)
      <4>1. /\ Head(queue) \in ToSet(queue) /\ delivery[Head(queue)] = "no" /\ queue' = queue
            /\ delivery' = [delivery EXCEPT ![Head(queue)] = "pending"]
        BY <3>1, KnownInputs DEF Reserved, CanInject
      <4>2. \A j \in ToSet(queue) : delivery'[j] = "delivered" <=> delivery[j] = "delivered"
        BY <1>0, <4>1
      <4> QED
        BY <1>1, <2>1, <4>1, <4>2, QueueToldKeeps
    <3>2. CASE SettledRefusal(d)
      <4>1. Holds(d) /\ ~Settling(d)
        BY <3>2 DEF SettledRefusal, Holds, Settling, At
      <4>2. x \in Inputs /\ delivery[x] = "pending"
        BY <1>2, <4>1
      <4>3. delivery' = [delivery EXCEPT ![x] = "no"] /\ queue' = queue
        BY <3>2 DEF SettledRefusal
      <4>4. \A j \in ToSet(queue) : delivery'[j] = "delivered" <=> delivery[j] = "delivered"
        BY <1>0, <4>2, <4>3
      <4> QED
        BY <1>1, <2>1, <4>3, <4>4, QueueToldKeeps
    <3>3. CASE Cleaned(d)
      <4>1. /\ x \in ToSet(queue) /\ queue' = Without(queue, x) /\ promoted' = promoted \ {x}
            /\ delivery' = delivery
        BY <3>3 DEF Cleaned, DeliveryInv, LoopInv, Holds
      <4>2. ToSet(queue') \subseteq ToSet(queue)
        BY <4>1, EntryLeaves
      <4> QED
        BY <1>1, <2>1, <4>1, <4>2, QueueToldKeeps
    <3>4. CASE NothingToReserve(d) \/ CleanupFails(d)
      <4>1. queue' = queue /\ delivery' = delivery
        BY <3>4 DEF NothingToReserve, CleanupFails
      <4> QED
        BY <1>1, <2>1, <4>1, QueueToldKeeps
    <3> QED
      BY <1>6, <3>1, <3>2, <3>3, <3>4
  <2> QED
    BY <2>2, <2>4, <2>5 DEF ToldInv
<1> QED
  BY <1>3, <1>4, <1>5, <1>6 DEF DelivererSteps, DelivererStep

\* Without a restart, AgentHost implements TurnDelivery: whatever is interleaved, what
\* a client is told agrees with what the runtime took, and each input is taken once.
THEOREM PromiseKept ==
  ASSUME MaxRestarts = 0
  PROVE  Spec => KeepsPromise
<1>1. Init => Delivery!Init /\ ToldInv
  <2> SUFFICES ASSUME Init PROVE Delivery!Init /\ ToldInv
    OBVIOUS
  <2>1. ToSet(queue) = {}
    BY DEF Init, ToSet
  <2>2. PromptTold /\ QueueTold /\ LoopTold
    BY <2>1 DEF Init, PromptTold, QueueTold, LoopTold, AtPrompt, At, Idle
  <2> QED
    BY <2>2 DEF Init, Delivery!Init, ToldInv
<1>2. TypeInv /\ TypeInv' /\ DeliveryInv /\ ToldInv /\ [Next]_vars => Promised /\ ToldInv'
  <2>1. ASSUME TypeInv, TypeInv', DeliveryInv, ToldInv, Next
        PROVE  Promised /\ ToldInv'
    <3>1. \/ OutsideSteps \/ Restart \/ Attach \/ DrainSteps
          \/ \E i \in Inputs, kind \in StartKinds : StartSteps(kind, i)
          \/ \E i \in Inputs : PromptSteps(i)
          \/ \E i \in Inputs, kind \in MoveKinds \cup {"cancel"} : EditSteps(kind, i)
          \/ \E d \in Deliverers : DelivererSteps(d)
      BY <2>1, NextSteps DEF OutsideSteps, ClientSteps, OtherSteps
    <3>2. ~Restart
      BY <2>1 DEF Restart, TypeInv, TypeOK, Budget
    <3> QED
      BY <2>1, <3>1, <3>2, OutsideTold, DrainTold, StartTold, PromptingTold, EditTold,
         DelivererTold
  <2>2. ASSUME ToldInv, UNCHANGED vars
        PROVE  Promised /\ ToldInv'
    <3> USE <2>2 DEF ToldInv, vars, hostVars, queueVars, aliasVars, admissionVars, runtimeVars,
                     ghostVars
    <3>1. PromptTold' /\ QueueTold' /\ LoopTold'
      BY DEF PromptTold, QueueTold, LoopTold, AtPrompt, At
    <3> QED
      BY <3>1, Silent
  <2> QED
    BY <2>1, <2>2
<1>3. Spec => []ToldInv
  BY <1>1, <1>2, TypeInvariant, DeliveryInvariant, PTL DEF Spec
<1> QED
  BY <1>1, <1>2, <1>3, TypeInvariant, DeliveryInvariant, PTL
     DEF Spec, KeepsPromise, Delivery!Spec, Promised

=============================================================================
