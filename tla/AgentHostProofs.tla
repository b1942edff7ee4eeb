--------------------------- MODULE AgentHostProofs ---------------------------
(***************************************************************************)
(* Proofs about AgentHost for every value of its constants: the types of   *)
(* its variables, with the facts about the admission chain they rest on,   *)
(* and that a held queue rests.                                            *)
(***************************************************************************)
EXTENDS AgentHost, QueueOrderProofs

-----------------------------------------------------------------------------
(* The admission chain *)

\* The operation that holds the session stays the same one.
SameHolder(g, h) == g.ops # <<>> => h.ops # <<>> /\ Head(h.ops) = Head(g.ops)

\* An operation joins behind the others.
LEMMA CalledGate ==
  ASSUME NEW g \in Gates, NEW op \in Ops
  PROVE  Called(g, op) \in Gates /\ SameHolder(g, Called(g, op))
<1>1. g.ops \in Seq(Ops)
  BY DEF Gates
<1>2. /\ Append(g.ops, op) \in Seq(Ops)
      /\ Append(g.ops, op) # <<>>
      /\ g.ops # <<>> => Head(Append(g.ops, op)) = Head(g.ops)
  BY <1>1, AppendProperties, HeadTailAppend
<1>3. Called(g, op) \in Gates /\ Called(g, op).ops = Append(g.ops, op)
  BY <1>2 DEF Gates, Called
<1> QED
  BY <1>2, <1>3 DEF SameHolder

\* A drain pass is an operation of the chain.
LEMMA DrainIsOp == Drain \in Ops
  BY DEF Drain, Ops, Op

\* So does the pass a drain request starts.
LEMMA RequestedGate ==
  ASSUME NEW g \in Gates
  PROVE  Requested(g) \in Gates /\ SameHolder(g, Requested(g))
<1>1. CASE g.draining
  BY <1>1 DEF Requested, Gates, SameHolder
<1>2. CASE ~g.draining
  <2> DEFINE h == Called(g, Drain)
  <2>1. h \in Gates /\ SameHolder(g, h)
    BY CalledGate, DrainIsOp
  <2> HIDE DEF h
  <2>2. /\ [h EXCEPT !.draining = TRUE, !.pending = FALSE] \in Gates
        /\ [h EXCEPT !.draining = TRUE, !.pending = FALSE].ops = h.ops
    BY <2>1 DEF Gates
  <2>3. Requested(g) = [h EXCEPT !.draining = TRUE, !.pending = FALSE]
    BY <1>2 DEF Requested, h, Drain
  <2> QED
    BY <2>1, <2>2, <2>3 DEF SameHolder
<1> QED
  BY <1>1, <1>2

\* The operation that holds the session leaves.
LEMMA PoppedGate ==
  ASSUME NEW g \in Gates, g.ops # <<>>
  PROVE  Popped(g) \in Gates /\ PassEnds(g) \in Gates
<1>1. Popped(g) \in Gates
  <2>1. g.ops \in Seq(Ops)
    BY DEF Gates
  <2>2. Tail(g.ops) \in Seq(Ops)
    BY <2>1, HeadTailProperties
  <2> QED
    BY <2>2 DEF Gates, Popped
<1>2. [Popped(g) EXCEPT !.draining = FALSE] \in Gates
  BY <1>1 DEF Gates
<1>3. Requested([Popped(g) EXCEPT !.draining = FALSE]) \in Gates
  BY <1>2, RequestedGate
<1> QED
  BY <1>1, <1>2, <1>3 DEF PassEnds

-----------------------------------------------------------------------------
(* Types *)

\* What an operation that waits for the store found when it was admitted still
\* holds when the answer arrives: nobody else touches the queue meanwhile.
Ready ==
  /\ step # "begin" => gate.ops # <<>>
  /\ step \in {"store", "cleanup"} /\ Head(gate.ops) = Drain => queue # <<>>
  /\ step = "store" =>
       \A i \in Inputs :
         /\ Head(gate.ops) = Op("reorderUp", i) => CanReorder(queue, promoted, i, TRUE)
         /\ Head(gate.ops) = Op("reorderDown", i) => CanReorder(queue, promoted, i, FALSE)
         /\ Head(gate.ops) = Op("prioritize", i) => i \in ToSet(queue) \ promoted

TypeInv == TypeOK /\ Ready

\* One more of something was used up.
LEMMA Spending ==
  ASSUME NEW s \in Budget
  PROVE  /\ s.runs \in Nat
         /\ [s EXCEPT !.runs = @ + 1] \in Budget
         /\ [s EXCEPT !.external = @ + 1] \in Budget
         /\ [s EXCEPT !.restarts = @ + 1] \in Budget
         /\ [s EXCEPT !.failures = @ + 1] \in Budget
         /\ [s EXCEPT !.plans = @ + 1] \in Budget
  BY DEF Budget

\* An input is taken once more.
LEMMA Counted ==
  ASSUME NEW count \in [Inputs -> Nat], NEW i
  PROVE  [count EXCEPT ![i] = @ + 1] \in [Inputs -> Nat]
<1>1. CASE i \in Inputs
  <2>1. count[i] + 1 \in Nat
    BY <1>1
  <2> QED
    BY <2>1
<1>2. CASE i \notin Inputs
  BY <1>2
<1> QED
  BY <1>1, <1>2

\* A deliverer that runs no loop.
LEMMA IdleLoop == Idle \in Loops
  BY DEF Loops, Idle, Stages

\* A loop is entered for the active turn.
LEMMA EnteredLoop ==
  ASSUME NEW target \in TurnIds \cup {None}, NEW called \in BOOLEAN
  PROVE  [Idle EXCEPT !.stage = "reserve", !.target = target, !.called = called] \in Loops
  BY DEF Loops, Idle, Stages

\* A loop takes a step.
LEMMA LoopMoves ==
  ASSUME NEW loop \in Loops, NEW stage \in Stages
  PROVE  /\ [loop EXCEPT !.stage = stage] \in Loops
         /\ Tried(loop, stage) \in Loops
         /\ \A i \in Inputs : [loop EXCEPT !.stage = stage, !.input = i] \in Loops
<1>1. [loop EXCEPT !.stage = stage] \in Loops
  BY DEF Loops
<1>2. Tried(loop, stage) \in Loops
  <2> DEFINE staged == [loop EXCEPT !.stage = stage]
             emptied == [staged EXCEPT !.input = None]
             counted == [emptied EXCEPT !.tries = loop.tries + 1]
  <2>1. Tried(loop, stage) = counted
    BY DEF Tried
  <2>2. loop.tries + 1 \in Nat
    BY DEF Loops
  <2>3. staged \in Loops
    BY <1>1
  <2> HIDE DEF staged
  <2>4. emptied \in Loops
    BY <2>3 DEF Loops
  <2> HIDE DEF emptied
  <2>5. counted \in Loops
    BY <2>2, <2>4 DEF Loops
  <2> QED
    BY <2>1, <2>5
<1>3. ASSUME NEW i \in Inputs
      PROVE  [loop EXCEPT !.stage = stage, !.input = i] \in Loops
  <2>1. [loop EXCEPT !.stage = stage] \in Loops
    BY <1>1
  <2> QED
    BY <2>1 DEF Loops
<1> QED
  BY <1>1, <1>2, <1>3

\* The same for the function of all loops.
LEMMA LoopsMove ==
  ASSUME NEW loops \in [Deliverers -> Loops], NEW d \in Deliverers, NEW stage \in Stages
  PROVE  /\ [loops EXCEPT ![d] = Idle] \in [Deliverers -> Loops]
         /\ [loops EXCEPT ![d].stage = stage] \in [Deliverers -> Loops]
         /\ [loops EXCEPT ![d] = IF LastTry(@) THEN Idle ELSE Tried(@, stage)]
              \in [Deliverers -> Loops]
         /\ \A i \in Inputs :
              [loops EXCEPT ![d].stage = stage, ![d].input = i] \in [Deliverers -> Loops]
<1>1. loops[d] \in Loops
  OBVIOUS
<1> QED
  BY <1>1, IdleLoop, LoopMoves

\* The runtime has another run to open.
LEMMA NextRun ==
  ASSUME TypeInv, spent.runs < MaxRuns
  PROVE  spent.runs + 1 \in Runs
<1>1. spent.runs \in Nat
  BY Spending DEF TypeInv, TypeOK
<1>2. MaxRuns \in Nat
  BY HostAssumption
<1> QED
  BY <1>1, <1>2 DEF Runs

\* The operations clients and loops put into the chain.
LEMMA OpIsOp ==
  /\ \A kind \in InputKinds, i \in Inputs : Op(kind, i) \in Ops
  /\ \A kind \in DelivererKinds, d \in Deliverers : Op(kind, d) \in Ops
  BY DEF Ops, Op

\* Steps outside the chain leave Ready alone.
LEMMA StillReady ==
  ASSUME Ready, UNCHANGED <<queue, promoted, step>>, SameHolder(gate, gate')
  PROVE  Ready'
  BY DEF Ready, SameHolder

\* Nothing is to be shown when the next operation has not begun.
LEMMA BeginReady ==
  ASSUME step' = "begin"
  PROVE  Ready'
  BY DEF Ready

\* An operation that asks nothing of the queue's order may start to wait.
LEMMA WaitReady ==
  ASSUME step' \in {"store", "cleanup", "enter", "begun", "failing"},
         UNCHANGED gate, gate.ops # <<>>,
         NEW kind, kind \notin MoveKinds, NEW arg, Head(gate.ops) = Op(kind, arg),
         Head(gate.ops) = Drain => queue' # <<>> \/ step' \notin {"store", "cleanup"}
  PROVE  Ready'
<1>1. ASSUME NEW other \in MoveKinds, NEW i \in Inputs
      PROVE  Op(kind, arg) # Op(other, i)
  <2>1. Op(kind, arg).kind = kind /\ Op(other, i).kind = other
    BY DEF Op
  <2> QED
    BY <2>1
<1> QED
  BY <1>1 DEF Ready, MoveKinds

\* A new process has nothing to wait for.
LEMMA InitType == Init => TypeInv
<1> SUFFICES ASSUME Init PROVE TypeInv
  OBVIOUS
<1>1. Ready
  BY DEF Init, Ready
<1>2. queue \in Seq(Inputs) /\ gate \in Gates
  BY EmptySeq DEF Init, Gates
<1>3. deliverer \in [Deliverers -> Loops] /\ spent \in Budget
  BY IdleLoop DEF Init, Budget
<1>4. TypeOK
  BY <1>2, <1>3 DEF Init, TypeOK, Planning, Status, Steps, RunLives, Fates
<1> QED
  BY <1>1, <1>4 DEF TypeInv

\* A call joins the chain; an attach also gives records to queued inputs.
LEMMA ClientType ==
  ASSUME TypeInv, ClientSteps
  PROVE  TypeInv'
<1>0. gate \in Gates
  BY DEF TypeInv, TypeOK
<1> USE DEF hostVars, queueVars, aliasVars, runtimeVars, ghostVars
<1>1. ASSUME NEW i \in Inputs, NEW kind \in StartKinds, StartTurn(kind, i)
      PROVE  TypeInv'
  <2>1. gate' \in Gates /\ SameHolder(gate, gate')
    BY <1>0, <1>1, CalledGate, OpIsOp DEF StartTurn, Call, InputKinds
  <2>2. TypeOK'
    BY <1>1, <2>1 DEF TypeInv, TypeOK, StartTurn, Fates
  <2>3. Ready'
    BY <1>1, <2>1, StillReady DEF TypeInv, StartTurn
  <2> QED
    BY <2>2, <2>3 DEF TypeInv
<1>2. ASSUME NEW i \in Inputs, NEW kind \in MoveKinds \cup {"cancel"}, EditQueue(kind, i)
      PROVE  TypeInv'
  <2>1. gate' \in Gates /\ SameHolder(gate, gate')
    BY <1>0, <1>2, CalledGate, OpIsOp DEF EditQueue, Call, InputKinds
  <2>2. TypeOK'
    BY <1>2, <2>1 DEF TypeInv, TypeOK, EditQueue
  <2>3. Ready'
    BY <1>2, <2>1, StillReady DEF TypeInv, EditQueue
  <2> QED
    BY <2>2, <2>3 DEF TypeInv
<1>3. ASSUME Attach
      PROVE  TypeInv'
  <2>1. gate' \in Gates /\ SameHolder(gate, gate')
    BY <1>0, <1>3, RequestedGate DEF Attach
  <2>2. TypeOK'
    BY <1>3, <2>1 DEF TypeInv, TypeOK, Attach, Status
  <2>3. Ready'
    BY <1>3, <2>1, StillReady DEF TypeInv, Attach
  <2> QED
    BY <2>2, <2>3 DEF TypeInv
<1> QED
  BY <1>1, <1>2, <1>3 DEF ClientSteps

\* startTurnAdmitted, for one input.
StartSteps(kind, i) ==
  \/ StartRejected(kind, i) \/ StartPushes(kind, i) \/ Pushed(kind, i)
  \/ PushFails(kind, i) \/ StartPrompts(kind, i) \/ StartReplied(kind, i)

\* Starting keeps the types: what is appended is an input.
LEMMA StartType ==
  ASSUME TypeInv, NEW i \in Inputs, NEW kind \in StartKinds, StartSteps(kind, i)
  PROVE  TypeInv'
<1>0. gate \in Gates
  BY DEF TypeInv, TypeOK
<1> USE DEF hostVars, queueVars, aliasVars, admissionVars, runtimeVars, ghostVars
<1>1. ASSUME StartRejected(kind, i)
      PROVE  TypeInv'
  <2>1. gate' \in Gates
    BY <1>0, <1>1, PoppedGate DEF StartRejected, Done, At
  <2>2. TypeOK'
    BY <1>1, <2>1 DEF TypeInv, TypeOK, StartRejected, Done, Steps, Fates
  <2>3. Ready'
    BY <1>1, BeginReady DEF StartRejected, Done
  <2> QED
    BY <2>2, <2>3 DEF TypeInv
<1>2. ASSUME StartPushes(kind, i)
      PROVE  TypeInv'
  <2>1. gate' \in Gates /\ gate' = gate /\ gate.ops # <<>>
    BY <1>0, <1>2 DEF StartPushes, At
  <2>2. TypeOK'
    BY <1>2, <2>1 DEF TypeInv, TypeOK, StartPushes, Steps
  <2>3. Ready'
    BY <1>2, <2>1, WaitReady DEF StartPushes, MoveKinds, At, StartKinds, Op, Drain
  <2> QED
    BY <2>2, <2>3 DEF TypeInv
<1>3. ASSUME Pushed(kind, i)
      PROVE  TypeInv'
  <2>1. gate' \in Gates
    BY <1>0, <1>3, PoppedGate, RequestedGate DEF Pushed, At
  <2>2. queue' \in Seq(Inputs)
    BY <1>3, AppendProperties DEF Pushed, TypeInv, TypeOK
  <2>3. TypeOK'
    BY <1>3, <2>1, <2>2 DEF TypeInv, TypeOK, Pushed, Steps, Fates, Status
  <2>4. Ready'
    BY <1>3, BeginReady DEF Pushed
  <2> QED
    BY <2>3, <2>4 DEF TypeInv
<1>4. ASSUME PushFails(kind, i)
      PROVE  TypeInv'
  <2>1. gate' \in Gates
    BY <1>0, <1>4, PoppedGate DEF PushFails, Done, At
  <2>2. spent' \in Budget
    BY <1>4, Spending DEF PushFails, TypeInv, TypeOK, Fails
  <2>3. TypeOK'
    BY <1>4, <2>1, <2>2 DEF TypeInv, TypeOK, PushFails, Done, Steps, Fates
  <2>4. Ready'
    BY <1>4, BeginReady DEF PushFails, Done
  <2> QED
    BY <2>3, <2>4 DEF TypeInv
<1>5. ASSUME StartPrompts(kind, i)
      PROVE  TypeInv'
  <2>1. gate' \in Gates /\ gate' = gate /\ gate.ops # <<>>
    BY <1>0, <1>5 DEF StartPrompts, At
  <2>2. TypeOK'
    BY <1>5, <2>1 DEF TypeInv, TypeOK, StartPrompts, Steps
  <2>3. Ready'
    BY <1>5, <2>1, WaitReady DEF StartPrompts, MoveKinds, At, StartKinds
  <2> QED
    BY <2>2, <2>3 DEF TypeInv
<1>6. ASSUME StartReplied(kind, i)
      PROVE  TypeInv'
  <2>1. gate' \in Gates
    BY <1>0, <1>6, PoppedGate DEF StartReplied, Done, At
  <2>2. TypeOK'
    BY <1>6, <2>1
       DEF TypeInv, TypeOK, StartReplied, Done, Steps, Fates, Status, Active, TurnIds
  <2>3. Ready'
    BY <1>6, BeginReady DEF StartReplied, Done
  <2> QED
    BY <2>2, <2>3 DEF TypeInv
<1> QED
  BY <1>1, <1>2, <1>3, <1>4, <1>5, <1>6 DEF StartSteps

\* prompt(), on behalf of one input.
PromptSteps(i) ==
  \/ PromptRefused(i) \/ PromptBegins(i) \/ SidecarTakes(i)
  \/ PromptAbandoned(i) \/ PromptFailed(i)

\* Prompting keeps the types: a run is opened within the bound.
LEMMA PromptType ==
  ASSUME TypeInv, NEW i \in Inputs, PromptSteps(i)
  PROVE  TypeInv'
<1>0. gate \in Gates
  BY DEF TypeInv, TypeOK
<1> USE DEF hostVars, queueVars, aliasVars, admissionVars, runtimeVars, ghostVars
<1>1. ASSUME PromptRefused(i)
      PROVE  TypeInv'
  <2>1. gate' \in Gates
    BY <1>0, <1>1, PoppedGate DEF PromptRefused, PromptThrows, AtPrompt, At
  <2>2. spent' \in Budget
    BY <1>1, Spending DEF PromptRefused, TypeInv, TypeOK, PromptThrows, Fails
  <2>3. TypeOK'
    BY <1>1, <2>1, <2>2
       DEF TypeInv, TypeOK, PromptRefused, PromptThrows, Steps, Fates, Status, Terminal
  <2>4. Ready'
    BY <1>1, BeginReady DEF PromptRefused, PromptThrows
  <2> QED
    BY <2>3, <2>4 DEF TypeInv
<1>2. ASSUME PromptBegins(i)
      PROVE  TypeInv'
  <2>1. gate' \in Gates /\ gate' = gate /\ gate.ops # <<>>
    BY <1>0, <1>2 DEF PromptBegins, AtPrompt, At
  <2>2. spent.runs + 1 \in Runs
    BY <1>2, NextRun DEF PromptBegins
  <2>3. spent' \in Budget
    BY <1>2, Spending DEF PromptBegins, TypeInv, TypeOK
  <2>4. TypeOK'
    BY <1>2, <2>1, <2>2, <2>3 DEF TypeInv, TypeOK, PromptBegins, Steps, RunLives
  <2>5. Ready'
    BY <1>2, <2>1 DEF PromptBegins, Ready
  <2> QED
    BY <2>4, <2>5 DEF TypeInv
<1>3. ASSUME SidecarTakes(i)
      PROVE  TypeInv'
  <2>1. gate' \in Gates /\ gate' = gate /\ gate.ops # <<>>
    BY <1>0, <1>3 DEF SidecarTakes, AtPrompt, At
  <2>2. taken' \in [Inputs -> Nat]
    BY <1>3, Counted DEF SidecarTakes, TypeInv, TypeOK
  <2>3. alias' \in [Runs -> Inputs \cup {None}] /\ runtimeOf' \in [Inputs -> Runs \cup {None}]
    BY <1>3 DEF SidecarTakes, Adopt, Adopts, TypeInv, TypeOK
  <2>4. TypeOK'
    BY <1>3, <2>1, <2>2, <2>3 DEF TypeInv, TypeOK, SidecarTakes, RunLives
  <2>5. Ready'
    BY <1>3, <2>1, StillReady DEF TypeInv, SidecarTakes, SameHolder
  <2> QED
    BY <2>4, <2>5 DEF TypeInv
<1>4. ASSUME PromptAbandoned(i)
      PROVE  TypeInv'
  <2>1. gate' \in Gates /\ gate' = gate /\ gate.ops # <<>>
    BY <1>0, <1>4 DEF PromptAbandoned, AtPrompt, At
  <2>2. spent' \in Budget
    BY <1>4, Spending DEF PromptAbandoned, TypeInv, TypeOK, Fails
  <2>3. TypeOK'
    BY <1>4, <2>1, <2>2 DEF TypeInv, TypeOK, PromptAbandoned, Steps, RunLives, Over
  <2>4. Ready'
    BY <1>4, <2>1 DEF PromptAbandoned, Ready
  <2> QED
    BY <2>3, <2>4 DEF TypeInv
<1>5. ASSUME PromptFailed(i)
      PROVE  TypeInv'
  <2>1. gate' \in Gates
    BY <1>0, <1>5, PoppedGate DEF PromptFailed, PromptThrows, AtPrompt, At
  <2>2. TypeOK'
    BY <1>5, <2>1
       DEF TypeInv, TypeOK, PromptFailed, PromptThrows, Steps, Fates, Status, Terminal
  <2>3. Ready'
    BY <1>5, BeginReady DEF PromptFailed, PromptThrows
  <2> QED
    BY <2>2, <2>3 DEF TypeInv
<1> QED
  BY <1>1, <1>2, <1>3, <1>4, <1>5 DEF PromptSteps

\* A new delivery loop is a loop, and its operation joins behind the others.
LEMMA LaunchesType ==
  ASSUME NEW r \in TurnIds \cup {None}, NEW called \in BOOLEAN, NEW g \in Gates,
         deliverer \in [Deliverers -> Loops], NEW launch \in Launches(r, called, g)
  PROVE  /\ launch.loops \in [Deliverers -> Loops]
         /\ launch.gate \in Gates /\ SameHolder(g, launch.gate)
<1> DEFINE free == {d \in Deliverers : deliverer[d].stage = "idle"}
           loop == [Idle EXCEPT !.stage = "reserve", !.target = r, !.called = called]
<1>1. CASE free = {}
  BY <1>1 DEF Launches, SameHolder
<1>2. CASE free # {}
  <2>1. PICK d \in Deliverers :
          launch = [loops |-> [deliverer EXCEPT ![d] = loop],
                    gate |-> Called(g, Op("reserve", d))]
    BY <1>2 DEF Launches
  <2>2. [deliverer EXCEPT ![d] = loop] \in [Deliverers -> Loops]
    BY EnteredLoop
  <2>3. Called(g, Op("reserve", d)) \in Gates /\ SameHolder(g, Called(g, Op("reserve", d)))
    BY CalledGate, OpIsOp DEF DelivererKinds
  <2> QED
    BY <2>1, <2>2, <2>3
<1> QED
  BY <1>1, <1>2

\* drainAdmitted.
DrainSteps ==
  \/ DrainStops \/ DrainTakesHead \/ DrainShifted \/ DrainShiftFails
  \/ DrainSkipsDelivered \/ DrainCleaned \/ DrainCleanupFails
  \/ \E i \in Inputs : DrainReplied(i)

\* Draining keeps the types: the queue a pass waits for is still not empty.
LEMMA DrainType ==
  ASSUME TypeInv, DrainSteps
  PROVE  TypeInv'
<1>0. gate \in Gates
  BY DEF TypeInv, TypeOK
<1> USE DEF hostVars, queueVars, aliasVars, admissionVars, runtimeVars, ghostVars
<1>1. ASSUME DrainStops
      PROVE  TypeInv'
  <2>1. gate' \in Gates
    BY <1>0, <1>1, PoppedGate DEF DrainStops, At
  <2>2. TypeOK'
    BY <1>1, <2>1 DEF TypeInv, TypeOK, DrainStops
  <2>3. Ready'
    BY <1>1, BeginReady DEF DrainStops, At
  <2> QED
    BY <2>2, <2>3 DEF TypeInv
<1>2. ASSUME DrainTakesHead
      PROVE  TypeInv'
  <2>1. gate' \in Gates /\ gate' = gate /\ gate.ops # <<>>
    BY <1>0, <1>2 DEF DrainTakesHead, At
  <2>2. TypeOK'
    BY <1>2, <2>1 DEF TypeInv, TypeOK, DrainTakesHead, Ensured, Steps, Status
  <2>3. Ready'
    BY <1>2, <2>1, WaitReady DEF DrainTakesHead, DrainMayTake, At, Drain, MoveKinds
  <2> QED
    BY <2>2, <2>3 DEF TypeInv
<1>3. ASSUME DrainShifted
      PROVE  TypeInv'
  <2>1. gate' \in Gates /\ gate' = gate /\ gate.ops # <<>>
    BY <1>0, <1>3 DEF DrainShifted, At
  <2>2. queue # <<>> /\ Head(queue) \in Inputs /\ queue' \in Seq(Inputs)
    BY <1>3, HeadTailProperties DEF DrainShifted, At, Ready, TypeInv, TypeOK
  <2>3. TypeOK'
    BY <1>3, <2>1, <2>2 DEF TypeInv, TypeOK, DrainShifted, Steps
  <2>4. Ready'
    BY <1>3, <2>1 DEF DrainShifted, Ready
  <2> QED
    BY <2>3, <2>4 DEF TypeInv
<1>4. ASSUME DrainShiftFails
      PROVE  TypeInv'
  <2>1. gate' \in Gates
    BY <1>0, <1>4, PoppedGate DEF DrainShiftFails, At, Gates
  <2>2. spent' \in Budget
    BY <1>4, Spending DEF DrainShiftFails, TypeInv, TypeOK, Fails
  <2>3. TypeOK'
    BY <1>4, <2>1, <2>2 DEF TypeInv, TypeOK, DrainShiftFails, Steps
  <2>4. Ready'
    BY <1>4, BeginReady DEF DrainShiftFails
  <2> QED
    BY <2>3, <2>4 DEF TypeInv
<1>5. ASSUME DrainSkipsDelivered
      PROVE  TypeInv'
  <2>1. gate' \in Gates /\ gate' = gate /\ gate.ops # <<>>
    BY <1>0, <1>5 DEF DrainSkipsDelivered, At
  <2>2. TypeOK'
    BY <1>5, <2>1 DEF TypeInv, TypeOK, DrainSkipsDelivered, Steps
  <2>3. Ready'
    BY <1>5, <2>1, WaitReady DEF DrainSkipsDelivered, DrainMayTake, At, Drain, MoveKinds
  <2> QED
    BY <2>2, <2>3 DEF TypeInv
<1>6. ASSUME DrainCleaned
      PROVE  TypeInv'
  <2>1. gate' \in Gates /\ gate' = gate /\ gate.ops # <<>>
    BY <1>0, <1>6 DEF DrainCleaned, At
  <2>2. queue # <<>> /\ Head(queue) \in Inputs /\ queue' \in Seq(Inputs)
    BY <1>6, HeadTailProperties DEF DrainCleaned, At, Ready, TypeInv, TypeOK
  <2>3. TypeOK'
    BY <1>6, <2>1, <2>2 DEF TypeInv, TypeOK, DrainCleaned, Steps
  <2>4. Ready'
    BY <1>6, BeginReady DEF DrainCleaned
  <2> QED
    BY <2>3, <2>4 DEF TypeInv
<1>7. ASSUME DrainCleanupFails
      PROVE  TypeInv'
  <2>1. gate' \in Gates
    BY <1>0, <1>7, PoppedGate DEF DrainCleanupFails, At
  <2>2. spent' \in Budget
    BY <1>7, Spending DEF DrainCleanupFails, TypeInv, TypeOK, Fails
  <2>3. TypeOK'
    BY <1>7, <2>1, <2>2 DEF TypeInv, TypeOK, DrainCleanupFails, Steps
  <2>4. Ready'
    BY <1>7, BeginReady DEF DrainCleanupFails
  <2> QED
    BY <2>3, <2>4 DEF TypeInv
<1>8. ASSUME NEW i \in Inputs, DrainReplied(i)
      PROVE  TypeInv'
  <2>1. gate' \in Gates /\ deliverer' \in [Deliverers -> Loops]
    <3>1. PICK launch \in Launches(promptRun, FALSE, gate) :
            deliverer' = launch.loops /\ gate' = PassEnds(launch.gate)
      BY <1>8 DEF DrainReplied
    <3>2. promptRun \in TurnIds \cup {None} /\ deliverer \in [Deliverers -> Loops]
      BY DEF TypeInv, TypeOK, TurnIds
    <3>3. /\ launch.loops \in [Deliverers -> Loops]
          /\ launch.gate \in Gates /\ SameHolder(gate, launch.gate)
      BY <1>0, <3>2, LaunchesType
    <3> QED
      BY <1>8, <3>1, <3>3, PoppedGate DEF DrainReplied, At, SameHolder
  <2>2. TypeOK'
    BY <1>8, <2>1
       DEF TypeInv, TypeOK, DrainReplied, Steps, Fates, Status, Active, TurnIds
  <2>3. Ready'
    BY <1>8, BeginReady DEF DrainReplied
  <2> QED
    BY <2>2, <2>3 DEF TypeInv
<1> QED
  BY <1>1, <1>2, <1>3, <1>4, <1>5, <1>6, <1>7, <1>8 DEF DrainSteps

\* cancelTurn, prioritizeTurn and reorderTurn, for one input.
EditSteps(kind, i) ==
  \/ EditRefused(kind, i) \/ EditAccepted(kind, i) \/ EditFails(kind, i)
  \/ ReorderCommitted(kind, i) \/ CancelCommitted(i) \/ PrioritizeCommitted(i)

\* Moving keeps the types: the move that was possible still is.
LEMMA EditType ==
  ASSUME TypeInv, NEW i \in Inputs, NEW kind \in MoveKinds \cup {"cancel"}, EditSteps(kind, i)
  PROVE  TypeInv'
<1>0. gate \in Gates
  BY DEF TypeInv, TypeOK
<1> USE DEF hostVars, queueVars, aliasVars, admissionVars, runtimeVars, ghostVars
<1>1. ASSUME EditRefused(kind, i)
      PROVE  TypeInv'
  <2>1. gate' \in Gates
    BY <1>0, <1>1, PoppedGate DEF EditRefused, Done, At
  <2>2. TypeOK'
    BY <1>1, <2>1 DEF TypeInv, TypeOK, EditRefused, Done, Steps
  <2>3. Ready'
    BY <1>1, BeginReady DEF EditRefused, Done
  <2> QED
    BY <2>2, <2>3 DEF TypeInv
<1>2. ASSUME EditAccepted(kind, i)
      PROVE  TypeInv'
  <2>1. gate' \in Gates /\ gate' = gate /\ gate.ops # <<>>
    BY <1>0, <1>2 DEF EditAccepted, At
  <2>2. TypeOK'
    BY <1>2, <2>1 DEF TypeInv, TypeOK, EditAccepted, Ensured, Steps, Status
  <2>3. Ready'
    <3>1. ASSUME NEW j \in Inputs, NEW other \in MoveKinds, Op(kind, i) = Op(other, j)
          PROVE  kind = other /\ i = j
      BY <3>1 DEF Op
    <3>2. Op(kind, i) # Drain
      BY DEF Op, Drain, MoveKinds
    <3> QED
      BY <1>2, <2>1, <3>1, <3>2 DEF EditAccepted, Editable, Ready, At, MoveKinds
  <2> QED
    BY <2>2, <2>3 DEF TypeInv
<1>3. ASSUME EditFails(kind, i)
      PROVE  TypeInv'
  <2>1. gate' \in Gates
    BY <1>0, <1>3, PoppedGate DEF EditFails, Done, At
  <2>2. spent' \in Budget
    BY <1>3, Spending DEF EditFails, TypeInv, TypeOK, Fails
  <2>3. TypeOK'
    BY <1>3, <2>1, <2>2 DEF TypeInv, TypeOK, EditFails, Done, Steps
  <2>4. Ready'
    BY <1>3, BeginReady DEF EditFails, Done
  <2> QED
    BY <2>3, <2>4 DEF TypeInv
<1>4. ASSUME ReorderCommitted(kind, i)
      PROVE  TypeInv'
  <2>1. gate' \in Gates
    BY <1>0, <1>4, PoppedGate, RequestedGate DEF ReorderCommitted, At
  <2>2. queue' \in Seq(Inputs)
    <3>1. CanReorder(queue, promoted, i, kind = "reorderUp")
      BY <1>4 DEF ReorderCommitted, At, TypeInv, Ready
    <3> QED
      BY <1>4, <3>1, ReorderedPlaces DEF ReorderCommitted, TypeInv, TypeOK
  <2>3. TypeOK'
    BY <1>4, <2>1, <2>2 DEF TypeInv, TypeOK, ReorderCommitted, Steps
  <2>4. Ready'
    BY <1>4, BeginReady DEF ReorderCommitted
  <2> QED
    BY <2>3, <2>4 DEF TypeInv
<1>5. ASSUME CancelCommitted(i)
      PROVE  TypeInv'
  <2>1. gate' \in Gates
    BY <1>0, <1>5, PoppedGate DEF CancelCommitted, Done, At
  <2>2. queue' \in Seq(Inputs)
    BY <1>5, WithoutPlaces DEF CancelCommitted, TypeInv, TypeOK
  <2>3. TypeOK'
    BY <1>5, <2>1, <2>2
       DEF TypeInv, TypeOK, CancelCommitted, Done, Steps, Fates, Status, Terminal
  <2>4. Ready'
    BY <1>5, BeginReady DEF CancelCommitted, Done
  <2> QED
    BY <2>3, <2>4 DEF TypeInv
<1>6. ASSUME PrioritizeCommitted(i)
      PROVE  TypeInv'
  <2>1. gate' \in Gates /\ deliverer' \in [Deliverers -> Loops]
    <3> DEFINE g == Requested(Popped(gate))
    <3>1. g \in Gates
      BY <1>0, <1>6, PoppedGate, RequestedGate DEF PrioritizeCommitted, At
    <3>2. deliverer \in [Deliverers -> Loops]
      BY DEF TypeInv, TypeOK
    <3>3. CASE ActiveRuntimeTurn = None
      BY <1>6, <3>1, <3>2, <3>3 DEF PrioritizeCommitted
    <3>4. CASE ActiveRuntimeTurn # None
      <4>1. ActiveRuntimeTurn \in TurnIds \cup {None}
        BY DEF ActiveRuntimeTurn, HasActiveTurn, TypeInv, TypeOK, TurnIds
      <4> HIDE DEF g
      <4>2. PICK launch \in Launches(ActiveRuntimeTurn, TRUE, g) :
              deliverer' = launch.loops /\ gate' = launch.gate
        BY <1>6, <3>4 DEF PrioritizeCommitted, g
      <4> QED
        BY <3>1, <3>2, <4>1, <4>2, LaunchesType
    <3> QED
      BY <3>3, <3>4
  <2>2. queue' \in Seq(Inputs)
    <3>1. i \in ToSet(queue) \ promoted
      BY <1>6 DEF PrioritizeCommitted, At, TypeInv, Ready
    <3> QED
      BY <1>6, <3>1, PromoteInType DEF PrioritizeCommitted, TypeInv, TypeOK
  <2>3. TypeOK'
    BY <1>6, <2>1, <2>2 DEF TypeInv, TypeOK, PrioritizeCommitted, Steps
  <2>4. Ready'
    BY <1>6, BeginReady DEF PrioritizeCommitted
  <2> QED
    BY <2>3, <2>4 DEF TypeInv
<1> QED
  BY <1>1, <1>2, <1>3, <1>4, <1>5, <1>6 DEF EditSteps

\* deliverPromotedBlock, for one loop.
DelivererSteps(d) ==
  \/ Reserved(d) \/ NothingToReserve(d) \/ SettledRefusal(d)
  \/ SettledAcceptance(d) \/ Cleaned(d) \/ CleanupFails(d) \/ DelivererStep(d)

\* Delivering keeps the types: what is reserved is the head of the queue.
LEMMA DelivererType ==
  ASSUME TypeInv, NEW d \in Deliverers, DelivererSteps(d)
  PROVE  TypeInv'
<1>0. gate \in Gates
  BY DEF TypeInv, TypeOK
<1> USE DEF hostVars, queueVars, aliasVars, admissionVars, runtimeVars, ghostVars
<1>1. ASSUME Reserved(d)
      PROVE  TypeInv'
  <2>1. gate' \in Gates
    BY <1>0, <1>1, PoppedGate DEF Reserved, Done, At
  <2>2. Head(queue) \in Inputs
    BY <1>1, HeadTailProperties DEF Reserved, CanInject, TypeInv, TypeOK
  <2>3. deliverer' \in [Deliverers -> Loops]
    BY <1>1, <2>2, LoopsMove DEF Reserved, Stages, TypeInv, TypeOK
  <2>4. TypeOK'
    BY <1>1, <2>1, <2>2, <2>3 DEF TypeInv, TypeOK, Reserved, Ensured, Done, Steps, Status
  <2>5. Ready'
    BY <1>1, BeginReady DEF Reserved, Done
  <2> QED
    BY <2>4, <2>5 DEF TypeInv
<1>2. ASSUME NothingToReserve(d)
      PROVE  TypeInv'
  <2>1. gate' \in Gates
    BY <1>0, <1>2, PoppedGate DEF NothingToReserve, Done, At
  <2>2. deliverer' \in [Deliverers -> Loops]
    BY <1>2, LoopsMove DEF NothingToReserve, Stages, TypeInv, TypeOK
  <2>3. TypeOK'
    BY <1>2, <2>1, <2>2 DEF TypeInv, TypeOK, NothingToReserve, Done, Steps
  <2>4. Ready'
    BY <1>2, BeginReady DEF NothingToReserve, Done
  <2> QED
    BY <2>3, <2>4 DEF TypeInv
<1>3. ASSUME SettledRefusal(d)
      PROVE  TypeInv'
  <2>1. gate' \in Gates
    BY <1>0, <1>3, PoppedGate, RequestedGate DEF SettledRefusal, At
  <2>2. deliverer' \in [Deliverers -> Loops]
    BY <1>3, LoopsMove DEF SettledRefusal, Stages, TypeInv, TypeOK
  <2>3. TypeOK'
    BY <1>3, <2>1, <2>2 DEF TypeInv, TypeOK, SettledRefusal, Steps
  <2>4. Ready'
    BY <1>3, BeginReady DEF SettledRefusal
  <2> QED
    BY <2>3, <2>4 DEF TypeInv
<1>4. ASSUME SettledAcceptance(d)
      PROVE  TypeInv'
  <2>1. gate' \in Gates /\ gate' = gate /\ gate.ops # <<>>
    BY <1>0, <1>4 DEF SettledAcceptance, At
  <2>2. TypeOK'
    BY <1>4, <2>1 DEF TypeInv, TypeOK, SettledAcceptance, Steps, Status, Terminal, Fates
  <2>3. Ready'
    <3>1. Op("settle", d) # Drain
      BY DEF Op, Drain
    <3> QED
      BY <1>4, <2>1, <3>1, WaitReady DEF SettledAcceptance, At, MoveKinds
  <2> QED
    BY <2>2, <2>3 DEF TypeInv
<1>5. ASSUME Cleaned(d)
      PROVE  TypeInv'
  <2>1. gate' \in Gates
    BY <1>0, <1>5, PoppedGate, RequestedGate, CalledGate, OpIsOp
       DEF Cleaned, At, DelivererKinds
  <2>2. queue' \in Seq(Inputs)
    BY <1>5, WithoutPlaces DEF Cleaned, TypeInv, TypeOK
  <2>3. deliverer' \in [Deliverers -> Loops]
    BY <1>5, LoopsMove DEF Cleaned, Stages, TypeInv, TypeOK
  <2>4. TypeOK'
    BY <1>5, <2>1, <2>2, <2>3 DEF TypeInv, TypeOK, Cleaned, Steps
  <2>5. Ready'
    BY <1>5, BeginReady DEF Cleaned
  <2> QED
    BY <2>4, <2>5 DEF TypeInv
<1>6. ASSUME CleanupFails(d)
      PROVE  TypeInv'
  <2>1. gate' \in Gates
    BY <1>0, <1>6, PoppedGate, RequestedGate DEF CleanupFails, At
  <2>2. spent' \in Budget
    BY <1>6, Spending DEF CleanupFails, TypeInv, TypeOK, Fails
  <2>3. deliverer' \in [Deliverers -> Loops]
    BY <1>6, LoopsMove DEF CleanupFails, Stages, TypeInv, TypeOK
  <2>4. TypeOK'
    BY <1>6, <2>1, <2>2, <2>3 DEF TypeInv, TypeOK, CleanupFails, Steps
  <2>5. Ready'
    BY <1>6, BeginReady DEF CleanupFails
  <2> QED
    BY <2>4, <2>5 DEF TypeInv
<1>7. ASSUME SteerTaken(d)
      PROVE  TypeInv'
  <2>1. gate' \in Gates /\ SameHolder(gate, gate')
    BY <1>0, <1>7, CalledGate, OpIsOp DEF SteerTaken, DelivererKinds
  <2>2. taken' \in [Inputs -> Nat]
    BY <1>7, Counted DEF SteerTaken, TypeInv, TypeOK
  <2>3. deliverer' \in [Deliverers -> Loops]
    BY <1>7, LoopsMove DEF SteerTaken, Stages, TypeInv, TypeOK
  <2>4. TypeOK'
    BY <1>7, <2>1, <2>2, <2>3 DEF TypeInv, TypeOK, SteerTaken
  <2>5. Ready'
    BY <1>7, <2>1, StillReady DEF TypeInv, SteerTaken
  <2> QED
    BY <2>4, <2>5 DEF TypeInv
<1>8. ASSUME SteerRefused(d)
      PROVE  TypeInv'
  <2>1. gate' \in Gates /\ SameHolder(gate, gate')
    BY <1>0, <1>8, CalledGate, OpIsOp DEF SteerRefused, DelivererKinds
  <2>2. deliverer' \in [Deliverers -> Loops]
    BY <1>8, LoopsMove DEF SteerRefused, Stages, TypeInv, TypeOK
  <2>3. TypeOK'
    BY <1>8, <2>1, <2>2 DEF TypeInv, TypeOK, SteerRefused
  <2>4. Ready'
    BY <1>8, <2>1, StillReady DEF TypeInv, SteerRefused
  <2> QED
    BY <2>3, <2>4 DEF TypeInv
<1>9. ASSUME RetryDelivery(d)
      PROVE  TypeInv'
  <2>1. gate' \in Gates /\ SameHolder(gate, gate')
    BY <1>0, <1>9, CalledGate, OpIsOp DEF RetryDelivery, DelivererKinds
  <2>2. deliverer' \in [Deliverers -> Loops]
    BY <1>9, LoopsMove DEF RetryDelivery, Stages, TypeInv, TypeOK
  <2>3. TypeOK'
    BY <1>9, <2>1, <2>2 DEF TypeInv, TypeOK, RetryDelivery
  <2>4. Ready'
    BY <1>9, <2>1, StillReady DEF TypeInv, RetryDelivery
  <2> QED
    BY <2>3, <2>4 DEF TypeInv
<1> QED
  BY <1>1, <1>2, <1>3, <1>4, <1>5, <1>6, <1>7, <1>8, <1>9
     DEF DelivererSteps, DelivererStep

\* What the runtime reports about one of its turns.
RunSteps(r) ==
  RunStep(r) \/ AskUser(r)

\* The events and settlements of a run keep the types.
LEMMA RunType ==
  ASSUME TypeInv, NEW r \in Runs, RunSteps(r)
  PROVE  TypeInv'
<1>0. gate \in Gates
  BY DEF TypeInv, TypeOK
<1> USE DEF hostVars, queueVars, aliasVars, admissionVars, runtimeVars, ghostVars
<1>1. ASSUME AgentStart(r)
      PROVE  TypeInv'
  <2>1. gate' \in Gates /\ SameHolder(gate, gate')
    BY <1>0, <1>1 DEF AgentStart, SameHolder
  <2>2. Resolved(r) \in TurnIds
    BY DEF Resolved, Adopts, TypeInv, TypeOK, TurnIds
  <2>3. alias' \in [Runs -> Inputs \cup {None}] /\ runtimeOf' \in [Inputs -> Runs \cup {None}]
    BY <1>1 DEF AgentStart, Adopt, Adopts, TypeInv, TypeOK
  <2>4. TypeOK'
    BY <1>1, <2>1, <2>2, <2>3 DEF TypeInv, TypeOK, AgentStart, Status, Active, RunLives
  <2>5. Ready'
    BY <1>1, <2>1, StillReady DEF TypeInv, AgentStart
  <2> QED
    BY <2>4, <2>5 DEF TypeInv
<1>2. ASSUME AgentEnd(r)
      PROVE  TypeInv'
  <2>1. gate' \in Gates /\ SameHolder(gate, gate')
    BY <1>0, <1>2, RequestedGate DEF AgentEnd, SameHolder, CloseTurn
  <2>2. Resolved(r) \in TurnIds
    BY DEF Resolved, Adopts, TypeInv, TypeOK, TurnIds
  <2>3. alias' \in [Runs -> Inputs \cup {None}] /\ runtimeOf' \in [Inputs -> Runs \cup {None}]
    BY <1>2 DEF AgentEnd, Adopt, Adopts, TypeInv, TypeOK
  <2>4. TypeOK'
    BY <1>2, <2>1, <2>2, <2>3
       DEF TypeInv, TypeOK, AgentEnd, CloseTurn, Status, Terminal, RunLives, Over
  <2>5. Ready'
    BY <1>2, <2>1, StillReady DEF TypeInv, AgentEnd
  <2> QED
    BY <2>4, <2>5 DEF TypeInv
<1>3. ASSUME AgentError(r)
      PROVE  TypeInv'
  <2>1. gate' \in Gates /\ SameHolder(gate, gate')
    BY <1>0, <1>3, RequestedGate DEF AgentError, SameHolder, CloseTurn
  <2>2. Resolved(r) \in TurnIds
    BY DEF Resolved, Adopts, TypeInv, TypeOK, TurnIds
  <2>3. alias' \in [Runs -> Inputs \cup {None}] /\ runtimeOf' \in [Inputs -> Runs \cup {None}]
    BY <1>3 DEF AgentError, Adopt, Adopts, TypeInv, TypeOK
  <2>4. TypeOK'
    BY <1>3, <2>1, <2>2, <2>3
       DEF TypeInv, TypeOK, AgentError, CloseTurn, Status, Terminal, RunLives, Over
  <2>5. Ready'
    BY <1>3, <2>1, StillReady DEF TypeInv, AgentError
  <2> QED
    BY <2>4, <2>5 DEF TypeInv
<1>4. ASSUME RunAborted(r)
      PROVE  TypeInv'
  <2>1. gate' \in Gates /\ SameHolder(gate, gate')
    BY <1>0, <1>4 DEF RunAborted, SameHolder
  <2>2. TypeOK'
    BY <1>4, <2>1 DEF TypeInv, TypeOK, RunAborted, RunLives, Over
  <2>3. Ready'
    BY <1>4, <2>1, StillReady DEF TypeInv, RunAborted
  <2> QED
    BY <2>2, <2>3 DEF TypeInv
<1>5. ASSUME Settle(r)
      PROVE  TypeInv'
  <2>1. gate' \in Gates /\ SameHolder(gate, gate')
    BY <1>0, <1>5, RequestedGate DEF Settle, SameHolder
  <2>2. Resolved(r) \in TurnIds
    BY DEF Resolved, Adopts, TypeInv, TypeOK, TurnIds
  <2>3. alias' \in [Runs -> Inputs \cup {None}] /\ runtimeOf' \in [Inputs -> Runs \cup {None}]
    BY <1>5 DEF Settle, Adopt, Adopts, TypeInv, TypeOK
  <2>4. TypeOK'
    BY <1>5, <2>1, <2>2, <2>3 DEF TypeInv, TypeOK, Settle, EndTurn, Status, Terminal, RunLives
  <2>5. Ready'
    BY <1>5, <2>1, StillReady DEF TypeInv, Settle
  <2> QED
    BY <2>4, <2>5 DEF TypeInv
<1>6. ASSUME AskUser(r)
      PROVE  TypeInv'
  <2>1. gate' \in Gates /\ SameHolder(gate, gate')
    BY <1>0, <1>6 DEF AskUser, SameHolder
  <2>2. Resolved(r) \in TurnIds
    BY DEF Resolved, Adopts, TypeInv, TypeOK, TurnIds
  <2>3. alias' \in [Runs -> Inputs \cup {None}] /\ runtimeOf' \in [Inputs -> Runs \cup {None}]
    BY <1>6 DEF AskUser, Adopt, Adopts, TypeInv, TypeOK
  <2>4. TypeOK'
    BY <1>6, <2>1, <2>2, <2>3 DEF TypeInv, TypeOK, AskUser, Status, Active
  <2>5. Ready'
    BY <1>6, <2>1, StillReady DEF TypeInv, AskUser
  <2> QED
    BY <2>4, <2>5 DEF TypeInv
<1> QED
  BY <1>1, <1>2, <1>3, <1>4, <1>5, <1>6 DEF RunSteps, RunStep, RunEnds

\* Everything else: answers, plans and crashes.
OtherSteps ==
  \/ \E t \in TurnIds : Answered(t)
  \/ ExternalEnter \/ ExternalBegin \/ ExternalLeave \/ PlanAwait
  \/ SessionChanged \/ StatusApplied \/ PlanLeave \/ Restart

\* So does everything else.
LEMMA OtherType ==
  ASSUME TypeInv, OtherSteps
  PROVE  TypeInv'
<1>0. gate \in Gates
  BY DEF TypeInv, TypeOK
<1> USE DEF hostVars, queueVars, aliasVars, admissionVars, runtimeVars, ghostVars
<1>1. ASSUME NEW t \in TurnIds, Answered(t)
      PROVE  TypeInv'
  <2>1. gate' \in Gates /\ SameHolder(gate, gate')
    BY <1>0, <1>1 DEF Answered, SameHolder
  <2>2. TypeOK'
    BY <1>1, <2>1 DEF TypeInv, TypeOK, Answered, Status, Active
  <2>3. Ready'
    BY <1>1, <2>1, StillReady DEF TypeInv, Answered
  <2> QED
    BY <2>2, <2>3 DEF TypeInv
<1>2. ASSUME ExternalEnter
      PROVE  TypeInv'
  <2>1. gate' \in Gates /\ SameHolder(gate, gate')
    BY <1>0, <1>2 DEF ExternalEnter, SameHolder
  <2>2. spent' \in Budget
    BY <1>2, Spending DEF ExternalEnter, TypeInv, TypeOK
  <2>3. TypeOK'
    BY <1>2, <2>1, <2>2 DEF TypeInv, TypeOK, ExternalEnter
  <2>4. Ready'
    BY <1>2, <2>1, StillReady DEF TypeInv, ExternalEnter
  <2> QED
    BY <2>3, <2>4 DEF TypeInv
<1>3. ASSUME ExternalBegin
      PROVE  TypeInv'
  <2>1. gate' \in Gates /\ SameHolder(gate, gate')
    BY <1>0, <1>3 DEF ExternalBegin, SameHolder
  <2>2. spent.runs + 1 \in Runs
    BY <1>3, NextRun DEF ExternalBegin
  <2>3. spent' \in Budget
    BY <1>3, Spending DEF ExternalBegin, TypeInv, TypeOK
  <2>4. TypeOK'
    BY <1>3, <2>1, <2>2, <2>3 DEF TypeInv, TypeOK, ExternalBegin, RunLives
  <2>5. Ready'
    BY <1>3, <2>1, StillReady DEF TypeInv, ExternalBegin
  <2> QED
    BY <2>4, <2>5 DEF TypeInv
<1>4. ASSUME ExternalLeave
      PROVE  TypeInv'
  <2>1. gate' \in Gates /\ SameHolder(gate, gate')
    BY <1>0, <1>4 DEF ExternalLeave, SameHolder
  <2>2. TypeOK'
    BY <1>4, <2>1 DEF TypeInv, TypeOK, ExternalLeave
  <2>3. Ready'
    BY <1>4, <2>1, StillReady DEF TypeInv, ExternalLeave
  <2> QED
    BY <2>2, <2>3 DEF TypeInv
<1>5. ASSUME PlanAwait
      PROVE  TypeInv'
  <2>1. gate' \in Gates /\ SameHolder(gate, gate')
    BY <1>0, <1>5 DEF PlanAwait, SameHolder
  <2>2. spent' \in Budget
    BY <1>5, Spending DEF PlanAwait, TypeInv, TypeOK
  <2>3. TypeOK'
    BY <1>5, <2>1, <2>2 DEF TypeInv, TypeOK, PlanAwait, Planning
  <2>4. Ready'
    BY <1>5, <2>1, StillReady DEF TypeInv, PlanAwait
  <2> QED
    BY <2>3, <2>4 DEF TypeInv
<1>6. ASSUME PlanLeave
      PROVE  TypeInv'
  <2>1. gate' \in Gates /\ SameHolder(gate, gate')
    BY <1>0, <1>6, RequestedGate DEF PlanLeave, SameHolder
  <2>2. TypeOK'
    BY <1>6, <2>1 DEF TypeInv, TypeOK, PlanLeave, Planning
  <2>3. Ready'
    BY <1>6, <2>1, StillReady DEF TypeInv, PlanLeave
  <2> QED
    BY <2>2, <2>3 DEF TypeInv
<1>7. ASSUME Restart
      PROVE  TypeInv'
  <2>1. gate' \in Gates
    BY <1>7, EmptySeq DEF Restart, Gates
  <2>2. spent' \in Budget
    BY <1>7, Spending DEF Restart, TypeInv, TypeOK
  <2>3. deliverer' \in [Deliverers -> Loops]
    BY <1>7, IdleLoop, LoopsMove DEF Restart, Stages, TypeInv, TypeOK
  <2>4. TypeOK'
    BY <1>7, <2>1, <2>2, <2>3 DEF TypeInv, TypeOK, Restart, Planning, Status, Steps, RunLives
  <2>5. Ready'
    BY <1>7, BeginReady DEF Restart
  <2> QED
    BY <2>4, <2>5 DEF TypeInv
<1>8. ASSUME SessionChanged \/ StatusApplied
      PROVE  TypeInv'
  <2>1. gate' \in Gates /\ SameHolder(gate, gate')
    BY <1>0, <1>8 DEF SessionChanged, StatusApplied, SameHolder
  <2>2. TypeOK'
    BY <1>8, <2>1 DEF TypeInv, TypeOK, SessionChanged, StatusApplied, Planning
  <2>3. Ready'
    BY <1>8, <2>1, StillReady DEF TypeInv, SessionChanged, StatusApplied
  <2> QED
    BY <2>2, <2>3 DEF TypeInv
<1> QED
  BY <1>1, <1>2, <1>3, <1>4, <1>5, <1>6, <1>7, <1>8 DEF OtherSteps

\* So does a stuttering step.
LEMMA StutterType ==
  ASSUME TypeInv, UNCHANGED vars
  PROVE  TypeInv'
  BY DEF TypeInv, TypeOK, Ready, vars, hostVars, queueVars, aliasVars, admissionVars,
         runtimeVars, ghostVars

\* The steps of Next, by the lemma that covers them.
LEMMA NextSteps ==
  ASSUME Next
  PROVE  \/ ClientSteps
         \/ \E i \in Inputs, kind \in StartKinds : StartSteps(kind, i)
         \/ \E i \in Inputs : PromptSteps(i)
         \/ DrainSteps
         \/ \E i \in Inputs, kind \in MoveKinds \cup {"cancel"} : EditSteps(kind, i)
         \/ \E d \in Deliverers : DelivererSteps(d)
         \/ \E r \in Runs : RunSteps(r)
         \/ OtherSteps
  BY DEF Next, AdmittedStep, StartSteps, PromptSteps, DrainSteps, EditSteps,
         DelivererSteps, RunSteps, OtherSteps, MoveKinds

\* TypeInv is inductive.
LEMMA TypeInvariant == Spec => []TypeInv
<1>1. Init => TypeInv
  BY InitType
<1>2. TypeInv /\ [Next]_vars => TypeInv'
  <2>1. ASSUME TypeInv, Next
        PROVE  TypeInv'
    BY <2>1, NextSteps, ClientType, StartType, PromptType, DrainType, EditType,
       DelivererType, RunType, OtherType
  <2> QED
    BY <2>1, StutterType
<1> QED
  BY <1>1, <1>2, PTL DEF Spec

\* Every variable keeps its type, whatever the constants are: no operation is
\* applied to a queue, an input or a run that is not there.
THEOREM TypeCorrect == Spec => []TypeOK
<1>1. TypeInv => TypeOK
  BY DEF TypeInv
<1> QED
  BY <1>1, TypeInvariant, PTL

-----------------------------------------------------------------------------
(* A held queue rests *)

\* While the queue is held no drain pass is removing its head either.
HeldInv ==
  held => /\ starting = None
          /\ \A i \in Inputs : delivery[i] = "no"
          /\ \A d \in Deliverers : deliverer[d].stage = "idle"
          /\ ~(step = "store" /\ Head(gate.ops) = Drain)

\* Steps outside the admission chain.
OutsideSteps ==
  \/ \E i \in Inputs :
       \/ \E kind \in StartKinds : StartTurn(kind, i)
       \/ \E kind \in MoveKinds \cup {"cancel"} : EditQueue(kind, i)
  \/ \E r \in Runs : RunSteps(r)
  \/ \E t \in TurnIds : Answered(t)
  \/ ExternalEnter \/ ExternalBegin \/ ExternalLeave
  \/ PlanAwait \/ SessionChanged \/ StatusApplied \/ PlanLeave

\* They may add operations to the chain and leave its head alone, and with it
\* what is being started, reserved and held.
LEMMA OutsideFrame ==
  ASSUME TypeInv, OutsideSteps
  PROVE  UNCHANGED <<held, starting, delivery, deliverer, step>> /\ SameHolder(gate, gate')
<1>0. gate \in Gates
  BY DEF TypeInv, TypeOK
<1> USE
   DEF hostVars, queueVars, aliasVars, admissionVars, runtimeVars, ghostVars, SameHolder
<1>1. ASSUME NEW i \in Inputs, NEW kind \in StartKinds, StartTurn(kind, i)
      PROVE  UNCHANGED <<held, starting, delivery, deliverer, step>> /\ SameHolder(gate, gate')
  BY <1>0, <1>1, CalledGate, OpIsOp DEF StartTurn, Call, InputKinds
<1>2. ASSUME NEW i \in Inputs, NEW kind \in MoveKinds \cup {"cancel"}, EditQueue(kind, i)
      PROVE  UNCHANGED <<held, starting, delivery, deliverer, step>> /\ SameHolder(gate, gate')
  BY <1>0, <1>2, CalledGate, OpIsOp DEF EditQueue, Call, InputKinds
<1>3. ASSUME NEW r \in Runs, RunSteps(r)
      PROVE  UNCHANGED <<held, starting, delivery, deliverer, step>> /\ SameHolder(gate, gate')
  <2>1. CASE AgentStart(r) \/ RunAborted(r) \/ AskUser(r)
    BY <2>1 DEF AgentStart, RunAborted, AskUser
  <2>2. CASE AgentEnd(r)
    BY <1>0, <2>2, RequestedGate DEF AgentEnd, CloseTurn
  <2>3. CASE AgentError(r)
    BY <1>0, <2>3, RequestedGate DEF AgentError, CloseTurn
  <2>4. CASE Settle(r)
    BY <1>0, <2>4, RequestedGate DEF Settle
  <2> QED
    BY <1>3, <2>1, <2>2, <2>3, <2>4 DEF RunSteps, RunStep, RunEnds
<1>4. ASSUME NEW t \in TurnIds, Answered(t)
      PROVE  UNCHANGED <<held, starting, delivery, deliverer, step>> /\ SameHolder(gate, gate')
  BY <1>4 DEF Answered
<1>5. CASE ExternalEnter \/ ExternalBegin \/ ExternalLeave \/ PlanAwait
           \/ SessionChanged \/ StatusApplied
  BY <1>5 DEF ExternalEnter, ExternalBegin, ExternalLeave, PlanAwait,
              SessionChanged, StatusApplied
<1>6. CASE PlanLeave
  BY <1>0, <1>6, RequestedGate DEF PlanLeave
<1> QED
  BY <1>1, <1>2, <1>3, <1>4, <1>5, <1>6 DEF OutsideSteps

\* Steps outside the chain keep a held queue at rest.
LEMMA OutsideHeld ==
  ASSUME TypeInv, HeldInv, OutsideSteps
  PROVE  HeldInv'
  BY OutsideFrame DEF HeldInv, TypeInv, Ready, SameHolder

\* Starting the input a client just submitted reserves and starts no queued one.
LEMMA StartHeld ==
  ASSUME TypeInv, HeldInv, NEW i \in Inputs, NEW kind \in StartKinds, StartSteps(kind, i)
  PROVE  HeldInv'
<1> USE DEF hostVars, queueVars, aliasVars, runtimeVars, ghostVars, HeldInv
<1>1. CASE StartRejected(kind, i)
  BY <1>1 DEF StartRejected, Done
<1>2. CASE StartPushes(kind, i)
  <2>1. Op(kind, i) # Drain
    BY DEF Op, Drain, StartKinds
  <2> QED
    BY <1>2, <2>1 DEF StartPushes, At
<1>3. CASE Pushed(kind, i)
  BY <1>3 DEF Pushed
<1>4. CASE PushFails(kind, i)
  BY <1>4 DEF PushFails, Done
<1>5. CASE StartPrompts(kind, i)
  BY <1>5 DEF StartPrompts
<1>6. CASE StartReplied(kind, i)
  BY <1>6 DEF StartReplied, Done
<1> QED
  BY <1>1, <1>2, <1>3, <1>4, <1>5, <1>6 DEF StartSteps

\* So does prompting, which concerns an input that left the queue.
LEMMA PromptHeld ==
  ASSUME TypeInv, HeldInv, NEW i \in Inputs, PromptSteps(i)
  PROVE  HeldInv'
<1> USE DEF hostVars, queueVars, aliasVars, runtimeVars, ghostVars, HeldInv
<1>1. CASE PromptRefused(i) \/ PromptFailed(i)
  BY <1>1 DEF PromptRefused, PromptFailed, PromptThrows
<1>2. CASE PromptBegins(i) \/ PromptAbandoned(i)
  BY <1>2 DEF PromptBegins, PromptAbandoned
<1>3. CASE SidecarTakes(i)
  BY <1>3 DEF SidecarTakes
<1> QED
  BY <1>1, <1>2, <1>3 DEF PromptSteps

\* A pass takes the head of a queue that is not held, and what it started before
\* is over once a restart holds the queue.
LEMMA DrainHeld ==
  ASSUME TypeInv, HeldInv, DrainSteps
  PROVE  HeldInv'
<1> USE DEF hostVars, queueVars, aliasVars, runtimeVars, ghostVars, HeldInv
<1>1. CASE DrainStops
  BY <1>1 DEF DrainStops, At
<1>2. CASE DrainTakesHead
  BY <1>2 DEF DrainTakesHead, DrainMayTake
<1>3. CASE DrainShifted
  BY <1>3 DEF DrainShifted, At
<1>4. CASE DrainShiftFails
  BY <1>4 DEF DrainShiftFails
<1>5. CASE DrainSkipsDelivered
  BY <1>5 DEF DrainSkipsDelivered
<1>6. CASE DrainCleaned
  BY <1>6 DEF DrainCleaned
<1>7. CASE DrainCleanupFails
  BY <1>7 DEF DrainCleanupFails
<1>8. ASSUME NEW i \in Inputs, DrainReplied(i)
      PROVE  HeldInv'
  BY <1>8, HostAssumption DEF DrainReplied
<1> QED
  BY <1>1, <1>2, <1>3, <1>4, <1>5, <1>6, <1>7, <1>8 DEF DrainSteps

\* Moving an input releases the queue; the other edits touch no head.
LEMMA EditHeld ==
  ASSUME TypeInv, HeldInv, NEW i \in Inputs, NEW kind \in MoveKinds \cup {"cancel"},
         EditSteps(kind, i)
  PROVE  HeldInv'
<1> USE DEF hostVars, queueVars, aliasVars, runtimeVars, ghostVars, HeldInv
<1>1. CASE EditRefused(kind, i)
  BY <1>1 DEF EditRefused, Done
<1>2. CASE EditAccepted(kind, i)
  <2>1. Op(kind, i) # Drain
    BY DEF Op, Drain, MoveKinds
  <2> QED
    BY <1>2, <2>1 DEF EditAccepted, At
<1>3. CASE EditFails(kind, i)
  BY <1>3 DEF EditFails, Done
<1>4. CASE ReorderCommitted(kind, i)
  BY <1>4 DEF ReorderCommitted
<1>5. CASE CancelCommitted(i)
  BY <1>5 DEF CancelCommitted, Done
<1>6. CASE PrioritizeCommitted(i)
  BY <1>6 DEF PrioritizeCommitted
<1> QED
  BY <1>1, <1>2, <1>3, <1>4, <1>5, <1>6 DEF EditSteps

\* No loop that moves is idle.
LEMMA DelivererHeld ==
  ASSUME TypeInv, HeldInv, NEW d \in Deliverers, DelivererSteps(d)
  PROVE  HeldInv'
<1> USE DEF hostVars, queueVars, aliasVars, runtimeVars, ghostVars, HeldInv
<1>1. ~held /\ held' = held
  BY DEF DelivererSteps, DelivererStep, Reserved, NothingToReserve, SettledRefusal,
         SettledAcceptance, Cleaned, CleanupFails, SteerTaken, SteerRefused, RetryDelivery
<1> QED
  BY <1>1

\* A restart stops everything it finds, and an attach releases the queue.
LEMMA RestartHeld ==
  ASSUME Restart \/ Attach
  PROVE  HeldInv'
<1>1. CASE Restart
  BY <1>1 DEF Restart, HeldInv, Idle
<1>2. CASE Attach
  BY <1>2 DEF Attach, HeldInv
<1> QED
  BY <1>1, <1>2

\* A queue restored after a restart is not touched before a controller shows up:
\* neither is an input started nor one delivered into a turn.
THEOREM HeldRests == Spec => []HeldQueueRests
<1>1. Init => HeldInv
  BY DEF Init, HeldInv
<1>2. TypeInv /\ HeldInv /\ [Next]_vars => HeldInv'
  <2>1. ASSUME TypeInv, HeldInv, Next
        PROVE  HeldInv'
    <3>1. \/ OutsideSteps \/ Restart \/ Attach \/ DrainSteps
          \/ \E i \in Inputs, kind \in StartKinds : StartSteps(kind, i)
          \/ \E i \in Inputs : PromptSteps(i)
          \/ \E i \in Inputs, kind \in MoveKinds \cup {"cancel"} : EditSteps(kind, i)
          \/ \E d \in Deliverers : DelivererSteps(d)
      BY <2>1, NextSteps DEF OutsideSteps, ClientSteps, OtherSteps
    <3> QED
      BY <2>1, <3>1, OutsideHeld, RestartHeld, DrainHeld, StartHeld, PromptHeld,
         EditHeld, DelivererHeld
  <2>2. ASSUME HeldInv, UNCHANGED vars
        PROVE  HeldInv'
    BY <2>2 DEF HeldInv, vars, hostVars, queueVars, aliasVars, admissionVars
  <2> QED
    BY <2>1, <2>2
<1>3. HeldInv => HeldQueueRests
  BY DEF HeldInv, HeldQueueRests
<1> QED
  BY <1>1, <1>2, <1>3, TypeInvariant, PTL DEF Spec
=============================================================================
