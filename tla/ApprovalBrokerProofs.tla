------------------------ MODULE ApprovalBrokerProofs ------------------------
(***************************************************************************)
(* Proofs about ApprovalBroker, for every set of requests, decisions and    *)
(* approvers and any number of turns.                                        *)
(*                                                                           *)
(* The safety of approvals rests on host-core giving a gate away once.  A    *)
(* caller claims a request from the moment host-core accepted its decision   *)
(* until for ever after it was told so; a claimed request's gate is decided, *)
(* with the decision of the claim, and two claims are one (Claimed).  What   *)
(* the broker lists depends on the asker of a gate: it is a turn that has    *)
(* started, so a gate never waits for a turn that starts later (Started).    *)
(***************************************************************************)
EXTENDS ApprovalBroker, TLAPS

(* Caller c has decided r: it was told so, or the reply is on its way.       *)
Claims(r, c) == <<r, c>> \in won \/ (call[c].stage = "ok" /\ call[c].request = r)

(* A claim is true and unique.                                               *)
Claimed ==
    /\ \A r \in Requests, c \in Callers : Claims(r, c) => gate[r] \in Decisions
    /\ \A r \in Requests, c1, c2 \in Callers :
            Claims(r, c1) /\ Claims(r, c2) => c1 = c2
    /\ \A c \in Callers :
            call[c].stage = "ok" => gate[call[c].request] = call[c].decision

(* A gate is asked for by a turn that has started.                           *)
Started ==
    /\ \A r \in Requests :
            gate[r] # "none" => asker[r] \in Turns /\ status[asker[r]] # "new"
    /\ active # 0 => status[active] # "new"

USE CardAssumption, DecisionAssumption, NoneAssumption, TurnsAssumption

(* The values a call takes, for the steps that need no more than those.      *)
LEMMA CallValues ==
    ASSUME TypeOK, NEW c \in Callers, call[c].stage # "idle"
    PROVE  /\ call[c] \in [stage : {"sent", "ok", "refused"}, request : Requests,
                           decision : Decisions, turn : 0 .. MaxTurns]
           /\ call[c].request \in Requests
           /\ call[c].decision \in Decisions
  BY DEF TypeOK, Quiet

(* No decision is one of the other states of a gate.                         *)
LEMMA DecisionsAreFinal ==
    "none" \notin Decisions /\ "asked" \notin Decisions /\ "canceled" \notin Decisions
  BY DecisionAssumption

(* The methods keep the types of the variables they assign.                  *)
LEMMA OpenedTypes ==
    ASSUME TypeOK, NEW rs \in SUBSET Requests, NEW t \in 0 .. MaxTurns, Opened(rs, t)
    PROVE  /\ pending' \subseteq Requests
           /\ turnOf' \in [Requests -> 0 .. MaxTurns]
           /\ pending \subseteq pending'
  BY DEF TypeOK, Opened

(* So does settle.                                                          *)
LEMMA SettledTypes ==
    ASSUME TypeOK, NEW rs \in SUBSET Requests, NEW outcome \in Outcomes,
           Settled(rs, outcome)
    PROVE  /\ pending' \subseteq Requests
           /\ turnOf' \in [Requests -> 0 .. MaxTurns]
           /\ overdue' \subseteq pending'
           /\ results' \in [Requests -> Outcomes \cup {None}]
  BY DEF TypeOK, Settled

(* What is remembered of a request is an outcome.                            *)
LEMMA OutcomeTypes ==
    /\ Expired \in Outcomes /\ Canceled \in Outcomes
    /\ \A d \in Decisions : Resolved(d) \in Outcomes
  BY DEF Expired, Canceled, Resolved, Outcomes

(* So does afterApproval.                                                    *)
LEMMA AfterApprovalTypes ==
    ASSUME TypeOK, NEW t, AfterApproval(t)
    PROVE  status' \in [Turns -> {"new", "running", "waiting_approval",
                              "waiting_input", "closed"}]
  BY DEF TypeOK, AfterApproval

(* The initial values are typed ...                                         *)
LEMMA InitTypes == Init => TypeOK
<1> SUFFICES ASSUME Init PROVE TypeOK
  OBVIOUS
<1>1. 0 \in 0 .. MaxTurns
  OBVIOUS
<1>2. call \in [Callers -> {Quiet}] /\ listing = NotListing
  BY DEF Init
<1>3. NotListing \in [stage : {"idle", "sent", "answered"},
                      open : SUBSET Requests, turn : 0 .. MaxTurns]
  BY <1>1 DEF NotListing
<1>4. shadowed \in BOOLEAN
  BY DEF Init
<1> QED
  BY <1>1, <1>2, <1>3, <1>4 DEF Init, TypeOK

(* ... and every action keeps the types.                                     *)
LEMMA StepTypes == TypeOK /\ [Next]_vars => TypeOK'
<1> SUFFICES ASSUME TypeOK, [Next]_vars PROVE TypeOK'
  OBVIOUS
<1> USE DEF core, broker, turns, asking
<1>1. ASSUME NEW r \in Requests, Ask(r) PROVE TypeOK'
  BY <1>1 DEF TypeOK, Ask, Turns
<1>2. ASSUME NEW r \in Requests, CancelGate(r) PROVE TypeOK'
  BY <1>2 DEF TypeOK, CancelGate
<1>3. ASSUME NEW c \in Callers, ResolveGate(c) PROVE TypeOK'
  <2> DEFINE r == call[c].request
  <2>1. /\ r \in Requests /\ call[c].decision \in Decisions
        /\ call[c] \in [stage : {"sent", "ok", "refused"}, request : Requests,
                        decision : Decisions, turn : 0 .. MaxTurns]
    BY <1>3, CallValues DEF ResolveGate
  <2>2. gate' \in [Requests -> Decisions \cup {"none", "asked", "canceled"}]
    BY <1>3, <2>1 DEF TypeOK, ResolveGate
  <2>3. \A st \in {"ok", "refused"} : [call EXCEPT ![c].stage = st] \in
            [Callers -> {Quiet} \cup
                [stage : {"sent", "ok", "refused"}, request : Requests,
                 decision : Decisions, turn : 0 .. MaxTurns]]
    BY <2>1 DEF TypeOK
  <2>4. call' \in [Callers -> {Quiet} \cup
                [stage : {"sent", "ok", "refused"}, request : Requests,
                 decision : Decisions, turn : 0 .. MaxTurns]]
    BY <1>3, <2>3 DEF ResolveGate
  <2> QED
    BY <1>3, <2>2, <2>4 DEF TypeOK, ResolveGate
<1>4. CASE ListGates
  BY <1>4 DEF TypeOK, ListGates
<1>5. ASSUME NEW t \in Turns, TurnStarts(t) PROVE TypeOK'
  <2>1. shadowed' \in BOOLEAN
    BY <1>5 DEF TurnStarts
  <2> QED
    BY <1>5, <2>1 DEF TypeOK, TurnStarts, Turns
<1>6. ASSUME NEW r \in Requests, Notified(r) PROVE TypeOK'
  <2>1. {r} \in SUBSET Requests /\ active \in 0 .. MaxTurns
    BY DEF TypeOK
  <2>2. /\ pending' \subseteq Requests
        /\ turnOf' \in [Requests -> 0 .. MaxTurns]
        /\ pending \subseteq pending'
    BY <1>6, <2>1, OpenedTypes DEF Notified
  <2>3. status' \in [Turns -> {"new", "running", "waiting_approval",
                              "waiting_input", "closed"}]
    BY <1>6 DEF TypeOK, Notified
  <2> QED
    BY <1>6, <2>2, <2>3 DEF TypeOK, Notified
<1>7. ASSUME NEW r \in Requests, Expire(r) PROVE TypeOK'
  BY <1>7 DEF TypeOK, Expire
<1>8. CASE TurnCloses
  <2>1. pending \in SUBSET Requests /\ 0 \in 0 .. MaxTurns
    BY DEF TypeOK
  <2>2. /\ pending' \subseteq Requests
        /\ turnOf' \in [Requests -> 0 .. MaxTurns]
        /\ overdue' \subseteq pending'
        /\ results' \in [Requests -> Outcomes \cup {None}]
    BY <1>8, <2>1, SettledTypes, OutcomeTypes DEF TurnCloses
  <2>3. status' \in [Turns -> {"new", "running", "waiting_approval",
                              "waiting_input", "closed"}]
    BY <1>8 DEF TypeOK, TurnCloses
  <2> QED
    BY <1>8, <2>1, <2>2, <2>3 DEF TypeOK, TurnCloses
<1>9. CASE Attach
  BY <1>9 DEF TypeOK, Attach
<1>10. CASE Attached
  <2>1. listing.open \in SUBSET Requests /\ listing.turn \in 0 .. MaxTurns
    BY DEF TypeOK
  <2>2. NotListing \in [stage : {"idle", "sent", "answered"},
                        open : SUBSET Requests, turn : 0 .. MaxTurns]
    BY DEF NotListing
  <2> QED
    BY <1>10, <2>1, <2>2, OpenedTypes DEF TypeOK, Attached
<1>11. ASSUME NEW a \in Approvers, NEW r \in Requests, NEW d \in Decisions,
              Respond(a, r, d)
       PROVE  TypeOK'
  BY <1>11 DEF TypeOK, Respond, Callers
<1>12. ASSUME NEW a \in Approvers, NEW r \in Requests, RespondLate(a, r)
       PROVE  TypeOK'
  BY <1>12, SettledTypes, OutcomeTypes DEF TypeOK, RespondLate
<1>13. ASSUME NEW a \in Approvers, Responded(a) PROVE TypeOK'
  <2>1. a \in Callers /\ call[a].request \in Requests /\ call[a].decision \in Decisions
    BY <1>13, CallValues DEF Responded, Callers
  <2>2. /\ pending' \subseteq Requests
        /\ turnOf' \in [Requests -> 0 .. MaxTurns]
        /\ overdue' \subseteq pending'
        /\ results' \in [Requests -> Outcomes \cup {None}]
    BY <1>13, <2>1, SettledTypes, OutcomeTypes DEF Responded
  <2>3. status' \in [Turns -> {"new", "running", "waiting_approval",
                              "waiting_input", "closed"}]
    BY <1>13, AfterApprovalTypes DEF Responded
  <2>4. won' \subseteq Requests \X Callers
    BY <1>13, <2>1 DEF TypeOK, Responded
  <2> QED
    BY <1>13, <2>2, <2>3, <2>4 DEF TypeOK, Responded
<1>14. ASSUME NEW a \in Approvers, RespondRefused(a) PROVE TypeOK'
  BY <1>14 DEF TypeOK, RespondRefused, Callers
<1>15. ASSUME NEW r \in Requests, NEW d \in Decisions, CardAnswers(r, d)
       PROVE  TypeOK'
  BY <1>15 DEF TypeOK, CardAnswers, Callers
<1>16. CASE CardAnswered
  <2>1. Card \in Callers /\ call[Card].request \in Requests
        /\ call[Card].decision \in Decisions
    BY <1>16, CallValues DEF CardAnswered, Callers
  <2>2. /\ pending' \subseteq Requests
        /\ turnOf' \in [Requests -> 0 .. MaxTurns]
        /\ overdue' \subseteq pending'
        /\ results' \in [Requests -> Outcomes \cup {None}]
    BY <1>16, <2>1, SettledTypes, OutcomeTypes DEF TypeOK, CardAnswered
  <2>3. status' \in [Turns -> {"new", "running", "waiting_approval",
                              "waiting_input", "closed"}]
    BY <1>16, AfterApprovalTypes DEF TypeOK, CardAnswered
  <2>4. won' \subseteq Requests \X Callers
    BY <1>16, <2>1 DEF TypeOK, CardAnswered
  <2> QED
    BY <1>16, <2>2, <2>3, <2>4 DEF TypeOK, CardAnswered
<1>17. CASE CardRefused
  BY <1>17 DEF TypeOK, CardRefused, Callers
<1>18. ASSUME NEW q \in Questions, NEW t \in Turns, Asked(q, t) PROVE TypeOK'
  <2>1. question' \in [Questions -> 0 .. MaxTurns]
    BY <1>18 DEF TypeOK, Asked, Turns
  <2>2. shadowed' \in BOOLEAN
    BY <1>18 DEF Asked
  <2> QED
    BY <1>18, <2>1, <2>2 DEF TypeOK, Asked
<1>19. ASSUME NEW q \in Questions, RespondInput(q) \/ InputRefused(q) PROVE TypeOK'
  BY <1>19 DEF TypeOK, RespondInput, InputRefused
<1>20. ASSUME NEW q \in Questions, InputTaken(q) PROVE TypeOK'
  BY <1>20 DEF TypeOK, InputTaken
<1>21. CASE UNCHANGED vars
  BY <1>21 DEF TypeOK, vars
<1> QED
  BY <1>1, <1>2, <1>3, <1>4, <1>5, <1>6, <1>7, <1>8, <1>9, <1>10, <1>11, <1>12,
     <1>13, <1>14, <1>15, <1>16, <1>17, <1>18, <1>19, <1>20, <1>21
     DEF Next, CoreSteps, HostSteps, RemoteSteps, CardSteps, InputSteps

\* The types of the variables; only an open request is overdue.
THEOREM TypeCorrect == Spec => []TypeOK
<1> QED
  BY InitTypes, StepTypes, PTL DEF Spec

-----------------------------------------------------------------------------
(* A gate that was decided stays as it was decided.                          *)
LEMMA GateIsFinal ==
    ASSUME TypeOK, [Next]_vars, NEW r \in Requests, gate[r] \in Decisions
    PROVE  gate'[r] = gate[r]
<1>1. gate[r] # "none" /\ gate[r] # "asked"
  BY DecisionsAreFinal
<1>2. ASSUME NEW q \in Requests, Ask(q) \/ CancelGate(q) PROVE gate'[r] = gate[r]
  BY <1>1, <1>2 DEF TypeOK, Ask, CancelGate
<1>3. ASSUME NEW c \in Callers, ResolveGate(c) PROVE gate'[r] = gate[r]
  BY <1>1, <1>3 DEF TypeOK, ResolveGate
<1>4. CASE UNCHANGED gate
  BY <1>4
<1> QED
  BY <1>2, <1>3, <1>4
     DEF Next, CoreSteps, HostSteps, RemoteSteps, CardSteps, InputSteps, vars, core, ListGates,
         TurnStarts, Notified, Expire, TurnCloses, Attach, Attached, Respond,
         RespondLate, Responded, RespondRefused, CardAnswers, CardAnswered,
         CardRefused, Asked, RespondInput, InputTaken, InputRefused

(* Claims stay unique and true: a gate is asked before it is claimed.        *)
LEMMA StepClaimed == TypeOK /\ Claimed /\ [Next]_vars => Claimed'
<1> SUFFICES ASSUME TypeOK, Claimed, [Next]_vars PROVE Claimed'
  OBVIOUS
<1> USE DEF core, broker, turns, asking, Claims
<1>1. CASE UNCHANGED <<gate, call, won>>
  BY <1>1 DEF Claimed
<1>2. ASSUME NEW q \in Requests, Ask(q) \/ CancelGate(q) PROVE Claimed'
  <2>1. UNCHANGED <<call, won>> /\ gate[q] \notin Decisions
        /\ \A r \in Requests : r # q => gate'[r] = gate[r]
    BY <1>2, DecisionsAreFinal DEF TypeOK, Ask, CancelGate
  <2>2. \A c \in Callers : ~ Claims(q, c)
    BY <2>1 DEF Claimed
  <2>3. \A c \in Callers : call[c].stage = "ok" => call[c].request \in Requests
    BY CallValues
  <2> QED
    BY <2>1, <2>2, <2>3 DEF Claimed
<1>3. ASSUME NEW c \in Callers, ResolveGate(c) PROVE Claimed'
  <2> DEFINE r == call[c].request
  <2>1. r \in Requests /\ call[c].decision \in Decisions /\ won' = won
        /\ call[c] \in [stage : {"sent", "ok", "refused"}, request : Requests,
                        decision : Decisions, turn : 0 .. MaxTurns]
    BY <1>3, CallValues DEF ResolveGate
  <2>2. CASE gate[r] = "asked"
    <3>1. /\ gate' = [gate EXCEPT ![r] = call[c].decision]
          /\ call' = [call EXCEPT ![c].stage = "ok"]
      BY <1>3, <2>2 DEF ResolveGate
    <3>2. \A b \in Callers : ~ Claims(r, b)
      BY <2>1, <2>2, DecisionsAreFinal DEF Claimed
    <3>3. gate'[r] = call[c].decision /\ \A q \in Requests : q # r => gate'[q] = gate[q]
      BY <2>1, <3>1 DEF TypeOK
    <3>4. /\ call'[c].stage = "ok" /\ call'[c].request = r
          /\ call'[c].decision = call[c].decision
          /\ \A b \in Callers : b # c => call'[b] = call[b]
      BY <2>1, <3>1 DEF TypeOK
    <3>5. \A b \in Callers : call[b].stage = "ok" => call[b].request \in Requests
      BY CallValues
    <3>6. \A q \in Requests, b \in Callers :
            Claims(q, b)' <=> Claims(q, b) \/ (q = r /\ b = c)
      BY <1>3, <2>1, <3>4 DEF ResolveGate
    <3>7. (\A q \in Requests, b \in Callers : Claims(q, b) => gate[q] \in Decisions)'
      BY <2>1, <3>2, <3>3, <3>6 DEF Claimed
    <3>8. (\A q \in Requests, b1, b2 \in Callers :
              Claims(q, b1) /\ Claims(q, b2) => b1 = b2)'
      BY <3>2, <3>6 DEF Claimed
    <3>9. (\A b \in Callers :
              call[b].stage = "ok" => gate[call[b].request] = call[b].decision)'
      <4> SUFFICES ASSUME NEW b \in Callers, call'[b].stage = "ok"
                   PROVE  gate'[call'[b].request] = call'[b].decision
        OBVIOUS
      <4>1. CASE b = c
        BY <4>1, <3>3, <3>4
      <4>2. CASE b # c
        <5>1. call[b].stage = "ok" /\ call'[b] = call[b]
          BY <4>2, <3>4
        <5>2. call[b].request \in Requests /\ call[b].request # r
          BY <5>1, <3>2, <3>5
        <5> QED
          BY <5>1, <5>2, <3>3 DEF Claimed
      <4> QED
        BY <4>1, <4>2
    <3> QED
      BY <3>7, <3>8, <3>9 DEF Claimed
  <2>3. CASE gate[r] # "asked"
    <3>1. gate' = gate /\ call' = [call EXCEPT ![c].stage = "refused"]
      BY <1>3, <2>3 DEF ResolveGate
    <3>2. call'[c].stage = "refused" /\ \A b \in Callers : b # c => call'[b] = call[b]
      BY <2>1, <3>1 DEF TypeOK
    <3> QED
      BY <1>3, <2>1, <3>1, <3>2 DEF Claimed, ResolveGate
  <2> QED
    BY <2>2, <2>3
<1>4. ASSUME NEW c \in Callers, NEW x,
             call[c].stage # "ok", x.stage # "ok",
             call' = [call EXCEPT ![c] = x], UNCHANGED <<gate, won>>
      PROVE  Claimed'
  <2>1. call'[c] = x /\ \A b \in Callers : b # c => call'[b] = call[b]
    BY <1>4 DEF TypeOK
  <2> QED
    BY <1>4, <2>1 DEF Claimed
<1>5. ASSUME NEW c \in Callers, call[c].stage = "ok",
             call' = [call EXCEPT ![c] = Quiet],
             won' = won \cup {<<call[c].request, c>>}, UNCHANGED gate
      PROVE  Claimed'
  <2>1. call'[c].stage # "ok" /\ \A b \in Callers : b # c => call'[b] = call[b]
    BY <1>5 DEF TypeOK, Quiet
  <2>2. \A q \in Requests, b \in Callers : Claims(q, b)' <=> Claims(q, b)
    BY <1>5, <2>1
  <2> QED
    BY <1>5, <2>1, <2>2 DEF Claimed
<1>6. ASSUME NEW a \in Approvers, NEW r \in Requests, NEW d \in Decisions,
             Respond(a, r, d)
      PROVE  Claimed'
  <2> DEFINE x == [stage |-> "sent", request |-> r, decision |-> d, turn |-> turnOf[r]]
  <2>1. /\ a \in Callers /\ call[a].stage # "ok" /\ x.stage # "ok"
        /\ call' = [call EXCEPT ![a] = x] /\ UNCHANGED <<gate, won>>
    BY <1>6 DEF Respond, Quiet, Callers
  <2> QED
    BY <1>4, <2>1
<1>7. ASSUME NEW a \in Approvers, Responded(a) PROVE Claimed'
  BY <1>5, <1>7 DEF Responded, Callers
<1>8. ASSUME NEW a \in Approvers, RespondRefused(a) PROVE Claimed'
  BY <1>4, <1>8 DEF RespondRefused, Quiet, Callers
<1>9. ASSUME NEW r \in Requests, NEW d \in Decisions, CardAnswers(r, d)
      PROVE  Claimed'
  <2> DEFINE x == [stage |-> "sent", request |-> r, decision |-> d, turn |-> 0]
  <2>1. /\ Card \in Callers /\ call[Card].stage # "ok" /\ x.stage # "ok"
        /\ call' = [call EXCEPT ![Card] = x] /\ UNCHANGED <<gate, won>>
    BY <1>9 DEF CardAnswers, Quiet, Callers
  <2> QED
    BY <1>4, <2>1
<1>10. CASE CardAnswered
  BY <1>5, <1>10 DEF CardAnswered, Callers
<1>11. CASE CardRefused
  BY <1>4, <1>11 DEF CardRefused, Quiet, Callers
<1> QED
  BY <1>1, <1>2, <1>3, <1>6, <1>7, <1>8, <1>9, <1>10, <1>11
     DEF Next, CoreSteps, HostSteps, RemoteSteps, CardSteps, InputSteps, vars, ListGates,
         TurnStarts, Notified, Expire, TurnCloses, Attach, Attached, RespondLate,
         Asked, RespondInput, InputTaken, InputRefused

(* An outcome is new only when it was claimed, and the claim is true.        *)
LEMMA StepReported ==
    TypeOK /\ Claimed /\ ReportedIsExecuted /\ [Next]_vars => ReportedIsExecuted'
<1> SUFFICES ASSUME TypeOK, Claimed, ReportedIsExecuted, [Next]_vars,
                    NEW r \in Requests,
                    results'[r] \in [status : {"resolved"}, decision : Decisions]
             PROVE  gate'[r] = results'[r].decision
  BY DEF ReportedIsExecuted
<1> USE DEF core, broker, turns, asking
<1> DEFINE Kept == results'[r] = results[r]
           Won == \E c \in Callers :
                    /\ call[c].stage = "ok" /\ call[c].request = r
                    /\ results'[r] = Resolved(call[c].decision)
<1>1. CASE Kept
  <2>1. gate[r] = results[r].decision /\ results[r].decision \in Decisions
    BY <1>1 DEF ReportedIsExecuted
  <2> QED
    BY <1>1, <2>1, GateIsFinal
<1>2. CASE Won
  <2>1. PICK c \in Callers : /\ call[c].stage = "ok" /\ call[c].request = r
                             /\ results'[r] = Resolved(call[c].decision)
    BY <1>2
  <2>2. gate[r] = call[c].decision /\ call[c].decision \in Decisions
    BY <2>1, CallValues DEF Claimed
  <2> QED
    BY <2>1, <2>2, GateIsFinal DEF Resolved
<1>3. CASE UNCHANGED results
  BY <1>1, <1>3
<1>4. ASSUME NEW rs \in SUBSET Requests, NEW outcome, Settled(rs, outcome),
             outcome.status # "resolved"
      PROVE  Kept
  BY <1>4 DEF Settled
<1>5. CASE TurnCloses
  BY <1>1, <1>4, <1>5 DEF TurnCloses, Canceled, TypeOK
<1>6. ASSUME NEW a \in Approvers, NEW q \in Requests, RespondLate(a, q)
      PROVE  Kept
  BY <1>4, <1>6 DEF RespondLate, Expired
<1>7. ASSUME NEW a \in Approvers, Responded(a) PROVE Kept \/ Won
  BY <1>7 DEF Responded, Settled, Callers
<1>8. CASE CardAnswered
  <2>1. Kept \/ Won
    BY <1>8 DEF CardAnswered, Settled, Callers
  <2> QED
    BY <2>1, <1>1, <1>2
<1> QED
  BY <1>1, <1>2, <1>3, <1>5, <1>6, <1>7, <1>8
     DEF Next, CoreSteps, HostSteps, RemoteSteps, CardSteps, InputSteps, vars, Ask, CancelGate,
         ResolveGate, ListGates, TurnStarts, Notified, Expire, Attach, Attached,
         Respond, RespondRefused, CardAnswers, CardRefused, Asked, RespondInput,
         InputTaken, InputRefused

(* Nothing is claimed or reported at the start.                              *)
LEMMA InitClaimed == Init => Claimed /\ ReportedIsExecuted
<1> SUFFICES ASSUME Init PROVE Claimed /\ ReportedIsExecuted
  OBVIOUS
<1>1. \A c \in Callers : call[c].stage # "ok"
  BY DEF Init, Quiet
<1>2. Claimed
  BY <1>1 DEF Init, Claimed, Claims
<1>3. ReportedIsExecuted
  BY OutcomeAssumption DEF Init, ReportedIsExecuted, Outcomes
<1> QED
  BY <1>2, <1>3

\* What is reported as resolved is the decision the tool call was released with.
THEOREM ReportsAreTrue == Spec => []ReportedIsExecuted
<1> DEFINE I == TypeOK /\ Claimed /\ ReportedIsExecuted
<1>1. Init => I
  BY InitTypes, InitClaimed
<1>2. I /\ [Next]_vars => I'
  BY StepTypes, StepClaimed, StepReported
<1> QED
  BY <1>1, <1>2, PTL DEF Spec

\* One request is decided once.
THEOREM FirstDecisionWins == Spec => []OneWinner
<1> DEFINE I == TypeOK /\ Claimed
<1>1. Init => I
  BY InitTypes, InitClaimed
<1>2. I /\ [Next]_vars => I'
  BY StepTypes, StepClaimed
<1>3. I => OneWinner
  BY DEF Claimed, Claims, OneWinner
<1> QED
  BY <1>1, <1>2, <1>3, PTL DEF Spec

-----------------------------------------------------------------------------
(* Who asks has started.                                                     *)
LEMMA InitStarted ==
    Init => Started /\ WaitingCallIsAnswerable /\ WaitingCallIsShown
  BY DEF Init, Started, WaitingCallIsAnswerable, WaitingCallIsShown

(* A turn that has started stays so.                                         *)
LEMMA StepStarted == TypeOK /\ Started /\ [Next]_vars => Started'
<1> SUFFICES ASSUME TypeOK, Started, [Next]_vars PROVE Started'
  OBVIOUS
<1> USE DEF core, broker, turns, asking
<1>1. ASSUME NEW r \in Requests, Ask(r) PROVE Started'
  BY <1>1 DEF TypeOK, Started, Ask, Turns
<1>2. ASSUME \A r \in Requests : gate'[r] # "none" => gate[r] # "none",
             UNCHANGED asker,
             \A t \in Turns : status[t] # "new" => status'[t] # "new",
             active' # 0 => active' \in Turns /\ status'[active'] # "new"
      PROVE  Started'
  BY <1>2 DEF Started
<1>3. active # 0 => active \in Turns
  BY DEF TypeOK, Turns
<1>4. CASE UNCHANGED <<core, turns>>
  BY <1>3, <1>4 DEF Started
<1>5. ASSUME NEW r \in Requests, CancelGate(r) PROVE Started'
  BY <1>2, <1>3, <1>5 DEF TypeOK, Started, CancelGate
<1>6. ASSUME NEW c \in Callers, ResolveGate(c) PROVE Started'
  <2>1. call[c].request \in Requests
    BY <1>6, CallValues DEF ResolveGate
  <2>2. \A r \in Requests : gate'[r] # "none" => gate[r] # "none"
    BY <1>6, <2>1 DEF TypeOK, ResolveGate
  <2> QED
    BY <1>2, <1>3, <1>6, <2>2 DEF Started, ResolveGate
<1>7. ASSUME NEW t \in Turns, TurnStarts(t) PROVE Started'
  BY <1>2, <1>7 DEF TypeOK, Started, TurnStarts
<1>8. ASSUME NEW r \in Requests, Notified(r) PROVE Started'
  BY <1>2, <1>3, <1>8 DEF TypeOK, Started, Notified
<1>9. CASE TurnCloses
  BY <1>2, <1>3, <1>9 DEF TypeOK, Started, TurnCloses
<1>10. ASSUME NEW t, AfterApproval(t), UNCHANGED <<core, active>> PROVE Started'
  BY <1>2, <1>3, <1>10 DEF TypeOK, Started, AfterApproval
<1>11. ASSUME NEW a \in Approvers, Responded(a) PROVE Started'
  BY <1>10, <1>11 DEF Responded
<1>12. CASE CardAnswered
  BY <1>4, <1>10, <1>12 DEF CardAnswered
<1>13. ASSUME NEW q \in Questions, NEW t \in Turns, Asked(q, t) PROVE Started'
  BY <1>2, <1>3, <1>13 DEF TypeOK, Started, Asked
<1>14. ASSUME NEW q \in Questions, InputTaken(q) PROVE Started'
  BY <1>2, <1>3, <1>14 DEF TypeOK, Started, InputTaken
<1> QED
  BY <1>1, <1>4, <1>5, <1>6, <1>7, <1>8, <1>9, <1>11, <1>12, <1>13, <1>14
     DEF Next, CoreSteps, HostSteps, RemoteSteps, CardSteps, InputSteps, vars, ListGates,
         Expire, Attach, Attached, Respond, RespondLate, RespondRefused,
         CardAnswers, CardRefused, RespondInput, InputRefused

(* The calls that wait: their gates are open, their notifications arrived    *)
(* and their turn is active.                                                 *)
Waits(r) == gate[r] = "asked" /\ r \notin told /\ asker[r] = active

(* What the two invariants say of one call.                                  *)
Open(r) == r \in pending \/ results[r] = Expired

Visible(r) ==
    r \notin overdue /\ results[r] # Expired /\ ~shadowed
        => status[active] = "waiting_approval"

(* The invariants and what they say of the calls that wait.                  *)
LEMMA CallByCall ==
    WaitingCallIsAnswerable /\ WaitingCallIsShown
        <=> \A r \in Requests : Waits(r) => Open(r) /\ Visible(r)
  BY DEF WaitingCallIsAnswerable, WaitingCallIsShown, Waits, Open, Visible

(* A call that waited stays listed and shown when its request is untouched   *)
(* and the turn waits on, or a question shadows it.                          *)
LEMMA Undisturbed ==
    ASSUME NEW r \in Requests, Open(r), Visible(r),
           results'[r] = results[r], r \in pending => r \in pending',
           r \in overdue => r \in overdue',
           \/ status'[active] = status[active] /\ shadowed' = shadowed
           \/ status'[active] = "waiting_approval"
           \/ shadowed',
           UNCHANGED active
    PROVE  Open(r)' /\ Visible(r)'
  BY DEF Open, Visible

(* A step that closes a request has decided its gate, let its deadline pass  *)
(* or closed its turn; no other step hides a call that waits: a question     *)
(* shadows it, and the answer of an older one finds the turn waiting for     *)
(* approval and leaves it so.                                                *)
LEMMA StepWaiting ==
    /\ TypeOK /\ Claimed /\ Started
    /\ WaitingCallIsAnswerable /\ WaitingCallIsShown /\ [Next]_vars
    => WaitingCallIsAnswerable' /\ WaitingCallIsShown'
<1> SUFFICES ASSUME TypeOK, Claimed, Started,
                    \A r \in Requests : Waits(r) => Open(r) /\ Visible(r),
                    [Next]_vars, NEW r \in Requests, Waits(r)'
             PROVE  Open(r)' /\ Visible(r)'
  BY CallByCall DEF WaitingCallIsAnswerable, WaitingCallIsShown, Waits, Open, Visible
<1> DEFINE Shown == Open(r)' /\ Visible(r)'
<1> USE DEF core, broker, turns, asking
<1>1. ASSUME NEW q \in Requests, Ask(q) PROVE Shown
  BY <1>1, Undisturbed DEF TypeOK, Ask, Waits
<1>2. ASSUME NEW q \in Requests, CancelGate(q) PROVE Shown
  BY <1>2, Undisturbed DEF TypeOK, CancelGate, Waits
<1>3. ASSUME NEW c \in Callers, ResolveGate(c) PROVE Shown
  <2>1. call[c].request \in Requests /\ call[c].decision \in Decisions
    BY <1>3, CallValues DEF ResolveGate
  <2>2. gate[r] = "asked"
    BY <1>3, <2>1, DecisionsAreFinal DEF TypeOK, ResolveGate, Waits
  <2> QED
    BY <1>3, <2>2, Undisturbed DEF ResolveGate, Waits
<1>4. ASSUME NEW t \in Turns, TurnStarts(t) PROVE FALSE
  BY <1>4 DEF TypeOK, Started, TurnStarts, Waits
<1>5. ASSUME NEW q \in Requests, Notified(q) PROVE Shown
  <2>1. active \in Turns
    BY <1>5 DEF Started, Notified, Waits
  <2>2. status'[active] = "waiting_approval"
    BY <1>5, <2>1 DEF Notified
  <2>3. CASE r = q
    BY <1>5, <2>2, <2>3 DEF Notified, Opened, Open, Visible
  <2>4. CASE r # q
    <3>1. Waits(r)
      BY <1>5, <2>4 DEF Notified, Waits
    <3> QED
      BY <1>5, <2>2, <3>1, Undisturbed DEF Notified, Opened
  <2> QED
    BY <2>3, <2>4
<1>6. ASSUME NEW q \in Requests, Expire(q) PROVE Shown
  BY <1>6, Undisturbed DEF Expire, Waits
<1>7. CASE TurnCloses
  <2>1. gate[r] = "asked" /\ asker[r] = 0
    BY <1>7 DEF TurnCloses, Waits
  <2>2. asker[r] \in Turns
    BY <2>1 DEF Started
  <2> QED
    BY <2>1, <2>2 DEF Turns
<1>8. CASE Attached
  BY <1>8, Undisturbed DEF Attached, Opened, Waits
<1>9. ASSUME NEW a \in Approvers, NEW q \in Requests, RespondLate(a, q) PROVE Shown
  <2>1. CASE r = q
    BY <1>9, <2>1 DEF TypeOK, RespondLate, Settled, Open, Visible
  <2>2. CASE r # q
    BY <1>9, <2>2, Undisturbed DEF RespondLate, Settled, Waits
  <2> QED
    BY <2>1, <2>2
<1>10. ASSUME NEW c \in Callers, call[c].stage = "ok",
              Settled({call[c].request}, Resolved(call[c].decision)),
              NEW t, AfterApproval(t), UNCHANGED <<core, told, active, shadowed>>
       PROVE  Shown
  <2>1. call[c].request \in Requests /\ call[c].decision \in Decisions
    BY <1>10, CallValues
  <2>2. r # call[c].request
    BY <1>10, <2>1, DecisionsAreFinal DEF Claimed, Waits
  <2>3. /\ Waits(r) /\ results'[r] = results[r]
        /\ r \in pending <=> r \in pending'
        /\ r \in overdue <=> r \in overdue'
    BY <1>10, <2>2 DEF Settled, Waits
  <2>4. active \in Turns
    BY <2>3 DEF Started, Waits
  <2>5. CASE pending' \subseteq overdue'
    BY <1>10, <2>3, <2>5 DEF Open, Visible
  <2>6. CASE ~ (pending' \subseteq overdue')
    <3>1. status'[active] = status[active]
      BY <1>10, <2>4, <2>6 DEF AfterApproval
    <3> QED
      BY <1>10, <2>3, <3>1, Undisturbed
  <2> QED
    BY <2>5, <2>6
<1>11. ASSUME NEW a \in Approvers, Responded(a) PROVE Shown
  BY <1>10, <1>11 DEF Responded, Callers
<1>12. CASE CardAnswered
  <2>1. CASE UNCHANGED <<broker, status>>
    BY <1>12, <2>1, Undisturbed DEF CardAnswered, Waits
  <2>2. CASE ~ UNCHANGED <<broker, status>>
    BY <1>10, <1>12, <2>2 DEF CardAnswered, Callers
  <2> QED
    BY <2>1, <2>2
<1>13. CASE UNCHANGED <<core, told, broker, turns>>
  BY <1>13, Undisturbed DEF Waits
<1>14. ASSUME NEW q \in Questions, NEW t \in Turns, Asked(q, t) PROVE Shown
  <2>1. CASE t = active
    BY <1>14, <2>1, Undisturbed DEF Asked, Waits
  <2>2. CASE t # active
    <3>1. status'[active] = status[active] /\ shadowed' = shadowed
      BY <1>14, <2>2 DEF TypeOK, Asked
    <3> QED
      BY <1>14, <3>1, Undisturbed DEF Asked, Waits
  <2> QED
    BY <2>1, <2>2
<1>15. ASSUME NEW q \in Questions, InputTaken(q) PROVE Shown
  <2>1. Waits(r) /\ Open(r) /\ Visible(r)
    BY <1>15 DEF InputTaken, Waits
  <2>2. active \in Turns
    BY <2>1 DEF Started, Waits
  <2>3. CASE status[active] = "waiting_approval"
    <3>1. status'[active] = status[active]
      BY <1>15, <2>2, <2>3 DEF InputTaken
    <3> QED
      BY <1>15, <2>1, <3>1, Undisturbed DEF InputTaken
  <2>4. CASE status[active] # "waiting_approval"
    BY <1>15, <2>1, <2>4 DEF InputTaken, Open, Visible
  <2> QED
    BY <2>3, <2>4
<1> QED
  BY <1>1, <1>2, <1>3, <1>4, <1>5, <1>6, <1>7, <1>8, <1>9, <1>11, <1>12, <1>13,
     <1>14, <1>15
     DEF Next, CoreSteps, HostSteps, RemoteSteps, CardSteps, InputSteps, vars, ListGates,
         Attach, Respond, RespondRefused, CardAnswers, CardRefused, RespondInput,
         InputRefused

(* The invariant behind the two theorems below.                              *)
LEMMA WaitingInvariant ==
    Spec => [](WaitingCallIsAnswerable /\ WaitingCallIsShown)
<1> DEFINE I == /\ TypeOK /\ Claimed /\ Started
                /\ WaitingCallIsAnswerable /\ WaitingCallIsShown
<1>1. Init => I
  BY InitTypes, InitClaimed, InitStarted
<1>2. I /\ [Next]_vars => I'
  BY StepTypes, StepClaimed, StepStarted, StepWaiting
<1> QED
  BY <1>1, <1>2, PTL DEF Spec

\* A tool call that waits can be answered.
THEOREM WaitingCallsAreOpen == Spec => []WaitingCallIsAnswerable
<1> QED
  BY WaitingInvariant, PTL

\* The turn of a tool call that waits is shown to wait, unless it asked the user
\* something after its last approval request.
THEOREM WaitingCallsAreVisible == Spec => []WaitingCallIsShown
<1> QED
  BY WaitingInvariant, PTL
=============================================================================
