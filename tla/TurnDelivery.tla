---------------------------- MODULE TurnDelivery ----------------------------
(***************************************************************************)
(* What the Agent Host promises the clients that submit input to a session *)
(* and never sees a restart: an input is taken by the runtime at most      *)
(* once, what the client was told last is consistent with that, and an     *)
(* input reported as queued does not stay queued for ever.                 *)
(***************************************************************************)
EXTENDS Naturals

CONSTANT Inputs

VARIABLES
  fate,   \* what the client of the input was told last
  taken   \* how often the runtime took the input

Init ==
  /\ fate = [i \in Inputs |-> "new"]
  /\ taken = [i \in Inputs |-> 0]

Told(i, from, to) ==
  /\ fate[i] \in from
  /\ fate' = [fate EXCEPT ![i] = to]
  /\ UNCHANGED taken

Submit(i) == Told(i, {"new"}, "asked")
Enqueue(i) == Told(i, {"asked"}, "queued") /\ taken[i] = 0

\* The answer of a prompt whose reply was lost may be an error although the
\* runtime took the input.
Reject(i) == Told(i, {"asked"}, "rejected")
Fail(i) == Told(i, {"queued"}, "failed")

\* A new turn may answer the client that asked, or start a queued input.
Start(i) == taken[i] = 1 /\ Told(i, {"asked", "queued"}, "started")
Inject(i) == taken[i] = 1 /\ Told(i, {"queued"}, "injected")
Cancel(i) == taken[i] = 0 /\ Told(i, {"queued"}, "canceled")

Take(i) ==
  /\ fate[i] \in {"asked", "queued"}
  /\ taken[i] = 0
  /\ taken' = [taken EXCEPT ![i] = 1]
  /\ UNCHANGED fate

Leave(i) == Start(i) \/ Inject(i) \/ Fail(i) \/ Cancel(i)

Next == \E i \in Inputs : Submit(i) \/ Enqueue(i) \/ Reject(i) \/ Take(i) \/ Leave(i)

Spec == Init /\ [][Next]_<<fate, taken>>

FairSpec == Spec /\ \A i \in Inputs : WF_<<fate, taken>>(Leave(i))

=============================================================================
