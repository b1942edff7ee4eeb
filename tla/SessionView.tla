---------------------------- MODULE SessionView -----------------------------
(***************************************************************************)
(* What the remote session stream promises the user of a desktop: the moment *)
(* of the session's event history that the desktop has reached only moves    *)
(* forward, and whenever the desktop follows the session, the decision cards *)
(* on the screen are exactly those of that moment.  How the client gets      *)
(* there (events, replay, snapshots, reconnects) is left open.               *)
(***************************************************************************)
EXTENDS Naturals, Sequences

CONSTANTS Prompts, MaxEpochs

VARIABLES
    histories,   \* the durable events of each Host lifetime
    epoch,       \* the lifetime the Host is in
    moment,      \* [epoch, sequence]: how far the desktop has got
    cards,       \* the decision cards on the screen
    following    \* the desktop has a live stream of the session

promiseVars == <<histories, epoch, moment, cards, following>>

(* The prompts open after the first n events of a history.                   *)
OpenAfter(h, n) ==
    {p \in Prompts : \E i \in 1..n :
        /\ h[i] = <<"requested", p>>
        /\ \A j \in i..n : h[j] # <<"resolved", p>>}

CardsOf(m) == OpenAfter(histories[m.epoch], m.sequence)

PromiseInit ==
    /\ histories = [e \in 1..MaxEpochs |-> <<>>]
    /\ epoch = 1
    /\ moment = [epoch |-> 0, sequence |-> 0]
    /\ cards = {}
    /\ following = FALSE

HostPublishes(event) ==
    /\ histories' = [histories EXCEPT ![epoch] = Append(@, event)]
    /\ UNCHANGED <<epoch, moment, cards, following>>

(* The Host process starts again; a desktop that followed it no longer does. *)
HostStartsAgain ==
    /\ epoch < MaxEpochs
    /\ epoch' = epoch + 1
    /\ following' = FALSE
    /\ UNCHANGED <<histories, moment, cards>>

(* The desktop moves to a later moment of this lifetime or of a later one.   *)
DesktopMoves(e, n) ==
    /\ \/ e > moment.epoch
       \/ e = moment.epoch /\ n >= moment.sequence
    /\ moment' = [epoch |-> e, sequence |-> n]
    /\ following' \in BOOLEAN
    /\ following' => cards' = CardsOf(moment')
    /\ UNCHANGED <<histories, epoch>>

(* It starts or stops following where it is.                                 *)
DesktopTurns ==
    /\ following' \in BOOLEAN
    /\ following' => moment.epoch = epoch /\ cards' = CardsOf(moment)
    /\ UNCHANGED <<histories, epoch, moment>>

PromiseNext ==
    \/ \E p \in Prompts, kind \in {"requested", "resolved"} : HostPublishes(<<kind, p>>)
    \/ HostStartsAgain
    \/ \E e \in 1..epoch : \E n \in 0..Len(histories[e]) : DesktopMoves(e, n)
    \/ DesktopTurns

PromiseSpec == PromiseInit /\ [][PromiseNext]_promiseVars
=============================================================================
