-------------------------- MODULE MCTurnTranscript -------------------------
(***************************************************************************)
(* TurnTranscript on small instances.                                      *)
(***************************************************************************)
EXTENDS TurnTranscript

OneReply == <<"r1">>
TwoReplies == <<"r1", "r2">>
=============================================================================
