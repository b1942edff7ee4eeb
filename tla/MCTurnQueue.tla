---------------------------- MODULE MCTurnQueue ----------------------------
EXTENDS TurnQueue, TLC

\* Turn ids and keys are interchangeable.
Symmetry == Permutations(Ids) \cup Permutations(Keys)
=============================================================================
