-------------------------- MODULE MCRemoteSession ---------------------------
EXTENDS RemoteSession, TLC

Symmetry == Permutations(Prompts)
=============================================================================
