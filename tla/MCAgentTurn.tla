---------------------------- MODULE MCAgentTurn ----------------------------
(* Finite instances of AgentTurn: constants are given in the .cfg files.     *)
EXTENDS AgentTurn, TLC

Symmetry == Permutations(Turns)
=============================================================================
