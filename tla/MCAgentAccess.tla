---------------------------- MODULE MCAgentAccess ----------------------------
(***************************************************************************)
(* Agents, keys and requests are alike: every permutation of each is a     *)
(* symmetry, since all properties are invariants or properties of a step.  *)
(***************************************************************************)
EXTENDS AgentAccess, TLC

MCSymmetry == Permutations(Agents) \cup Permutations(Keys)
              \cup Permutations(Requests) \cup Permutations(Changes)
=============================================================================
