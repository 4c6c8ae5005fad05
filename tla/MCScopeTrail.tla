----------------------------- MODULE MCScopeTrail -----------------------------
(* Instances of ScopeTrail for TLC. *)
EXTENDS ScopeTrail, TLC

\* Contexts and tokens are interchangeable.
Symmetry == Permutations(Contexts) \cup Permutations(Tokens)
=============================================================================
