----------------------------- MODULE MCSessions -----------------------------
(* Instances of Sessions for TLC.                                          *)
EXTENDS Sessions, TLC

CONSTANT t1

MCTenantOf == [u \in Users |-> t1]

\* Tokens, links and calls are interchangeable; no checked formula picks one.
MCSymmetry == Permutations(Tokens) \cup Permutations(Links) \cup Permutations(Calls)

=============================================================================
