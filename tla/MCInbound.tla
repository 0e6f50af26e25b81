----------------------------- MODULE MCInbound -----------------------------
(* Instances of Inbound for TLC.                                           *)
EXTENDS Inbound, TLC

CONSTANT p1

MCFrom == [m \in Messages |-> p1]

\* Messages, and workers, are interchangeable.
MCSymmetry == Permutations(Messages) \cup Permutations(Workers)

=============================================================================
