----------------------------- MODULE MCSignFlow -----------------------------
(* Instances of SignFlow for TLC.                                          *)
EXTENDS SignFlow, TLC

\* The audit actions the checked properties mention.
MCTracked == {"sign.consent.checked", "sign.signature.drawn"}

\* Calls and submissions are interchangeable; no checked formula picks one.
MCSymmetry == Permutations(Calls) \cup Permutations(Submissions)

=============================================================================
