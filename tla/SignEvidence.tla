---------------------------- MODULE SignEvidence ----------------------------
(***************************************************************************)
(* What the signing flow promises, with everything else left out: a        *)
(* register per document that is written at most once, only after the      *)
(* signer has unlocked the document, together with the dossier (the audit  *)
(* actions printed into the signed PDF) that justifies it.                 *)
(***************************************************************************)

CONSTANTS Docs, Submissions, None, Events, Required

VARIABLES
    unlocked,  \* documents whose signer has proved the code
    sealed,    \* the submission that signed a document, or None
    dossier    \* what the signed PDF says happened

evidenceVars == <<unlocked, sealed, dossier>>

Init ==
    /\ unlocked = {}
    /\ sealed = [d \in Docs |-> None]
    /\ dossier = [d \in Docs |-> {}]

Unlock(d) ==
    /\ unlocked' = unlocked \cup {d}
    /\ UNCHANGED <<sealed, dossier>>

Seal(d, s, events) ==
    /\ d \in unlocked
    /\ sealed[d] = None
    /\ \A e \in Docs : sealed[e] # s
    /\ Required \subseteq events
    /\ sealed' = [sealed EXCEPT ![d] = s]
    /\ dossier' = [dossier EXCEPT ![d] = events]
    /\ UNCHANGED unlocked

Next ==
    \E d \in Docs :
        \/ Unlock(d)
        \/ \E s \in Submissions, events \in SUBSET Events : Seal(d, s, events)

Spec == Init /\ [][Next]_evidenceVars

=============================================================================
