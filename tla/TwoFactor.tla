------------------------------ MODULE TwoFactor ------------------------------
(***************************************************************************)
(* The second factor of one user: enrolment and its recovery codes         *)
(* (totp.service.ts, totp.controller.ts) and their use by logins           *)
(* (auth.service.ts).  The codes are one JSON array in the user's row,     *)
(* read, compared one hash at a time, and written back without the code.   *)
(*                                                                         *)
(* The password is taken as right; whether a six-digit code is right is    *)
(* left open, as it depends on the clock and the device alone.             *)
(***************************************************************************)
EXTENDS Naturals, FiniteSets

CONSTANTS
    TfCalls,        \* concurrent calls
    Slots,          \* recovery codes of one enrolment, eight in the code
    MaxEnrolments   \* enrolments (a bound)

ASSUME TwoFactorAssumption ==
    /\ IsFiniteSet(TfCalls) /\ IsFiniteSet(Slots)
    /\ MaxEnrolments \in Nat

VARIABLES
    enabled,   \* totpSecret and totpEnabledAt are set
    offered,   \* a candidate secret was shown to the user
    codes,     \* totpRecoveryCodes
    enrolled,  \* enrolments so far (history)
    tf,        \* the calls
    spent,     \* how often each code was accepted (history)
    crossed    \* whether codes were written over others than those read (history)

tfVars == <<enabled, offered, codes, enrolled, tf, spent, crossed>>

\* Each enrolment has codes of its own.
Codes == (1..MaxEnrolments) \X Slots

TfSteps == {"idle", "login", "write", "disable"}
TfCall == [at: TfSteps, disabling: BOOLEAN, read: SUBSET Codes, used: SUBSET Codes]
TfIdle == [at |-> "idle", disabling |-> FALSE, read |-> {}, used |-> {}]

\* Codes held, codes spent and calls hold what their columns and variables may.
TwoFactorTypeOK ==
    /\ enabled \in BOOLEAN /\ offered \in BOOLEAN /\ crossed \in BOOLEAN
    /\ codes \in SUBSET Codes
    /\ enrolled \in 0..MaxEnrolments
    /\ tf \in [TfCalls -> TfCall]
    /\ \A c \in TfCalls : Cardinality(tf[c].used) <= 1
    /\ spent \in [Codes -> Nat]

TwoFactorInit ==
    /\ enabled = FALSE /\ offered = FALSE /\ crossed = FALSE
    /\ codes = {}
    /\ enrolled = 0
    /\ tf = [c \in TfCalls |-> TfIdle]
    /\ spent = [k \in Codes |-> 0]

TfAt(c, step) == tf[c].at = step
TfEnd(c) == tf' = [tf EXCEPT ![c] = TfIdle]

-----------------------------------------------------------------------------

\* enrollStart refuses who has the factor; nothing is stored.
EnrollStart ==
    /\ ~enabled
    /\ offered' = TRUE
    /\ UNCHANGED <<enabled, codes, enrolled, tf, spent, crossed>>

\* One update sets secret and codes, whether or not the factor is on by now.
EnrollConfirm ==
    /\ offered
    /\ enrolled < MaxEnrolments
    /\ enabled' = TRUE
    /\ enrolled' = enrolled + 1
    /\ codes' = {enrolled + 1} \X Slots
    /\ UNCHANGED <<offered, tf, spent, crossed>>

\* Without the factor, or without a code, login ends here.
Login(c) ==
    /\ TfAt(c, "idle")
    /\ enabled
    /\ tf' = [tf EXCEPT ![c].at = "login"]
    /\ UNCHANGED <<enabled, offered, codes, enrolled, spent, crossed>>

\* A six-digit code at login: right or wrong, the call ends.
LoginWithTotp(c) ==
    /\ TfAt(c, "login")
    /\ TfEnd(c)
    /\ UNCHANGED <<enabled, offered, codes, enrolled, spent, crossed>>

\* The user's array is read and compared.
Matching(c, k, disabling) ==
    /\ k \in codes
    /\ tf' = [tf EXCEPT ![c] = [at |-> "write", disabling |-> disabling,
                                read |-> codes, used |-> {k}]]
    /\ UNCHANGED <<enabled, offered, codes, enrolled, spent, crossed>>

\* verifyTotpCode asks for the secret first.
LoginWithRecovery(c, k) ==
    /\ TfAt(c, "login")
    /\ enabled
    /\ Matching(c, k, FALSE)

\* A right six-digit code; a wrong one ends the call.
DisableWithTotp(c) ==
    /\ TfAt(c, "idle")
    /\ enabled
    /\ tf' = [tf EXCEPT ![c].at = "disable"]
    /\ UNCHANGED <<enabled, offered, codes, enrolled, spent, crossed>>

\* consumeRecoveryCode does not look at the secret.
DisableWithRecovery(c, k) ==
    /\ TfAt(c, "idle")
    /\ Matching(c, k, TRUE)

\* Faulty variant: the code stays in the array.
KeepCode(c) ==
    /\ TfAt(c, "write")
    /\ spent' = [k \in Codes |-> spent[k] + (IF k \in tf[c].used THEN 1 ELSE 0)]
    /\ crossed' = (crossed \/ codes # tf[c].read)
    /\ tf' = [tf EXCEPT ![c] =
          IF tf[c].disabling THEN [TfIdle EXCEPT !.at = "disable"] ELSE TfIdle]
    /\ UNCHANGED <<enabled, offered, codes, enrolled>>

\* What was read is written back without the code, over whatever is there.
WriteRemaining(c) ==
    /\ TfAt(c, "write")
    /\ codes' = tf[c].read \ tf[c].used
    /\ spent' = [k \in Codes |-> spent[k] + (IF k \in tf[c].used THEN 1 ELSE 0)]
    /\ crossed' = (crossed \/ codes # tf[c].read)
    /\ tf' = [tf EXCEPT ![c] =
          IF tf[c].disabling THEN [TfIdle EXCEPT !.at = "disable"] ELSE TfIdle]
    /\ UNCHANGED <<enabled, offered, enrolled>>

\* disable.
Disable(c) ==
    /\ TfAt(c, "disable")
    /\ enabled' = FALSE
    /\ codes' = {}
    /\ TfEnd(c)
    /\ UNCHANGED <<offered, enrolled, spent, crossed>>

\* An await throws, or the code is wrong.
TfFail(c) ==
    /\ ~TfAt(c, "idle")
    /\ TfEnd(c)
    /\ UNCHANGED <<enabled, offered, codes, enrolled, spent, crossed>>

TwoFactorNext ==
    \/ EnrollStart \/ EnrollConfirm
    \/ \E c \in TfCalls :
          \/ Login(c) \/ LoginWithTotp(c) \/ DisableWithTotp(c)
          \/ \E k \in Codes : LoginWithRecovery(c, k) \/ DisableWithRecovery(c, k)
          \/ WriteRemaining(c) \/ Disable(c) \/ TfFail(c)

TwoFactorSpec == TwoFactorInit /\ [][TwoFactorNext]_tfVars

-----------------------------------------------------------------------------
(* Properties.                                                             *)

\* totp.service.ts 110-112: each code is truly one-time.  It is as long as no
\* array was written over another than the one it was computed from: a code is
\* accepted once and gone then, and those that are held are of the last
\* enrolment, through every enrolment and disabling.
RecoveryOnce ==
    ~crossed =>
        \A k \in Codes :
            /\ spent[k] + (IF k \in codes THEN 1 ELSE 0) <= 1
            /\ k \in codes => k[1] = enrolled

=============================================================================
