---------------------------- MODULE OfficeProofs ----------------------------
(***************************************************************************)
(* Theorems about the accounts of an office's staff: recovery codes, what  *)
(* a session may do, and push subscriptions; and about the office as a     *)
(* whole, which is a run of each of its parts.                             *)
(***************************************************************************)
EXTENDS MCOffice, BillingProofs, DeskProofs, CustomerProofs

-----------------------------------------------------------------------------
(* Recovery codes are one-time as long as no array was written over         *)
(* another.  Each step is described by what it does to the array, to the    *)
(* codes spent and to one call.                                             *)

\* Codes of the enrolments so far.
Issued == {k \in Codes : k[1] <= enrolled}

\* Codes held, read or spent were issued, and a call uses a code that it read.
CodesIssued ==
    /\ codes \subseteq Issued
    /\ \A k \in Codes : spent[k] > 0 => k \in Issued
    /\ \A c \in TfCalls : tf[c].read \subseteq Issued /\ tf[c].used \subseteq tf[c].read

TfInv == TwoFactorTypeOK /\ CodesIssued /\ RecoveryOnce

-----------------------------------------------------------------------------

\* A call goes on to x.
TfBecomes(c, x) == tf' = [tf EXCEPT ![c] = x]

\* A call that may be: used is empty or one of the codes read.
Fair(x) ==
    /\ x \in TfCall
    /\ Cardinality(x.used) <= 1
    /\ x.read \subseteq Issued
    /\ x.used \subseteq x.read

LEMMA OneCode == Cardinality({}) = 0 /\ \A k : Cardinality({k}) = 1
  BY FS_EmptySet, FS_Singleton

LEMMA FairCalls ==
    ASSUME TfInv
    PROVE  /\ \A c \in TfCalls : Fair(tf[c])
           /\ \A step \in TfSteps : Fair([TfIdle EXCEPT !.at = step])
           /\ Fair(TfIdle)
           /\ \A c \in TfCalls : \A step \in TfSteps : Fair([tf[c] EXCEPT !.at = step])
  <1>1. ASSUME NEW c \in TfCalls PROVE Fair(tf[c])
    BY <1>1 DEF TfInv, TwoFactorTypeOK, CodesIssued, Fair
  <1>2. ASSUME NEW step \in TfSteps PROVE Fair([TfIdle EXCEPT !.at = step])
    <2>. DEFINE x == [TfIdle EXCEPT !.at = step]
    <2>1. x.used = {} /\ x.read = {} /\ x \in TfCall
      BY <1>2 DEF TfIdle, TfCall
    <2>2. Cardinality(x.used) = 0
      BY <2>1, OneCode
    <2>. HIDE DEF x
    <2>3. Fair(x)
      BY <2>1, <2>2 DEF Fair
    <2>. QED  BY <2>3 DEF x
  <1>3. Fair(TfIdle)
    <2>1. TfIdle.used = {} /\ TfIdle.read = {} /\ TfIdle \in TfCall
      BY DEF TfIdle, TfCall, TfSteps
    <2>2. Cardinality(TfIdle.used) = 0
      BY <2>1, OneCode
    <2>. QED  BY <2>1, <2>2 DEF Fair
  <1>4. ASSUME NEW c \in TfCalls, NEW step \in TfSteps PROVE Fair([tf[c] EXCEPT !.at = step])
    BY <1>1 DEF Fair, TfCall
  <1>. QED  BY <1>1, <1>2, <1>3, <1>4

\* When the row stays as it is and a call goes on to one that may be, all is kept.
LEMMA QuietStep ==
    ASSUME TfInv, NEW c \in TfCalls, NEW x, Fair(x), TfBecomes(c, x),
           UNCHANGED <<enabled, codes, enrolled, spent, crossed>>, offered' \in BOOLEAN
    PROVE  TfInv'
  <1>1. tf \in [TfCalls -> TfCall]
    BY DEF TfInv, TwoFactorTypeOK
  <1>2. tf' \in [TfCalls -> TfCall] /\ \A d \in TfCalls : tf'[d] = IF d = c THEN x ELSE tf[d]
    BY <1>1 DEF TfBecomes, Fair
  <1>3. TwoFactorTypeOK'
    BY <1>2 DEF TfInv, TwoFactorTypeOK, Fair
  <1>4. Issued' = Issued
    BY DEF Issued
  <1>5. CodesIssued'
    BY <1>2, <1>4 DEF TfInv, CodesIssued, Fair
  <1>6. RecoveryOnce'
    BY DEF TfInv, RecoveryOnce
  <1>. QED  BY <1>3, <1>5, <1>6 DEF TfInv

LEMMA QuietActions ==
    ASSUME TfInv, NEW c \in TfCalls,
           \/ Login(c) \/ LoginWithTotp(c) \/ DisableWithTotp(c) \/ TfFail(c)
           \/ \E k \in Codes : LoginWithRecovery(c, k) \/ DisableWithRecovery(c, k)
    PROVE  TfInv'
  <1>0. offered' = offered /\ offered \in BOOLEAN
    BY DEF Login, LoginWithTotp, DisableWithTotp, TfFail, LoginWithRecovery,
           DisableWithRecovery, Matching, TfInv, TwoFactorTypeOK
  <1>1. UNCHANGED <<enabled, codes, enrolled, spent, crossed>>
    BY DEF Login, LoginWithTotp, DisableWithTotp, TfFail, LoginWithRecovery,
           DisableWithRecovery, Matching
  <1>2. \E x : Fair(x) /\ TfBecomes(c, x)
    <2>1. CASE Login(c) \/ DisableWithTotp(c)
      <3>1. \E step \in TfSteps : tf' = [tf EXCEPT ![c].at = step]
        BY <2>1 DEF Login, DisableWithTotp, TfSteps
      <3>. QED  BY <3>1, FairCalls DEF TfBecomes
    <2>2. CASE LoginWithTotp(c) \/ TfFail(c)
      BY <2>2, FairCalls DEF LoginWithTotp, TfFail, TfEnd, TfBecomes
    <2>3. ASSUME NEW k \in Codes, LoginWithRecovery(c, k) \/ DisableWithRecovery(c, k)
          PROVE  \E x : Fair(x) /\ TfBecomes(c, x)
      <3>1. PICK b \in BOOLEAN : Matching(c, k, b)
        BY <2>3 DEF LoginWithRecovery, DisableWithRecovery
      <3>. DEFINE x == [at |-> "write", disabling |-> b, read |-> codes, used |-> {k}]
      <3>2. k \in codes /\ TfBecomes(c, x)
        BY <3>1 DEF Matching, TfBecomes
      <3>3. codes \subseteq Codes /\ codes \subseteq Issued
        BY DEF TfInv, TwoFactorTypeOK, CodesIssued
      <3>4. Fair(x)
        BY <3>2, <3>3, OneCode DEF Fair, TfCall, TfSteps
      <3>. QED  BY <3>2, <3>4
    <2>. QED  BY <2>1, <2>2, <2>3
  <1>. QED  BY <1>0, <1>1, <1>2, QuietStep

-----------------------------------------------------------------------------

\* A code written away was held, so it had not been spent and is not held any more.
LEMMA WriteStep ==
    ASSUME TfInv, NEW c \in TfCalls, WriteRemaining(c)
    PROVE  TfInv'
  <1>. DEFINE x == IF tf[c].disabling THEN [TfIdle EXCEPT !.at = "disable"] ELSE TfIdle
              read == tf[c].read
              taken == tf[c].used
  <1>1. /\ codes' = read \ taken
        /\ spent' = [k \in Codes |-> spent[k] + (IF k \in taken THEN 1 ELSE 0)]
        /\ crossed' = (crossed \/ codes # read)
        /\ TfBecomes(c, x)
        /\ UNCHANGED <<enabled, offered, enrolled>>
    BY DEF WriteRemaining, TfBecomes
  <1>2. Fair(x)
    BY FairCalls DEF TfSteps
  <1>. HIDE DEF x
  <1>3. /\ read \subseteq Codes /\ read \subseteq Issued /\ taken \subseteq read
        /\ tf \in [TfCalls -> TfCall]
        /\ spent \in [Codes -> Nat]
    BY DEF TfInv, TwoFactorTypeOK, CodesIssued, TfCall
  <1>. HIDE DEF read, taken
  <1>4. tf' \in [TfCalls -> TfCall] /\ \A d \in TfCalls : tf'[d] = IF d = c THEN x ELSE tf[d]
    BY <1>1, <1>2, <1>3 DEF TfBecomes, Fair
  <1>5. Issued' = Issued
    BY <1>1 DEF Issued
  <1>6. \A k \in Codes : spent'[k] = spent[k] + (IF k \in taken THEN 1 ELSE 0)
    BY <1>1
  <1>7. TwoFactorTypeOK'
    <2>1. spent' \in [Codes -> Nat]
      BY <1>1, <1>3
    <2>2. codes' \in SUBSET Codes
      BY <1>1, <1>3
    <2>3. crossed' \in BOOLEAN
      BY <1>1
    <2>4. \A d \in TfCalls : Cardinality(tf'[d].used) <= 1
      BY <1>2, <1>4 DEF TfInv, TwoFactorTypeOK, Fair
    <2>5. enabled' \in BOOLEAN /\ offered' \in BOOLEAN /\ enrolled' \in 0..MaxEnrolments
      BY <1>1 DEF TfInv, TwoFactorTypeOK
    <2>. QED  BY <1>4, <2>1, <2>2, <2>3, <2>4, <2>5 DEF TwoFactorTypeOK
  <1>8. CodesIssued'
    <2>1. \A k \in Codes : spent'[k] > 0 => k \in Issued
      BY <1>3, <1>6 DEF TfInv, CodesIssued
    <2>2. \A d \in TfCalls : tf'[d].read \subseteq Issued /\ tf'[d].used \subseteq tf'[d].read
      BY <1>2, <1>4 DEF TfInv, CodesIssued, Fair
    <2>3. codes' \subseteq Issued
      BY <1>1, <1>3
    <2>. QED  BY <1>5, <2>1, <2>2, <2>3 DEF CodesIssued
  <1>9. RecoveryOnce'
    <2>. SUFFICES ASSUME ~crossed', NEW k \in Codes
                  PROVE  /\ spent'[k] + (IF k \in codes' THEN 1 ELSE 0) <= 1
                         /\ k \in codes' => k[1] = enrolled'
      BY DEF RecoveryOnce
    <2>1. ~crossed /\ codes = read
      BY <1>1
    <2>2. /\ spent[k] \in Nat
          /\ spent[k] + (IF k \in codes THEN 1 ELSE 0) <= 1
          /\ k \in codes => k[1] = enrolled
      BY <1>3, <2>1 DEF TfInv, RecoveryOnce
    <2>. QED  BY <1>1, <1>3, <1>6, <2>1, <2>2
  <1>. QED  BY <1>7, <1>8, <1>9 DEF TfInv

\* The codes of a new enrolment were never issued before.
LEMMA ConfirmStep ==
    ASSUME TwoFactorAssumption, TfInv, EnrollConfirm
    PROVE  TfInv'
  <1>1. /\ enrolled \in 0..MaxEnrolments /\ enrolled < MaxEnrolments /\ MaxEnrolments \in Nat
        /\ spent \in [Codes -> Nat]
    BY DEF EnrollConfirm, TfInv, TwoFactorTypeOK, TwoFactorAssumption
  <1>2. /\ enrolled' = enrolled + 1 /\ codes' = {enrolled + 1} \X Slots
        /\ enabled' = TRUE
        /\ UNCHANGED <<offered, tf, spent, crossed>>
    BY DEF EnrollConfirm
  <1>3. enrolled' \in 0..MaxEnrolments /\ enrolled + 1 \in 1..MaxEnrolments
    BY <1>1, <1>2
  <1>4. codes' \in SUBSET Codes /\ \A k \in codes' : k[1] = enrolled + 1
    BY <1>2, <1>3 DEF Codes
  <1>5. \A k \in Codes : k[1] \in Nat
    BY <1>1 DEF Codes
  <1>6. Issued \subseteq Issued' /\ codes' \subseteq Issued' /\ codes' \cap Issued = {}
    BY <1>1, <1>2, <1>4, <1>5 DEF Issued
  <1>7. TwoFactorTypeOK'
    BY <1>2, <1>3, <1>4 DEF TfInv, TwoFactorTypeOK
  <1>8. CodesIssued'
    BY <1>2, <1>6 DEF TfInv, CodesIssued
  <1>9. RecoveryOnce'
    <2>. SUFFICES ASSUME ~crossed', NEW k \in Codes
                  PROVE  /\ spent'[k] + (IF k \in codes' THEN 1 ELSE 0) <= 1
                         /\ k \in codes' => k[1] = enrolled'
      BY DEF RecoveryOnce
    <2>1. spent[k] \in Nat /\ spent[k] <= 1
      BY <1>1, <1>2 DEF TfInv, RecoveryOnce
    <2>2. k \in codes' => spent[k] = 0
      BY <1>6, <2>1 DEF TfInv, CodesIssued
    <2>. QED  BY <1>2, <1>4, <2>1, <2>2
  <1>. QED  BY <1>7, <1>8, <1>9 DEF TfInv

LEMMA DisableStep ==
    ASSUME TfInv, NEW c \in TfCalls, Disable(c)
    PROVE  TfInv'
  <1>1. /\ enabled' = FALSE /\ codes' = {} /\ TfBecomes(c, TfIdle)
        /\ UNCHANGED <<offered, enrolled, spent, crossed>>
    BY DEF Disable, TfEnd, TfBecomes
  <1>2. Fair(TfIdle) /\ tf \in [TfCalls -> TfCall] /\ spent \in [Codes -> Nat]
    BY FairCalls DEF TfInv, TwoFactorTypeOK
  <1>3. /\ tf' \in [TfCalls -> TfCall]
        /\ \A d \in TfCalls : tf'[d] = IF d = c THEN TfIdle ELSE tf[d]
    BY <1>1, <1>2 DEF TfBecomes, Fair
  <1>4. TwoFactorTypeOK'
    BY <1>1, <1>2, <1>3 DEF TfInv, TwoFactorTypeOK, Fair
  <1>5. Issued' = Issued
    BY <1>1 DEF Issued
  <1>6. CodesIssued'
    BY <1>1, <1>2, <1>3, <1>5 DEF TfInv, CodesIssued, Fair
  <1>7. RecoveryOnce'
    <2>. SUFFICES ASSUME ~crossed, NEW k \in Codes PROVE spent[k] + 0 <= 1
      BY <1>1 DEF RecoveryOnce
    <2>1. spent[k] \in Nat /\ spent[k] + (IF k \in codes THEN 1 ELSE 0) <= 1
      BY <1>2 DEF TfInv, RecoveryOnce
    <2>. QED  BY <2>1
  <1>. QED  BY <1>4, <1>6, <1>7 DEF TfInv

-----------------------------------------------------------------------------

LEMMA TfInvStep ==
    ASSUME TwoFactorAssumption, TfInv, [TwoFactorNext]_tfVars
    PROVE  TfInv'
  <1>1. CASE EnrollStart \/ UNCHANGED tfVars
    <2>1. /\ UNCHANGED <<enabled, codes, enrolled, tf, spent, crossed>>
          /\ offered' \in BOOLEAN
      BY <1>1 DEF EnrollStart, tfVars, TfInv, TwoFactorTypeOK
    <2>2. Issued' = Issued
      BY <2>1 DEF Issued
    <2>. QED  BY <2>1, <2>2 DEF TfInv, TwoFactorTypeOK, CodesIssued, RecoveryOnce
  <1>2. CASE EnrollConfirm
    BY <1>2, ConfirmStep
  <1>3. ASSUME NEW c \in TfCalls,
               \/ Login(c) \/ LoginWithTotp(c) \/ DisableWithTotp(c)
               \/ \E k \in Codes : LoginWithRecovery(c, k) \/ DisableWithRecovery(c, k)
               \/ WriteRemaining(c) \/ Disable(c) \/ TfFail(c)
        PROVE  TfInv'
    BY <1>3, QuietActions, WriteStep, DisableStep
  <1>. QED  BY <1>1, <1>2, <1>3 DEF TwoFactorNext

LEMMA TfInvariance == TwoFactorSpec => []TfInv
  <1>1. TwoFactorAssumption /\ TwoFactorInit => TfInv
    <2>. SUFFICES ASSUME TwoFactorAssumption, TwoFactorInit PROVE TfInv
      OBVIOUS
    <2>1. TfIdle \in TfCall /\ TfIdle.used = {} /\ TfIdle.read = {}
      BY DEF TfIdle, TfCall, TfSteps
    <2>2. \A c \in TfCalls : tf[c] = TfIdle /\ Cardinality(tf[c].used) = 0
      BY <2>1, OneCode DEF TwoFactorInit
    <2>3. spent \in [Codes -> Nat] /\ \A k \in Codes : spent[k] = 0
      BY DEF TwoFactorInit
    <2>4. TwoFactorTypeOK
      <3>1. tf \in [TfCalls -> TfCall]
        BY <2>1 DEF TwoFactorInit
      <3>2. \A c \in TfCalls : Cardinality(tf[c].used) <= 1
        BY <2>2
      <3>3. enrolled \in 0..MaxEnrolments
        BY DEF TwoFactorAssumption, TwoFactorInit
      <3>4. /\ enabled \in BOOLEAN /\ offered \in BOOLEAN /\ crossed \in BOOLEAN
            /\ codes \in SUBSET Codes
        BY DEF TwoFactorInit
      <3>. QED  BY <2>3, <3>1, <3>2, <3>3, <3>4 DEF TwoFactorTypeOK
    <2>5. CodesIssued /\ RecoveryOnce
      BY <2>1, <2>2, <2>3 DEF TwoFactorInit, CodesIssued, RecoveryOnce
    <2>. QED  BY <2>4, <2>5 DEF TfInv
  <1>2. TwoFactorAssumption /\ TfInv /\ [TwoFactorNext]_tfVars => TfInv'
    BY TfInvStep
  <1>. QED  BY <1>1, <1>2, TwoFactorAssumption, PTL DEF TwoFactorSpec

\* A recovery code is accepted once and gone then, for any number of calls, codes and
\* enrolments, while no array was written over another than the one it came from.
THEOREM RecoveryCodesAreOnce == TwoFactorSpec => []RecoveryOnce
  <1>1. TfInv => RecoveryOnce
    BY DEF TfInv
  <1>. QED  BY <1>1, TfInvariance, PTL

-----------------------------------------------------------------------------
(* Access: the answers of the guards are those that the team page shows.    *)

LEMMA KeysAre ==
    /\ DOMAIN PeopleMatrix =
           {"see.system", "see.network", "see.district", "see.branch", "see.office",
            "user.manage", "user.invite", "user.changeRole", "user.disable",
            "lead.view", "lead.update", "lead.reassign", "lead.delete"}
    /\ DOMAIN WorkMatrix =
           {"property.view", "property.create", "property.delete",
            "ai.editScript", "ai.runTest", "marketing.launchCampaign",
            "marketing.viewResults", "finance.viewCosts", "finance.setLlmBudget",
            "finance.viewBilling", "finance.exportReports",
            "mortgage.handle", "mortgage.manageAdvisors"}
  BY DEF PeopleMatrix, WorkMatrix

\* The matrix of the API by rows and the page's by columns are one table.
LEMMA TablesAgree ==
    ASSUME NEW role \in Roles, NEW k \in Keys
    PROVE  /\ role \in Matrix(k).allow <=> k \in ShownYes(role)
           /\ role \in Matrix(k).approval <=> k \in ShownApproval(role)
  <1>. DEFINE Shown == /\ role \in Matrix(k).allow <=> k \in ShownYes(role)
                       /\ role \in Matrix(k).approval <=> k \in ShownApproval(role)
  <1>. HIDE DEF Shown
  <1>. SUFFICES Shown
    BY DEF Shown
  <1>0. \/ role \in Executive
        \/ role \in {"district_manager", "branch_manager", "office_owner", "office_manager",
                      "team_lead", "realtor", "mortgage_advisor", "marketing_manager",
                      "secretary", "accountant", "viewer"}
    BY DEF Roles, Leaders, Regional, OfficeLeads
  <1>. USE KeysAre DEF Shown, Matrix, PeopleMatrix, WorkMatrix, Cell, Allow, Keys, Roles,
           Leaders, Executive, Regional, OfficeLeads, ShownYes, ShownApproval, LeaderWork,
           SalesWork, OfficeWork
  <1>1. CASE role \in Executive
    BY <1>1, ZenonT(60)
  <1>2. CASE role = "district_manager"
    BY <1>2, ZenonT(60)
  <1>3. CASE role = "branch_manager"
    BY <1>3, ZenonT(60)
  <1>4. CASE role = "office_owner"
    BY <1>4, ZenonT(60)
  <1>5. CASE role = "office_manager"
    BY <1>5, ZenonT(60)
  <1>6. CASE role = "team_lead"
    BY <1>6, ZenonT(60)
  <1>7. CASE role = "realtor"
    BY <1>7, ZenonT(60)
  <1>8. CASE role = "mortgage_advisor"
    BY <1>8, ZenonT(60)
  <1>9. CASE role = "marketing_manager"
    BY <1>9, ZenonT(60)
  <1>10. CASE role = "secretary"
    BY <1>10, ZenonT(60)
  <1>11. CASE role = "accountant"
    BY <1>11, ZenonT(60)
  <1>12. CASE role = "viewer"
    BY <1>12, ZenonT(60)
  <1>. HIDE KeysAre DEF Shown, Executive
  <1>. QED
    BY <1>0, <1>1, <1>2, <1>3, <1>4, <1>5, <1>6, <1>7, <1>8, <1>9, <1>10, <1>11, <1>12

\* No role is in two parts of a cell.
LEMMA CellsApart ==
    ASSUME NEW k \in Keys, NEW role
    PROVE  /\ ~(role \in Matrix(k).allow /\ role \in Matrix(k).approval)
           /\ ~(role \in Matrix(k).allow /\ role \in Matrix(k).conditional)
           /\ ~(role \in Matrix(k).approval /\ role \in Matrix(k).conditional)
  <1>. USE KeysAre DEF Matrix, PeopleMatrix, WorkMatrix, Cell, Allow, Keys, Roles, Leaders,
           Executive, Regional, OfficeLeads
  <1>1. CASE k \in DOMAIN PeopleMatrix
    BY <1>1, ZenonT(60)
  <1>2. CASE k \in DOMAIN WorkMatrix
    BY <1>2, ZenonT(60)
  <1>. QED  BY <1>1, <1>2

\* What the guards answer is what the page shows for the role they read.
LEMMA AnswerIs ==
    ASSUME NEW d \in Devices, claims[d] \in AcRow, NEW k \in Keys
    PROVE  Answer(d, k) =
                IF claims[d].office \in acClosed THEN "unavailable"
                ELSE CASE k \in ShownYes(claims[d].role) -> "allowed"
                       [] k \in ShownApproval(claims[d].role) -> "locked"
                       [] OTHER -> "forbidden"
  <1>. DEFINE role == claims[d].role
              a == role \in Matrix(k).allow
              p == role \in Matrix(k).approval
              n == role \in Matrix(k).conditional
  <1>1. role \in Roles
    BY DEF AcRow
  <1>2. (a <=> k \in ShownYes(role)) /\ (p <=> k \in ShownApproval(role))
    BY <1>1, TablesAgree
  <1>3. ~(a /\ p) /\ ~(a /\ n) /\ ~(p /\ n)
    BY CellsApart
  <1>4. /\ a => Evaluate(role, k) = "allow"
        /\ p => Evaluate(role, k) = "approval"
        /\ ~a /\ ~p => Evaluate(role, k) \in {"conditional", "deny"}
    BY <1>3 DEF Evaluate
  <1>. HIDE DEF a, p, n
  <1>5. Answer(d, k) = IF claims[d].office \in acClosed THEN "unavailable"
                       ELSE CASE a -> "allowed" [] p -> "locked" [] OTHER -> "forbidden"
    BY <1>3, <1>4 DEF Answer
  <1>. QED  BY <1>2, <1>5

-----------------------------------------------------------------------------

AccessRead == [row: AcRow, moved: BOOLEAN]

\* Claims and reads of a member that was not moved since are the row's.
DeviceOK(d) ==
    /\ claims[d] # NoClaims /\ ~moved[d] => claims[d] = acRow
    /\ reading[d] # NoClaims /\ ~reading[d].moved => reading[d].row = acRow

AccessInv == AccessTypeOK /\ \A d \in Devices : DeviceOK(d)

\* A login, refresh, or the end of one, on one device.
LEMMA DeviceStep ==
    ASSUME AccessInv, NEW d \in Devices, NEW c \in AcRow \cup {NoClaims}, NEW m \in BOOLEAN,
           NEW r \in AccessRead \cup {NoClaims},
           claims' = [claims EXCEPT ![d] = c], moved' = [moved EXCEPT ![d] = m],
           reading' = [reading EXCEPT ![d] = r], refreshable' \in [Devices -> BOOLEAN],
           UNCHANGED <<acRow, acClosed, moves>>,
           c # NoClaims /\ ~m => c = acRow,
           r # NoClaims /\ ~r.moved => r.row = acRow
    PROVE  AccessInv'
  <1>1. AccessTypeOK
    BY DEF AccessInv
  <1>2. AccessTypeOK'
    BY <1>1 DEF AccessTypeOK, AccessRead
  <1>3. ASSUME NEW e \in Devices PROVE DeviceOK(e)'
    <2>1. /\ claims'[e] = IF e = d THEN c ELSE claims[e]
          /\ moved'[e] = IF e = d THEN m ELSE moved[e]
          /\ reading'[e] = IF e = d THEN r ELSE reading[e]
      BY <1>1 DEF AccessTypeOK
    <2>2. DeviceOK(e)
      BY DEF AccessInv
    <2>. QED  BY <2>1, <2>2 DEF DeviceOK
  <1>. QED  BY <1>2, <1>3 DEF AccessInv

LEMMA AccessStep ==
    ASSUME AccessAssumption, AccessInv, [AccessNext]_acVars
    PROVE  AccessInv'
  <1>1. /\ AccessTypeOK /\ acRow \in AcRow
        /\ claims \in [Devices -> AcRow \cup {NoClaims}] /\ moved \in [Devices -> BOOLEAN]
        /\ refreshable \in [Devices -> BOOLEAN]
        /\ reading \in [Devices -> AccessRead \cup {NoClaims}]
    BY DEF AccessInv, AccessTypeOK, AccessRead
  <1>2. ASSUME NEW d \in Devices
        PROVE  /\ DeviceOK(d) /\ claims = [claims EXCEPT ![d] = claims[d]]
               /\ moved = [moved EXCEPT ![d] = moved[d]]
               /\ reading = [reading EXCEPT ![d] = reading[d]]
               /\ claims[d] \in AcRow \cup {NoClaims} /\ moved[d] \in BOOLEAN
               /\ reading[d] \in AccessRead \cup {NoClaims}
    BY <1>1, <1>2 DEF AccessInv
  <1>3. ASSUME NEW d \in Devices, LoginRead(d) \/ RefreshRead(d) PROVE AccessInv'
    <2>. DEFINE r == [row |-> acRow, moved |-> FALSE]
    <2>1. r \in AccessRead /\ r.row = acRow
      BY <1>1 DEF AccessRead
    <2>2. reading' = [reading EXCEPT ![d] = r]
          /\ UNCHANGED <<acRow, acClosed, claims, moved, refreshable, moves>>
      BY <1>3 DEF LoginRead, RefreshRead
    <2>. HIDE DEF r
    <2>3. claims' = [claims EXCEPT ![d] = claims[d]] /\ moved' = [moved EXCEPT ![d] = moved[d]]
      BY <1>2, <2>2
    <2>4. claims[d] # NoClaims /\ ~moved[d] => claims[d] = acRow
      BY <1>2 DEF DeviceOK
    <2>5. refreshable' \in [Devices -> BOOLEAN]
      BY <1>1, <2>2
    <2>. QED  BY <1>2, <2>1, <2>2, <2>3, <2>4, <2>5, DeviceStep
  <1>4. ASSUME NEW d \in Devices, Issue(d) PROVE AccessInv'
    <2>1. reading[d] \in AccessRead /\ reading[d] # NoClaims
      BY <1>2, <1>4 DEF Issue
    <2>2. reading[d].row \in AcRow /\ reading[d].moved \in BOOLEAN
      BY <2>1 DEF AccessRead
    <2>3. refreshable' \in [Devices -> BOOLEAN]
      BY <1>1, <1>4 DEF Issue
    <2>4. /\ claims' = [claims EXCEPT ![d] = reading[d].row]
          /\ moved' = [moved EXCEPT ![d] = reading[d].moved]
          /\ reading' = [reading EXCEPT ![d] = NoClaims]
          /\ UNCHANGED <<acRow, acClosed, moves>>
      BY <1>4 DEF Issue
    <2>5. ~reading[d].moved => reading[d].row = acRow
      BY <1>2, <2>1 DEF DeviceOK
    <2>. QED  BY <2>2, <2>3, <2>4, <2>5, DeviceStep
  <1>5. ASSUME NEW d \in Devices, IssueFails(d) PROVE AccessInv'
    <2>1. refreshable' \in [Devices -> BOOLEAN]
      BY <1>1, <1>5 DEF IssueFails
    <2>2. /\ reading' = [reading EXCEPT ![d] = NoClaims]
          /\ UNCHANGED <<acRow, acClosed, claims, moved, moves>>
      BY <1>5 DEF IssueFails
    <2>. QED  BY <1>2, <2>1, <2>2, DeviceStep DEF DeviceOK
  <1>6. ASSUME NEW d \in Devices, AccessExpires(d) \/ Logout(d) PROVE AccessInv'
    <2>1. refreshable' \in [Devices -> BOOLEAN]
      BY <1>1, <1>6 DEF AccessExpires, Logout
    <2>2. /\ claims' = [claims EXCEPT ![d] = NoClaims] /\ moved' = [moved EXCEPT ![d] = FALSE]
          /\ UNCHANGED <<acRow, acClosed, reading, moves>>
      BY <1>6 DEF AccessExpires, Logout
    <2>. QED  BY <1>2, <2>1, <2>2, DeviceStep DEF DeviceOK
  <1>7. ASSUME NEW row \in AcRow, ChangeUser(row) PROVE AccessInv'
    <2>1. ASSUME NEW d \in Devices
          PROVE  /\ moved'[d] = (claims[d] # NoClaims) /\ claims'[d] = claims[d]
                 /\ \/ reading'[d] = NoClaims
                    \/ reading'[d] \in AccessRead /\ reading'[d].moved
      BY <1>1, <1>7 DEF ChangeUser, AccessRead
    <2>2. /\ moved' = [d \in Devices |-> moved'[d]] /\ reading' = [d \in Devices |-> reading'[d]]
          /\ acRow' = row /\ UNCHANGED <<acClosed, claims, refreshable>>
      BY <1>7 DEF ChangeUser
    <2>3. moves' \in 0..MaxMoves
      BY <1>1, <1>7 DEF ChangeUser, AccessTypeOK, AccessAssumption
    <2>4. moved' \in [Devices -> BOOLEAN]
      BY <2>1, <2>2
    <2>5. reading' \in [Devices -> AccessRead \cup {NoClaims}]
      BY <2>1, <2>2
    <2>6. AccessTypeOK'
      BY <1>1, <2>2, <2>3, <2>4, <2>5 DEF AccessTypeOK, AccessRead
    <2>. QED  BY <2>1, <2>6 DEF AccessInv, DeviceOK
  <1>8. ASSUME NEW o \in AcOffices, DeactivateOffice(o) \/ ReactivateOffice(o)
        PROVE  AccessInv'
    <2>1. refreshable' \in [Devices -> BOOLEAN] /\ acClosed' \in SUBSET AcOffices
      BY <1>1, <1>8 DEF DeactivateOffice, ReactivateOffice, AccessTypeOK
    <2>2. UNCHANGED <<acRow, claims, moved, reading, moves>>
      BY <1>8 DEF DeactivateOffice, ReactivateOffice
    <2>. QED  BY <1>1, <2>1, <2>2 DEF AccessInv, AccessTypeOK, DeviceOK
  <1>9. CASE UNCHANGED acVars
    BY <1>1, <1>9 DEF acVars, AccessInv, AccessTypeOK, DeviceOK
  <1>. QED  BY <1>3, <1>4, <1>5, <1>6, <1>7, <1>8, <1>9 DEF AccessNext

LEMMA AccessInvHolds == AccessSpec => []AccessInv
  <1>1. AccessAssumption /\ AccessInit => AccessInv
    BY DEF AccessInit, AccessInv, AccessTypeOK, DeviceOK, AccessAssumption
  <1>2. AccessAssumption /\ AccessInv /\ [AccessNext]_acVars => AccessInv'
    BY AccessStep
  <1>. QED  BY <1>1, <1>2, AccessAssumption, PTL DEF AccessSpec

\* A session of a member that was not moved since it was issued is answered as the team
\* page shows, for every role and permission, and any devices, offices and moves.
THEOREM AnswersAreShown == AccessSpec => []AnsweredAsShown
  <1>1. AccessInv => AnsweredAsShown
    <2>. SUFFICES ASSUME AccessInv, NEW d \in Devices, NEW k \in Keys, claims[d] # NoClaims,
                         ~moved[d]
                  PROVE  Answer(d, k) =
                            IF acRow.office \in acClosed THEN "unavailable"
                            ELSE CASE k \in ShownYes(acRow.role) -> "allowed"
                                   [] k \in ShownApproval(acRow.role) -> "locked"
                                   [] OTHER -> "forbidden"
      BY DEF AnsweredAsShown
    <2>1. claims[d] = acRow /\ acRow \in AcRow
      BY DEF AccessInv, AccessTypeOK, DeviceOK
    <2>2. claims[d] \in AcRow
      BY <2>1
    <2>. QED  BY <2>1, <2>2, AnswerIs
  <1>. QED  BY <1>1, AccessInvHolds, PTL

-----------------------------------------------------------------------------
(* Push subscriptions: a row goes only by the user's hand, or when a        *)
(* delivery has seen its subscription gone, which never comes back.         *)

\* The live subscription is the latest, and has its row from the server's answer
\* until the user turns it off.
BrowserOK(b) ==
    /\ live[b] \in {0, latest[b]}
    /\ toggle[b] = "posting" => latest[b] # 0
    /\ known[b] => live[b] # 0 /\ toggle[b] \notin {"deleting", "deleted"}
    /\ known[b] \/ (toggle[b] = "posted" /\ live[b] # 0) => Endpoint(b) \in subs

\* There has been such a subscription.
HasBeen(e) == e[2] <= latest[e[1]]

\* Rows are of subscriptions there have been; what a delivery found gone is.
RowsOK ==
    /\ \A e \in subs : HasBeen(e)
    /\ \A s \in Sends : /\ \A e \in sends[s].left : HasBeen(e)
                        /\ \A e \in sends[s].gone : HasBeen(e) /\ ~Alive(e)

PushInv == PushTypeOK /\ RowsOK /\ \A b \in Browsers : BrowserOK(b)

LEMMA EndpointFacts ==
    ASSUME NEW e \in Endpoints
    PROVE  e[1] \in Browsers /\ e[2] \in 1..MaxSubscriptions /\ e = <<e[1], e[2]>>
  BY DEF Endpoints

\* A browser b makes a step: the others stay as they are, and what was a subscription
\* and is gone does not come back.
PageTypes ==
    /\ live \in [Browsers -> 0..MaxSubscriptions] /\ latest \in [Browsers -> 0..MaxSubscriptions]
    /\ toggle \in [Browsers -> ToggleSteps] /\ known \in [Browsers -> BOOLEAN]

Others(b) ==
    /\ sends' = sends
    /\ \A a \in Browsers : a # b =>
          /\ live'[a] = live[a] /\ latest'[a] = latest[a]
          /\ toggle'[a] = toggle[a] /\ known'[a] = known[a]

Onward(b) ==
    /\ latest[b] <= latest'[b]
    /\ live'[b] \in {0, live[b]} \/ latest[b] < live'[b]

LEMMA BrowserStep ==
    ASSUME PushAssumption, PushInv, NEW b \in Browsers, PageTypes', Others(b), Onward(b),
           \/ subs' \subseteq subs
           \/ latest'[b] # 0 /\ subs' \subseteq subs \cup {<<b, latest'[b]>>},
           subs \ {<<b, latest'[b]>>} \subseteq subs',
           BrowserOK(b)'
    PROVE  PushInv'
  <1>. DEFINE y == latest'[b]
  <1>1. /\ PageTypes /\ subs \in SUBSET Endpoints /\ sends \in [Sends -> Send]
        /\ MaxSubscriptions \in Nat /\ y \in 0..MaxSubscriptions
    BY DEF PushInv, PushTypeOK, PushAssumption, PageTypes
  <1>2. \A a \in Browsers : a # b =>
            /\ live'[a] = live[a] /\ latest'[a] = latest[a]
            /\ toggle'[a] = toggle[a] /\ known'[a] = known[a]
    BY DEF Others
  <1>3. PushTypeOK'
    <2>1. y # 0 => <<b, y>> \in Endpoints
      BY <1>1 DEF Endpoints
    <2>2. subs' \in SUBSET Endpoints
      BY <1>1, <2>1
    <2>. QED  BY <1>1, <2>2 DEF PushTypeOK, PageTypes, Others
  <1>4. \A e \in Endpoints : HasBeen(e) => HasBeen(e)' /\ (~Alive(e) => ~Alive(e)')
    <2>. SUFFICES ASSUME NEW e \in Endpoints, e[2] <= latest[e[1]]
                  PROVE  /\ e[2] <= latest'[e[1]]
                         /\ live[e[1]] # e[2] => live'[e[1]] # e[2]
      BY DEF HasBeen, Alive
    <2>1. e[1] \in Browsers /\ e[2] \in 1..MaxSubscriptions
      BY EndpointFacts
    <2>2. CASE e[1] = b
      BY <1>1, <2>1, <2>2 DEF PageTypes, Onward
    <2>3. CASE e[1] # b
      BY <1>2, <2>1, <2>3
    <2>. QED  BY <2>2, <2>3
  <1>5. RowsOK'
    <2>1. ASSUME NEW e \in subs' PROVE HasBeen(e)'
      <3>1. CASE e \in subs
        BY <1>1, <1>4, <3>1 DEF PushInv, RowsOK
      <3>2. CASE e = <<b, y>>
        <4>1. e[1] = b /\ e[2] = y
          BY <3>2
        <4>. QED  BY <1>1, <4>1 DEF HasBeen
      <3>. QED  BY <3>1, <3>2
    <2>2. \A e \in subs' : HasBeen(e)'
      BY <2>1
    <2>3. \A s \in Sends : sends[s].left \subseteq Endpoints /\ sends[s].gone \subseteq Endpoints
      BY <1>1 DEF Send
    <2>. QED  BY <1>4, <2>2, <2>3 DEF PushInv, RowsOK, Others
  <1>6. \A a \in Browsers : BrowserOK(a)'
    <2>2. ASSUME NEW a \in Browsers, a # b PROVE BrowserOK(a)'
      <3>1. BrowserOK(a) /\ <<a, latest[a]>> # <<b, y>>
        BY <2>2 DEF PushInv
      <3>. QED  BY <1>2, <2>2, <3>1 DEF BrowserOK, Endpoint
    <2>. QED  BY <2>2
  <1>. QED  BY <1>3, <1>5, <1>6 DEF PushInv

LEMMA PageStep ==
    ASSUME PushAssumption, PushInv, NEW b \in Browsers,
           \/ TurnOn(b) \/ BrowserSubscribe(b) \/ Subscribe(b) \/ Enabled(b)
           \/ TurnOff(b) \/ Unsubscribe(b) \/ BrowserUnsubscribe(b)
           \/ ToggleFails(b) \/ SubscriptionDies(b)
    PROVE  PushInv'
  <1>1. /\ PageTypes /\ BrowserOK(b) /\ MaxSubscriptions \in Nat
        /\ live[b] \in 0..MaxSubscriptions /\ latest[b] \in 0..MaxSubscriptions
    BY DEF PushInv, PushTypeOK, PushAssumption, PageTypes
  <1>a. ASSUME PageTypes', Others(b), Onward(b), BrowserOK(b)',
               latest'[b] = latest[b],
               \/ subs' = subs \/ subs' = subs \ {Endpoint(b)}
               \/ latest[b] # 0 /\ subs' = subs \cup {Endpoint(b)}
        PROVE  PushInv'
    BY <1>a, BrowserStep DEF Endpoint
  <1>3. CASE TurnOn(b)
    <2>1. PageTypes' /\ Others(b)
      BY <1>1, <1>3 DEF TurnOn, Goes, PageTypes, Others, ToggleSteps
    <2>2. Onward(b) /\ BrowserOK(b)'
      BY <1>1, <1>3 DEF TurnOn, Goes, PageTypes, Onward, BrowserOK, Endpoint
    <2>. QED  BY <1>1, <1>3, <1>a, <2>1, <2>2 DEF TurnOn, PageTypes, BrowserOK
  <1>4. CASE Subscribe(b)
    <2>1. PageTypes' /\ Others(b)
      BY <1>1, <1>4 DEF Subscribe, Goes, PageTypes, Others, ToggleSteps
    <2>2. Onward(b) /\ BrowserOK(b)'
      BY <1>1, <1>4 DEF Subscribe, Goes, PageTypes, Onward, BrowserOK, Endpoint
    <2>. QED  BY <1>1, <1>4, <1>a, <2>1, <2>2 DEF Subscribe, PageTypes, BrowserOK, Goes
  <1>5. CASE Enabled(b)
    <2>1. PageTypes' /\ Others(b)
      BY <1>1, <1>5 DEF Enabled, Goes, PageTypes, Others, ToggleSteps
    <2>2. Onward(b) /\ BrowserOK(b)'
      BY <1>1, <1>5 DEF Enabled, Goes, PageTypes, Onward, BrowserOK, Endpoint
    <2>. QED  BY <1>1, <1>5, <1>a, <2>1, <2>2 DEF Enabled, PageTypes, BrowserOK
  <1>6. CASE TurnOff(b)
    <2>1. PageTypes' /\ Others(b)
      BY <1>1, <1>6 DEF TurnOff, Goes, PageTypes, Others, ToggleSteps
    <2>2. Onward(b) /\ BrowserOK(b)'
      BY <1>1, <1>6 DEF TurnOff, Goes, PageTypes, Onward, BrowserOK, Endpoint
    <2>. QED  BY <1>1, <1>6, <1>a, <2>1, <2>2 DEF TurnOff, PageTypes, BrowserOK
  <1>7. CASE Unsubscribe(b)
    <2>1. PageTypes' /\ Others(b)
      BY <1>1, <1>7 DEF Unsubscribe, Goes, PageTypes, Others, ToggleSteps
    <2>2. Onward(b) /\ BrowserOK(b)'
      BY <1>1, <1>7 DEF Unsubscribe, Goes, PageTypes, Onward, BrowserOK, Endpoint
    <2>. QED  BY <1>1, <1>7, <1>a, <2>1, <2>2 DEF Unsubscribe, PageTypes, BrowserOK, Goes
  <1>8. CASE BrowserUnsubscribe(b)
    <2>1. PageTypes' /\ Others(b)
      BY <1>1, <1>8 DEF BrowserUnsubscribe, Goes, PageTypes, Others, ToggleSteps
    <2>2. Onward(b) /\ BrowserOK(b)'
      BY <1>1, <1>8 DEF BrowserUnsubscribe, Goes, PageTypes, Onward, BrowserOK, Endpoint
    <2>. QED  BY <1>1, <1>8, <1>a, <2>1, <2>2 DEF BrowserUnsubscribe, PageTypes, BrowserOK
  <1>9. CASE ToggleFails(b)
    <2>1. PageTypes' /\ Others(b)
      BY <1>1, <1>9 DEF ToggleFails, Goes, PageTypes, Others, ToggleSteps
    <2>2. Onward(b) /\ BrowserOK(b)'
      BY <1>1, <1>9 DEF ToggleFails, Goes, PageTypes, Onward, BrowserOK, Endpoint
    <2>. QED  BY <1>1, <1>9, <1>a, <2>1, <2>2 DEF ToggleFails, PageTypes, BrowserOK
  <1>10. CASE SubscriptionDies(b)
    <2>1. PageTypes' /\ Others(b)
      BY <1>1, <1>10 DEF SubscriptionDies, Goes, PageTypes, Others, ToggleSteps
    <2>2. Onward(b) /\ BrowserOK(b)'
      BY <1>1, <1>10 DEF SubscriptionDies, Goes, PageTypes, Onward, BrowserOK, Endpoint
    <2>. QED  BY <1>1, <1>10, <1>a, <2>1, <2>2 DEF SubscriptionDies, PageTypes, BrowserOK
  <1>11. CASE BrowserSubscribe(b)
    <2>1. /\ toggle[b] = "permitted" /\ toggle' = [toggle EXCEPT ![b] = "posting"]
          /\ UNCHANGED <<known, subs, sends>>
      BY <1>11 DEF BrowserSubscribe, Goes
    <2>2. CASE live[b] # 0 /\ UNCHANGED <<live, latest>>
      <3>1. PageTypes' /\ Others(b)
        BY <1>1, <2>1, <2>2 DEF PageTypes, Others, ToggleSteps
      <3>2. Onward(b) /\ BrowserOK(b)'
        BY <1>1, <2>1, <2>2 DEF PageTypes, Onward, BrowserOK, Endpoint
      <3>. QED  BY <1>a, <2>1, <2>2, <3>1, <3>2
    <2>3. CASE ~(live[b] # 0 /\ UNCHANGED <<live, latest>>)
      <3>1. /\ live[b] = 0 /\ latest[b] < MaxSubscriptions
            /\ latest' = [latest EXCEPT ![b] = latest[b] + 1]
            /\ live' = [live EXCEPT ![b] = latest[b] + 1]
        BY <1>11, <2>3 DEF BrowserSubscribe
      <3>2. PageTypes' /\ Others(b)
        BY <1>1, <2>1, <3>1 DEF PageTypes, Others, ToggleSteps
      <3>3. Onward(b) /\ BrowserOK(b)'
        BY <1>1, <2>1, <3>1 DEF PageTypes, Onward, BrowserOK, Endpoint
      <3>. QED  BY <2>1, <3>2, <3>3, BrowserStep
    <2>. QED  BY <2>2, <2>3
  <1>. QED  BY <1>3, <1>4, <1>5, <1>6, <1>7, <1>8, <1>9, <1>10, <1>11

\* A delivery goes on to x and deletes at most the rows of what it has found gone.
LEMMA SendStep ==
    ASSUME PushInv, NEW s \in Sends, NEW x \in Send, sends' = [sends EXCEPT ![s] = x],
           UNCHANGED <<live, latest, toggle, known>>,
           subs' = subs \/ subs' = subs \ sends[s].gone,
           \A e \in x.left : HasBeen(e), \A e \in x.gone : HasBeen(e) /\ ~Alive(e)
    PROVE  PushInv'
  <1>1. PushTypeOK /\ RowsOK /\ sends \in [Sends -> Send] /\ subs \in SUBSET Endpoints
    BY DEF PushInv, PushTypeOK
  <1>2. \A d \in Sends : sends'[d] = IF d = s THEN x ELSE sends[d]
    BY <1>1
  <1>3. PushTypeOK'
    BY <1>1 DEF PushTypeOK
  <1>4. \A e : HasBeen(e)' = HasBeen(e) /\ Alive(e)' = Alive(e)
    BY DEF HasBeen, Alive
  <1>5. RowsOK'
    BY <1>1, <1>2, <1>4 DEF RowsOK
  <1>6. ASSUME NEW b \in Browsers PROVE BrowserOK(b)'
    <2>1. BrowserOK(b)
      BY DEF PushInv
    <2>2. live[b] # 0 => Alive(Endpoint(b))
      BY <2>1 DEF BrowserOK, Alive, Endpoint
    <2>3. live[b] # 0 /\ Endpoint(b) \in subs => Endpoint(b) \in subs'
      BY <1>1, <2>2 DEF RowsOK
    <2>. QED  BY <2>1, <2>3 DEF BrowserOK, Endpoint
  <1>. QED  BY <1>3, <1>5, <1>6 DEF PushInv

LEMMA DeliveryStep ==
    ASSUME PushInv, NEW s \in Sends,
           SendRead(s) \/ Prune(s) \/ SendEnds(s) \/ \E e \in Endpoints : SendOne(s, e)
    PROVE  PushInv'
  <1>1. /\ RowsOK /\ sends[s] \in Send /\ subs \in SUBSET Endpoints
        /\ \A e \in sends[s].left : HasBeen(e)
        /\ \A e \in sends[s].gone : HasBeen(e) /\ ~Alive(e)
    BY DEF PushInv, PushTypeOK, RowsOK
  <1>2. CASE SendRead(s)
    <2>. DEFINE x == [running |-> TRUE, left |-> subs, gone |-> {}]
    <2>1. sends' = [sends EXCEPT ![s] = x] /\ UNCHANGED <<live, latest, toggle, known, subs>>
      BY <1>2 DEF SendRead
    <2>2. x \in Send /\ x.left = subs /\ x.gone = {}
      BY <1>1 DEF Send
    <2>. HIDE DEF x
    <2>. QED  BY <1>1, <2>1, <2>2, SendStep DEF RowsOK
  <1>3. CASE Prune(s)
    <2>. DEFINE x == [sends[s] EXCEPT !.gone = {}]
    <2>1. /\ sends' = [sends EXCEPT ![s] = x] /\ UNCHANGED <<live, latest, toggle, known>>
          /\ subs' = subs \/ subs' = subs \ sends[s].gone
      BY <1>3 DEF Prune
    <2>2. x \in Send /\ x.left = sends[s].left /\ x.gone = {}
      BY <1>1 DEF Send
    <2>. HIDE DEF x
    <2>. QED  BY <1>1, <2>1, <2>2, SendStep
  <1>4. CASE SendEnds(s)
    <2>1. NoSend \in Send /\ NoSend.left = {} /\ NoSend.gone = {}
      BY DEF NoSend, Send
    <2>2. sends' = [sends EXCEPT ![s] = NoSend] /\ UNCHANGED <<live, latest, toggle, known, subs>>
      BY <1>4 DEF SendEnds
    <2>. QED  BY <2>1, <2>2, SendStep
  <1>5. CASE \E e \in Endpoints : SendOne(s, e)
    <2>1. PICK e \in Endpoints : SendOne(s, e)
      BY <1>5
    <2>2. PICK gone \in SUBSET {e} :
              /\ gone # {} => ~Alive(e)
              /\ sends' = [sends EXCEPT ![s] =
                    [running |-> TRUE, left |-> sends[s].left \ {e}, gone |-> gone]]
      BY <2>1 DEF SendOne
    <2>. DEFINE x == [running |-> TRUE, left |-> sends[s].left \ {e}, gone |-> gone]
    <2>3. x \in Send /\ x.left \subseteq sends[s].left /\ x.gone = gone
      BY <1>1, <2>2 DEF Send
    <2>4. sends' = [sends EXCEPT ![s] = x] /\ UNCHANGED <<live, latest, toggle, known, subs>>
      BY <2>1, <2>2 DEF SendOne
    <2>5. \A g \in gone : HasBeen(g) /\ ~Alive(g)
      BY <1>1, <2>1, <2>2 DEF SendOne
    <2>. HIDE DEF x
    <2>. QED  BY <1>1, <2>3, <2>4, <2>5, SendStep
  <1>. QED  BY <1>2, <1>3, <1>4, <1>5

LEMMA PushInvHolds == PushSpec => []PushInv
  <1>1. PushAssumption /\ PushInit => PushInv
    <2>. SUFFICES ASSUME PushAssumption, PushInit PROVE PushInv
      OBVIOUS
    <2>1. NoSend \in Send /\ NoSend.left = {} /\ NoSend.gone = {}
      BY DEF NoSend, Send
    <2>2. PushTypeOK
      BY <2>1 DEF PushInit, PushTypeOK, PushAssumption, ToggleSteps
    <2>3. RowsOK
      BY <2>1 DEF PushInit, RowsOK
    <2>4. \A b \in Browsers : BrowserOK(b)
      BY DEF PushInit, BrowserOK
    <2>. QED  BY <2>2, <2>3, <2>4 DEF PushInv
  <1>2. PushAssumption /\ PushInv /\ [PushNext]_pushVars => PushInv'
    <2>. SUFFICES ASSUME PushAssumption, PushInv, [PushNext]_pushVars PROVE PushInv'
      OBVIOUS
    <2>1. CASE UNCHANGED pushVars
      BY <2>1 DEF pushVars, PushInv, PushTypeOK, RowsOK, BrowserOK, HasBeen, Alive, Endpoint
    <2>. QED  BY <2>1, PageStep, DeliveryStep DEF PushNext
  <1>. QED  BY <1>1, <1>2, PushAssumption, PTL DEF PushSpec

\* A subscription that the server confirmed keeps its row until it dies or the user
\* turns it off, for any number of browsers, subscriptions and deliveries at once.
THEOREM LiveRowsStay == PushSpec => []LiveRowsKept
  <1>1. PushInv => LiveRowsKept
    BY DEF PushInv, BrowserOK, LiveRowsKept
  <1>. QED  BY <1>1, PushInvHolds, PTL

-----------------------------------------------------------------------------
(* The office as a whole.                                                   *)

\* Whatever part runs, the office is a run of each part: the others rest.
THEOREM EachPartRuns ==
    OfficeSpec =>
        /\ BillingSpec /\ FollowUpsSpec /\ MortgageSpec /\ TwoFactorSpec /\ AccessSpec
        /\ DeskSpec /\ StreetsSpec /\ PickerSpec /\ LoanSpec /\ PushSpec
  <1>1. OfficeInit => /\ BillingInit /\ FollowUpsInit /\ MortgageInit /\ TwoFactorInit
                      /\ AccessInit /\ DeskInit /\ StreetsInit /\ PickerInit /\ LoanInit
                      /\ PushInit
    BY DEF OfficeInit
  <1>2. [OfficeNext]_<<part, officeVars>> =>
            /\ [BillingNext]_billVars /\ [FollowUpsNext]_fuVars /\ [MortgageNext]_mortVars
            /\ [TwoFactorNext]_tfVars /\ [AccessNext]_acVars /\ [DeskNext]_deskVars
            /\ [StreetsNext]_streetVars /\ [PickerNext]_pickerVars /\ [LoanNext]_loanVars
            /\ [PushNext]_pushVars
    <2>1. CASE UNCHANGED <<part, officeVars>>
      BY <2>1 DEF officeVars
    <2>2. CASE OfficeNext
      BY <2>2 DEF OfficeNext, MortgageNext
    <2>. QED  BY <2>1, <2>2
  <1>. QED
    BY <1>1, <1>2, PTL DEF OfficeSpec, BillingSpec, FollowUpsSpec, MortgageSpec, TwoFactorSpec,
       AccessSpec, DeskSpec, StreetsSpec, PickerSpec, LoanSpec, PushSpec

\* Every row, call and page variable of the office has its type, for any constants.
THEOREM OfficeTypeCorrect == OfficeSpec => []OfficeTypeOK
  <1>1. OfficeSpec => [](part \in Parts)
    <2>1. OfficeInit => part \in Parts
      BY DEF OfficeInit
    <2>2. part \in Parts /\ [OfficeNext]_<<part, officeVars>> => (part \in Parts)'
      BY DEF OfficeNext
    <2>. QED  BY <2>1, <2>2, PTL DEF OfficeSpec
  <1>2. /\ TasksInv => FollowUpsTypeOK
        /\ MortInv => MortgageTypeOK
        /\ TfInv => TwoFactorTypeOK
        /\ AccessInv => AccessTypeOK
        /\ DeskInv => DeskTypeOK
        /\ StreetsInv => StreetsTypeOK
        /\ PickerInv => PickerTypeOK
        /\ PushInv => PushTypeOK
    BY DEF TasksInv, MortInv, TfInv, AccessInv, DeskInv, StreetsInv, PickerInv, PushInv
  <1>3. /\ part \in Parts /\ BillingTypeOK /\ FollowUpsTypeOK /\ MortgageTypeOK
        /\ TwoFactorTypeOK /\ AccessTypeOK /\ DeskTypeOK /\ StreetsTypeOK /\ PickerTypeOK
        /\ LoanTypeOK /\ PushTypeOK
        => OfficeTypeOK
    BY DEF OfficeTypeOK
  <1>. QED
    BY <1>1, <1>2, <1>3, EachPartRuns, BillingTypes, TasksHold, MortInvHolds, TfInvariance,
       AccessInvHolds, DeskInvariance, StreetsInvHolds, PickerInvHolds, LoanTypeCorrect,
       PushInvHolds, PTL

=============================================================================
