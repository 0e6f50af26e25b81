------------------------------- MODULE Access -------------------------------
(***************************************************************************)
(* What one member of a tenant may do: the role and office written into a  *)
(* session's access token (auth.service.ts), the guards that read them     *)
(* there (tenant-status.guard.ts, roles.guard.ts), the permission matrix   *)
(* of the API (matrix.ts) and the one the team page shows (page.tsx).      *)
(*                                                                         *)
(* The tenant itself stays active (Sessions.tla suspends it); platform     *)
(* staff, who pass every guard, are left out.                              *)
(***************************************************************************)
EXTENDS Naturals, FiniteSets

CONSTANTS
    Devices,    \* browsers the member is logged in with
    AcOffices,  \* offices of the tenant
    NoOffice,   \* a member outside every office
    NoClaims,   \* no access token, or no row read
    MaxMoves    \* changes of role or office (a bound)

ASSUME AccessAssumption ==
    /\ IsFiniteSet(Devices) /\ IsFiniteSet(AcOffices)
    /\ NoOffice \notin AcOffices
    /\ MaxMoves \in Nat

VARIABLES
    acRow,        \* role and office in the users table
    acClosed,     \* offices with status inactive
    claims,       \* what each device's access token says
    moved,        \* whether the row changed since claims were read (history)
    refreshable,  \* whether the device's refresh token is live
    reading,      \* a login or refresh between reading the row and issuing
    moves         \* changes so far

acVars == <<acRow, acClosed, claims, moved, refreshable, reading, moves>>

Executive == {"ceo", "deputy_ceo"}
Regional == {"district_manager", "branch_manager"}
OfficeLeads == {"office_owner", "office_manager"}
Leaders == Executive \cup Regional \cup OfficeLeads

\* COLUMN_ROLES of the page, TENANT_ASSIGNABLE_ROLES of role-workspace.ts.
Roles == Leaders \cup {"team_lead", "realtor", "mortgage_advisor",
    "marketing_manager", "secretary", "accountant", "viewer"}

AcRow == [role: Roles, office: AcOffices \cup {NoOffice}]

-----------------------------------------------------------------------------
(* Two tables of who may do what.                                          *)

Cell(allow, approval, conditional) ==
    [allow |-> allow, approval |-> approval, conditional |-> conditional]
Allow(roles) == Cell(roles, {}, {})

\* PERMISSION_MATRIX: visibility, users, leads.
PeopleMatrix ==
    [k \in {"see.system", "see.network", "see.district", "see.branch", "see.office",
            "user.manage", "user.invite", "user.changeRole", "user.disable",
            "lead.view", "lead.update", "lead.reassign", "lead.delete"} |->
     CASE k = "see.system" -> Allow(Executive)
       [] k = "see.network" -> Allow(Executive \cup {"district_manager"})
       [] k = "see.district" -> Allow(Executive \cup Regional)
       [] k \in {"see.branch", "user.manage", "user.invite", "user.disable"} -> Allow(Leaders)
       [] k = "see.office" -> Cell(Roles \ {"district_manager"}, {}, {"district_manager"})
       [] k = "user.changeRole" ->
            Cell(Executive \cup {"office_owner"}, Regional, {"office_manager"})
       [] k = "lead.view" ->
            Cell(Leaders \cup {"team_lead", "realtor", "secretary", "viewer"}, {},
                 {"mortgage_advisor", "marketing_manager"})
       [] k = "lead.update" ->
            Cell(Leaders \cup {"team_lead", "realtor", "secretary"}, {}, {"mortgage_advisor"})
       [] k = "lead.reassign" -> Allow(Leaders \cup {"team_lead", "secretary"})
       [] k = "lead.delete" ->
            Cell(Executive \cup {"office_owner"}, Regional \cup {"office_manager"}, {})]

\* PERMISSION_MATRIX: properties, AI, marketing, finance, mortgage.
WorkMatrix ==
    [k \in {"property.view", "property.create", "property.delete",
            "ai.editScript", "ai.runTest", "marketing.launchCampaign",
            "marketing.viewResults", "finance.viewCosts", "finance.setLlmBudget",
            "finance.viewBilling", "finance.exportReports",
            "mortgage.handle", "mortgage.manageAdvisors"} |->
     CASE k = "property.view" ->
            Cell(Leaders \cup {"team_lead", "realtor", "marketing_manager", "secretary", "viewer"},
                 {}, {"mortgage_advisor"})
       [] k = "property.create" -> Allow(Leaders \cup {"team_lead", "realtor", "secretary"})
       [] k = "property.delete" ->
            Cell(Executive \cup {"office_owner"}, Regional \cup {"office_manager"}, {})
       [] k = "ai.editScript" ->
            Cell(Executive \cup {"office_owner"}, {}, {"office_manager", "marketing_manager"})
       [] k = "ai.runTest" -> Allow(Leaders \cup {"team_lead", "marketing_manager"})
       [] k = "marketing.launchCampaign" ->
            Cell(Executive \cup {"office_owner", "marketing_manager"},
                 Regional \cup {"office_manager"}, {})
       [] k \in {"marketing.viewResults", "finance.exportReports"} ->
            Allow(Leaders \cup {"team_lead", "marketing_manager", "accountant"})
       [] k = "finance.viewCosts" -> Allow(Leaders \cup {"accountant"})
       [] k = "finance.setLlmBudget" -> Allow(Executive \cup {"office_owner"})
       [] k = "finance.viewBilling" ->
            Cell(Executive \cup {"office_owner", "accountant"}, {}, {"office_manager"})
       [] k = "mortgage.handle" ->
            Allow(Leaders \cup {"team_lead", "realtor", "mortgage_advisor", "secretary"})
       [] k = "mortgage.manageAdvisors" -> Cell(Leaders, {}, {"mortgage_advisor"})]

Keys == DOMAIN PeopleMatrix \cup DOMAIN WorkMatrix
Matrix(k) == IF k \in DOMAIN PeopleMatrix THEN PeopleMatrix[k] ELSE WorkMatrix[k]

\* PermissionsService.evaluate.
Evaluate(role, k) ==
    CASE role \in Matrix(k).allow -> "allow"
      [] role \in Matrix(k).approval -> "approval"
      [] role \in Matrix(k).conditional -> "conditional"
      [] OTHER -> "deny"

\* MATRIX of the page, by column instead of by row: what each role is shown
\* as "yes"; see.office is the page's see_office, and so on.
OfficeWork == {"see.office", "lead.view", "property.view"}
SalesWork == OfficeWork \cup {"lead.update", "property.create", "mortgage.handle"}
LeaderWork == SalesWork \cup
    {"see.branch", "user.manage", "user.invite", "user.disable", "lead.reassign", "ai.runTest",
     "marketing.viewResults", "finance.viewCosts", "finance.exportReports",
     "mortgage.manageAdvisors"}
ShownYes(role) ==
    CASE role \in Executive -> Keys
      [] role = "district_manager" ->
           (LeaderWork \ {"see.office"}) \cup {"see.network", "see.district"}
      [] role = "branch_manager" -> LeaderWork \cup {"see.district"}
      [] role = "office_owner" -> Keys \ {"see.system", "see.network", "see.district"}
      [] role = "office_manager" -> LeaderWork
      [] role = "team_lead" -> SalesWork \cup
           {"lead.reassign", "ai.runTest", "marketing.viewResults", "finance.exportReports"}
      [] role = "realtor" -> SalesWork
      [] role = "mortgage_advisor" -> {"see.office", "mortgage.handle"}
      [] role = "marketing_manager" ->
           {"see.office", "property.view", "ai.runTest", "marketing.launchCampaign",
            "marketing.viewResults", "finance.exportReports"}
      [] role = "secretary" -> SalesWork \cup {"lead.reassign"}
      [] role = "accountant" ->
           {"see.office", "marketing.viewResults", "finance.viewCosts", "finance.viewBilling",
            "finance.exportReports"}
      [] role = "viewer" -> OfficeWork

ShownApproval(role) ==
    CASE role \in Regional ->
           {"user.changeRole", "lead.delete", "property.delete", "marketing.launchCampaign"}
      [] role = "office_manager" ->
           {"lead.delete", "property.delete", "marketing.launchCampaign"}
      [] OTHER -> {}

-----------------------------------------------------------------------------

AccessInit ==
    /\ acRow \in AcRow
    /\ acClosed = {}
    /\ claims = [d \in Devices |-> NoClaims]
    /\ moved = [d \in Devices |-> FALSE]
    /\ refreshable = [d \in Devices |-> FALSE]
    /\ reading = [d \in Devices |-> NoClaims]
    /\ moves = 0

\* login has checked the password and, when the factor is on, the code.
LoginRead(d) ==
    /\ reading[d] = NoClaims
    /\ reading' = [reading EXCEPT ![d] = [row |-> acRow, moved |-> FALSE]]
    /\ UNCHANGED <<acRow, acClosed, claims, moved, refreshable, moves>>

\* refresh finds the token live and reads its user with it.
RefreshRead(d) == refreshable[d] /\ LoginRead(d)

\* Faulty variant: the old token's claims are signed again.
IssueFromClaims(d) ==
    /\ reading[d] # NoClaims
    /\ claims' = [claims EXCEPT ![d] = IF @ = NoClaims THEN reading[d].row ELSE @]
    /\ moved' = [moved EXCEPT ![d] = reading[d].moved]
    /\ refreshable' = [refreshable EXCEPT ![d] = TRUE]
    /\ reading' = [reading EXCEPT ![d] = NoClaims]
    /\ UNCHANGED <<acRow, acClosed, moves>>

\* issueTokens signs what was read, after two or more awaits, and stores the
\* new refresh token whatever happened in between.
Issue(d) ==
    /\ reading[d] # NoClaims
    /\ claims' = [claims EXCEPT ![d] = reading[d].row]
    /\ moved' = [moved EXCEPT ![d] = reading[d].moved]
    /\ refreshable' = [refreshable EXCEPT ![d] = TRUE]
    /\ reading' = [reading EXCEPT ![d] = NoClaims]
    /\ UNCHANGED <<acRow, acClosed, moves>>

\* A store fails in between; the old refresh token may be revoked already.
IssueFails(d) ==
    /\ reading[d] # NoClaims
    /\ reading' = [reading EXCEPT ![d] = NoClaims]
    /\ \E kept \in {FALSE, refreshable[d]} :
          refreshable' = [refreshable EXCEPT ![d] = kept]
    /\ UNCHANGED <<acRow, acClosed, claims, moved, moves>>

\* The access token runs out.
AccessExpires(d) ==
    /\ claims[d] # NoClaims
    /\ claims' = [claims EXCEPT ![d] = NoClaims]
    /\ moved' = [moved EXCEPT ![d] = FALSE]
    /\ UNCHANGED <<acRow, acClosed, refreshable, reading, moves>>

\* logout revokes the refresh tokens of every device; access tokens stay good.
Logout(d) ==
    /\ claims[d] # NoClaims
    /\ claims' = [claims EXCEPT ![d] = NoClaims]
    /\ moved' = [moved EXCEPT ![d] = FALSE]
    /\ refreshable' = [e \in Devices |-> FALSE]
    /\ UNCHANGED <<acRow, acClosed, reading, moves>>

\* A manager gives the member another role or office; no token is revoked.
ChangeUser(row) ==
    /\ row # acRow
    /\ moves < MaxMoves
    /\ acRow' = row
    /\ moves' = moves + 1
    /\ moved' = [d \in Devices |-> claims[d] # NoClaims]
    /\ reading' = [d \in Devices |->
          IF reading[d] = NoClaims THEN NoClaims ELSE [reading[d] EXCEPT !.moved = TRUE]]
    /\ UNCHANGED <<acClosed, claims, refreshable>>

\* deactivateOffice, one transaction.
DeactivateOffice(o) ==
    /\ o \notin acClosed
    /\ acClosed' = acClosed \cup {o}
    /\ refreshable' = [d \in Devices |-> refreshable[d] /\ acRow.office # o]
    /\ UNCHANGED <<acRow, claims, moved, reading, moves>>

ReactivateOffice(o) ==
    /\ o \in acClosed
    /\ acClosed' = acClosed \ {o}
    /\ UNCHANGED <<acRow, claims, moved, refreshable, reading, moves>>

AccessNext ==
    \/ \E d \in Devices :
          \/ LoginRead(d) \/ RefreshRead(d) \/ Issue(d) \/ IssueFails(d)
          \/ AccessExpires(d) \/ Logout(d)
    \/ \E row \in AcRow : ChangeUser(row)
    \/ \E o \in AcOffices : DeactivateOffice(o) \/ ReactivateOffice(o)

AccessSpec == AccessInit /\ [][AccessNext]_acVars

-----------------------------------------------------------------------------

\* TenantStatusGuard before RolesGuard, on a route that requires k.
Answer(d, k) ==
    IF claims[d].office \in acClosed THEN "unavailable"
    ELSE CASE Evaluate(claims[d].role, k) = "allow" -> "allowed"
           [] Evaluate(claims[d].role, k) = "approval" -> "locked"
           [] OTHER -> "forbidden"

\* Rows, claims and reads have a role and an office, or are absent.
AccessTypeOK ==
    /\ acRow \in AcRow
    /\ acClosed \in SUBSET AcOffices
    /\ claims \in [Devices -> AcRow \cup {NoClaims}]
    /\ moved \in [Devices -> BOOLEAN]
    /\ refreshable \in [Devices -> BOOLEAN]
    /\ reading \in [Devices -> [row: AcRow, moved: BOOLEAN] \cup {NoClaims}]
    /\ moves \in 0..MaxMoves

\* A session whose member was not moved since it was issued is answered by the
\* guards as the team page shows for the member's role, and as unavailable
\* exactly while the member's office is closed, whatever refreshes, logins,
\* closings and reopenings came before.
AnsweredAsShown ==
    \A d \in Devices, k \in Keys :
        claims[d] # NoClaims /\ ~moved[d] =>
            Answer(d, k) =
                IF acRow.office \in acClosed THEN "unavailable"
                ELSE CASE k \in ShownYes(acRow.role) -> "allowed"
                       [] k \in ShownApproval(acRow.role) -> "locked"
                       [] OTHER -> "forbidden"
=============================================================================
