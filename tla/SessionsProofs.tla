--------------------------- MODULE SessionsProofs ---------------------------
(***************************************************************************)
(* Theorems about Sessions for every set of users, tenants, tokens, links  *)
(* and calls.  The first part shows that the types hold; the second part   *)
(* proves the safety properties, most of them from the types alone.        *)
(***************************************************************************)
EXTENDS Sessions, FiniteSetTheorems, TLAPS

CallsOK == call \in [Calls -> LegalCall]
TokensOK ==
    /\ token \in [Tokens -> TokenRow]
    /\ \A k \in Tokens : token[k].status = "live" => token[k].user \in Users
LinksOK ==
    /\ link \in [Links -> LinkRow]
    /\ \A l \in Links : link[l].status = "unused" => link[l].user \in Users
TenantsOK == tenant \in [Tenants -> TenantRow] /\ cron \in SUBSET Tenants
UsersOK == user \in [Users -> UserRow]

LEMMA TypeParts == TypeOK <=> CallsOK /\ TokensOK /\ LinksOK /\ TenantsOK /\ UsersOK
  BY DEF TypeOK, CallsOK, TokensOK, LinksOK, TenantsOK, UsersOK, DataTypeOK, OwnersKnown

-----------------------------------------------------------------------------
(* What the shared operators do to the types.                              *)

LEMMA CallFacts ==
  ASSUME CallsOK, NEW c \in Calls
  PROVE  /\ call[c] \in Call
         /\ call[c].step \in {"suspend.commit", "reactivate.commit"} => call[c].row \in Tenants
         /\ call[c].step \notin {"idle", "suspend.commit", "reactivate.commit"}
               => call[c].user \in Users
         /\ call[c].step = "refresh.revoke" => call[c].row \in Tokens
         /\ call[c].step \in {"link.mail", "activate.commit", "reset.commit"}
               => call[c].row \in Links
         /\ call[c].step \in {"link.supersede", "link.create"} => call[c].kind \in Kind
<1>1. call[c] \in LegalCall
  BY DEF CallsOK
<1> QED
  BY <1>1 DEF LegalCall

LEMMA IdleLegal == IdleCall \in LegalCall
  BY DEF IdleCall, NewCall, LegalCall, Call, Step

LEMMA SetCall ==
  ASSUME CallsOK, NEW c \in Calls, NEW x \in LegalCall,
         call' = [call EXCEPT ![c] = x]
  PROVE  CallsOK'
  BY DEF CallsOK

LEMMA ReturnLegal ==
  ASSUME CallsOK, NEW c \in Calls, Return(c)
  PROVE  CallsOK'
  BY IdleLegal, SetCall DEF Return

LEMMA StartLegal ==
  ASSUME CallsOK, NEW c \in Calls, NEW x \in LegalCall, Start(c, x)
  PROVE  CallsOK'
  BY SetCall DEF Start

LEMMA BeginLegal ==
  ASSUME CallsOK, NEW c \in Calls, NEW u, NEW row, NEW step, Begin(c, u, row, step),
         NewCall(step, u, row, "none", FALSE) \in LegalCall
  PROVE  CallsOK'
  BY StartLegal DEF Begin

LEMMA GotoLegal ==
  ASSUME CallsOK, NEW c \in Calls, NEW step, Goto(c, step),
         [call[c] EXCEPT !.step = step] \in LegalCall
  PROVE  CallsOK'
<1> DEFINE x == [call[c] EXCEPT !.step = step]
<1>1. call' = [call EXCEPT ![c] = x]
  BY DEF Goto
<1>2. x \in LegalCall
  OBVIOUS
<1> HIDE DEF x
<1> QED
  BY <1>1, <1>2, SetCall

LEMMA OvertakeLegal ==
  ASSUME CallsOK, NEW us, NEW ending, Overtake(us, ending)
  PROVE  CallsOK'
<1>1. \A c \in Calls : [call[c] EXCEPT !.stale = TRUE] \in LegalCall
  <2> SUFFICES ASSUME NEW c \in Calls
               PROVE  [call[c] EXCEPT !.stale = TRUE] \in LegalCall
    OBVIOUS
  <2>1. call[c] \in LegalCall
    BY DEF CallsOK
  <2> QED
    BY <2>1 DEF LegalCall, Call
<1>2. \A c \in Calls : call[c] \in LegalCall
  BY DEF CallsOK
<1> QED
  BY <1>1, <1>2, IdleLegal DEF Overtake, CallsOK

LEMMA RevokeTypes ==
  ASSUME TokensOK, NEW us, RevokeAll(us)
  PROVE  TokensOK'
  BY DEF TokensOK, RevokeAll, TokenRow

LEMMA NewTenantLegal ==
  ASSUME TenantsOK, UsersOK, NEW t, NEW status \in TenantStatus,
         NEW trial \in {"never", "running"}, NEW owners,
         NewTenant(t, status, trial, owners), UNCHANGED cron
  PROVE  TenantsOK' /\ UsersOK'
<1>1. TenantsOK'
  BY DEF NewTenant, TenantsOK, TenantRow
<1>2. UsersOK'
  BY DEF NewTenant, UsersOK, UserRow, UserStatus
<1> QED
  BY <1>1, <1>2

LEMMA SuspendedLegal ==
  ASSUME NEW row \in TenantRow, NEW by \in {"admin", "trial"}
  PROVE  [row EXCEPT !.status = "suspended", !.by = by] \in TenantRow
<1>1. [row EXCEPT !.status = "suspended"] \in TenantRow
  BY DEF TenantRow, TenantStatus
<1>2. \A r \in TenantRow : [r EXCEPT !.by = by] \in TenantRow
  BY DEF TenantRow
<1> QED
  BY <1>1, <1>2

LEMMA UseLinkLegal ==
  ASSUME LinksOK, NEW l, UseLink(l)
  PROVE  LinksOK'
<1>1. CASE l \notin Links
  BY <1>1 DEF UseLink, LinksOK
<1>2. CASE l \in Links
  <2>1. link[l] \in LinkRow
    BY <1>2 DEF LinksOK
  <2>2. link[l].uses + 1 \in Nat
    BY <2>1 DEF LinkRow
  <2> DEFINE x == [link[l] EXCEPT !.status = "spent", !.uses = link[l].uses + 1]
  <2>3. x \in LinkRow /\ x.status = "spent"
    BY <2>1, <2>2 DEF LinkRow
  <2>4. link' = [link EXCEPT ![l] = x]
    BY DEF UseLink
  <2> HIDE DEF x
  <2> QED
    BY <2>3, <2>4, <1>2 DEF LinksOK
<1> QED
  BY <1>1, <1>2

-----------------------------------------------------------------------------
(* Type correctness, one step per action.                                  *)

LEMMA TypeNext ==
  ASSUME ConstantsAssumption, TypeOK, [Next]_vars
  PROVE  TypeOK'
<1> USE ConstantsAssumption
<1>0. CallsOK /\ TokensOK /\ LinksOK /\ TenantsOK /\ UsersOK
  BY TypeParts
<1> SUFFICES CallsOK' /\ TokensOK' /\ LinksOK' /\ TenantsOK' /\ UsersOK'
  BY DEF TypeOK, CallsOK, TokensOK, LinksOK, TenantsOK, UsersOK, DataTypeOK, OwnersKnown
<1>1. ASSUME UNCHANGED vars
      PROVE  CallsOK' /\ TokensOK' /\ LinksOK' /\ TenantsOK' /\ UsersOK'
  BY <1>0, <1>1 DEF vars, CallsOK, TokensOK, LinksOK, TenantsOK, UsersOK
<1>2. ASSUME NEW c \in Calls, NEW u \in Users, Register(c, u)
      PROVE  CallsOK' /\ TokensOK' /\ LinksOK' /\ TenantsOK' /\ UsersOK'
  <2>1. Begin(c, u, None, "issue")
    BY <1>2 DEF Register
  <2>2. CallsOK'
    BY <1>0, <2>1, BeginLegal DEF NewCall, LegalCall, Call, Step
  <2>3. NewTenant(TenantOf[u], "trial", "running", {u}) /\ UNCHANGED cron
    BY <1>2 DEF Register
  <2>4. TenantsOK' /\ UsersOK'
    BY <1>0, <2>3, NewTenantLegal DEF TenantStatus
  <2> QED
    BY <1>0, <1>2, <2>2, <2>4 DEF Register, TokensOK, LinksOK
<1>3. ASSUME NEW t \in Tenants, Provision(t)
      PROVE  CallsOK' /\ TokensOK' /\ LinksOK' /\ TenantsOK' /\ UsersOK'
  <2>1. PICK owners :
            \/ NewTenant(t, "trial", "running", owners)
            \/ \E status \in TenantStatus : NewTenant(t, status, "never", owners)
    BY <1>3 DEF Provision
  <2>2. UNCHANGED cron
    BY <1>3 DEF Provision
  <2>3. CASE NewTenant(t, "trial", "running", owners)
    <3>1. TenantsOK' /\ UsersOK'
      BY <1>0, <2>2, <2>3, NewTenantLegal DEF TenantStatus
    <3> QED
      BY <1>0, <1>3, <3>1 DEF Provision, CallsOK, TokensOK, LinksOK
  <2>4. CASE \E status \in TenantStatus : NewTenant(t, status, "never", owners)
    <3>1. PICK status \in TenantStatus : NewTenant(t, status, "never", owners)
      BY <2>4
    <3>2. TenantsOK' /\ UsersOK'
      BY <1>0, <2>2, <3>1, NewTenantLegal
    <3> QED
      BY <1>0, <1>3, <3>2 DEF Provision, CallsOK, TokensOK, LinksOK
  <2> QED
    BY <2>1, <2>3, <2>4
<1>4. ASSUME NEW c \in Calls, NEW t \in Tenants, SuspendRead(c, t)
      PROVE  CallsOK' /\ TokensOK' /\ LinksOK' /\ TenantsOK' /\ UsersOK'
  <2>1. Begin(c, None, t, "suspend.commit")
    BY <1>4 DEF SuspendRead
  <2>2. CallsOK'
    BY <1>0, <2>1, BeginLegal DEF NewCall, LegalCall, Call, Step
  <2> QED
    BY <1>0, <1>4, <2>2 DEF SuspendRead, TokensOK, LinksOK, TenantsOK, UsersOK
<1>5. ASSUME NEW c \in Calls, SuspendCommit(c)
      PROVE  CallsOK' /\ TokensOK' /\ LinksOK' /\ TenantsOK' /\ UsersOK'
  <2>1. call[c].row \in Tenants
    BY <1>0, <1>5, CallFacts DEF SuspendCommit, At
  <2>2. TenantsOK'
    <3>1. [tenant[call[c].row] EXCEPT !.status = "suspended", !.by = "admin"] \in TenantRow
      BY <1>0, <2>1, SuspendedLegal DEF TenantsOK
    <3> QED
      BY <1>0, <1>5, <2>1, <3>1 DEF SuspendCommit, TenantsOK
  <2>3. CallsOK' /\ TokensOK'
    BY <1>0, <1>5, OvertakeLegal, RevokeTypes DEF SuspendCommit
  <2> QED
    BY <1>0, <1>5, <2>2, <2>3 DEF SuspendCommit, LinksOK, UsersOK
<1>6. ASSUME NEW c \in Calls, NEW t \in Tenants, ReactivateRead(c, t)
      PROVE  CallsOK' /\ TokensOK' /\ LinksOK' /\ TenantsOK' /\ UsersOK'
  <2>1. Begin(c, None, t, "reactivate.commit")
    BY <1>6 DEF ReactivateRead
  <2>2. CallsOK'
    BY <1>0, <2>1, BeginLegal DEF NewCall, LegalCall, Call, Step
  <2> QED
    BY <1>0, <1>6, <2>2 DEF ReactivateRead, TokensOK, LinksOK, TenantsOK, UsersOK
<1>7. ASSUME NEW c \in Calls, ReactivateCommit(c)
      PROVE  CallsOK' /\ TokensOK' /\ LinksOK' /\ TenantsOK' /\ UsersOK'
  <2>1. call[c].row \in Tenants
    BY <1>0, <1>7, CallFacts DEF ReactivateCommit, At
  <2>2. TenantsOK'
    BY <1>0, <1>7, <2>1 DEF ReactivateCommit, TenantsOK, TenantRow, TenantStatus
  <2>3. CallsOK'
    BY <1>0, <1>7, ReturnLegal DEF ReactivateCommit
  <2> QED
    BY <1>0, <1>7, <2>2, <2>3 DEF ReactivateCommit, TokensOK, LinksOK, UsersOK
<1>8. ASSUME ExpireRead \/ ExpireFails
      PROVE  CallsOK' /\ TokensOK' /\ LinksOK' /\ TenantsOK' /\ UsersOK'
  BY <1>0, <1>8 DEF ExpireRead, ExpireFails, CallsOK, TokensOK, LinksOK, TenantsOK, UsersOK
<1>9. ASSUME NEW t \in Tenants, ExpireSkip(t)
      PROVE  CallsOK' /\ TokensOK' /\ LinksOK' /\ TenantsOK' /\ UsersOK'
  BY <1>0, <1>9 DEF ExpireSkip, CallsOK, TokensOK, LinksOK, TenantsOK, UsersOK
<1>10. ASSUME NEW t \in Tenants, ExpireSuspend(t)
       PROVE  CallsOK' /\ TokensOK' /\ LinksOK' /\ TenantsOK' /\ UsersOK'
  <2>1. TenantsOK'
    <3>1. [tenant[t] EXCEPT !.status = "suspended", !.by = "trial"] \in TenantRow
      BY <1>0, SuspendedLegal DEF TenantsOK
    <3> QED
      BY <1>0, <1>10, <3>1 DEF ExpireSuspend, TenantsOK
  <2>2. CallsOK' /\ TokensOK'
    BY <1>0, <1>10, OvertakeLegal, RevokeTypes DEF ExpireSuspend
  <2> QED
    BY <1>0, <1>10, <2>1, <2>2 DEF ExpireSuspend, LinksOK, UsersOK
<1>11. ASSUME NEW c \in Calls, NEW u \in Users, Invite(c, u)
       PROVE  CallsOK' /\ TokensOK' /\ LinksOK' /\ TenantsOK' /\ UsersOK'
  <2> DEFINE x == NewCall("link.supersede", u, None, "activation", FALSE)
  <2>1. Start(c, x)
    BY <1>11 DEF Invite
  <2>2. x \in LegalCall
    BY DEF LegalCall, Call, Step, Kind, NewCall
  <2> HIDE DEF x
  <2>3. CallsOK'
    BY <1>0, <2>1, <2>2, StartLegal
  <2>4. UsersOK'
    BY <1>0, <1>11 DEF Invite, UsersOK, UserRow, UserStatus
  <2> QED
    BY <1>0, <1>11, <2>3, <2>4 DEF Invite, TokensOK, LinksOK, TenantsOK
<1>12. ASSUME NEW c \in Calls, NEW u \in Users, UpdateRead(c, u)
       PROVE  CallsOK' /\ TokensOK' /\ LinksOK' /\ TenantsOK' /\ UsersOK'
  <2>1. Begin(c, u, None, "update.commit")
    BY <1>12 DEF UpdateRead
  <2>2. CallsOK'
    BY <1>0, <2>1, BeginLegal DEF NewCall, LegalCall, Call, Step
  <2> QED
    BY <1>0, <1>12, <2>2 DEF UpdateRead, TokensOK, LinksOK, TenantsOK, UsersOK
<1>13. ASSUME NEW c \in Calls, UpdateCommit(c)
       PROVE  CallsOK' /\ TokensOK' /\ LinksOK' /\ TenantsOK' /\ UsersOK'
  <2>1. CallsOK'
    BY <1>0, <1>13, ReturnLegal DEF UpdateCommit
  <2>2. PICK status \in UserStatus : user' = [user EXCEPT ![call[c].user].status = status]
    BY <1>13 DEF UpdateCommit
  <2>3. \A u \in Users : user[u] \in UserRow /\ [user[u] EXCEPT !.status = status] \in UserRow
    BY <1>0 DEF UsersOK, UserRow
  <2>4. UsersOK'
    BY <1>0, <2>2, <2>3 DEF UsersOK
  <2> QED
    BY <1>0, <1>13, <2>1, <2>4 DEF UpdateCommit, TokensOK, LinksOK, TenantsOK
<1>14. ASSUME NEW c \in Calls, NEW u \in Users, Forgot(c, u)
       PROVE  CallsOK' /\ TokensOK' /\ LinksOK' /\ TenantsOK' /\ UsersOK'
  <2> DEFINE x == NewCall("link.supersede", u, None, "reset", FALSE)
  <2>1. Start(c, x)
    BY <1>14 DEF Forgot
  <2>2. x \in LegalCall
    BY DEF LegalCall, Call, Step, Kind, NewCall
  <2> HIDE DEF x
  <2>3. CallsOK'
    BY <1>0, <2>1, <2>2, StartLegal
  <2> QED
    BY <1>0, <1>14, <2>3 DEF Forgot, TokensOK, LinksOK, TenantsOK, UsersOK
<1>15. ASSUME NEW c \in Calls, Supersede(c)
       PROVE  CallsOK' /\ TokensOK' /\ LinksOK' /\ TenantsOK' /\ UsersOK'
  <2>1. [call[c] EXCEPT !.step = "link.create"] \in LegalCall
    BY <1>0, <1>15, CallFacts DEF Supersede, At, LegalCall, Call, Step
  <2>2. CallsOK'
    BY <1>0, <1>15, <2>1, GotoLegal DEF Supersede
  <2>3. LinksOK'
    BY <1>0, <1>15 DEF Supersede, LinksOK, LinkRow
  <2> QED
    BY <1>0, <1>15, <2>2, <2>3 DEF Supersede, TokensOK, TenantsOK, UsersOK
<1>16. ASSUME NEW c \in Calls, CreateLink(c)
       PROVE  CallsOK' /\ TokensOK' /\ LinksOK' /\ TenantsOK' /\ UsersOK'
  <2>1. call[c] \in Call /\ call[c].user \in Users /\ call[c].kind \in Kind
    BY <1>0, <1>16, CallFacts DEF CreateLink, At
  <2>2. PICK l \in Links :
          /\ link' = [link EXCEPT ![l] = [kind |-> call[c].kind, user |-> call[c].user,
                                          status |-> "unused", mailed |-> FALSE,
                                          uses |-> 0]]
          /\ call' = [call EXCEPT ![c] =
                        [call[c] EXCEPT !.step = "link.mail", !.row = l]]
    BY <1>16 DEF CreateLink
  <2> DEFINE x == [call[c] EXCEPT !.step = "link.mail", !.row = l]
  <2>3. x \in LegalCall
    BY <2>1 DEF LegalCall, Call, Step
  <2>4. call' = [call EXCEPT ![c] = x]
    BY <2>2
  <2> HIDE DEF x
  <2>5. CallsOK'
    BY <1>0, <2>3, <2>4, SetCall
  <2>6. LinksOK'
    BY <1>0, <2>1, <2>2 DEF LinksOK, LinkRow, Kind
  <2> QED
    BY <1>0, <1>16, <2>5, <2>6 DEF CreateLink, TokensOK, TenantsOK, UsersOK
<1>17. ASSUME NEW c \in Calls, MailLink(c)
       PROVE  CallsOK' /\ TokensOK' /\ LinksOK' /\ TenantsOK' /\ UsersOK'
  <2>1. CallsOK'
    BY <1>0, <1>17, ReturnLegal DEF MailLink
  <2>2. LinksOK'
    <3> DEFINE x == [link[call[c].row] EXCEPT !.mailed = TRUE]
    <3>1. call[c].row \in Links
      BY <1>0, <1>17, CallFacts DEF MailLink, At
    <3>2. link[call[c].row] \in LinkRow
      BY <1>0, <3>1 DEF LinksOK
    <3>3. x \in LinkRow /\ x.status = link[call[c].row].status
                       /\ x.user = link[call[c].row].user
      BY <3>2 DEF LinkRow
    <3>4. link' = [link EXCEPT ![call[c].row] = x]
      BY <1>17 DEF MailLink
    <3> HIDE DEF x
    <3> QED
      BY <1>0, <3>1, <3>3, <3>4 DEF LinksOK
  <2> QED
    BY <1>0, <1>17, <2>1, <2>2 DEF MailLink, TokensOK, TenantsOK, UsersOK
<1>18. ASSUME NEW c \in Calls, NEW l \in Links, ActivateRead(c, l) \/ ResetRead(c, l)
       PROVE  CallsOK' /\ TokensOK' /\ LinksOK' /\ TenantsOK' /\ UsersOK'
  <2>1. PICK step \in {"activate.commit", "reset.commit"} :
            /\ Begin(c, link[l].user, l, step)
            /\ link[l].status = "unused"
            /\ UNCHANGED <<tenant, user, token, link, cron>>
    BY <1>18 DEF ActivateRead, ResetRead, LinkRead
  <2>2. link[l].user \in Users
    BY <1>0, <2>1 DEF LinksOK
  <2>3. NewCall(step, link[l].user, l, "none", FALSE) \in LegalCall
    BY <2>2 DEF NewCall, LegalCall, Call, Step
  <2>4. CallsOK'
    BY <1>0, <2>1, <2>3, BeginLegal
  <2> QED
    BY <1>0, <2>1, <2>4 DEF TokensOK, LinksOK, TenantsOK, UsersOK
<1>19. ASSUME NEW c \in Calls, ActivateCommit(c)
       PROVE  CallsOK' /\ TokensOK' /\ LinksOK' /\ TenantsOK' /\ UsersOK'
  <2>1. CallsOK'
    BY <1>0, <1>19, ReturnLegal DEF ActivateCommit
  <2>2. LinksOK'
    BY <1>0, <1>19, UseLinkLegal DEF ActivateCommit
  <2>3. UsersOK'
    BY <1>0, <1>19 DEF ActivateCommit, UsersOK, UserRow, UserStatus
  <2> QED
    BY <1>0, <1>19, <2>1, <2>2, <2>3 DEF ActivateCommit, TokensOK, TenantsOK
<1>20. ASSUME NEW c \in Calls, ResetCommit(c)
       PROVE  CallsOK' /\ TokensOK' /\ LinksOK' /\ TenantsOK' /\ UsersOK'
  <2>1. CallsOK' /\ TokensOK'
    BY <1>0, <1>20, OvertakeLegal, RevokeTypes DEF ResetCommit
  <2>2. LinksOK'
    BY <1>0, <1>20, UseLinkLegal DEF ResetCommit
  <2>3. UsersOK'
    BY <1>0, <1>20 DEF ResetCommit, UsersOK, UserRow
  <2> QED
    BY <1>0, <1>20, <2>1, <2>2, <2>3 DEF ResetCommit, TenantsOK
<1>21. ASSUME NEW c \in Calls, NEW u \in Users, LoginRead(c, u)
       PROVE  CallsOK' /\ TokensOK' /\ LinksOK' /\ TenantsOK' /\ UsersOK'
  <2>1. Begin(c, u, None, "issue")
    BY <1>21 DEF LoginRead
  <2>2. CallsOK'
    BY <1>0, <2>1, BeginLegal DEF NewCall, LegalCall, Call, Step
  <2> QED
    BY <1>0, <1>21, <2>2 DEF LoginRead, TokensOK, LinksOK, TenantsOK, UsersOK
<1>22. ASSUME NEW c \in Calls, NEW k \in Tokens, RefreshRead(c, k)
       PROVE  CallsOK' /\ TokensOK' /\ LinksOK' /\ TenantsOK' /\ UsersOK'
  <2> DEFINE x == NewCall("refresh.revoke", token[k].user, k, "none", token[k].stale)
  <2>1. Start(c, x)
    BY <1>22 DEF RefreshRead
  <2>2. token[k].user \in Users /\ token[k].stale \in BOOLEAN
    BY <1>0, <1>22 DEF RefreshRead, TokensOK, TokenRow
  <2>3. x \in LegalCall
    BY <2>2 DEF LegalCall, Call, Step, NewCall
  <2> HIDE DEF x
  <2>4. CallsOK'
    BY <1>0, <2>1, <2>3, StartLegal
  <2> QED
    BY <1>0, <1>22, <2>4 DEF RefreshRead, TokensOK, LinksOK, TenantsOK, UsersOK
<1>23. ASSUME NEW c \in Calls, RefreshRevoke(c)
       PROVE  CallsOK' /\ TokensOK' /\ LinksOK' /\ TenantsOK' /\ UsersOK'
  <2>1. [call[c] EXCEPT !.step = "issue"] \in LegalCall
    BY <1>0, <1>23, CallFacts DEF RefreshRevoke, At, LegalCall, Call, Step
  <2>2. CallsOK'
    BY <1>0, <1>23, <2>1, GotoLegal DEF RefreshRevoke
  <2>3. call[c].row \in Tokens
    BY <1>0, <1>23, CallFacts DEF RefreshRevoke, At
  <2>4. TokensOK'
    BY <1>0, <1>23, <2>3 DEF RefreshRevoke, TokensOK, TokenRow
  <2> QED
    BY <1>0, <1>23, <2>2, <2>4 DEF RefreshRevoke, LinksOK, TenantsOK, UsersOK
<1>24. ASSUME NEW c \in Calls, IssueTokens(c)
       PROVE  CallsOK' /\ TokensOK' /\ LinksOK' /\ TenantsOK' /\ UsersOK'
  <2>1. CallsOK'
    BY <1>0, <1>24, ReturnLegal DEF IssueTokens
  <2>2. call[c].user \in Users /\ call[c].stale \in BOOLEAN
    BY <1>0, <1>24, CallFacts DEF IssueTokens, At, Call
  <2>3. TokensOK'
    BY <1>0, <1>24, <2>2 DEF IssueTokens, TokensOK, TokenRow
  <2> QED
    BY <1>0, <1>24, <2>1, <2>3 DEF IssueTokens, LinksOK, TenantsOK, UsersOK
<1>25. ASSUME NEW u \in Users, Logout(u)
       PROVE  CallsOK' /\ TokensOK' /\ LinksOK' /\ TenantsOK' /\ UsersOK'
  <2>1. CallsOK' /\ TokensOK'
    BY <1>0, <1>25, OvertakeLegal, RevokeTypes DEF Logout
  <2> QED
    BY <1>0, <1>25, <2>1 DEF Logout, LinksOK, TenantsOK, UsersOK
<1>26. ASSUME NEW c \in Calls, Fail(c)
       PROVE  CallsOK' /\ TokensOK' /\ LinksOK' /\ TenantsOK' /\ UsersOK'
  <2>1. CallsOK'
    BY <1>0, <1>26, ReturnLegal DEF Fail
  <2> QED
    BY <1>0, <1>26, <2>1 DEF Fail, TokensOK, LinksOK, TenantsOK, UsersOK
<1>27. ASSUME NEW t \in Tenants, TrialEnds(t)
       PROVE  CallsOK' /\ TokensOK' /\ LinksOK' /\ TenantsOK' /\ UsersOK'
  <2>1. [tenant[t] EXCEPT !.trial = "over"] \in TenantRow
    BY <1>0 DEF TenantsOK, TenantRow
  <2>2. TenantsOK'
    BY <1>0, <1>27, <2>1 DEF TrialEnds, TenantsOK
  <2> QED
    BY <1>0, <1>27, <2>2 DEF TrialEnds, CallsOK, TokensOK, LinksOK, UsersOK
<1>28. ASSUME NEW k \in Tokens, TokenExpires(k)
       PROVE  CallsOK' /\ TokensOK' /\ LinksOK' /\ TenantsOK' /\ UsersOK'
  <2>1. [token[k] EXCEPT !.status = "dead"] \in TokenRow
    BY <1>0 DEF TokensOK, TokenRow
  <2>2. TokensOK'
    BY <1>0, <1>28, <2>1 DEF TokenExpires, TokensOK
  <2> QED
    BY <1>0, <1>28, <2>2 DEF TokenExpires, CallsOK, TenantsOK, LinksOK, UsersOK
<1>29. ASSUME NEW l \in Links, LinkExpires(l)
       PROVE  CallsOK' /\ TokensOK' /\ LinksOK' /\ TenantsOK' /\ UsersOK'
  <2>1. [link[l] EXCEPT !.status = "spent"] \in LinkRow
    BY <1>0 DEF LinksOK, LinkRow
  <2>2. LinksOK'
    BY <1>0, <1>29, <2>1 DEF LinkExpires, LinksOK
  <2> QED
    BY <1>0, <1>29, <2>2 DEF LinkExpires, CallsOK, TenantsOK, TokensOK, UsersOK
<1> QED
  BY <1>1, <1>2, <1>3, <1>4, <1>5, <1>6, <1>7, <1>8, <1>9, <1>10, <1>11, <1>12, <1>13,
     <1>14, <1>15, <1>16, <1>17, <1>18, <1>19, <1>20, <1>21, <1>22, <1>23, <1>24, <1>25,
     <1>26, <1>27, <1>28, <1>29
     DEF Next, TenantStep, CronStep, TimeStep, UserStep, LinkStep, SessionStep

\* Every row, token, link and call keeps its type, whatever the calls interleave.
THEOREM TypeCorrect == Spec => []TypeOK
<1> USE ConstantsAssumption
<1>1. Init => TypeOK
  BY IdleLegal DEF Init, TypeOK, DataTypeOK, OwnersKnown, TenantRow, UserRow, TokenRow,
     LinkRow
<1>2. TypeOK /\ [Next]_vars => TypeOK'
  BY TypeNext
<1> QED
  BY <1>1, <1>2, PTL DEF Spec

-----------------------------------------------------------------------------
(* Sessions.  Most steps neither touch a token nor bring a call to a point *)
(* where it hands out a session; the others are named in SessionKinds.     *)

SessionQuiet ==
    /\ token' = token
    /\ \A c \in Calls : call'[c] = call[c] \/ call'[c].step \notin SessionSteps

LEMMA StartQuiet ==
  ASSUME CallsOK, NEW c \in Calls, NEW x, x.step \notin SessionSteps,
         Start(c, x), token' = token
  PROVE  SessionQuiet
  BY DEF CallsOK, Start, SessionQuiet

LEMMA BeginQuiet ==
  ASSUME CallsOK, NEW c \in Calls, NEW u, NEW row, NEW step, step \notin SessionSteps,
         Begin(c, u, row, step), token' = token
  PROVE  SessionQuiet
  BY StartQuiet DEF Begin, NewCall

LEMMA ReturnQuiet ==
  ASSUME CallsOK, NEW c \in Calls, Return(c), token' = token
  PROVE  SessionQuiet
  BY DEF CallsOK, Return, SessionQuiet, IdleCall, NewCall, SessionSteps

LEMMA SessionKinds ==
  ASSUME TypeOK, [Next]_vars
  PROVE  \/ SessionQuiet
         \/ \E c \in Calls, u \in Users : Register(c, u) \/ LoginRead(c, u)
         \/ \E c \in Calls, k \in Tokens : RefreshRead(c, k)
         \/ \E c \in Calls : RefreshRevoke(c) \/ IssueTokens(c)
         \/ \E us \in SUBSET Users, ending \in SUBSET Calls :
                RevokeAll(us) /\ Overtake(us, ending)
         \/ \E k \in Tokens : TokenExpires(k)
<1>0. CallsOK
  BY TypeParts
<1>1. CASE UNCHANGED vars
  BY <1>1 DEF vars, SessionQuiet
<1>2. ASSUME NEW t \in Tenants, Provision(t)
      PROVE  SessionQuiet
  BY <1>2 DEF Provision, SessionQuiet
<1>3. ASSUME NEW c \in Calls, NEW t \in Tenants, SuspendRead(c, t) \/ ReactivateRead(c, t)
      PROVE  SessionQuiet
  BY <1>0, <1>3, BeginQuiet DEF SuspendRead, ReactivateRead, SessionSteps
<1>4. ASSUME NEW c \in Calls, SuspendCommit(c)
      PROVE  \E us \in SUBSET Users, ending \in SUBSET Calls :
                RevokeAll(us) /\ Overtake(us, ending)
  <2>1. Members(call[c].row) \in SUBSET Users /\ {c} \in SUBSET Calls
    BY DEF Members
  <2> QED
    BY <1>4, <2>1 DEF SuspendCommit
<1>5. ASSUME NEW c \in Calls, ReactivateCommit(c) \/ UpdateCommit(c) \/ MailLink(c)
                              \/ ActivateCommit(c) \/ Fail(c)
      PROVE  SessionQuiet
  BY <1>0, <1>5, ReturnQuiet
     DEF ReactivateCommit, UpdateCommit, MailLink, ActivateCommit, Fail
<1>6. CASE ExpireRead \/ ExpireFails \/ \E t \in Tenants : ExpireSkip(t) \/ TrialEnds(t)
  BY <1>6 DEF ExpireRead, ExpireFails, ExpireSkip, TrialEnds, SessionQuiet
<1>7. ASSUME NEW t \in Tenants, ExpireSuspend(t)
      PROVE  \E us \in SUBSET Users, ending \in SUBSET Calls :
                RevokeAll(us) /\ Overtake(us, ending)
  <2>1. Members(t) \in SUBSET Users /\ {} \in SUBSET Calls
    BY DEF Members
  <2> QED
    BY <1>7, <2>1 DEF ExpireSuspend
<1>8. ASSUME NEW c \in Calls, NEW u \in Users, Invite(c, u) \/ Forgot(c, u)
      PROVE  SessionQuiet
  BY <1>0, <1>8, StartQuiet DEF Invite, Forgot, NewCall, SessionSteps
<1>9. ASSUME NEW c \in Calls, NEW u \in Users, UpdateRead(c, u)
      PROVE  SessionQuiet
  BY <1>0, <1>9, BeginQuiet DEF UpdateRead, SessionSteps
<1>10. ASSUME NEW c \in Calls, NEW l \in Links, ActivateRead(c, l) \/ ResetRead(c, l)
       PROVE  SessionQuiet
  BY <1>0, <1>10, BeginQuiet DEF ActivateRead, ResetRead, LinkRead, SessionSteps
<1>11. ASSUME NEW c \in Calls, Supersede(c)
       PROVE  SessionQuiet
  BY <1>0, <1>11, CallFacts DEF Supersede, Goto, CallsOK, SessionQuiet, SessionSteps, Call
<1>12. ASSUME NEW c \in Calls, CreateLink(c)
       PROVE  SessionQuiet
  <2>1. PICK l \in Links :
          call' = [call EXCEPT ![c] = [call[c] EXCEPT !.step = "link.mail", !.row = l]]
    BY <1>12 DEF CreateLink
  <2>2. call[c] \in Call
    BY <1>0, CallFacts
  <2>3. [call[c] EXCEPT !.step = "link.mail", !.row = l].step = "link.mail"
    BY <2>2 DEF Call
  <2> QED
    BY <1>0, <1>12, <2>1, <2>3 DEF CreateLink, CallsOK, SessionQuiet, SessionSteps
<1>13. ASSUME NEW c \in Calls, ResetCommit(c)
       PROVE  \E us \in SUBSET Users, ending \in SUBSET Calls :
                 RevokeAll(us) /\ Overtake(us, ending)
  <2>1. {call[c].user} \in SUBSET Users /\ {c} \in SUBSET Calls
    BY <1>0, <1>13, CallFacts DEF ResetCommit, At
  <2> QED
    BY <1>13, <2>1 DEF ResetCommit
<1>14. ASSUME NEW u \in Users, Logout(u)
       PROVE  \E us \in SUBSET Users, ending \in SUBSET Calls :
                 RevokeAll(us) /\ Overtake(us, ending)
  BY <1>14 DEF Logout
<1>15. ASSUME NEW l \in Links, LinkExpires(l)
       PROVE  SessionQuiet
  BY <1>15 DEF LinkExpires, SessionQuiet
<1> QED
  BY <1>1, <1>2, <1>3, <1>4, <1>5, <1>6, <1>7, <1>8, <1>9, <1>10, <1>11, <1>12, <1>13,
     <1>14, <1>15
     DEF Next, TenantStep, CronStep, TimeStep, UserStep, LinkStep, SessionStep

\* A password, once set, is replaced but never removed.
LEMMA PasswordsKept ==
  ASSUME TypeOK, [Next]_vars, NEW u \in Users, user[u].password
  PROVE  user'[u].password
<1>0. UsersOK
  BY TypeParts
<1>1. ASSUME NEW t, NEW status, NEW trial, NEW owners, NewTenant(t, status, trial, owners)
      PROVE  user'[u].password
  BY <1>0, <1>1 DEF NewTenant, UsersOK, UserRow
<1>2. ASSUME NEW c \in Calls, NEW v \in Users, Register(c, v)
      PROVE  user'[u].password
  BY <1>1, <1>2 DEF Register
<1>3. ASSUME NEW t \in Tenants, Provision(t)
      PROVE  user'[u].password
  <2>1. PICK owners :
            \/ NewTenant(t, "trial", "running", owners)
            \/ \E status \in TenantStatus : NewTenant(t, status, "never", owners)
    BY <1>3 DEF Provision
  <2> QED
    BY <1>1, <2>1
<1>4. ASSUME NEW c \in Calls, NEW v \in Users, Invite(c, v)
      PROVE  user'[u].password
  BY <1>0, <1>4 DEF Invite, UsersOK, UserRow
<1>5. ASSUME NEW c \in Calls, UpdateCommit(c)
      PROVE  user'[u].password
  <2>1. PICK status : user' = [user EXCEPT ![call[c].user].status = status]
    BY <1>5 DEF UpdateCommit
  <2> QED
    BY <1>0, <2>1 DEF UsersOK, UserRow
<1>6. ASSUME NEW c \in Calls, ActivateCommit(c) \/ ResetCommit(c)
      PROVE  user'[u].password
  BY <1>0, <1>6 DEF ActivateCommit, ResetCommit, UsersOK, UserRow
<1>7. CASE user' = user
  BY <1>7
<1> QED
  BY <1>2, <1>3, <1>4, <1>5, <1>6, <1>7
     DEF Next, vars, TenantStep, CronStep, TimeStep, UserStep, LinkStep, SessionStep,
         SuspendRead, SuspendCommit, ReactivateRead, ReactivateCommit, ExpireRead,
         ExpireFails, ExpireSkip, ExpireSuspend, TrialEnds, TokenExpires, LinkExpires,
         UpdateRead, Forgot, Supersede, CreateLink, MailLink, ActivateRead, ResetRead,
         LinkRead, LoginRead, RefreshRead, RefreshRevoke, IssueTokens, Logout, Fail

-----------------------------------------------------------------------------
(* What each kind of step does to the sessions of one user.                *)

HasSession(u) ==
    (\E k \in Tokens : LiveToken(k, u)) \/ (\E c \in Calls : SessionCall(c, u))

\* A login or registration brings one call to the point of issuing.
LEMMA OpeningCall ==
  ASSUME CallsOK, NEW c \in Calls, NEW v \in Users, Register(c, v) \/ LoginRead(c, v)
  PROVE  /\ token' = token
         /\ call'[c].user = v /\ ~call'[c].stale
         /\ \A b \in Calls \ {c} : call'[b] = call[b]
<1> DEFINE x == NewCall("issue", v, None, "none", FALSE)
<1>1. Start(c, x) /\ token' = token
  BY DEF Register, LoginRead, Begin
<1>2. x.user = v /\ ~x.stale
  BY DEF NewCall
<1> HIDE DEF x
<1> QED
  BY <1>1, <1>2 DEF Start, CallsOK

LEMMA RefreshingCall ==
  ASSUME CallsOK, NEW c \in Calls, NEW k \in Tokens, RefreshRead(c, k)
  PROVE  /\ token' = token /\ token[k].status = "live"
         /\ call'[c].user = token[k].user /\ call'[c].stale = token[k].stale
         /\ \A b \in Calls \ {c} : call'[b] = call[b]
<1> DEFINE x == NewCall("refresh.revoke", token[k].user, k, "none", token[k].stale)
<1>1. Start(c, x) /\ token' = token /\ token[k].status = "live"
  BY DEF RefreshRead
<1>2. x.user = token[k].user /\ x.stale = token[k].stale
  BY DEF NewCall
<1> HIDE DEF x
<1> QED
  BY <1>1, <1>2 DEF Start, CallsOK

LEMMA RevokingCall ==
  ASSUME CallsOK, TokensOK, NEW c \in Calls, RefreshRevoke(c)
  PROVE  /\ call[c].step \in SessionSteps
         /\ call'[c].user = call[c].user /\ call'[c].stale = call[c].stale
         /\ \A b \in Calls \ {c} : call'[b] = call[b]
         /\ \A k \in Tokens : token'[k].status = "live" => token'[k] = token[k]
<1>1. call[c] \in Call /\ call[c].row \in Tokens
  BY CallFacts DEF RefreshRevoke, At
<1> QED
  BY <1>1 DEF RefreshRevoke, At, Goto, SessionSteps, CallsOK, TokensOK, TokenRow, Call

LEMMA IssuingCall ==
  ASSUME CallsOK, TokensOK, NEW c \in Calls, IssueTokens(c)
  PROVE  /\ call[c].step \in SessionSteps
         /\ call'[c] = IdleCall
         /\ \A b \in Calls \ {c} : call'[b] = call[b]
         /\ \A k \in Tokens :
               \/ token'[k] = token[k]
               \/ token'[k].user = call[c].user /\ token'[k].stale = call[c].stale
  BY DEF IssueTokens, At, Return, SessionSteps, CallsOK, TokensOK

LEMMA BulkRevocation ==
  ASSUME CallsOK, TokensOK, NEW us, NEW ending, RevokeAll(us), Overtake(us, ending)
  PROVE  /\ \A k \in Tokens : token'[k].status = "live" =>
                                  token'[k] = token[k] /\ token[k].user \notin us
         /\ \A c \in Calls : call'[c].step \in SessionSteps =>
               /\ call'[c].user = call[c].user
               /\ call'[c].step = call[c].step
               /\ call[c].user \notin us => call'[c].stale = call[c].stale
<1>1. \A k \in Tokens : token'[k].status = "live" =>
                            token'[k] = token[k] /\ token[k].user \notin us
  BY DEF RevokeAll, TokensOK, TokenRow
<1>2. ASSUME NEW c \in Calls, call'[c].step \in SessionSteps
      PROVE  /\ call'[c].user = call[c].user
             /\ call'[c].step = call[c].step
             /\ call[c].user \notin us => call'[c].stale = call[c].stale
  <2>1. call[c] \in Call
    BY CallFacts
  <2>2. IdleCall.step \notin SessionSteps
    BY DEF IdleCall, NewCall, SessionSteps
  <2> QED
    BY <1>2, <2>1, <2>2 DEF Overtake, Call
<1> QED
  BY <1>1, <1>2

LEMMA ExpiringToken ==
  ASSUME TokensOK, NEW x \in Tokens, TokenExpires(x)
  PROVE  /\ call' = call
         /\ \A k \in Tokens : token'[k].status = "live" => token'[k] = token[k]
  BY DEF TokenExpires, TokensOK, TokenRow

-----------------------------------------------------------------------------
(* Sessions are earned.                                                    *)

\* No step gives a session to a user who had none and has no password.
LEMMA SessionsOpened ==
  ASSUME TypeOK, [Next]_vars, NEW u \in Users, HasSession(u)'
  PROVE  HasSession(u) \/ user'[u].password
<1>0. CallsOK /\ TokensOK /\ UsersOK
  BY TypeParts
<1>1. CASE SessionQuiet
  BY <1>1 DEF SessionQuiet, HasSession, LiveToken, SessionCall
<1>2. ASSUME NEW c \in Calls, NEW v \in Users, Register(c, v) \/ LoginRead(c, v)
      PROVE  HasSession(u) \/ user'[u].password
  <2>1. user'[v].password
    <3>1. CASE Register(c, v)
      BY <1>0, <3>1 DEF Register, NewTenant
    <3>2. CASE LoginRead(c, v)
      BY <3>2 DEF LoginRead
    <3> QED
      BY <1>2, <3>1, <3>2
  <2>2. CASE u = v
    BY <2>1, <2>2
  <2>3. CASE u # v
    BY <1>0, <1>2, <2>3, OpeningCall DEF HasSession, LiveToken, SessionCall
  <2> QED
    BY <2>2, <2>3
<1>3. ASSUME NEW c \in Calls, NEW k \in Tokens, RefreshRead(c, k)
      PROVE  HasSession(u) \/ user'[u].password
  BY <1>0, <1>3, RefreshingCall DEF HasSession, LiveToken, SessionCall
<1>4. ASSUME NEW c \in Calls, RefreshRevoke(c)
      PROVE  HasSession(u) \/ user'[u].password
  BY <1>0, <1>4, RevokingCall DEF HasSession, LiveToken, SessionCall
<1>5. ASSUME NEW c \in Calls, IssueTokens(c)
      PROVE  HasSession(u) \/ user'[u].password
  BY <1>0, <1>5, IssuingCall
     DEF HasSession, LiveToken, SessionCall, IdleCall, NewCall, SessionSteps
<1>6. ASSUME NEW us, NEW ending, RevokeAll(us), Overtake(us, ending)
      PROVE  HasSession(u) \/ user'[u].password
  BY <1>0, <1>6, BulkRevocation DEF HasSession, LiveToken, SessionCall
<1>7. ASSUME NEW k \in Tokens, TokenExpires(k)
      PROVE  HasSession(u) \/ user'[u].password
  BY <1>0, <1>7, ExpiringToken DEF HasSession, LiveToken, SessionCall
<1> QED
  BY <1>1, <1>2, <1>3, <1>4, <1>5, <1>6, <1>7, SessionKinds

\* Only a user who has set a password has, or is about to get, a session.
THEOREM SessionsAreEarned == Spec => []SessionsEarned
<1>1. Init => SessionsEarned
  BY DEF Init, SessionsEarned, LiveToken, SessionCall, IdleCall, NewCall, SessionSteps
<1>2. TypeOK /\ SessionsEarned /\ [Next]_vars => SessionsEarned'
  <2> SUFFICES ASSUME TypeOK, SessionsEarned, [Next]_vars, NEW u \in Users, HasSession(u)'
               PROVE  user'[u].password
    BY DEF SessionsEarned, HasSession
  <2>1. CASE HasSession(u)
    BY <2>1, PasswordsKept DEF SessionsEarned, HasSession
  <2>2. CASE user'[u].password
    BY <2>2
  <2> QED
    BY <2>1, <2>2, SessionsOpened
<1> QED
  BY <1>1, <1>2, TypeCorrect, PTL DEF Spec

-----------------------------------------------------------------------------
(* A revocation ends every session that is not just being handed out.      *)

LEMMA NobodyOutlives ==
  ASSUME TypeOK, [Next]_vars, NEW u \in Users, ~Outlived(u),
         \A c \in Calls : ~SessionCall(c, u)
  PROVE  ~Outlived(u)'
<1>0. CallsOK /\ TokensOK
  BY TypeParts
<1>1. CASE SessionQuiet
  BY <1>1 DEF SessionQuiet, Outlived, LiveToken, SessionCall
<1>2. ASSUME NEW c \in Calls, NEW v \in Users, Register(c, v) \/ LoginRead(c, v)
      PROVE  ~Outlived(u)'
  BY <1>0, <1>2, OpeningCall DEF Outlived, LiveToken, SessionCall
<1>3. ASSUME NEW c \in Calls, NEW k \in Tokens, RefreshRead(c, k)
      PROVE  ~Outlived(u)'
  BY <1>0, <1>3, RefreshingCall DEF Outlived, LiveToken, SessionCall
<1>4. ASSUME NEW c \in Calls, RefreshRevoke(c)
      PROVE  ~Outlived(u)'
  BY <1>0, <1>4, RevokingCall DEF Outlived, LiveToken, SessionCall
<1>5. ASSUME NEW c \in Calls, IssueTokens(c)
      PROVE  ~Outlived(u)'
  BY <1>0, <1>5, IssuingCall
     DEF Outlived, LiveToken, SessionCall, IdleCall, NewCall, SessionSteps
<1>6. ASSUME NEW us, NEW ending, RevokeAll(us), Overtake(us, ending)
      PROVE  ~Outlived(u)'
  BY <1>0, <1>6, BulkRevocation DEF Outlived, LiveToken, SessionCall
<1>7. ASSUME NEW k \in Tokens, TokenExpires(k)
      PROVE  ~Outlived(u)'
  BY <1>0, <1>7, ExpiringToken DEF Outlived, LiveToken, SessionCall
<1> QED
  BY <1>1, <1>2, <1>3, <1>4, <1>5, <1>6, <1>7, SessionKinds

\* Whatever revokes a user's tokens leaves no session behind unless a login or
\* refresh of that user is under way at that moment.
THEOREM RevocationIsComplete == Spec => RevocationHolds
<1>1. TypeOK /\ [Next]_vars =>
        (\A u \in Users :
            ~Outlived(u) /\ (\A c \in Calls : ~SessionCall(c, u)) => ~Outlived(u)')
  BY NobodyOutlives
<1>2. TypeOK /\ [Next]_vars =>
        [\A u \in Users :
            ~Outlived(u) /\ (\A c \in Calls : ~SessionCall(c, u)) => ~Outlived(u)']_vars
  BY <1>1
<1> QED
  BY <1>2, TypeCorrect, PTL DEF Spec, RevocationHolds

-----------------------------------------------------------------------------
(* Trials.                                                                 *)

\* The ways in which a step can treat a tenant and its place in the pass.
LEMMA TenantKinds ==
  ASSUME TypeOK, [Next]_vars, NEW t \in Tenants
  PROVE  \/ tenant'[t] = tenant[t] /\ (t \in cron' => t \in cron)
         \/ tenant'[t] = tenant[t] /\ tenant[t].status = "trial"
         \/ tenant[t].status = "absent" /\ tenant'[t].by = "none" /\ cron' = cron
         \/ /\ tenant'[t].status \in {"active", "suspended"}
            /\ tenant'[t].by \in {"none", "admin"}
            /\ cron' = cron
         \/ /\ tenant'[t].status = tenant[t].status
            /\ tenant'[t].by = tenant[t].by
            /\ cron' = cron
         \/ t \in cron \ Platform
<1> DEFINE Kinds == \/ tenant'[t] = tenant[t] /\ (t \in cron' => t \in cron)
                    \/ tenant'[t] = tenant[t] /\ tenant[t].status = "trial"
                    \/ tenant[t].status = "absent" /\ tenant'[t].by = "none" /\ cron' = cron
                    \/ /\ tenant'[t].status \in {"active", "suspended"}
                       /\ tenant'[t].by \in {"none", "admin"}
                       /\ cron' = cron
                    \/ /\ tenant'[t].status = tenant[t].status
                       /\ tenant'[t].by = tenant[t].by
                       /\ cron' = cron
                    \/ t \in cron \ Platform
<1>0. TenantsOK
  BY TypeParts
<1>1. ASSUME NEW n, NEW status, NEW trial, NEW owners, NewTenant(n, status, trial, owners),
             cron' = cron
      PROVE  Kinds
  BY <1>0, <1>1 DEF NewTenant, TenantsOK
<1>2. ASSUME NEW c \in Calls, NEW u \in Users, Register(c, u)
      PROVE  Kinds
  BY <1>1, <1>2 DEF Register
<1>3. ASSUME NEW n \in Tenants, Provision(n)
      PROVE  Kinds
  <2>1. PICK owners :
            \/ NewTenant(n, "trial", "running", owners)
            \/ \E status \in TenantStatus : NewTenant(n, status, "never", owners)
    BY <1>3 DEF Provision
  <2>2. cron' = cron
    BY <1>3 DEF Provision
  <2> QED
    BY <1>1, <2>1, <2>2
<1>4. ASSUME NEW c \in Calls, SuspendCommit(c) \/ ReactivateCommit(c)
      PROVE  Kinds
  <2>1. CASE t # call[c].row
    <3>1. tenant'[t] = tenant[t] /\ cron' = cron
      BY <1>0, <1>4, <2>1 DEF SuspendCommit, ReactivateCommit, TenantsOK
    <3> QED
      BY <3>1
  <2>2. CASE t = call[c].row
    <3>1. tenant[t] \in TenantRow
      BY <1>0 DEF TenantsOK
    <3>2. CASE SuspendCommit(c)
      <4>1. tenant'[t] = [tenant[t] EXCEPT !.status = "suspended", !.by = "admin"]
        BY <1>0, <2>2, <3>2 DEF SuspendCommit, TenantsOK
      <4>2. tenant'[t].status = "suspended" /\ tenant'[t].by = "admin"
        BY <3>1, <4>1 DEF TenantRow
      <4> QED
        BY <3>2, <4>2 DEF SuspendCommit
    <3>3. CASE ReactivateCommit(c)
      <4>1. tenant'[t] = [tenant[t] EXCEPT !.status = "active", !.by = "none"]
        BY <1>0, <2>2, <3>3 DEF ReactivateCommit, TenantsOK
      <4>2. tenant'[t].status = "active" /\ tenant'[t].by = "none"
        BY <3>1, <4>1 DEF TenantRow
      <4> QED
        BY <3>3, <4>2 DEF ReactivateCommit
    <3> QED
      BY <1>4, <3>2, <3>3
  <2> QED
    BY <2>1, <2>2
<1>5. ASSUME NEW n \in Tenants, ExpireSuspend(n)
      PROVE  Kinds
  <2>1. CASE t = n
    BY <1>5, <2>1 DEF ExpireSuspend
  <2>2. CASE t # n
    <3>1. tenant'[t] = tenant[t] /\ (t \in cron' => t \in cron)
      BY <1>0, <1>5, <2>2 DEF ExpireSuspend, TenantsOK
    <3> QED
      BY <3>1
  <2> QED
    BY <2>1, <2>2
<1>6. CASE ExpireRead \/ ExpireFails \/ \E n \in Tenants : ExpireSkip(n)
  BY <1>0, <1>6 DEF ExpireRead, ExpireFails, ExpireSkip, TenantsOK
<1>7. ASSUME NEW n \in Tenants, TrialEnds(n)
      PROVE  Kinds
  BY <1>0, <1>7 DEF TrialEnds, TenantsOK, TenantRow
<1>8. CASE tenant' = tenant /\ cron' = cron
  BY <1>8
<1> QED
  BY <1>2, <1>3, <1>4, <1>5, <1>6, <1>7, <1>8
     DEF Next, vars, TenantStep, CronStep, TimeStep, UserStep, LinkStep, SessionStep,
         SuspendRead, ReactivateRead, TokenExpires, LinkExpires, Invite,
         UpdateRead, UpdateCommit, Forgot, Supersede, CreateLink, MailLink, ActivateRead,
         ResetRead, LinkRead, ActivateCommit, ResetCommit, LoginRead, RefreshRead,
         RefreshRevoke, IssueTokens, Logout, Fail

\* The end of a trial never suspends a tenant of the platform.
THEOREM PlatformIsSpared == Spec => []PlatformSpared
<1>1. Init => PlatformSpared
  BY ConstantsAssumption DEF Init, PlatformSpared
<1>2. TypeOK /\ PlatformSpared /\ [Next]_vars => PlatformSpared'
  <2> SUFFICES ASSUME TypeOK, PlatformSpared, [Next]_vars, NEW t \in Platform
               PROVE  tenant'[t].by # "trial"
    BY DEF PlatformSpared
  <2>1. t \in Tenants /\ tenant[t].by # "trial"
    BY ConstantsAssumption DEF PlatformSpared
  <2> QED
    BY <2>1, TenantKinds
<1> QED
  BY <1>1, <1>2, TypeCorrect, PTL DEF Spec

\* A tenant that has left its trial, and is not held by the pass under way, is
\* never suspended by the end of that trial.
THEOREM TrialLeftForGood == Spec => LeftTrialForGood
<1>1. TypeOK /\ [Next]_vars => (\A t \in Tenants : LeftTrial(t) => LeftTrial(t)')
  <2> SUFFICES ASSUME TypeOK, [Next]_vars, NEW t \in Tenants, LeftTrial(t)
               PROVE  LeftTrial(t)'
    OBVIOUS
  <2> QED
    BY TenantKinds DEF LeftTrial
<1>2. TypeOK /\ [Next]_vars => [\A t \in Tenants : LeftTrial(t) => LeftTrial(t)']_vars
  BY <1>1
<1> QED
  BY <1>2, TypeCorrect, PTL DEF Spec, LeftTrialForGood

-----------------------------------------------------------------------------
(* Links.                                                                  *)

LinkCommits == {"activate.commit", "reset.commit"}

\* The calls that have read a link and will set a password with it.
Holders(l) == {c \in Calls : call[c].row = l /\ call[c].step \in LinkCommits}

UsesInv ==
    \A l \in Links :
        /\ link[l].uses + Cardinality(Holders(l)) <= Cardinality(Calls)
        /\ link[l].status # "spent" => link[l].uses = 0

\* A call that starts, moves on or ends anywhere but at a link's commit.
HoldersKeep == \A c \in Calls : call'[c].step \in LinkCommits =>
                    call'[c].step = call[c].step /\ call'[c].row = call[c].row

LEMMA HoldersShrink ==
  ASSUME HoldersKeep, NEW l
  PROVE  Holders(l)' \subseteq Holders(l)
  BY DEF HoldersKeep, Holders

LEMMA StartHolders ==
  ASSUME CallsOK, NEW c \in Calls, NEW x, Start(c, x), x.step \notin LinkCommits
  PROVE  HoldersKeep
  BY DEF CallsOK, Start, HoldersKeep

LEMMA BeginHolders ==
  ASSUME CallsOK, NEW c \in Calls, NEW u, NEW row, NEW step, Begin(c, u, row, step),
         step \notin LinkCommits
  PROVE  HoldersKeep
  BY StartHolders DEF Begin, NewCall

LEMMA ReturnHolders ==
  ASSUME CallsOK, NEW c \in Calls, Return(c)
  PROVE  HoldersKeep /\ \A l \in Links : c \notin Holders(l)'
  BY DEF CallsOK, Return, HoldersKeep, Holders, IdleCall, NewCall, LinkCommits

LEMMA GotoHolders ==
  ASSUME CallsOK, NEW c \in Calls, NEW step, step \notin LinkCommits, Goto(c, step)
  PROVE  HoldersKeep
<1>1. call[c] \in Call
  BY CallFacts
<1> QED
  BY <1>1 DEF CallsOK, Goto, HoldersKeep, Call

LEMMA OvertakeHolders ==
  ASSUME CallsOK, NEW us, NEW ending, Overtake(us, ending)
  PROVE  /\ HoldersKeep
         /\ \A l \in Links, c \in ending : c \notin Holders(l)'
<1>1. IdleCall.step \notin LinkCommits
  BY DEF IdleCall, NewCall, LinkCommits
<1>2. \A c \in Calls : /\ [call[c] EXCEPT !.stale = TRUE].step = call[c].step
                       /\ [call[c] EXCEPT !.stale = TRUE].row = call[c].row
  BY CallFacts DEF Call
<1> QED
  BY <1>1, <1>2 DEF CallsOK, Overtake, HoldersKeep, Holders

\* A call takes hold of a link only while the link is unused.
LEMMA LinkReadHolders ==
  ASSUME CallsOK, NEW c \in Calls, NEW n, NEW kind, NEW step, LinkRead(c, n, kind, step),
         NEW l \in Links, l # n
  PROVE  Holders(l)' \subseteq Holders(l)
  BY DEF CallsOK, LinkRead, Begin, Start, NewCall, Holders

LEMMA UseLinkFields ==
  ASSUME LinksOK, NEW n \in Links, UseLink(n)
  PROVE  /\ link'[n].uses = link[n].uses + 1
         /\ link'[n].status = "spent"
         /\ \A l \in Links : l # n => link'[l] = link[l]
<1>1. link[n] \in LinkRow
  BY DEF LinksOK
<1>2. link'[n] = [link[n] EXCEPT !.status = "spent", !.uses = link[n].uses + 1]
  BY DEF UseLink, LinksOK
<1>3. link'[n].uses = link[n].uses + 1 /\ link'[n].status = "spent"
  BY <1>1, <1>2 DEF LinkRow
<1>4. \A l \in Links : l # n => link'[l] = link[l]
  BY DEF UseLink, LinksOK
<1> QED
  BY <1>3, <1>4

\* The ways in which a step can treat a link: nothing that counts, a fresh or
\* an unused link, or a use by a call that held it.
LEMMA LinkKinds ==
  ASSUME TypeOK, [Next]_vars, NEW l \in Links
  PROVE  \/ /\ Holders(l)' \subseteq Holders(l)
            /\ link'[l].uses = link[l].uses
            /\ link[l].status = "spent" => link'[l].status = "spent"
         \/ link'[l].uses = 0
         \/ link[l].status = "unused" /\ link'[l] = link[l]
         \/ \E c \in Holders(l) : /\ Holders(l)' \subseteq Holders(l) \ {c}
                                  /\ link'[l].uses = link[l].uses + 1
                                  /\ link'[l].status = "spent"
<1> DEFINE Quiet == /\ Holders(l)' \subseteq Holders(l)
                    /\ link'[l].uses = link[l].uses
                    /\ link[l].status = "spent" => link'[l].status = "spent"
           Kinds == \/ Quiet
                    \/ link'[l].uses = 0
                    \/ link[l].status = "unused" /\ link'[l] = link[l]
                    \/ \E c \in Holders(l) :
                          /\ Holders(l)' \subseteq Holders(l) \ {c}
                          /\ link'[l].uses = link[l].uses + 1
                          /\ link'[l].status = "spent"
<1>0. CallsOK /\ LinksOK /\ link[l] \in LinkRow
  BY TypeParts DEF LinksOK
<1>a. ASSUME HoldersKeep, link' = link
      PROVE  Kinds
  BY <1>a, HoldersShrink
<1>b. ASSUME call' = call, link' = link
      PROVE  Kinds
  BY <1>b DEF Holders
<1>c. "issue" \notin LinkCommits /\ "refresh.revoke" \notin LinkCommits
      /\ "update.commit" \notin LinkCommits /\ "link.supersede" \notin LinkCommits
      /\ "link.create" \notin LinkCommits /\ "link.mail" \notin LinkCommits
      /\ "suspend.commit" \notin LinkCommits /\ "reactivate.commit" \notin LinkCommits
  BY DEF LinkCommits
<1>1. ASSUME NEW c \in Calls, NEW u, Register(c, u)
      PROVE  Kinds
  BY <1>0, <1>1, <1>a, <1>c, BeginHolders DEF Register
<1>2. ASSUME NEW c \in Calls, NEW u, UpdateRead(c, u) \/ LoginRead(c, u)
      PROVE  Kinds
  BY <1>0, <1>2, <1>a, <1>c, BeginHolders DEF UpdateRead, LoginRead
<1>3. ASSUME NEW c \in Calls, NEW t, SuspendRead(c, t) \/ ReactivateRead(c, t)
      PROVE  Kinds
  BY <1>0, <1>3, <1>a, <1>c, BeginHolders DEF SuspendRead, ReactivateRead
<1>4. ASSUME NEW c \in Calls, NEW u, Invite(c, u) \/ Forgot(c, u)
      PROVE  Kinds
  BY <1>0, <1>4, <1>a, <1>c, StartHolders DEF Invite, Forgot, NewCall
<1>5. ASSUME NEW c \in Calls, NEW k, RefreshRead(c, k)
      PROVE  Kinds
  BY <1>0, <1>5, <1>a, <1>c, StartHolders DEF RefreshRead, NewCall
<1>6. ASSUME NEW c \in Calls, ReactivateCommit(c) \/ UpdateCommit(c) \/ IssueTokens(c) \/ Fail(c)
      PROVE  Kinds
  BY <1>0, <1>6, <1>a, ReturnHolders DEF ReactivateCommit, UpdateCommit, IssueTokens, Fail
<1>7. ASSUME NEW c \in Calls, RefreshRevoke(c)
      PROVE  Kinds
  BY <1>0, <1>7, <1>a, <1>c, GotoHolders DEF RefreshRevoke
<1>8. ASSUME NEW us, NEW ending, Overtake(us, ending), link' = link
      PROVE  Kinds
  BY <1>0, <1>8, <1>a, OvertakeHolders
<1>9. ASSUME NEW c \in Calls, Supersede(c)
      PROVE  Kinds
  <2>1. Holders(l)' \subseteq Holders(l)
    BY <1>0, <1>9, <1>c, GotoHolders, HoldersShrink DEF Supersede
  <2>2. link'[l] = link[l] \/ link'[l] = [link[l] EXCEPT !.status = "spent"]
    BY <1>9 DEF Supersede
  <2>3. link'[l].uses = link[l].uses /\ (link[l].status = "spent" => link'[l].status = "spent")
    BY <1>0, <2>2 DEF LinkRow
  <2> QED
    BY <2>1, <2>3
<1>10. ASSUME NEW c \in Calls, CreateLink(c)
       PROVE  Kinds
  <2>1. PICK n \in Links :
          /\ link' = [link EXCEPT ![n] = [kind |-> call[c].kind, user |-> call[c].user,
                                          status |-> "unused", mailed |-> FALSE,
                                          uses |-> 0]]
          /\ call' = [call EXCEPT ![c] = [@ EXCEPT !.step = "link.mail", !.row = n]]
    BY <1>10 DEF CreateLink
  <2>2. CASE n = l
    BY <1>0, <2>1, <2>2 DEF LinksOK
  <2>3. CASE n # l
    <3>1. link'[l] = link[l]
      BY <1>0, <2>1, <2>3 DEF LinksOK
    <3>2. call[c] \in Call
      BY <1>0, CallFacts
    <3>3. call'[c].step = "link.mail"
      BY <1>0, <2>1, <3>2 DEF CallsOK, Call
    <3>4. Holders(l)' \subseteq Holders(l)
      BY <1>0, <1>c, <2>1, <3>3 DEF CallsOK, Holders
    <3> QED
      BY <3>1, <3>4
  <2> QED
    BY <2>2, <2>3
<1>11. ASSUME NEW c \in Calls, MailLink(c)
       PROVE  Kinds
  <2>1. Holders(l)' \subseteq Holders(l)
    BY <1>0, <1>11, ReturnHolders, HoldersShrink DEF MailLink
  <2>2. link'[l] = link[l] \/ link'[l] = [link[l] EXCEPT !.mailed = TRUE]
    BY <1>0, <1>11 DEF MailLink, LinksOK
  <2>3. link'[l].uses = link[l].uses /\ link'[l].status = link[l].status
    BY <1>0, <2>2 DEF LinkRow
  <2> QED
    BY <2>1, <2>3
<1>12. ASSUME NEW c \in Calls, NEW n \in Links, NEW kind, NEW step, LinkRead(c, n, kind, step)
       PROVE  Kinds
  <2>1. CASE n = l
    BY <1>12, <2>1 DEF LinkRead
  <2>2. CASE n # l
    BY <1>0, <1>12, <2>2, LinkReadHolders DEF LinkRead
  <2> QED
    BY <2>1, <2>2
<1>13. ASSUME NEW c \in Calls, call[c].step \in LinkCommits, UseLink(call[c].row),
              HoldersKeep, c \notin Holders(l)'
       PROVE  Kinds
  <2>1. call[c].row \in Links
    BY <1>0, <1>13, CallFacts DEF LinkCommits
  <2>2. Holders(l)' \subseteq Holders(l)
    BY <1>13, HoldersShrink
  <2>3. CASE call[c].row = l
    <3>1. c \in Holders(l)
      BY <1>13, <2>3 DEF Holders
    <3>2. Holders(l)' \subseteq Holders(l) \ {c}
      BY <1>13, <2>2
    <3>3. link'[l].uses = link[l].uses + 1 /\ link'[l].status = "spent"
      BY <1>0, <1>13, <2>1, <2>3, UseLinkFields
    <3> QED
      BY <3>1, <3>2, <3>3
  <2>4. CASE call[c].row # l
    <3>1. link'[l] = link[l]
      BY <1>0, <1>13, <2>1, <2>4, UseLinkFields
    <3> QED
      BY <2>2, <3>1
  <2> QED
    BY <2>3, <2>4
<1>14. ASSUME NEW c \in Calls, ActivateCommit(c)
       PROVE  Kinds
  <2>1. call[c].step \in LinkCommits /\ UseLink(call[c].row) /\ Return(c)
    BY <1>14 DEF ActivateCommit, At, LinkCommits
  <2> QED
    BY <1>0, <1>13, <2>1, ReturnHolders
<1>15. ASSUME NEW c \in Calls, ResetCommit(c)
       PROVE  Kinds
  <2>1. /\ call[c].step \in LinkCommits
        /\ UseLink(call[c].row)
        /\ Overtake({call[c].user}, {c})
    BY <1>15 DEF ResetCommit, At, LinkCommits
  <2> QED
    BY <1>0, <1>13, <2>1, OvertakeHolders
<1>16. ASSUME NEW n \in Links, LinkExpires(n)
       PROVE  Kinds
  <2>1. Holders(l)' \subseteq Holders(l)
    BY <1>16 DEF LinkExpires, Holders
  <2>2. link'[l] = link[l] \/ link'[l] = [link[l] EXCEPT !.status = "spent"]
    BY <1>0, <1>16 DEF LinkExpires, LinksOK
  <2>3. link'[l].uses = link[l].uses /\ (link[l].status = "spent" => link'[l].status = "spent")
    BY <1>0, <2>2 DEF LinkRow
  <2> QED
    BY <2>1, <2>3
<1> SUFFICES Kinds
  OBVIOUS
<1> HIDE DEF Kinds
<1>17. CASE TenantStep \/ CronStep
  BY <1>17, <1>3, <1>6, <1>8, <1>b
     DEF TenantStep, CronStep, Provision, SuspendCommit, ExpireRead, ExpireFails,
         ExpireSkip, ExpireSuspend
<1>18. ASSUME NEW c \in Calls, UserStep(c) \/ SessionStep(c) \/ Fail(c)
       PROVE  Kinds
  BY <1>18, <1>1, <1>2, <1>4, <1>5, <1>6, <1>7 DEF UserStep, SessionStep
<1>19. ASSUME NEW c \in Calls, LinkStep(c)
       PROVE  Kinds
  BY <1>19, <1>9, <1>10, <1>11, <1>12, <1>14, <1>15 DEF LinkStep, ActivateRead, ResetRead
<1>20. CASE TimeStep \/ \E u \in Users : Logout(u)
  BY <1>20, <1>8, <1>16, <1>b DEF TimeStep, TrialEnds, TokenExpires, Logout
<1>21. CASE UNCHANGED vars
  BY <1>21, <1>b DEF vars
<1> QED
  BY <1>17, <1>18, <1>19, <1>20, <1>21 DEF Next

LEMMA HoldersCount ==
  ASSUME NEW l
  PROVE  /\ IsFiniteSet(Holders(l)) /\ IsFiniteSet(Holders(l)')
         /\ Cardinality(Holders(l)) \in Nat /\ Cardinality(Holders(l)') \in Nat
         /\ Cardinality(Calls) \in Nat
         /\ Cardinality(Holders(l)') <= Cardinality(Calls)
<1>1. Holders(l) \subseteq Calls /\ Holders(l)' \subseteq Calls
  BY DEF Holders
<1>2. IsFiniteSet(Calls)
  BY ConstantsAssumption
<1> QED
  BY <1>1, <1>2, FS_Subset, FS_CardinalityType

LEMMA UsesNext ==
  ASSUME TypeOK, UsesInv, [Next]_vars
  PROVE  UsesInv'
<1> SUFFICES ASSUME NEW l \in Links
             PROVE  /\ link'[l].uses + Cardinality(Holders(l)') <= Cardinality(Calls)
                    /\ link'[l].status # "spent" => link'[l].uses = 0
  BY DEF UsesInv
<1>1. link[l].uses \in Nat
  BY TypeParts DEF LinksOK, LinkRow
<1>2. /\ link[l].uses + Cardinality(Holders(l)) <= Cardinality(Calls)
      /\ link[l].status # "spent" => link[l].uses = 0
  BY DEF UsesInv
<1>3. CASE /\ Holders(l)' \subseteq Holders(l)
           /\ link'[l].uses = link[l].uses
           /\ link[l].status = "spent" => link'[l].status = "spent"
  <2>1. Cardinality(Holders(l)') <= Cardinality(Holders(l))
    BY <1>3, HoldersCount, FS_Subset
  <2> QED
    BY <1>1, <1>2, <1>3, <2>1, HoldersCount
<1>4. CASE link'[l].uses = 0
  BY <1>4, HoldersCount
<1>5. CASE link[l].status = "unused" /\ link'[l] = link[l]
  BY <1>2, <1>5, HoldersCount
<1>6. ASSUME NEW c \in Holders(l), Holders(l)' \subseteq Holders(l) \ {c},
             link'[l].uses = link[l].uses + 1, link'[l].status = "spent"
      PROVE  /\ link'[l].uses + Cardinality(Holders(l)') <= Cardinality(Calls)
             /\ link'[l].status # "spent" => link'[l].uses = 0
  <2>1. /\ IsFiniteSet(Holders(l) \ {c})
        /\ Cardinality(Holders(l) \ {c}) = Cardinality(Holders(l)) - 1
    BY HoldersCount, FS_RemoveElement
  <2>2. Cardinality(Holders(l)') <= Cardinality(Holders(l) \ {c})
    BY <1>6, <2>1, FS_Subset
  <2> QED
    BY <1>1, <1>2, <1>6, <2>1, <2>2, HoldersCount
<1> QED
  BY <1>3, <1>4, <1>5, <1>6, LinkKinds

\* A link sets a password at most as often as calls can run at once.
THEOREM LinkUsesAreBounded == Spec => []UsesBounded
<1>1. Init => UsesInv
  <2> SUFFICES ASSUME Init, NEW l \in Links
               PROVE  /\ link[l].uses + Cardinality(Holders(l)) <= Cardinality(Calls)
                      /\ link[l].status # "spent" => link[l].uses = 0
    BY DEF UsesInv
  <2>1. link[l].uses = 0
    BY DEF Init
  <2>2. Holders(l) \subseteq Calls
    BY DEF Holders
  <2>3. Cardinality(Holders(l)) <= Cardinality(Calls) /\ Cardinality(Holders(l)) \in Nat
    BY <2>2, HoldersCount, FS_Subset, ConstantsAssumption
  <2> QED
    BY <2>1, <2>3
<1>2. TypeOK /\ UsesInv => UsesBounded
  <2> SUFFICES ASSUME TypeOK, UsesInv, NEW l \in Links
               PROVE  link[l].uses <= Cardinality(Calls)
    BY DEF UsesBounded
  <2>1. link[l].uses \in Nat
    BY TypeParts DEF LinksOK, LinkRow
  <2> QED
    BY <2>1, HoldersCount DEF UsesInv
<1> QED
  BY <1>1, <1>2, UsesNext, TypeCorrect, PTL DEF Spec

-----------------------------------------------------------------------------
(* Usable links.                                                           *)

\* No link becomes usable, and no call comes to the point of writing one.
LinksKeep ==
    \A l \in Links : link'[l].status = "unused" =>
        /\ link[l].status = "unused"
        /\ link[l].user = link'[l].user /\ link[l].kind = link'[l].kind

CreatingKeep ==
    \A c \in Calls : call'[c].step = "link.create" =>
        /\ call[c].step = "link.create"
        /\ call[c].user = call'[c].user /\ call[c].kind = call'[c].kind

LEMMA UsableShrink ==
  ASSUME LinksKeep, NEW u, NEW kind
  PROVE  UsableLinks(u, kind)' \subseteq UsableLinks(u, kind)
  BY DEF LinksKeep, UsableLinks

LEMMA CreatingShrink ==
  ASSUME CreatingKeep, NEW u, NEW kind
  PROVE  CreatingCalls(u, kind)' \subseteq CreatingCalls(u, kind)
  BY DEF CreatingKeep, CreatingCalls, At

LEMMA StartCreating ==
  ASSUME CallsOK, NEW c \in Calls, NEW x, Start(c, x), x.step # "link.create"
  PROVE  CreatingKeep
  BY DEF CallsOK, Start, CreatingKeep

LEMMA BeginCreating ==
  ASSUME CallsOK, NEW c \in Calls, NEW u, NEW row, NEW step, Begin(c, u, row, step),
         step # "link.create"
  PROVE  CreatingKeep
  BY StartCreating DEF Begin, NewCall

LEMMA ReturnCreating ==
  ASSUME CallsOK, NEW c \in Calls, Return(c)
  PROVE  CreatingKeep
  BY DEF CallsOK, Return, CreatingKeep, IdleCall, NewCall

LEMMA OvertakeCreating ==
  ASSUME CallsOK, NEW us, NEW ending, Overtake(us, ending)
  PROVE  CreatingKeep
<1>1. IdleCall.step # "link.create"
  BY DEF IdleCall, NewCall
<1>2. \A c \in Calls : /\ [call[c] EXCEPT !.stale = TRUE].step = call[c].step
                       /\ [call[c] EXCEPT !.stale = TRUE].user = call[c].user
                       /\ [call[c] EXCEPT !.stale = TRUE].kind = call[c].kind
  BY CallFacts DEF Call
<1> QED
  BY <1>1, <1>2 DEF CallsOK, Overtake, CreatingKeep

\* The ways in which a step can treat the links of a kind of a user: it makes
\* none, it spends them all, or a call writes the one it was about to write.
LEMMA UsableKinds ==
  ASSUME TypeOK, [Next]_vars, NEW u \in Users, NEW kind \in Kind
  PROVE  \/ /\ UsableLinks(u, kind)' \subseteq UsableLinks(u, kind)
            /\ CreatingCalls(u, kind)' \subseteq CreatingCalls(u, kind)
         \/ UsableLinks(u, kind)' = {}
         \/ \E c \in CreatingCalls(u, kind), l \in Links :
               /\ UsableLinks(u, kind)' \subseteq UsableLinks(u, kind) \cup {l}
               /\ CreatingCalls(u, kind)' \subseteq CreatingCalls(u, kind) \ {c}
<1> DEFINE Quiet == /\ UsableLinks(u, kind)' \subseteq UsableLinks(u, kind)
                    /\ CreatingCalls(u, kind)' \subseteq CreatingCalls(u, kind)
           Kinds == \/ Quiet
                    \/ UsableLinks(u, kind)' = {}
                    \/ \E c \in CreatingCalls(u, kind), l \in Links :
                          /\ UsableLinks(u, kind)' \subseteq UsableLinks(u, kind) \cup {l}
                          /\ CreatingCalls(u, kind)' \subseteq CreatingCalls(u, kind) \ {c}
<1>0. CallsOK /\ LinksOK /\ \A l \in Links : link[l] \in LinkRow
  BY TypeParts DEF LinksOK
<1>a. ASSUME CreatingKeep, LinksKeep
      PROVE  Kinds
  BY <1>a, UsableShrink, CreatingShrink
<1>b. ASSUME link' = link
      PROVE  LinksKeep
  BY <1>b DEF LinksKeep
<1>c. ASSUME call' = call, link' = link
      PROVE  Kinds
  BY <1>c, <1>a, <1>b DEF CreatingKeep
<1>1. ASSUME NEW c \in Calls, NEW v, Register(c, v) \/ UpdateRead(c, v) \/ LoginRead(c, v)
      PROVE  Kinds
  BY <1>0, <1>1, <1>a, <1>b, BeginCreating DEF Register, UpdateRead, LoginRead
<1>3. ASSUME NEW c \in Calls, NEW t, SuspendRead(c, t) \/ ReactivateRead(c, t)
      PROVE  Kinds
  BY <1>0, <1>3, <1>a, <1>b, BeginCreating DEF SuspendRead, ReactivateRead
<1>4. ASSUME NEW c \in Calls, NEW v, Invite(c, v) \/ Forgot(c, v)
      PROVE  Kinds
  BY <1>0, <1>4, <1>a, <1>b, StartCreating DEF Invite, Forgot, NewCall
<1>5. ASSUME NEW c \in Calls, NEW k, RefreshRead(c, k)
      PROVE  Kinds
  BY <1>0, <1>5, <1>a, <1>b, StartCreating DEF RefreshRead, NewCall
<1>6. ASSUME NEW c \in Calls, ReactivateCommit(c) \/ UpdateCommit(c) \/ IssueTokens(c) \/ Fail(c)
      PROVE  Kinds
  BY <1>0, <1>6, <1>a, <1>b, ReturnCreating
     DEF ReactivateCommit, UpdateCommit, IssueTokens, Fail
<1>7. ASSUME NEW c \in Calls, RefreshRevoke(c)
      PROVE  Kinds
  <2>1. call[c] \in Call
    BY <1>0, CallFacts
  <2>2. CreatingKeep
    BY <1>0, <1>7, <2>1 DEF RefreshRevoke, Goto, CreatingKeep, CallsOK, Call
  <2> QED
    BY <1>7, <1>a, <1>b, <2>2 DEF RefreshRevoke
<1>8. ASSUME NEW us, NEW ending, Overtake(us, ending), link' = link
      PROVE  Kinds
  BY <1>0, <1>8, <1>a, <1>b, OvertakeCreating
<1>9. ASSUME NEW c \in Calls, Supersede(c)
      PROVE  Kinds
  <2>1. call[c] \in Call
    BY <1>0, CallFacts
  <2>2. \A l \in Links : \/ link'[l] = link[l] /\ ~(/\ link[l].user = call[c].user
                                                 /\ link[l].kind = call[c].kind
                                                 /\ link[l].status = "unused")
                         \/ link'[l] = [link[l] EXCEPT !.status = "spent"]
    BY <1>9 DEF Supersede
  <2>3. \A l \in Links : link'[l].status = "unused" =>
            link'[l] = link[l] /\ ~(link[l].user = call[c].user /\ link[l].kind = call[c].kind)
    BY <1>0, <2>2 DEF LinkRow
  <2>4. CASE call[c].user = u /\ call[c].kind = kind
    BY <2>3, <2>4 DEF UsableLinks
  <2>5. CASE ~(call[c].user = u /\ call[c].kind = kind)
    <3>1. LinksKeep
      BY <2>3 DEF LinksKeep
    <3>2. CreatingCalls(u, kind)' \subseteq CreatingCalls(u, kind)
      BY <1>0, <1>9, <2>1, <2>5 DEF Supersede, Goto, CreatingCalls, At, CallsOK, Call
    <3> QED
      BY <3>1, <3>2, UsableShrink
  <2> QED
    BY <2>4, <2>5
<1>10. ASSUME NEW c \in Calls, CreateLink(c)
       PROVE  Kinds
  <2>1. PICK n \in Links :
          /\ link' = [link EXCEPT ![n] = [kind |-> call[c].kind, user |-> call[c].user,
                                          status |-> "unused", mailed |-> FALSE,
                                          uses |-> 0]]
          /\ call' = [call EXCEPT ![c] = [@ EXCEPT !.step = "link.mail", !.row = n]]
    BY <1>10 DEF CreateLink
  <2>2. call[c] \in Call
    BY <1>0, CallFacts
  <2>3. call'[c].step = "link.mail" /\ \A d \in Calls : d # c => call'[d] = call[d]
    BY <1>0, <2>1, <2>2 DEF CallsOK, Call
  <2>4. CreatingCalls(u, kind)' \subseteq CreatingCalls(u, kind) \ {c}
    BY <2>3 DEF CreatingCalls, At
  <2>5. \A l \in Links : l # n => link'[l] = link[l]
    BY <1>0, <2>1 DEF LinksOK
  <2>6. link'[n].user = call[c].user /\ link'[n].kind = call[c].kind
    BY <1>0, <2>1 DEF LinksOK
  <2>7. UsableLinks(u, kind)' \subseteq UsableLinks(u, kind) \cup {n}
    BY <2>5 DEF UsableLinks
  <2>8. CASE call[c].user = u /\ call[c].kind = kind
    <3>1. c \in CreatingCalls(u, kind)
      BY <1>10, <2>8 DEF CreateLink, CreatingCalls
    <3> QED
      BY <2>4, <2>7, <3>1
  <2>9. CASE ~(call[c].user = u /\ call[c].kind = kind)
    <3>1. UsableLinks(u, kind)' \subseteq UsableLinks(u, kind)
      BY <2>5, <2>6, <2>9 DEF UsableLinks
    <3> QED
      BY <2>4, <3>1
  <2> QED
    BY <2>8, <2>9
<1>11. ASSUME NEW c \in Calls, MailLink(c)
       PROVE  Kinds
  <2>1. CreatingKeep
    BY <1>0, <1>11, ReturnCreating DEF MailLink
  <2>2. \A l \in Links : link'[l] = link[l] \/ link'[l] = [link[l] EXCEPT !.mailed = TRUE]
    BY <1>0, <1>11 DEF MailLink, LinksOK
  <2>3. LinksKeep
    BY <1>0, <2>2 DEF LinksKeep, LinkRow
  <2> QED
    BY <2>1, <2>3, <1>a
<1>12. ASSUME NEW c \in Calls, NEW n, ActivateRead(c, n) \/ ResetRead(c, n)
       PROVE  Kinds
  BY <1>0, <1>12, <1>a, <1>b, BeginCreating DEF ActivateRead, ResetRead, LinkRead
<1>13. ASSUME NEW n \in Links, UseLink(n)
       PROVE  LinksKeep
  BY <1>0, <1>13, UseLinkFields DEF LinksKeep
<1>14. ASSUME NEW c \in Calls, ActivateCommit(c)
       PROVE  Kinds
  <2>1. call[c].row \in Links
    BY <1>0, <1>14, CallFacts DEF ActivateCommit, At
  <2> QED
    BY <1>0, <1>13, <1>14, <1>a, <2>1, ReturnCreating DEF ActivateCommit
<1>15. ASSUME NEW c \in Calls, ResetCommit(c)
       PROVE  Kinds
  <2>1. call[c].row \in Links
    BY <1>0, <1>15, CallFacts DEF ResetCommit, At
  <2> QED
    BY <1>0, <1>13, <1>15, <1>a, <2>1, OvertakeCreating DEF ResetCommit
<1>16. ASSUME NEW n \in Links, LinkExpires(n)
       PROVE  Kinds
  <2>1. \A l \in Links : link'[l] = link[l] \/ link'[l] = [link[l] EXCEPT !.status = "spent"]
    BY <1>0, <1>16 DEF LinkExpires, LinksOK
  <2>2. LinksKeep
    BY <1>0, <2>1 DEF LinksKeep, LinkRow
  <2>3. CreatingKeep
    BY <1>16 DEF LinkExpires, CreatingKeep
  <2> QED
    BY <2>2, <2>3, <1>a
<1> SUFFICES Kinds
  OBVIOUS
<1> HIDE DEF Kinds
<1>17. CASE TenantStep \/ CronStep
  BY <1>17, <1>3, <1>6, <1>8, <1>c
     DEF TenantStep, CronStep, Provision, SuspendCommit, ExpireRead, ExpireFails,
         ExpireSkip, ExpireSuspend
<1>18. ASSUME NEW c \in Calls, UserStep(c) \/ SessionStep(c) \/ Fail(c)
       PROVE  Kinds
  BY <1>18, <1>1, <1>4, <1>5, <1>6, <1>7 DEF UserStep, SessionStep
<1>19. ASSUME NEW c \in Calls, LinkStep(c)
       PROVE  Kinds
  BY <1>19, <1>9, <1>10, <1>11, <1>12, <1>14, <1>15 DEF LinkStep
<1>20. CASE TimeStep \/ \E v \in Users : Logout(v)
  BY <1>20, <1>8, <1>16, <1>c DEF TimeStep, TrialEnds, TokenExpires, Logout
<1>21. CASE UNCHANGED vars
  BY <1>21, <1>c DEF vars
<1> QED
  BY <1>17, <1>18, <1>19, <1>20, <1>21 DEF Next

LEMMA CreatingCount ==
  ASSUME NEW u, NEW kind
  PROVE  /\ IsFiniteSet(CreatingCalls(u, kind)) /\ IsFiniteSet(CreatingCalls(u, kind)')
         /\ Cardinality(CreatingCalls(u, kind)) \in Nat
         /\ Cardinality(CreatingCalls(u, kind)') \in Nat
         /\ Cardinality(Calls) \in Nat
         /\ Cardinality(CreatingCalls(u, kind)') <= Cardinality(Calls)
<1>1. CreatingCalls(u, kind) \subseteq Calls /\ CreatingCalls(u, kind)' \subseteq Calls
  BY DEF CreatingCalls
<1>2. IsFiniteSet(Calls)
  BY ConstantsAssumption
<1> QED
  BY <1>1, <1>2, FS_Subset, FS_CardinalityType

\* The bound, and that there is a number of links it bounds: the supply of links
\* is not assumed to be finite.
LinksInv ==
    \A u \in Users, kind \in Kind :
        /\ IsFiniteSet(UsableLinks(u, kind))
        /\ Cardinality(UsableLinks(u, kind)) + Cardinality(CreatingCalls(u, kind))
              <= Cardinality(Calls)

LEMMA LinksNext ==
  ASSUME TypeOK, LinksInv, [Next]_vars
  PROVE  LinksInv'
<1> SUFFICES ASSUME NEW u \in Users, NEW kind \in Kind
             PROVE  /\ IsFiniteSet(UsableLinks(u, kind)')
                    /\ Cardinality(UsableLinks(u, kind)') + Cardinality(CreatingCalls(u, kind)')
                          <= Cardinality(Calls)
  BY DEF LinksInv
<1> DEFINE U == UsableLinks(u, kind)
           C == CreatingCalls(u, kind)
           V == UsableLinks(u, kind)'
           D == CreatingCalls(u, kind)'
<1>1. /\ IsFiniteSet(U) /\ Cardinality(U) + Cardinality(C) <= Cardinality(Calls)
  BY DEF LinksInv
<1>2. /\ IsFiniteSet(C) /\ IsFiniteSet(D)
      /\ Cardinality(C) \in Nat /\ Cardinality(D) \in Nat /\ Cardinality(Calls) \in Nat
      /\ Cardinality(D) <= Cardinality(Calls)
  BY CreatingCount
<1>3. Cardinality(U) \in Nat
  BY <1>1, FS_CardinalityType
<1>4. \/ V \subseteq U /\ D \subseteq C
      \/ V = {}
      \/ \E c \in C, l \in Links : V \subseteq U \cup {l} /\ D \subseteq C \ {c}
  BY UsableKinds
<1> SUFFICES IsFiniteSet(V) /\ Cardinality(V) + Cardinality(D) <= Cardinality(Calls)
  OBVIOUS
<1> HIDE DEF U, C, V, D
<1>5. CASE V \subseteq U /\ D \subseteq C
  <2>1. /\ IsFiniteSet(V) /\ Cardinality(V) <= Cardinality(U)
        /\ Cardinality(D) <= Cardinality(C)
    BY <1>1, <1>2, <1>5, FS_Subset
  <2>2. Cardinality(V) \in Nat
    BY <2>1, FS_CardinalityType
  <2> QED
    BY <1>1, <1>2, <1>3, <2>1, <2>2
<1>6. CASE V = {}
  BY <1>2, <1>6, FS_EmptySet
<1>7. ASSUME NEW c \in C, NEW l \in Links, V \subseteq U \cup {l}, D \subseteq C \ {c}
      PROVE  IsFiniteSet(V) /\ Cardinality(V) + Cardinality(D) <= Cardinality(Calls)
  <2>1. /\ IsFiniteSet(U \cup {l})
        /\ Cardinality(U \cup {l}) = Cardinality(U) \/ Cardinality(U \cup {l}) = Cardinality(U) + 1
    BY <1>1, FS_AddElement
  <2>2. IsFiniteSet(V) /\ Cardinality(V) <= Cardinality(U \cup {l})
    BY <1>7, <2>1, FS_Subset
  <2>3. /\ IsFiniteSet(C \ {c})
        /\ Cardinality(C \ {c}) = Cardinality(C) - 1
    BY <1>2, FS_RemoveElement
  <2>4. Cardinality(D) <= Cardinality(C \ {c})
    BY <1>7, <2>3, FS_Subset
  <2>5. Cardinality(V) \in Nat
    BY <2>2, FS_CardinalityType
  <2> QED
    BY <1>1, <1>2, <1>3, <2>1, <2>2, <2>3, <2>4, <2>5
<1> QED
  BY <1>4, <1>5, <1>6, <1>7

\* The links of a kind of a user that can be used, or are about to be written,
\* are never more than the calls that run at once.
THEOREM UsableLinksAreBounded == Spec => []LinksBounded
<1>1. Init => LinksInv
  <2> SUFFICES ASSUME Init, NEW u \in Users, NEW kind \in Kind
               PROVE  /\ IsFiniteSet(UsableLinks(u, kind))
                      /\ Cardinality(UsableLinks(u, kind)) + Cardinality(CreatingCalls(u, kind))
                            <= Cardinality(Calls)
    BY DEF LinksInv
  <2>1. UsableLinks(u, kind) = {} /\ CreatingCalls(u, kind) = {}
    BY DEF Init, UsableLinks, CreatingCalls, At, IdleCall, NewCall
  <2> QED
    BY <2>1, CreatingCount, FS_EmptySet
<1>2. LinksInv => LinksBounded
  BY DEF LinksInv, LinksBounded
<1> QED
  BY <1>1, <1>2, LinksNext, TypeCorrect, PTL DEF Spec

-----------------------------------------------------------------------------
(* Locked-out users.                                                       *)

Housed(u) == u \in Users => tenant[TenantOf[u]].status # "absent"

\* Whoever has a row, or is named by a token, a link or a call, has a tenant.
TenantsThere ==
    /\ \A u \in Users : user[u].status # "absent" => Housed(u)
    /\ \A k \in Tokens : Housed(token[k].user)
    /\ \A l \in Links : Housed(link[l].user)
    /\ \A c \in Calls : Housed(call[c].user)

\* The users that tokens and links name after a step, as far as it can be read off:
\* those they named before, or the user of a call.
NamesKeep ==
    /\ \A k \in Tokens : token'[k].user = token[k].user
                            \/ \E c \in Calls : token'[k].user = call[c].user
    /\ \A l \in Links : link'[l].user = link[l].user
                            \/ \E c \in Calls : link'[l].user = call[c].user

\* No tenant goes away.
TenantsStay == \A t \in Tenants : tenant[t].status # "absent" => tenant'[t].status # "absent"

CallsHoused == \A c \in Calls : Housed(call[c].user)'

LEMMA HousedStays ==
  ASSUME TenantsStay, NEW u, Housed(u)
  PROVE  u \in Users => tenant'[TenantOf[u]].status # "absent"
  BY ConstantsAssumption DEF Housed, TenantsStay

\* A call that begins names a user that has a tenant, or nobody.
LEMMA StartHoused ==
  ASSUME CallsOK, TenantsThere, TenantsStay, NEW c \in Calls, NEW x, Start(c, x),
         x.user \in Users => tenant'[TenantOf[x.user]].status # "absent"
  PROVE  CallsHoused
<1>1. \A d \in Calls : call'[d] = IF d = c THEN x ELSE call[d]
  BY DEF CallsOK, Start
<1>2. \A d \in Calls : call'[d].user \in Users => tenant'[TenantOf[call'[d].user]].status # "absent"
  BY <1>1, HousedStays DEF TenantsThere
<1> QED
  BY <1>2 DEF CallsHoused, Housed

LEMMA BeginHoused ==
  ASSUME CallsOK, TenantsThere, TenantsStay, NEW c \in Calls, NEW u, NEW row, NEW step,
         Begin(c, u, row, step), u \in Users => tenant'[TenantOf[u]].status # "absent"
  PROVE  CallsHoused
  BY StartHoused DEF Begin, NewCall

\* The user a call names stays the same until the call ends.
NamesStay == \A c \in Calls : call'[c].user \in {call[c].user, None}

LEMMA StayHoused ==
  ASSUME TenantsThere, TenantsStay, NamesStay
  PROVE  CallsHoused
<1>1. \A c \in Calls : call'[c].user \in Users =>
          tenant'[TenantOf[call'[c].user]].status # "absent"
  BY HousedStays, ConstantsAssumption DEF TenantsThere, NamesStay
<1> QED
  BY <1>1 DEF CallsHoused, Housed

LEMMA ReturnNames ==
  ASSUME CallsOK, NEW c \in Calls, Return(c)
  PROVE  NamesStay
  BY DEF CallsOK, Return, NamesStay, IdleCall, NewCall

LEMMA GotoNames ==
  ASSUME CallsOK, NEW c \in Calls, NEW step, Goto(c, step)
  PROVE  NamesStay
<1>1. call[c] \in Call
  BY CallFacts
<1> QED
  BY <1>1 DEF CallsOK, Goto, NamesStay, Call

LEMMA OvertakeNames ==
  ASSUME CallsOK, NEW us, NEW ending, Overtake(us, ending)
  PROVE  NamesStay
<1>1. IdleCall.user = None
  BY DEF IdleCall, NewCall
<1>2. \A c \in Calls : [call[c] EXCEPT !.stale = TRUE].user = call[c].user
  BY CallFacts DEF Call
<1> QED
  BY <1>1, <1>2 DEF CallsOK, Overtake, NamesStay

LEMMA RevokeNames ==
  ASSUME TokensOK, NEW us, RevokeAll(us)
  PROVE  \A k \in Tokens : token'[k].user = token[k].user
<1>1. \A k \in Tokens : token[k] \in TokenRow
  BY DEF TokensOK
<1> QED
  BY <1>1 DEF RevokeAll, TokenRow

LEMMA NewTenantStays ==
  ASSUME TenantsOK, UsersOK, NEW t \in Tenants, NEW status \in TenantStatus, NEW trial,
         NEW owners, owners \subseteq Members(t), NewTenant(t, status, trial, owners)
  PROVE  /\ TenantsStay /\ tenant'[t].status # "absent"
         /\ \A u \in Users : user'[u] = user[u] \/ TenantOf[u] = t
  BY DEF NewTenant, TenantsOK, TenantsStay, TenantStatus, Members

\* The effect of a step on who has a tenant: what was there stays, a user whose row
\* changes its status, and every call, has one.
LEMMA HousedKinds ==
  ASSUME TypeOK, TenantsThere, [Next]_vars
  PROVE  /\ TenantsStay /\ CallsHoused /\ NamesKeep
         /\ \A u \in Users : \/ user'[u].status = user[u].status
                             \/ tenant'[TenantOf[u]].status # "absent"
<1> DEFINE Rows == \A u \in Users : \/ user'[u].status = user[u].status
                                    \/ tenant'[TenantOf[u]].status # "absent"
           Goal == TenantsStay /\ CallsHoused /\ NamesKeep /\ Rows
<1>0. CallsOK /\ TokensOK /\ LinksOK /\ TenantsOK /\ UsersOK
  BY TypeParts
<1>a. ASSUME tenant' = tenant
      PROVE  TenantsStay
  BY <1>a DEF TenantsStay
<1>b. ASSUME token' = token, link' = link
      PROVE  NamesKeep
  BY <1>b DEF NamesKeep
<1>c. ASSUME user' = user
      PROVE  Rows
  BY <1>c
<1>d. ASSUME call' = call
      PROVE  NamesStay
  BY <1>d DEF NamesStay
<1>1. ASSUME NEW c \in Calls, NEW v \in Users, Register(c, v)
      PROVE  Goal
  <2>1. {v} \subseteq Members(TenantOf[v]) /\ TenantOf[v] \in Tenants
    BY ConstantsAssumption DEF Members
  <2>2. /\ TenantsStay /\ tenant'[TenantOf[v]].status # "absent"
        /\ \A u \in Users : user'[u] = user[u] \/ TenantOf[u] = TenantOf[v]
    BY <1>0, <1>1, <2>1, NewTenantStays DEF Register, TenantStatus
  <2>3. CallsHoused
    BY <1>0, <1>1, <2>2, BeginHoused DEF Register
  <2> QED
    BY <1>1, <1>b, <2>2, <2>3 DEF Register
<1>2. ASSUME NEW t \in Tenants, Provision(t)
      PROVE  Goal
  <2>1. PICK owners \in {{}} \cup {{u} : u \in Members(t)} :
            \/ NewTenant(t, "trial", "running", owners)
            \/ \E status \in TenantStatus : NewTenant(t, status, "never", owners)
    BY <1>2 DEF Provision
  <2>2. PICK status \in TenantStatus, trial \in {"running", "never"} :
            NewTenant(t, status, trial, owners)
    BY <2>1 DEF TenantStatus
  <2>3. owners \subseteq Members(t)
    BY <2>1
  <2>4. /\ TenantsStay /\ tenant'[t].status # "absent"
        /\ \A u \in Users : user'[u] = user[u] \/ TenantOf[u] = t
    BY <1>0, <2>2, <2>3, NewTenantStays
  <2> QED
    BY <1>2, <1>b, <1>d, <2>4, StayHoused DEF Provision
<1>3. ASSUME NEW c \in Calls, NEW t, SuspendRead(c, t) \/ ReactivateRead(c, t)
      PROVE  Goal
  <2>1. None \notin Users
    BY ConstantsAssumption
  <2> QED
    BY <1>0, <1>3, <1>a, <1>b, <1>c, <2>1, BeginHoused DEF SuspendRead, ReactivateRead
<1>4. ASSUME NEW c \in Calls, SuspendCommit(c) \/ ReactivateCommit(c)
      PROVE  Goal
  <2>1. \A t \in Tenants : tenant[t] \in TenantRow
    BY <1>0 DEF TenantsOK
  <2>2. \A t \in Tenants :
            \/ tenant'[t] = tenant[t]
            \/ tenant'[t] = [tenant[t] EXCEPT !.status = "suspended", !.by = "admin"]
            \/ tenant'[t] = [tenant[t] EXCEPT !.status = "active", !.by = "none"]
    BY <1>0, <1>4 DEF SuspendCommit, ReactivateCommit, TenantsOK
  <2>3. TenantsStay
    BY <2>1, <2>2 DEF TenantsStay, TenantRow
  <2>4. NamesStay /\ NamesKeep
    BY <1>0, <1>4, <1>b, OvertakeNames, ReturnNames, RevokeNames
       DEF SuspendCommit, ReactivateCommit, NamesKeep
  <2> QED
    BY <1>4, <1>c, <2>3, <2>4, StayHoused DEF SuspendCommit, ReactivateCommit
<1>5. ASSUME NEW t \in Tenants, ExpireSuspend(t)
      PROVE  Goal
  <2>1. \A s \in Tenants : tenant[s] \in TenantRow
    BY <1>0 DEF TenantsOK
  <2>2. TenantsStay
    BY <1>0, <1>5, <2>1 DEF ExpireSuspend, TenantsStay, TenantsOK, TenantRow
  <2>3. NamesStay /\ NamesKeep
    BY <1>0, <1>5, OvertakeNames, RevokeNames DEF ExpireSuspend, NamesKeep
  <2> QED
    BY <1>5, <1>c, <2>2, <2>3, StayHoused DEF ExpireSuspend
<1>6. ASSUME UNCHANGED <<tenant, user, token, link, call>>
      PROVE  Goal
  BY <1>6, <1>a, <1>b, <1>c, <1>d, StayHoused
<1>7. ASSUME NEW c \in Calls, NEW v \in Users, Invite(c, v)
      PROVE  Goal
  <2>1. tenant'[TenantOf[v]].status # "absent" /\ TenantsStay
    BY <1>7, <1>a DEF Invite, Admitted
  <2>2. CallsHoused
    BY <1>0, <1>7, <2>1, StartHoused DEF Invite, NewCall
  <2>3. Rows
    BY <1>0, <1>7, <2>1 DEF Invite, UsersOK
  <2> QED
    BY <1>7, <1>b, <2>1, <2>2, <2>3 DEF Invite
<1>8. ASSUME NEW c \in Calls, NEW v \in Users, UpdateRead(c, v)
      PROVE  Goal
  <2>1. tenant'[TenantOf[v]].status # "absent" /\ TenantsStay
    BY <1>8, <1>a DEF UpdateRead, Admitted
  <2>2. CallsHoused
    BY <1>0, <1>8, <2>1, BeginHoused DEF UpdateRead
  <2> QED
    BY <1>8, <1>b, <1>c, <2>1, <2>2 DEF UpdateRead
<1>9. ASSUME NEW c \in Calls, NEW v \in Users, Forgot(c, v) \/ LoginRead(c, v)
      PROVE  Goal
  <2>1. tenant'[TenantOf[v]].status # "absent" /\ TenantsStay
    BY <1>9, <1>a DEF Forgot, LoginRead, TenantsThere, Housed
  <2>2. CallsHoused
    BY <1>0, <1>9, <2>1, StartHoused, BeginHoused DEF Forgot, LoginRead, NewCall
  <2> QED
    BY <1>9, <1>b, <1>c, <2>1, <2>2 DEF Forgot, LoginRead
<1>10. ASSUME NEW c \in Calls, NEW k \in Tokens, RefreshRead(c, k)
       PROVE  Goal
  <2>1. TenantsStay /\ (token[k].user \in Users => tenant'[TenantOf[token[k].user]].status # "absent")
    BY <1>10, <1>a, HousedStays DEF RefreshRead, TenantsThere
  <2>2. CallsHoused
    BY <1>0, <1>10, <2>1, StartHoused DEF RefreshRead, NewCall
  <2> QED
    BY <1>10, <1>b, <1>c, <2>1, <2>2 DEF RefreshRead
<1>11. ASSUME NEW c \in Calls, NEW n \in Links, ActivateRead(c, n) \/ ResetRead(c, n)
       PROVE  Goal
  <2>1. TenantsStay /\ (link[n].user \in Users => tenant'[TenantOf[link[n].user]].status # "absent")
    BY <1>11, <1>a, HousedStays DEF ActivateRead, ResetRead, LinkRead, TenantsThere
  <2>2. CallsHoused
    BY <1>0, <1>11, <2>1, BeginHoused DEF ActivateRead, ResetRead, LinkRead
  <2> QED
    BY <1>11, <1>b, <1>c, <2>1, <2>2 DEF ActivateRead, ResetRead, LinkRead
<1>12. ASSUME NEW c \in Calls, UpdateCommit(c) \/ ActivateCommit(c) \/ ResetCommit(c)
       PROVE  Goal
  <2>1. Rows
    <3>1. call[c].user \in Users /\ tenant'[TenantOf[call[c].user]].status # "absent"
      BY <1>0, <1>12, CallFacts
         DEF UpdateCommit, ActivateCommit, ResetCommit, At, TenantsThere, Housed
    <3>2. \A u \in Users : u # call[c].user => user'[u] = user[u]
      BY <1>0, <1>12 DEF UpdateCommit, ActivateCommit, ResetCommit, UsersOK
    <3> QED
      BY <3>1, <3>2
  <2>2. NamesStay
    BY <1>0, <1>12, ReturnNames, OvertakeNames DEF UpdateCommit, ActivateCommit, ResetCommit
  <2>3. TenantsStay
    BY <1>12, <1>a DEF UpdateCommit, ActivateCommit, ResetCommit
  <2>4. \A l \in Links : link'[l].user = link[l].user
    <3>1. \A l \in Links : link[l] \in LinkRow
      BY <1>0 DEF LinksOK
    <3>2. ASSUME NEW n, UseLink(n), NEW l \in Links
          PROVE  link'[l].user = link[l].user
      <4>1. \/ link'[l] = link[l]
            \/ link'[l] = [link[l] EXCEPT !.status = "spent", !.uses = link[l].uses + 1]
        BY <1>0, <3>2 DEF UseLink, LinksOK
      <4> QED
        BY <3>1, <4>1 DEF LinkRow
    <3> QED
      BY <1>12, <3>2 DEF UpdateCommit, ActivateCommit, ResetCommit
  <2>5. \A k \in Tokens : token'[k].user = token[k].user
    BY <1>0, <1>12, RevokeNames DEF UpdateCommit, ActivateCommit, ResetCommit
  <2> QED
    BY <2>1, <2>2, <2>3, <2>4, <2>5, StayHoused DEF NamesKeep
<1>13. ASSUME NEW c \in Calls, Supersede(c) \/ MailLink(c)
       PROVE  Goal
  <2>1. \A l \in Links : link[l] \in LinkRow
    BY <1>0 DEF LinksOK
  <2>2. \A l \in Links : \/ link'[l] = link[l]
                         \/ link'[l] = [link[l] EXCEPT !.status = "spent"]
                         \/ link'[l] = [link[l] EXCEPT !.mailed = TRUE]
    BY <1>0, <1>13 DEF Supersede, MailLink, LinksOK
  <2>3. \A l \in Links : link'[l].user = link[l].user
    BY <2>1, <2>2 DEF LinkRow
  <2>4. NamesStay
    BY <1>0, <1>13, ReturnNames, GotoNames DEF Supersede, MailLink
  <2> QED
    BY <1>13, <1>a, <1>c, <2>3, <2>4, StayHoused DEF Supersede, MailLink, NamesKeep
<1>14. ASSUME NEW c \in Calls, CreateLink(c)
       PROVE  Goal
  <2>1. PICK n \in Links :
          /\ link' = [link EXCEPT ![n] = [kind |-> call[c].kind, user |-> call[c].user,
                                          status |-> "unused", mailed |-> FALSE,
                                          uses |-> 0]]
          /\ call' = [call EXCEPT ![c] = [@ EXCEPT !.step = "link.mail", !.row = n]]
    BY <1>14 DEF CreateLink
  <2>2. call[c] \in Call
    BY <1>0, CallFacts
  <2>3. NamesStay
    BY <1>0, <2>1, <2>2 DEF CallsOK, NamesStay, Call
  <2>4. \A l \in Links : link'[l].user = link[l].user \/ link'[l].user = call[c].user
    BY <1>0, <2>1 DEF LinksOK
  <2> QED
    BY <1>14, <1>a, <1>c, <2>3, <2>4, StayHoused DEF CreateLink, NamesKeep
<1>15. ASSUME NEW c \in Calls, RefreshRevoke(c) \/ IssueTokens(c)
       PROVE  Goal
  <2>1. \A k \in Tokens : token[k] \in TokenRow
    BY <1>0 DEF TokensOK
  <2>2. \A k \in Tokens : token'[k].user = token[k].user \/ token'[k].user = call[c].user
    BY <1>0, <1>15, <2>1 DEF RefreshRevoke, IssueTokens, TokensOK, TokenRow
  <2>3. NamesStay
    BY <1>0, <1>15, ReturnNames, GotoNames DEF RefreshRevoke, IssueTokens
  <2> QED
    BY <1>15, <1>a, <1>c, <2>2, <2>3, StayHoused DEF RefreshRevoke, IssueTokens, NamesKeep
<1>16. ASSUME NEW c \in Calls, Fail(c)
       PROVE  Goal
  BY <1>0, <1>16, <1>a, <1>b, <1>c, ReturnNames, StayHoused DEF Fail
<1>17. ASSUME NEW v, Logout(v)
       PROVE  Goal
  BY <1>0, <1>17, <1>a, <1>c, RevokeNames, OvertakeNames, StayHoused DEF Logout, NamesKeep
<1>18. ASSUME TimeStep
       PROVE  Goal
  <2>1. ASSUME NEW t \in Tenants, TrialEnds(t)
        PROVE  Goal
    <3>1. \A s \in Tenants : tenant[s] \in TenantRow
      BY <1>0 DEF TenantsOK
    <3>2. TenantsStay
      BY <1>0, <2>1, <3>1 DEF TrialEnds, TenantsStay, TenantsOK, TenantRow
    <3> QED
      BY <2>1, <1>b, <1>c, <1>d, <3>2, StayHoused DEF TrialEnds
  <2>2. ASSUME NEW k \in Tokens, TokenExpires(k)
        PROVE  Goal
    <3>1. \A j \in Tokens : token[j] \in TokenRow
      BY <1>0 DEF TokensOK
    <3>2. \A j \in Tokens : token'[j].user = token[j].user
      BY <1>0, <2>2, <3>1 DEF TokenExpires, TokensOK, TokenRow
    <3> QED
      BY <2>2, <1>a, <1>c, <1>d, <3>2, StayHoused DEF TokenExpires, NamesKeep
  <2>3. ASSUME NEW n \in Links, LinkExpires(n)
        PROVE  Goal
    <3>1. \A l \in Links : link[l] \in LinkRow
      BY <1>0 DEF LinksOK
    <3>2. \A l \in Links : link'[l].user = link[l].user
      BY <1>0, <2>3, <3>1 DEF LinkExpires, LinksOK, LinkRow
    <3> QED
      BY <2>3, <1>a, <1>c, <1>d, <3>2, StayHoused DEF LinkExpires, NamesKeep
  <2> QED
    BY <1>18, <2>1, <2>2, <2>3 DEF TimeStep
<1> SUFFICES Goal
  OBVIOUS
<1> HIDE DEF Goal
<1>19. CASE TenantStep \/ CronStep
  BY <1>19, <1>2, <1>3, <1>4, <1>5, <1>6
     DEF TenantStep, CronStep, ExpireRead, ExpireFails, ExpireSkip
<1>20. ASSUME NEW c \in Calls, UserStep(c) \/ SessionStep(c) \/ LinkStep(c) \/ Fail(c)
       PROVE  Goal
  BY <1>20, <1>1, <1>7, <1>8, <1>9, <1>10, <1>11, <1>12, <1>13, <1>14, <1>15, <1>16
     DEF UserStep, SessionStep, LinkStep
<1>21. CASE UNCHANGED vars
  BY <1>21, <1>6 DEF vars
<1> QED
  BY <1>17, <1>18, <1>19, <1>20, <1>21 DEF Next

LEMMA TenantsThereNext ==
  ASSUME TypeOK, TenantsThere, [Next]_vars
  PROVE  TenantsThere'
<1>1. /\ TenantsStay /\ CallsHoused /\ NamesKeep
      /\ \A u \in Users : \/ user'[u].status = user[u].status
                          \/ tenant'[TenantOf[u]].status # "absent"
  BY HousedKinds
<1>2. \A u : Housed(u) => Housed(u)'
  BY <1>1, HousedStays DEF Housed
<1>3. \A u \in Users : user'[u].status # "absent" => Housed(u)'
  BY <1>1, <1>2 DEF TenantsThere, Housed
<1>4. \A k \in Tokens : Housed(token[k].user)'
  <2>1. \A k \in Tokens : token'[k].user \in Users =>
            tenant'[TenantOf[token'[k].user]].status # "absent"
    BY <1>1, HousedStays DEF TenantsThere, NamesKeep
  <2> QED
    BY <2>1 DEF Housed
<1>5. \A l \in Links : Housed(link[l].user)'
  <2>1. \A l \in Links : link'[l].user \in Users =>
            tenant'[TenantOf[link'[l].user]].status # "absent"
    BY <1>1, HousedStays DEF TenantsThere, NamesKeep
  <2> QED
    BY <2>1 DEF Housed
<1>6. \A c \in Calls : Housed(call[c].user)'
  BY <1>1 DEF CallsHoused
<1> QED
  BY <1>3, <1>4, <1>5, <1>6 DEF TenantsThere

\* What keeps u locked out.
StatusKept(u) == user'[u].status = user[u].status
TokensKept(u) == \A k \in Tokens : token'[k].user = u /\ token'[k].status = "live"
                    => token[k].user = u /\ token[k].status = "live"
CallsKept(u) == \A c \in Calls : call'[c].user = u =>
                    \/ call'[c].step = "reset.commit"
                    \/ call[c].user = u /\ call'[c].step = call[c].step

LockKept(u) == StatusKept(u) /\ TokensKept(u) /\ LinksKeep /\ CallsKept(u)

LEMMA LockStays ==
  ASSUME NEW u, Locked(u), LockKept(u)
  PROVE  Locked(u)'
<1>1. user'[u].status \in {"invited", "disabled"}
  BY DEF Locked, LockKept, StatusKept
<1>2. \A k \in Tokens : ~LiveToken(k, u)'
  BY DEF Locked, LockKept, TokensKept, LiveToken
<1>3. \A l \in Links : link'[l].user = u /\ link'[l].kind = "activation"
                          => link'[l].status # "unused"
  BY DEF Locked, LockKept, LinksKeep
<1>4. \A c \in Calls : call'[c].user = u => call'[c].step = "reset.commit"
  BY DEF Locked, LockKept, CallsKept
<1> QED
  BY <1>1, <1>2, <1>3, <1>4 DEF Locked

\* The call of another user, or of nobody, begins.
LEMMA StartLocked ==
  ASSUME CallsOK, NEW u, NEW c \in Calls, NEW x, Start(c, x),
         x.user # u \/ x.step = "reset.commit"
  PROVE  CallsKept(u)
<1>1. \A d \in Calls : call'[d] = IF d = c THEN x ELSE call[d]
  BY DEF CallsOK, Start
<1> QED
  BY <1>1 DEF CallsKept

LEMMA BeginLocked ==
  ASSUME CallsOK, NEW u, NEW c \in Calls, NEW v, NEW row, NEW step, Begin(c, v, row, step),
         v # u \/ step = "reset.commit"
  PROVE  CallsKept(u)
  BY StartLocked DEF Begin, NewCall

LEMMA ReturnLocked ==
  ASSUME CallsOK, NEW u \in Users, NEW c \in Calls, Return(c)
  PROVE  CallsKept(u)
<1>1. IdleCall.user = None /\ None \notin Users
  BY ConstantsAssumption DEF IdleCall, NewCall
<1> QED
  BY <1>1 DEF CallsOK, Return, CallsKept

LEMMA GotoLocked ==
  ASSUME CallsOK, NEW u, NEW c \in Calls, NEW step, Goto(c, step), call[c].user # u
  PROVE  CallsKept(u)
<1>1. call[c] \in Call
  BY CallFacts
<1> QED
  BY <1>1 DEF CallsOK, Goto, CallsKept, Call

LEMMA OvertakeLocked ==
  ASSUME CallsOK, NEW u \in Users, NEW us, NEW ending, Overtake(us, ending)
  PROVE  CallsKept(u)
<1>1. IdleCall.user = None /\ None \notin Users
  BY ConstantsAssumption DEF IdleCall, NewCall
<1>2. \A c \in Calls : /\ [call[c] EXCEPT !.stale = TRUE].step = call[c].step
                       /\ [call[c] EXCEPT !.stale = TRUE].user = call[c].user
  BY CallFacts DEF Call
<1> QED
  BY <1>1, <1>2 DEF CallsOK, Overtake, CallsKept

LEMMA RevokeLocked ==
  ASSUME TokensOK, NEW u, NEW us, RevokeAll(us)
  PROVE  TokensKept(u)
<1>1. \A k \in Tokens : token[k] \in TokenRow
  BY DEF TokensOK
<1> QED
  BY <1>1 DEF RevokeAll, TokenRow, TokensKept

LEMMA LockedStep ==
  ASSUME TypeOK, TenantsThere, [Next]_vars, NEW u \in Users, Locked(u)
  PROVE  Locked(u)' \/ (Admitted(TenantOf[u]) /\ UpdateBegun(u)')
<1> DEFINE Goal == LockKept(u) \/ Locked(u)' \/ (Admitted(TenantOf[u]) /\ UpdateBegun(u)')
<1>0. CallsOK /\ TokensOK /\ LinksOK /\ TenantsOK /\ UsersOK
  BY TypeParts
<1>l. /\ user[u].status \in {"invited", "disabled"}
      /\ tenant[TenantOf[u]].status # "absent"
      /\ \A k \in Tokens : ~(token[k].user = u /\ token[k].status = "live")
      /\ \A l \in Links : link[l].user = u /\ link[l].kind = "activation"
                              => link[l].status # "unused"
      /\ \A c \in Calls : call[c].user = u => call[c].step = "reset.commit"
  BY DEF Locked, LiveToken, TenantsThere, Housed
<1>a. ASSUME user' = user
      PROVE  StatusKept(u)
  BY <1>a DEF StatusKept
<1>b. ASSUME token' = token
      PROVE  TokensKept(u)
  BY <1>b DEF TokensKept
<1>c. ASSUME link' = link
      PROVE  LinksKeep
  BY <1>c DEF LinksKeep
<1>d. ASSUME call' = call
      PROVE  CallsKept(u)
  BY <1>d DEF CallsKept
<1>1. ASSUME NEW c \in Calls, NEW v \in Users, Register(c, v)
      PROVE  Goal
  <2>1. v # u /\ StatusKept(u)
    BY <1>l, <1>1 DEF Register, NewTenant, StatusKept
  <2> QED
    BY <1>0, <1>1, <1>b, <1>c, <2>1, BeginLocked DEF Register, LockKept
<1>2. ASSUME NEW t \in Tenants, Provision(t)
      PROVE  Goal
  <2>1. PICK owners \in {{}} \cup {{w} : w \in Members(t)} :
            \/ NewTenant(t, "trial", "running", owners)
            \/ \E status \in TenantStatus : NewTenant(t, status, "never", owners)
    BY <1>2 DEF Provision
  <2>2. PICK status \in TenantStatus, trial \in {"running", "never"} :
            NewTenant(t, status, trial, owners)
    BY <2>1 DEF TenantStatus
  <2>3. TenantOf[u] # t
    BY <1>l, <2>2 DEF NewTenant
  <2>4. u \notin owners
    BY <2>1, <2>3 DEF Members
  <2>5. StatusKept(u)
    BY <2>2, <2>4 DEF NewTenant, StatusKept
  <2> QED
    BY <1>2, <1>b, <1>c, <1>d, <2>5 DEF Provision, LockKept
<1>3. ASSUME NEW c \in Calls, NEW t, SuspendRead(c, t) \/ ReactivateRead(c, t)
      PROVE  Goal
  <2>1. None # u
    BY ConstantsAssumption
  <2> QED
    BY <1>0, <1>3, <1>a, <1>b, <1>c, <2>1, BeginLocked DEF SuspendRead, ReactivateRead, LockKept
<1>4. ASSUME NEW c \in Calls, SuspendCommit(c) \/ ReactivateCommit(c)
      PROVE  Goal
  BY <1>0, <1>4, <1>a, <1>b, <1>c, OvertakeLocked, ReturnLocked, RevokeLocked
     DEF SuspendCommit, ReactivateCommit, LockKept
<1>5. ASSUME NEW t \in Tenants, ExpireSuspend(t)
      PROVE  Goal
  BY <1>0, <1>5, <1>a, <1>c, OvertakeLocked, RevokeLocked DEF ExpireSuspend, LockKept
<1>6. ASSUME UNCHANGED <<user, token, link, call>>
      PROVE  Goal
  BY <1>6, <1>a, <1>b, <1>c, <1>d DEF LockKept
<1>7. ASSUME NEW c \in Calls, NEW v \in Users, Invite(c, v)
      PROVE  Goal
  <2>1. v # u
    BY <1>l, <1>7 DEF Invite
  <2>2. StatusKept(u)
    BY <1>0, <1>7, <2>1 DEF Invite, StatusKept, UsersOK
  <2>3. CallsKept(u)
    BY <1>0, <1>7, <2>1, StartLocked DEF Invite, NewCall
  <2> QED
    BY <1>7, <1>b, <1>c, <2>2, <2>3 DEF Invite, LockKept
<1>8. ASSUME NEW c \in Calls, NEW v \in Users, UpdateRead(c, v)
      PROVE  Goal
  <2>1. CASE v = u
    <3>1. Admitted(TenantOf[u])
      BY <1>8, <2>1 DEF UpdateRead
    <3>2. UpdateBegun(u)'
      BY <1>0, <1>8, <2>1 DEF UpdateRead, Begin, Start, NewCall, UpdateBegun, At, CallsOK
    <3> QED
      BY <3>1, <3>2
  <2>2. CASE v # u
    BY <1>0, <1>8, <1>a, <1>b, <1>c, <2>2, BeginLocked DEF UpdateRead, LockKept
  <2> QED
    BY <2>1, <2>2
<1>9. ASSUME NEW c \in Calls, NEW v \in Users, Forgot(c, v) \/ LoginRead(c, v)
      PROVE  Goal
  <2>1. v # u
    BY <1>l, <1>9 DEF Forgot, LoginRead
  <2>2. CallsKept(u)
    BY <1>0, <1>9, <2>1, StartLocked, BeginLocked DEF Forgot, LoginRead, NewCall
  <2> QED
    BY <1>9, <1>a, <1>b, <1>c, <2>2 DEF Forgot, LoginRead, LockKept
<1>10. ASSUME NEW c \in Calls, NEW k \in Tokens, RefreshRead(c, k)
       PROVE  Goal
  <2>1. token[k].user # u
    BY <1>l, <1>10 DEF RefreshRead
  <2>2. CallsKept(u)
    BY <1>0, <1>10, <2>1, StartLocked DEF RefreshRead, NewCall
  <2> QED
    BY <1>10, <1>a, <1>b, <1>c, <2>2 DEF RefreshRead, LockKept
<1>11. ASSUME NEW c \in Calls, NEW n \in Links, ActivateRead(c, n) \/ ResetRead(c, n)
       PROVE  Goal
  <2>1. CallsKept(u)
    BY <1>0, <1>l, <1>11, BeginLocked DEF ActivateRead, ResetRead, LinkRead
  <2> QED
    BY <1>11, <1>a, <1>b, <1>c, <2>1 DEF ActivateRead, ResetRead, LinkRead, LockKept
<1>u. ASSUME NEW n, UseLink(n)
      PROVE  LinksKeep
  <2>1. \A l \in Links : link[l] \in LinkRow
    BY <1>0 DEF LinksOK
  <2>2. \A l \in Links : \/ link'[l] = link[l]
            \/ link'[l] = [link[l] EXCEPT !.status = "spent", !.uses = link[l].uses + 1]
    BY <1>0, <1>u DEF UseLink, LinksOK
  <2> QED
    BY <2>1, <2>2 DEF LinkRow, LinksKeep
<1>12. ASSUME NEW c \in Calls, UpdateCommit(c) \/ ActivateCommit(c)
       PROVE  Goal
  <2>1. call[c].user # u
    BY <1>l, <1>12 DEF UpdateCommit, ActivateCommit, At
  <2>2. StatusKept(u)
    BY <1>0, <1>12, <2>1 DEF UpdateCommit, ActivateCommit, UsersOK, StatusKept
  <2>3. LinksKeep
    BY <1>12, <1>c, <1>u DEF UpdateCommit, ActivateCommit
  <2> QED
    BY <1>0, <1>12, <1>b, <2>2, <2>3, ReturnLocked DEF UpdateCommit, ActivateCommit, LockKept
<1>13. ASSUME NEW c \in Calls, ResetCommit(c)
       PROVE  Goal
  <2>1. user[u] \in UserRow
    BY <1>0 DEF UsersOK
  <2>2. user'[u] = user[u] \/ user'[u] = [user[u] EXCEPT !.password = TRUE]
    BY <1>0, <1>13 DEF ResetCommit, UsersOK
  <2>3. StatusKept(u)
    BY <2>1, <2>2 DEF UserRow, StatusKept
  <2> QED
    BY <1>0, <1>13, <1>u, <2>3, OvertakeLocked, RevokeLocked DEF ResetCommit, LockKept
<1>14. ASSUME NEW c \in Calls, Supersede(c) \/ MailLink(c)
       PROVE  Goal
  <2>1. \A l \in Links : link[l] \in LinkRow
    BY <1>0 DEF LinksOK
  <2>2. \A l \in Links : \/ link'[l] = link[l]
                         \/ link'[l] = [link[l] EXCEPT !.status = "spent"]
                         \/ link'[l] = [link[l] EXCEPT !.mailed = TRUE]
    BY <1>0, <1>14 DEF Supersede, MailLink, LinksOK
  <2>3. LinksKeep
    BY <2>1, <2>2 DEF LinkRow, LinksKeep
  <2>4. CallsKept(u)
    <3>1. call[c].user # u
      BY <1>l, <1>14 DEF Supersede, MailLink, At
    <3> QED
      BY <1>0, <1>14, <3>1, ReturnLocked, GotoLocked DEF Supersede, MailLink
  <2> QED
    BY <1>14, <1>a, <1>b, <2>3, <2>4 DEF Supersede, MailLink, LockKept
<1>15. ASSUME NEW c \in Calls, CreateLink(c)
       PROVE  Goal
  <2>1. PICK n \in Links :
          /\ link' = [link EXCEPT ![n] = [kind |-> call[c].kind, user |-> call[c].user,
                                          status |-> "unused", mailed |-> FALSE,
                                          uses |-> 0]]
          /\ call' = [call EXCEPT ![c] = [@ EXCEPT !.step = "link.mail", !.row = n]]
    BY <1>15 DEF CreateLink
  <2>2. call[c] \in Call /\ call[c].user # u
    BY <1>0, <1>l, <1>15, CallFacts DEF CreateLink, At
  <2>3. CallsKept(u)
    BY <1>0, <2>1, <2>2 DEF CallsOK, CallsKept, Call
  <2>4. \A l \in Links : link'[l] = link[l] \/ link'[l].user # u
    BY <1>0, <2>1, <2>2 DEF LinksOK
  <2>5. \A l \in Links : link'[l].user = u /\ link'[l].kind = "activation"
                             => link'[l].status # "unused"
    BY <1>l, <2>4
  <2>6. Locked(u)'
    <3>1. user' = user /\ token' = token
      BY <1>15 DEF CreateLink
    <3>2. \A d \in Calls : call'[d].user = u => call'[d].step = "reset.commit"
      BY <1>l, <2>3 DEF CallsKept
    <3> QED
      BY <1>l, <2>5, <3>1, <3>2 DEF Locked, LiveToken
  <2> QED
    BY <2>6
<1>16. ASSUME NEW c \in Calls, RefreshRevoke(c) \/ IssueTokens(c)
       PROVE  Goal
  <2>1. \A k \in Tokens : token[k] \in TokenRow
    BY <1>0 DEF TokensOK
  <2>2. call[c].user # u
    BY <1>l, <1>16 DEF RefreshRevoke, IssueTokens, At
  <2>3. TokensKept(u)
    BY <1>0, <1>16, <2>1, <2>2 DEF RefreshRevoke, IssueTokens, TokensOK, TokenRow, TokensKept
  <2>4. CallsKept(u)
    BY <1>0, <1>16, <2>2, ReturnLocked, GotoLocked DEF RefreshRevoke, IssueTokens
  <2> QED
    BY <1>16, <1>a, <1>c, <2>3, <2>4 DEF RefreshRevoke, IssueTokens, LockKept
<1>17. ASSUME NEW c \in Calls, Fail(c)
       PROVE  Goal
  BY <1>0, <1>17, <1>a, <1>b, <1>c, ReturnLocked DEF Fail, LockKept
<1>18. ASSUME NEW v, Logout(v)
       PROVE  Goal
  BY <1>0, <1>18, <1>a, <1>c, RevokeLocked, OvertakeLocked DEF Logout, LockKept
<1>19. ASSUME TimeStep
       PROVE  Goal
  <2>1. ASSUME NEW k \in Tokens, TokenExpires(k)
        PROVE  Goal
    <3>1. \A j \in Tokens : token[j] \in TokenRow
      BY <1>0 DEF TokensOK
    <3>2. TokensKept(u)
      BY <1>0, <2>1, <3>1 DEF TokenExpires, TokensOK, TokenRow, TokensKept
    <3> QED
      BY <2>1, <1>a, <1>c, <1>d, <3>2 DEF TokenExpires, LockKept
  <2>2. ASSUME NEW n \in Links, LinkExpires(n)
        PROVE  Goal
    <3>1. \A l \in Links : link[l] \in LinkRow
      BY <1>0 DEF LinksOK
    <3>2. LinksKeep
      BY <1>0, <2>2, <3>1 DEF LinkExpires, LinksOK, LinkRow, LinksKeep
    <3> QED
      BY <2>2, <1>a, <1>b, <1>d, <3>2 DEF LinkExpires, LockKept
  <2> QED
    BY <1>19, <1>6, <2>1, <2>2 DEF TimeStep, TrialEnds
<1> SUFFICES Goal
  BY LockStays
<1> HIDE DEF Goal
<1>20. CASE TenantStep \/ CronStep
  BY <1>20, <1>2, <1>3, <1>4, <1>5, <1>6
     DEF TenantStep, CronStep, ExpireRead, ExpireFails, ExpireSkip
<1>21. ASSUME NEW c \in Calls, UserStep(c) \/ SessionStep(c)
       PROVE  Goal
  BY <1>21, <1>1, <1>7, <1>8, <1>9, <1>10, <1>12, <1>16 DEF UserStep, SessionStep
<1>22. ASSUME NEW c \in Calls, LinkStep(c) \/ Fail(c)
       PROVE  Goal
  BY <1>22, <1>11, <1>12, <1>13, <1>14, <1>15, <1>17 DEF LinkStep
<1>23. CASE UNCHANGED vars
  BY <1>23, <1>6 DEF vars
<1> QED
  BY <1>18, <1>19, <1>20, <1>21, <1>22, <1>23 DEF Next

\* A locked-out user gets in again only through an update of the tenant, begun when
\* the guard admitted the tenant: through no login, refresh, reset or late link.
THEOREM LockedOutStays == Spec => LockedOut
<1>1. Init => TenantsThere
  BY ConstantsAssumption DEF Init, TenantsThere, Housed, IdleCall, NewCall
<1>2. TypeOK /\ TenantsThere /\ [Next]_vars =>
          \A u \in Users : Locked(u) =>
              Locked(u)' \/ (Admitted(TenantOf[u]) /\ UpdateBegun(u)')
  BY LockedStep
<1>3. TypeOK /\ TenantsThere /\ [Next]_vars =>
          [\A u \in Users : Locked(u) =>
              \/ Locked(u)'
              \/ Admitted(TenantOf[u]) /\ UpdateBegun(u)']_vars
  BY <1>2
<1> QED
  BY <1>1, <1>3, TenantsThereNext, TypeCorrect, PTL DEF Spec, LockedOut

=============================================================================
