------------------------------ MODULE Sessions ------------------------------
(***************************************************************************)
(* Accounts and sessions of the API: tenants and their suspension          *)
(* (apps/api/src/tenants), the daily trial expiry (scheduler), users and   *)
(* invitations (users), and logins, refresh tokens, activation and         *)
(* password-reset links (auth).                                            *)
(*                                                                         *)
(* As in SignFlow an HTTP call is a small process with one action per      *)
(* awaited operation that reads or writes shared rows; a Prisma            *)
(* transaction is one action and a call may end at any await (Fail).       *)
(* Users are those the model follows: a tenant has others, who invite      *)
(* them, change their status and run the tenant.                           *)
(***************************************************************************)
EXTENDS Naturals, FiniteSets

CONSTANTS
    Users,      \* users followed by the model
    Tenants,    \* tenants
    TenantOf,   \* the tenant of each user
    Platform,   \* tenants with a platform owner or platform administrator
    Tokens,     \* refresh tokens ever issued (a bound)
    Links,      \* activation and reset links ever issued (a bound)
    Calls,      \* HTTP calls in flight at once (a bound)
    None        \* no user, no row

ASSUME ConstantsAssumption ==
    /\ TenantOf \in [Users -> Tenants]
    /\ Platform \subseteq Tenants
    /\ None \notin Users
    /\ None \notin Tenants \cup Tokens \cup Links
    /\ IsFiniteSet(Calls)
    /\ Calls # {}

VARIABLES
    tenant,     \* tenants
    user,       \* users
    token,      \* refresh_tokens
    link,       \* activation_tokens and password_reset_tokens
    cron,       \* the trial-expiry pass: the candidates it still has to treat
    call        \* the calls in flight

vars == <<tenant, user, token, link, cron, call>>

-----------------------------------------------------------------------------
(* Types.  "absent" stands for a row that does not exist; a revoked and an *)
(* expired token are both "dead", a used and an expired link both "spent": *)
(* the code refuses the two alike.                                         *)

Step == {"idle", "issue", "refresh.revoke", "update.commit",
         "link.supersede", "link.create", "link.mail",
         "activate.commit", "reset.commit",
         "suspend.commit", "reactivate.commit"}

\* The calls that end by handing out a session.
SessionSteps == {"issue", "refresh.revoke"}

TenantStatus == {"active", "suspended", "trial"}
UserStatus == {"active", "invited", "disabled"}
Kind == {"activation", "reset"}

\* by: what suspended the tenant; trial: how trialEndsAt relates to now.
TenantRow == [status: TenantStatus \cup {"absent"},
              by: {"none", "admin", "trial"},
              trial: {"never", "running", "over"}]
UserRow == [status: UserStatus \cup {"absent"}, password: BOOLEAN]

\* stale: the token was live, or the call that issued it had begun, when the
\* user's tokens were last revoked together (a history field).
TokenRow == [status: {"absent", "live", "dead"}, user: Users \cup {None},
             stale: BOOLEAN]

\* uses: how many times the link has set a password (a history field).
LinkRow == [kind: Kind \cup {"none"}, user: Users \cup {None},
            status: {"absent", "unused", "spent"}, mailed: BOOLEAN, uses: Nat]

\* row: the token, link or tenant a call read and will write.
Call == [step: Step, user: Users \cup {None},
         row: Tokens \cup Links \cup Tenants \cup {None},
         kind: Kind \cup {"none"}, stale: BOOLEAN]

\* A call that has just begun.
NewCall(step, u, row, kind, stale) ==
    [step |-> step, user |-> u, row |-> row, kind |-> kind, stale |-> stale]

IdleCall == NewCall("idle", None, None, "none", FALSE)

DataTypeOK ==
    /\ tenant \in [Tenants -> TenantRow]
    /\ user \in [Users -> UserRow]
    /\ token \in [Tokens -> TokenRow]
    /\ link \in [Links -> LinkRow]
    /\ cron \in SUBSET Tenants

\* What a call at a step is about.
LegalCall ==
    {x \in Call :
        /\ x.step \in {"suspend.commit", "reactivate.commit"} => x.row \in Tenants
        /\ x.step \notin {"idle", "suspend.commit", "reactivate.commit"}
              => x.user \in Users
        /\ x.step = "refresh.revoke" => x.row \in Tokens
        /\ x.step \in {"link.mail", "activate.commit", "reset.commit"}
              => x.row \in Links
        /\ x.step \in {"link.supersede", "link.create"} => x.kind \in Kind}

\* A token or link that can be used has its user.
OwnersKnown ==
    /\ \A k \in Tokens : token[k].status = "live" => token[k].user \in Users
    /\ \A l \in Links : link[l].status = "unused" => link[l].user \in Users

\* Rows and calls hold what their columns and variables may hold.
TypeOK == DataTypeOK /\ OwnersKnown /\ call \in [Calls -> LegalCall]

Init ==
    /\ tenant = [t \in Tenants |-> [status |-> "absent", by |-> "none",
                                    trial |-> "never"]]
    /\ user = [u \in Users |-> [status |-> "absent", password |-> FALSE]]
    /\ token = [k \in Tokens |-> [status |-> "absent", user |-> None,
                                  stale |-> FALSE]]
    /\ link = [l \in Links |-> [kind |-> "none", user |-> None,
                                status |-> "absent", mailed |-> FALSE,
                                uses |-> 0]]
    /\ cron = {}
    /\ call = [c \in Calls |-> IdleCall]

-----------------------------------------------------------------------------
(* Calls, and what several of them share.                                  *)

At(c, step) == call[c].step = step

Start(c, new) ==
    /\ At(c, "idle")
    /\ call' = [call EXCEPT ![c] = new]

Begin(c, u, row, step) == Start(c, NewCall(step, u, row, "none", FALSE))

Goto(c, step) == call' = [call EXCEPT ![c].step = step]

Return(c) == call' = [call EXCEPT ![c] = IdleCall]

Fail(c) ==
    /\ ~At(c, "idle")
    /\ Return(c)
    /\ UNCHANGED <<tenant, user, token, link, cron>>

Members(t) == {u \in Users : TenantOf[u] = t}

\* Calls of the users us that are about to hand out a session are overtaken by
\* a revocation; the call that revokes (if any) ends.
Overtake(us, ending) ==
    call' = [c \in Calls |->
        IF c \in ending THEN IdleCall
        ELSE IF call[c].user \in us /\ call[c].step \in SessionSteps
             THEN [call[c] EXCEPT !.stale = TRUE]
             ELSE call[c]]

\* Faulty variant: the tokens are left as they are.
RevokeAllForgotten(us) ==
    token' = [k \in Tokens |->
        IF token[k].user \in us /\ token[k].status = "live"
        THEN [token[k] EXCEPT !.stale = TRUE]
        ELSE token[k]]

\* refreshToken.updateMany({ user, revokedAt: null }).
RevokeAll(us) ==
    token' = [k \in Tokens |->
        IF token[k].user \in us /\ token[k].status = "live"
        THEN [token[k] EXCEPT !.status = "dead", !.stale = TRUE]
        ELSE token[k]]

\* TenantStatusGuard: one read before the handler; platform users pass.
Admitted(t) ==
    /\ tenant[t].status # "absent"
    /\ tenant[t].status # "suspended" \/ t \in Platform

-----------------------------------------------------------------------------
(* Tenants.                                                                *)

\* A tenant row comes with an owner, followed by the model or not.
NewTenant(t, status, trial, owners) ==
    /\ tenant[t].status = "absent"
    /\ tenant' = [tenant EXCEPT ![t] =
                    [status |-> status, by |-> "none", trial |-> trial]]
    /\ user' = [u \in Users |-> IF u \in owners
                                THEN [status |-> "active", password |-> TRUE]
                                ELSE user[u]]

Register(c, u) ==
    /\ NewTenant(TenantOf[u], "trial", "running", {u})
    /\ Begin(c, u, None, "issue")
    /\ UNCHANGED <<token, link, cron>>

\* Onboarding starts a trial; the platform's set-up form takes any status and
\* leaves trialEndsAt empty.
Provision(t) ==
    /\ \E owners \in {{}} \cup {{u} : u \in Members(t)} :
          \/ NewTenant(t, "trial", "running", owners)
          \/ \E status \in TenantStatus : NewTenant(t, status, "never", owners)
    /\ UNCHANGED <<token, link, cron, call>>

SuspendRead(c, t) ==
    /\ tenant[t].status \notin {"absent", "suspended"}
    /\ Begin(c, None, t, "suspend.commit")
    /\ UNCHANGED <<tenant, user, token, link, cron>>

\* In one transaction, whatever the status is by now.
SuspendCommit(c) ==
    LET t == call[c].row IN
    /\ At(c, "suspend.commit")
    /\ tenant' = [tenant EXCEPT ![t] =
                    [@ EXCEPT !.status = "suspended", !.by = "admin"]]
    /\ RevokeAll(Members(t))
    /\ Overtake(Members(t), {c})
    /\ UNCHANGED <<user, link, cron>>

ReactivateRead(c, t) ==
    /\ tenant[t].status = "suspended"
    /\ Begin(c, None, t, "reactivate.commit")
    /\ UNCHANGED <<tenant, user, token, link, cron>>

ReactivateCommit(c) ==
    /\ At(c, "reactivate.commit")
    /\ tenant' = [tenant EXCEPT ![call[c].row] =
                    [@ EXCEPT !.status = "active", !.by = "none"]]
    /\ Return(c)
    /\ UNCHANGED <<user, token, link, cron>>

-----------------------------------------------------------------------------
(* The trial-expiry pass, once a day: one list of candidates, then a check *)
(* and a transaction for each of them.  Passes do not overlap.             *)

\* Faulty variant: the comparison with the clock is the wrong way round.
ExpireReadNotYetOver ==
    /\ cron = {}
    /\ cron' = {t \in Tenants : tenant[t].status = "trial" /\ tenant[t].trial = "running"}
    /\ UNCHANGED <<tenant, user, token, link, call>>

\* Faulty variant: the status of the tenant is not looked at.
ExpireReadAnyStatus ==
    /\ cron = {}
    /\ cron' = {t \in Tenants : tenant[t].trial = "over"}
    /\ UNCHANGED <<tenant, user, token, link, call>>

ExpireRead ==
    /\ cron = {}
    /\ cron' = {t \in Tenants : tenant[t].status = "trial" /\ tenant[t].trial = "over"}
    /\ UNCHANGED <<tenant, user, token, link, call>>

\* Faulty variant: the platform's tenants are not skipped.
ExpireSuspendPlatform(t) ==
    /\ t \in cron
    /\ cron' = cron \ {t}
    /\ tenant' = [tenant EXCEPT ![t] =
                    [@ EXCEPT !.status = "suspended", !.by = "trial"]]
    /\ RevokeAll(Members(t))
    /\ Overtake(Members(t), {})
    /\ UNCHANGED <<user, link>>

ExpireSkip(t) ==
    /\ t \in cron \cap Platform
    /\ cron' = cron \ {t}
    /\ UNCHANGED <<tenant, user, token, link, call>>

\* The status is the one ExpireRead saw; it is not read again.
ExpireSuspend(t) ==
    /\ t \in cron \ Platform
    /\ cron' = cron \ {t}
    /\ tenant' = [tenant EXCEPT ![t] =
                    [@ EXCEPT !.status = "suspended", !.by = "trial"]]
    /\ RevokeAll(Members(t))
    /\ Overtake(Members(t), {})
    /\ UNCHANGED <<user, link>>

\* An error ends the pass; the candidates left wait for the next day.
ExpireFails ==
    /\ cron # {}
    /\ cron' = {}
    /\ UNCHANGED <<tenant, user, token, link, call>>

-----------------------------------------------------------------------------
(* Users.                                                                  *)

Invite(c, u) ==
    /\ Admitted(TenantOf[u])
    /\ user[u].status = "absent"
    /\ user' = [user EXCEPT ![u].status = "invited"]
    /\ Start(c, NewCall("link.supersede", u, None, "activation", FALSE))
    /\ UNCHANGED <<tenant, token, link, cron>>

UpdateRead(c, u) ==
    /\ Admitted(TenantOf[u])
    /\ user[u].status # "absent"
    /\ Begin(c, u, None, "update.commit")
    /\ UNCHANGED <<tenant, user, token, link, cron>>

\* Any status may be written; the user's tokens are left alone.
UpdateCommit(c) ==
    /\ At(c, "update.commit")
    /\ \E status \in UserStatus :
          user' = [user EXCEPT ![call[c].user].status = status]
    /\ Return(c)
    /\ UNCHANGED <<tenant, token, link, cron>>

-----------------------------------------------------------------------------
(* Activation and reset links.                                             *)

Forgot(c, u) ==
    /\ user[u].status = "active"
    /\ Start(c, NewCall("link.supersede", u, None, "reset", FALSE))
    /\ UNCHANGED <<tenant, user, token, link, cron>>

\* Faulty variant: earlier links stay usable.
SupersedeNothing(c) ==
    /\ At(c, "link.supersede")
    /\ Goto(c, "link.create")
    /\ UNCHANGED <<tenant, user, token, link, cron>>

Supersede(c) ==
    /\ At(c, "link.supersede")
    /\ link' = [l \in Links |->
                  IF /\ link[l].user = call[c].user
                     /\ link[l].kind = call[c].kind
                     /\ link[l].status = "unused"
                  THEN [link[l] EXCEPT !.status = "spent"]
                  ELSE link[l]]
    /\ Goto(c, "link.create")
    /\ UNCHANGED <<tenant, user, token, cron>>

CreateLink(c) ==
    /\ At(c, "link.create")
    /\ \E l \in Links :
          /\ link[l].status = "absent"
          /\ link' = [link EXCEPT ![l] = [kind |-> call[c].kind, user |-> call[c].user,
                                          status |-> "unused", mailed |-> FALSE,
                                          uses |-> 0]]
          /\ call' = [call EXCEPT ![c] = [@ EXCEPT !.step = "link.mail", !.row = l]]
    /\ UNCHANGED <<tenant, user, token, cron>>

\* A failed mail is only logged: the call ends well without it (Fail).
MailLink(c) ==
    /\ At(c, "link.mail")
    /\ link' = [link EXCEPT ![call[c].row].mailed = TRUE]
    /\ Return(c)
    /\ UNCHANGED <<tenant, user, token, cron>>

\* Faulty variant: a link is not asked whether it has been used.
LinkReadUsed(c, l, kind, step) ==
    /\ link[l].kind = kind
    /\ link[l].mailed
    /\ Begin(c, link[l].user, l, step)
    /\ UNCHANGED <<tenant, user, token, link, cron>>

\* Whoever presents a link has it from the mail.
LinkRead(c, l, kind, step) ==
    /\ link[l].kind = kind
    /\ link[l].status = "unused"
    /\ link[l].mailed
    /\ Begin(c, link[l].user, l, step)
    /\ UNCHANGED <<tenant, user, token, link, cron>>

ActivateRead(c, l) == LinkRead(c, l, "activation", "activate.commit")
ResetRead(c, l) == LinkRead(c, l, "reset", "reset.commit")

UseLink(l) ==
    link' = [link EXCEPT ![l] =
                [link[l] EXCEPT !.status = "spent", !.uses = link[l].uses + 1]]

ActivateCommit(c) ==
    /\ At(c, "activate.commit")
    /\ user' = [user EXCEPT ![call[c].user] =
                    [status |-> "active", password |-> TRUE]]
    /\ UseLink(call[c].row)
    /\ Return(c)
    /\ UNCHANGED <<tenant, token, cron>>

\* The password, the link and the user's tokens in one transaction.
ResetCommit(c) ==
    /\ At(c, "reset.commit")
    /\ user' = [user EXCEPT ![call[c].user].password = TRUE]
    /\ UseLink(call[c].row)
    /\ RevokeAll({call[c].user})
    /\ Overtake({call[c].user}, {c})
    /\ UNCHANGED <<tenant, cron>>

-----------------------------------------------------------------------------
(* Sessions.                                                               *)

\* Faulty variant: an account without a password is let in.
LoginReadNoPassword(c, u) ==
    /\ user[u].status = "active"
    /\ Begin(c, u, None, "issue")
    /\ UNCHANGED <<tenant, user, token, link, cron>>

\* Faulty variant: the status of the account is not looked at.
LoginReadAnyStatus(c, u) ==
    /\ user[u].password
    /\ Begin(c, u, None, "issue")
    /\ UNCHANGED <<tenant, user, token, link, cron>>

\* The right password (and second factor) for an active account; suspended
\* tenants are not refused here.
LoginRead(c, u) ==
    /\ user[u].status = "active"
    /\ user[u].password
    /\ Begin(c, u, None, "issue")
    /\ UNCHANGED <<tenant, user, token, link, cron>>

\* Faulty variant: the token is read without its user.
RefreshReadNoUser(c, k) ==
    /\ token[k].status = "live"
    /\ Begin(c, None, k, "refresh.revoke")
    /\ UNCHANGED <<tenant, user, token, link, cron>>

RefreshRead(c, k) ==
    /\ token[k].status = "live"
    /\ Start(c, NewCall("refresh.revoke", token[k].user, k, "none", token[k].stale))
    /\ UNCHANGED <<tenant, user, token, link, cron>>

\* By id: it does not notice that somebody has revoked the row meanwhile.
RefreshRevoke(c) ==
    /\ At(c, "refresh.revoke")
    /\ token' = [token EXCEPT ![call[c].row].status = "dead"]
    /\ Goto(c, "issue")
    /\ UNCHANGED <<tenant, user, link, cron>>

IssueTokens(c) ==
    /\ At(c, "issue")
    /\ \E k \in Tokens :
          /\ token[k].status = "absent"
          /\ token' = [token EXCEPT ![k] = [status |-> "live", user |-> call[c].user,
                                            stale |-> call[c].stale]]
    /\ Return(c)
    /\ UNCHANGED <<tenant, user, link, cron>>

\* A user who has had a session; the access token needs no row.
Logout(u) ==
    /\ \E k \in Tokens : token[k].user = u
    /\ RevokeAll({u})
    /\ Overtake({u}, {})
    /\ UNCHANGED <<tenant, user, link, cron>>

-----------------------------------------------------------------------------
(* Time.                                                                   *)

TrialEnds(t) ==
    /\ tenant[t].trial = "running"
    /\ tenant' = [tenant EXCEPT ![t].trial = "over"]
    /\ UNCHANGED <<user, token, link, cron, call>>

TokenExpires(k) ==
    /\ token[k].status = "live"
    /\ token' = [token EXCEPT ![k].status = "dead"]
    /\ UNCHANGED <<tenant, user, link, cron, call>>

LinkExpires(l) ==
    /\ link[l].status = "unused"
    /\ link' = [link EXCEPT ![l].status = "spent"]
    /\ UNCHANGED <<tenant, user, token, cron, call>>

-----------------------------------------------------------------------------

TenantStep ==
    \/ \E t \in Tenants :
          \/ Provision(t)
          \/ \E c \in Calls : SuspendRead(c, t) \/ ReactivateRead(c, t)
    \/ \E c \in Calls : SuspendCommit(c) \/ ReactivateCommit(c)

CronStep ==
    \/ ExpireRead \/ ExpireFails
    \/ \E t \in Tenants : ExpireSkip(t) \/ ExpireSuspend(t)

UserStep(c) ==
    \/ \E u \in Users : Register(c, u) \/ Invite(c, u) \/ UpdateRead(c, u) \/ Forgot(c, u)
    \/ UpdateCommit(c)

LinkStep(c) ==
    \/ \E l \in Links : ActivateRead(c, l) \/ ResetRead(c, l)
    \/ Supersede(c) \/ CreateLink(c) \/ MailLink(c)
    \/ ActivateCommit(c) \/ ResetCommit(c)

SessionStep(c) ==
    \/ \E u \in Users : LoginRead(c, u)
    \/ \E k \in Tokens : RefreshRead(c, k)
    \/ RefreshRevoke(c) \/ IssueTokens(c)

TimeStep ==
    \/ \E t \in Tenants : TrialEnds(t)
    \/ \E k \in Tokens : TokenExpires(k)
    \/ \E l \in Links : LinkExpires(l)

Next ==
    \/ TenantStep \/ CronStep \/ TimeStep
    \/ \E u \in Users : Logout(u)
    \/ \E c \in Calls : UserStep(c) \/ LinkStep(c) \/ SessionStep(c) \/ Fail(c)

Spec == Init /\ [][Next]_vars

\* The expiry pass is a daily job that starts again whatever happened the day
\* before, finishes or fails, and does not fail for ever at the same tenant.
FairSpec ==
    /\ Spec
    /\ WF_vars(ExpireRead)
    /\ \A t \in Tenants : WF_vars(ExpireSkip(t)) /\ SF_vars(ExpireSuspend(t))

-----------------------------------------------------------------------------
(* Correctness.                                                            *)

SessionCall(c, u) == call[c].user = u /\ call[c].step \in SessionSteps

LiveToken(k, u) == token[k].user = u /\ token[k].status = "live"

\* Whoever has a session, or is about to get one, has set a password: an
\* invited account that an administrator switches on is not open to anybody.
SessionsEarned ==
    \A u \in Users :
        (\E k \in Tokens : LiveToken(k, u)) \/ (\E c \in Calls : SessionCall(c, u))
            => user[u].password

\* A session of u has outlived the last revocation of all of u's sessions.
Outlived(u) ==
    \/ \E k \in Tokens : LiveToken(k, u) /\ token[k].stale
    \/ \E c \in Calls : SessionCall(c, u) /\ call[c].stale

\* Suspension, trial expiry, password reset and logout end every session of the
\* user, except those of a login or refresh that is under way at that moment.
RevocationHolds ==
    [][\A u \in Users :
          ~Outlived(u) /\ (\A c \in Calls : ~SessionCall(c, u)) => ~Outlived(u)']_vars

\* A link sets a password once, and otherwise only for calls that had read it
\* before its first use: as many as there are calls at most.
UsesBounded == \A l \in Links : link[l].uses <= Cardinality(Calls)

\* A user never has more links of a kind that can be used, or are about to be
\* written, than there are calls at once: a new request spends the older links.
UsableLinks(u, kind) ==
    {l \in Links : /\ link[l].user = u
                   /\ link[l].kind = kind
                   /\ link[l].status = "unused"}

CreatingCalls(u, kind) ==
    {c \in Calls : At(c, "link.create") /\ call[c].user = u /\ call[c].kind = kind}

LinksBounded ==
    \A u \in Users, kind \in Kind :
        Cardinality(UsableLinks(u, kind)) + Cardinality(CreatingCalls(u, kind))
            <= Cardinality(Calls)

\* A user is locked out: not active, no session, no way to activate, and no
\* call about the account on its way but a password reset.
Locked(u) ==
    /\ user[u].status \in {"invited", "disabled"}
    /\ \A k \in Tokens : ~LiveToken(k, u)
    /\ \A l \in Links : link[l].user = u /\ link[l].kind = "activation"
                            => link[l].status # "unused"
    /\ \A c \in Calls : call[c].user = u => call[c].step = "reset.commit"

\* A change of u by the tenant is on its way.
UpdateBegun(u) == \E c \in Calls : At(c, "update.commit") /\ call[c].user = u

\* Only an update by the tenant, which the guard must have admitted, lets a
\* locked-out user in again: no login, refresh, reset or late link does.
LockedOut ==
    [][\A u \in Users : Locked(u) =>
          \/ Locked(u)'
          \/ Admitted(TenantOf[u]) /\ UpdateBegun(u)']_vars

\* A tenant has left its trial by another way than its end, and the pass under
\* way does not hold it as a candidate.
LeftTrial(t) ==
    /\ tenant[t].status \notin {"absent", "trial"}
    /\ tenant[t].by # "trial"
    /\ t \notin cron

\* Once a tenant has left its trial no later pass suspends it, although the pass
\* does not read the status again before it writes.
LeftTrialForGood == [][\A t \in Tenants : LeftTrial(t) => LeftTrial(t)']_vars

\* A tenant of the platform is never suspended by the end of a trial.
PlatformSpared == \A t \in Platform : tenant[t].by # "trial"

\* A customer's expired trial does not go on for ever.
TrialsEnd ==
    \A t \in Tenants \ Platform :
        tenant[t].status = "trial" /\ tenant[t].trial = "over"
            ~> tenant[t].status # "trial"

-----------------------------------------------------------------------------
(* Statements of the code that the interleavings refute.                   *)

\* tenants.service.ts, of a suspension: "refresh will fail since the row is
\* revoked. Net effect: full logout within one access-token TTL."
NoneOutlive == \A k \in Tokens : token[k].status = "live" => ~token[k].stale

\* auth-lifecycle.service.ts: both link flows "are deliberately single-use".
SingleUse == \A l \in Links : link[l].uses <= 1

=============================================================================
