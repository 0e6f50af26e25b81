# Realtorai: specifications, model checking and proofs

Realtorai is a multi-tenant CRM for real-estate offices: a NestJS API over PostgreSQL (Prisma),
BullMQ workers, cron jobs, and a Next.js front end. This directory specifies the parts of the API and of the pages
whose correctness depends on the order in which requests, workers, jobs and user actions interleave,
and a few whose arithmetic or tables a test would hardly cover. The
specifications are translated from the source; paths below are relative to `src/`.

1. [The system](#1-the-system) 2. [How the models are built](#2-how-the-models-are-built)
3. [SignFlow](#3-signflow-document-signing) 4. [Sessions](#4-sessions-accounts-and-tenants)
5. [Inbound](#5-inbound-whatsapp-messages) 6. [The office](#6-the-modules-of-the-office)
7. [Runs](#7-runs-and-bounds) 8. [Fairness](#8-fairness) 9. [Proofs](#9-proofs)
10. [What the code says and the runs refute](#10-what-the-code-says-and-the-runs-refute)
11. [Not modelled](#11-not-modelled) 12. [Plan](#12-plan)

## 1. The system

| Component | State | Operations | What makes it correct |
|---|---|---|---|
| **Document signing** `apps/api/src/sign` | `sign_documents`, `sign_signature_requests`, `sign_signatures`, files, audit log | upload, generate, create and cancel a request, preview, send and verify a code, view, submit | one submission is the evidence, it was unlocked and shows consent, a closed request stays closed |
| **Sessions and links** `auth` | `refresh_tokens`, `activation_tokens`, `password_reset_tokens` | register, login, refresh, logout, activate, forgot, reset | sessions are earned; revocation is complete; links are used once |
| **Users** `users` | `users` | invite, update | a disabled user cannot come back alone |
| **Tenants** `tenants`, `admin`, `onboarding`, `scheduler/tenant-lifecycle` | `tenants` | create, suspend, reactivate, expire trials daily | suspension reaches every session; expired trials end; no wrong suspension |
| **Guards** `common/guards` | none (read `tenants`, `offices`) | one read per request | a suspended tenant cannot act |
| **Inbound pipeline** `webhooks`, `queues`, `agents`, `conversations`, `leads` | BullMQ jobs, `leads`, `conversations`, `messages`, `opt_outs` | webhook, three attempts, five workers, tools, reply; import, opt-out and hand-over by users | no message dropped or answered twice, few leads per phone, opt-out and hand-over hold |
| **Billing** `billing`, `whatsapp`, `llm` | `usage_events`, `notifications` | quota and budget check, use, record, alert | bounded overshoot, one alert a month |
| **Follow-ups** `scheduler`, `tasks` | `tasks`, `leads.nextFollowupAt` | five-minute and daily passes | no reminder lost, none served twice |
| **Mortgage** `mortgage`, `agents/tools` | profiles, advisors, referrals | profile, consent, refer | no referral without consent, score follows inputs, approvals are announced |
| **Two-factor** `auth/totp` | `users.totp*` | enrol, confirm, verify, disable | a recovery code works once |
| **Access** `common/permissions`, `common/guards`, `admin`, team page | token claims, `offices.status` | login, refresh, move a member, close an office | guards answer as the page shows |
| **Daily rows and tenant scoping** `leads`, `tasks`, `properties`, `prisma/tenant-extension` | their tables | create, update, assign, bulk, upload, public enquiry | a row refers to its own tenant, where the code looks up what it refers to |
| **Geography** `geo`, address form of the web | `il_settlements`, `il_streets`, the form's state | import by pages, search, pick, submit | imports end complete, street lies in town |
| **Mortgage calculator** web `lib/mortgage.ts` | one schedule | one month | what was lent is repaid |
| **Web push** `push`, `push-toggle.tsx` | `push_subscriptions`, the browser's subscription | turn on, off, deliver, prune | a live subscription keeps its row |
| Mail, growth, catalogs, audit, reports, search, health, other pages | – | I/O, lookups and formatting | not modelled, see 11 |

Components interact through the database. There is one process type, the HTTP call (or worker or
cron pass), and no lock is kept across an `await`; the only atomic units are a single statement
and a `$transaction([...])`. A call is authenticated by `JwtAuthGuard`, then `TenantStatusGuard`
reads the tenant, then the handler runs. Suspension (tenants) and password resets (auth) reach into
sessions by revoking rows of `refresh_tokens`; trial expiry does the same from a cron job. The
signing flow writes the audit log and later prints it into the signed PDF. The inbound pipeline has no
HTTP caller: its workers use the unscoped client, ask Billing before the model and before a reply, and
run tools that write leads, opt-outs, conversations and the mortgage profile; users and the passes of
the scheduler write the same rows.

What is hard here, everywhere: a row is read, something is awaited (a hash, a mail, another
statement), and the row is then written **by id**, without repeating in the `where` clause what the
call relied on. `hazards` in `PROJECT.json` lists the places, each at its line, with the properties
that watch it, or the reason why none does yet.

## 2. How the models are built

* **Calls are processes.** `call[c]` is the call in slot `c`: the step it is at, and what it has
  read. Each awaited operation on shared data is one action (`SendOtpStore`, `RefreshRevoke`);
  steps are named `operation.step`. A first read and the checks that follow without an `await` are
  one action (`CancelRead`); a `$transaction` is one action (`SuspendCommit`). `Begin`, `Goto` and
  `Return` move calls.
* **`Fail(c)`** ends a call at any await: an error, a refused transaction, a restart. Rows and files
  stay as they are. Nothing is undone that the code does not undo.
* **Data** is kept as far as a property can tell it apart. A row that does not exist has the
  status `"absent"`. A password is set or not; a deadline has passed or not; a PDF is the
  submission that wrote it and the trail it prints.
* **Time** is a set of actions that may happen at any moment (`LinkLapses`, `OtpAges`, `TrialEnds`,
  `TokenExpires`, `LinkExpires`), so that every order of deadlines and steps is explored.
* **Faulty variants** of definitions stand next to them, marked as such. No behaviour of a
  specification uses them. Each is a plausible bug, and shows that a property fails when the code
  is changed in that way (`mutants` in `PROJECT.json`).
* **History variables** (marked as such where they are declared) record what happened for the properties. Guards
  read them only for a bound (as `free` and `broken`) and, in `FollowUps`, for the passing of time (`Lapses`).

## 3. SignFlow: document signing

`SignFlow.tla` models `sign/signature`, `sign/public-sign`, `sign/documents`, the generation of a
document from a bank template, and, as far as it matters, `sign/pdf` and `sign/storage`.

| Variable | Code |
|---|---|
| `doc`, `req`, `sig` | the three tables; `sig[d]` is the submission whose transaction created the row (unique `document_id`) |
| `images`, `pdfs` | files by the submission that wrote them (`storage.service.ts`); a PDF carries the audit trail read before it |
| `audit` | the tracked audit actions of a document |
| `mail` | links and codes that have left the API |
| `clock` | link lapsed or not; code recent (one-minute cool-down), valid (ten minutes), expired |

| Actions | Code |
|---|---|
| `Upload`, `UploadAudit`, `GenerateFromTemplate`, `GenerateAudit`, `TenantRead*` | `documents.service.ts`, `bank-auth.service.ts`, `documents.controller.ts` |
| `CreateRead` ... `CreateNotify` | `signature.service.ts` create: row and status in one transaction, then audit, mail, audit, notification |
| `CancelRead`, `CancelCommit`, `CancelAudit` | cancel: the status is judged at the read and written later |
| `Preview*`, `SendOtp*`, `Verify*`, `View*` | `public-sign.service.ts`, each starting with `requireValidRequest` (`Valid`) |
| `SubmitRead` ... `SubmitGeneratedAudit` | submitSignature: image, two audits, trail, PDF, transaction, two audits |

`SignEvidence.tla` is the abstract specification: per document, a register that is written at most
once, only when unlocked, with a dossier that holds the required events. The refinement maps
`unlocked` to the verified requests, `sealed` to `sig`, and `dossier` to the trail printed in the
PDF of the submission that signed.

Properties. `EvidenceConsistent`: document, signature row and storage name the same submission, and
no submission signs two documents. `EvidenceEarned`: a signed document was unlocked by a mailed code
and prints drawing and consent. `AttemptsBounded`: parallel guesses overshoot `OTP_MAX_ATTEMPTS` by
at most the calls in flight. `ClosedIsFinal`: once a request is cancelled or lapsed and the signer
calls that had been let in have ended, nothing opens or signs it again. `EvidenceRegister`: the
refinement.

## 4. Sessions: accounts and tenants

`Sessions.tla` models tenants, users, links and refresh tokens together, since suspension and resets
cross all four.

| Variable | Code |
|---|---|
| `tenant` | `tenants`: status, what suspended it, how `trialEndsAt` relates to now |
| `user` | `users`: status, whether a password is set |
| `token` | `refresh_tokens`: live, or dead (revoked and expired are refused alike) |
| `link` | `activation_tokens` and `password_reset_tokens`: unused or spent, mailed or not |
| `cron` | the candidates that the trial-expiry pass still has to treat |

| Actions | Code |
|---|---|
| `Register`, `Provision` | `auth.service.ts` registerTenant; `onboarding.service.ts`, `admin.service.ts` and the plain creation in `tenants.service.ts` |
| `SuspendRead/Commit`, `ReactivateRead/Commit` | `tenants.service.ts`; the commit writes whatever the status is by then and revokes all tokens of the tenant |
| `ExpireRead`, `ExpireSkip`, `ExpireSuspend`, `ExpireFails` | `tenant-lifecycle.service.ts`: one list, then a transaction per tenant; an error ends the pass |
| `Invite`, `UpdateRead/Commit` | `users.service.ts`, admitted by `TenantStatusGuard` (`Admitted`) |
| `Forgot`, `Supersede`, `CreateLink`, `MailLink` | `auth-lifecycle.service.ts`: the older links are spent, a link is created, then mailed; invitation and reset share the steps |
| `ActivateRead/Commit`, `ResetRead/Commit` | the link is read and checked, a hash is awaited, then one transaction by id |
| `LoginRead`, `RefreshRead`, `RefreshRevoke`, `IssueTokens`, `Logout` | `auth.service.ts` |

A tenant has people whom the model does not follow (they invite and update, and may own the tenant);
`Users` are those it follows. `Platform` are tenants with a platform user; these are exempt from the
guard and from trial expiry. The guard's read and the insert of an invitation are one action: a user
who does not exist yet has no sessions or links that another call could touch in between. The guard's
read and the write of an *update* are two actions, since a suspension in between matters there.

Properties. `SessionsEarned`: whoever has a session, or is about to get one, has set a password.
`RevocationHolds`: when no login or refresh of a user is under way and no old session is left, no step
ever brings one back; so logout, reset, suspension and expiry leave nothing but what was under way at
that moment. `UsesBounded`, `LinksBounded`: a link is used, and usable links of a kind exist, at most
as often as calls run at once. `LockedOut`: a user who is not active, with no live token, no open
activation link and no call about the account under way (but a reset) comes back only by an update
that the tenant's guard admitted. `LeftTrialForGood`: a tenant that has left its trial, and is not
held by the running pass, is never suspended by trial expiry. `PlatformSpared`, `TrialsEnd`: the pass
spares the platform and does reach every other expired trial.

## 5. Inbound: WhatsApp messages

`Inbound.tla` models the way of a message from the webhook to the reply, for one office.

| Variable | Code |
|---|---|
| `job` | the BullMQ job of each message: state, failed attempts, stalled once |
| `lead`, `conv`, `optOut`, `stored` | the tables that the pipeline reads and writes; conversations in the order of creation |
| `work` | the five workers: the step of `handleIncoming`, and what it has found |
| `import` | `importCsv`: the phones it read at the start and those it has created |
| `sent`, `again` | history: replies per message, and how often the queue lost its record of earlier work |

| Actions | Code |
|---|---|
| `Receive` | `webhooks.controller.ts`: an add under the message's identifier, which a redelivery finds |
| `Take`, `Fail`, `Finish`, `Prune` | `incoming-message.processor.ts`, `queue.module.ts`: attempts, back-off, removal of old jobs |
| `Crash`, `Recover` | a worker that dies or loses its lock; the stalled job goes back once (BullMQ, external) |
| `FindLead`, `CreateLead`, `FindConversation`, `CreateConversation`, `SaveMessage`, `Park`, `Chat`, `Tool*`, `EndTools`, `Send` | `orchestrator.service.ts`, `tools.service.ts`; a lookup and the insert after it are two actions |
| `UserHandsOff`, `UserOpens`, `UserOptsOut`, `Import*` | `conversations.service.ts`, `leads.service.ts` |

Properties. `AnsweredOnce`: a message gets at most one reply for each time the queue took it on without
knowing of its earlier work (a crash, a removed job), so no retry repeats a reply: everything after
the reply was saved is caught. `HandledIsStored`: a message that is done or answered is in a
conversation, or its sender had opted out. `LeadsPerPhone`: racing lookups make several leads of one phone, but never
more than there are workers, and one for the import. `OptOutHolds`, `QuietAfterHandoff`: once the workers
that were let through are done, an opted-out phone is not answered, and a conversation handed
to a person is not continued.

## 6. The modules of the office

Ten smaller modules, each of one component and with variables of its own.

| Module | Code | State and steps | Properties |
|---|---|---|---|
| `Billing` | `billing.service.ts`, `whatsapp.service.ts`, `llm-router.service.ts` | a call checks the limit, uses, records, then looks whether an alert is due, finds none of this month and posts it; tests of an agent, which check the limit and look for no alert; suggestions and insights, which do neither; the month turns in server time and in UTC | `SpendBounded`: checked calls pass the limit by less than one call each. `AlertsBounded`, `AnnouncedWhenReached`: an alert goes out at most once per call that runs at once, and a limit that is reached is announced, unless tests or suggestions have spent, or a call failed on its way to the alert, since a call last looked |
| `FollowUps` | `scheduler.service.ts`, `smart-followups.service.ts` | both passes by their awaits, edits of tasks, reminders set for any date, the six-hour window, outages of the API; passes of one kind do not overlap (assumed) | `FewFollowups`, `OneTaskPerReminder`, `NoneOverlooked`: a reminder goes past its six hours only served, beside an open task, or excused by a break-off, an outage, or a date already past them |
| `Mortgage` | `mortgage.service.ts`, the tools on the profile | read, write of inputs, write of the score, announcement; consent, advisor, referral | `RatingFollows` (unless updates overlapped), `ApprovalAnnounced`, `ConsentRespected` |
| `TwoFactor` | `totp.service.ts`, `auth.service.ts` | array of recovery codes: read, compared, written back whole | `RecoveryOnce`, unless arrays were written over one another |
| `Access` | `matrix.ts`, `permissions.service.ts`, guards, the team page | claims are signed from a row read before; members are moved, offices closed | `AnsweredAsShown`: the guards answer an unmoved member as the page's table says |
| `Desk` | `leads`, `tasks`, `properties`, `tenant-extension.ts` | rows of several tenants; what each handler looks up before it refers to it; tasks that the agent's tools and the scheduler's passes create unscoped, the passes from columns copied before (`copied`) | `RowsOfOneTenant`, but for what is stored unchecked: office and owner by a property's update, a task's assignee by the model; and the office copied from there into leads and tasks. `DoneTasksDated` |
| `Streets` | `geo-importer.service.ts` | pages, buckets, break-offs, `onlyMissing`, concurrent imports | `StreetsComplete` |
| `Picker` | `address-picker.tsx`, `street-autocomplete.tsx`, `properties.service.ts` | town, picked ids, listed options, searches in flight | `PickedMatches`, `StreetInCity` |
| `Loan` | `lib/mortgage.ts` amortize | one month per step; interest, index and the annuity's share are open | `Repaid`, `LockedKept` |
| `Push` | `push.service.ts`, `push-toggle.tsx` | the browser's subscription, the page's request, the rows, deliveries | `LiveRowsKept` |

Where a property carries an exception, the code has the gap that it names: the exceptions (`crossed`
in `TwoFactor`, `mixed` and `silent` in `Mortgage`, `missed` in `Billing` for alerts and `free` for spending, `excused` and
`broken` in `FollowUps`, `moved` in `Access`, `unchecked` in `Desk`, `late` in `Picker`) are history
variables, set by the very steps that open the gap and reset when it is closed.

## 7. Runs and bounds

| Run | Instance | Shows |
|---|---|---|
| `sign_flow` | one document, two submissions, two calls, two codes, `OTP_MAX_ATTEMPTS` = 1, calls and submissions symmetric | all five properties of SignFlow and its type invariant |
| `sessions` | one user and tenant, three tokens, one link, two calls, all symmetric | `TypeOK`, `SessionsEarned`, `RevocationHolds` |
| `links` | one user and tenant, one token, two links, two calls, all symmetric | `UsesBounded`, `LinksBounded`, `LockedOut` |
| `trials` | three tenants (one platform), no user, two calls for the administrators | `LeftTrialForGood`, `PlatformSpared`, `TrialsEnd`: the pass against suspension, reactivation and failure |
| `inbound` | two messages of one phone, two workers, two attempts, two leads, two conversations, one loss | the six properties of Inbound |
| `office` | `MCOffice`: each of the ten modules, two of every process, two of most rows | their properties, nineteen in all |
| `signed_not_cancelled`, `cancelled_stays_cancelled`, `sessions_outlive`, `link_single_use`, `llm_hard_cap`, `stale_street` | as above | statements of the code that interleavings refute (section 10) |

`MCOffice` joins ten modules that share no variable in one configuration. Its variable `part` is chosen
at the start and never changes: a behaviour runs one module, the others rest in one fixed initial state.
So the states add up instead of multiplying, and each property is checked over all behaviours of the
module that it is about. `Mortgage` runs as two parts, since its two halves share no column.

Why the bounds are enough to be of use. *Documents*: no action of SignFlow reads one document's rows
for another; only submissions are shared, and the proof covers any number. *Two calls*: every race
here is between a call that has read and one that writes in between; a third call adds another
writer of a kind that the second can be. *Two submissions*: a winner and a loser. *Two codes*:
a code and its replacement. `OTP_MAX_ATTEMPTS` = 1 makes the limit reachable by one wrong code, so
that the overshoot happens. *Three tokens*: a session and the two that racing refreshes
fork from it. *Two links*: the two that racing requests leave usable, or an activation and a reset.
The rows left "absent" run out, after which issuing blocks: later sessions and links are cut off, the
races between these are not. `links` has one token, since only whether a session lives matters there. *Three tenants*: the pass holds several candidates, one to skip and two to
treat, and can fail between them. The symmetric sets are never told apart by a checked formula, and
the run with a liveness property uses no symmetry.

`MCSignFlow.cfg` allows deadlock: when the only document is signed or cancelled, its deadlines have
passed and the submissions and codes of the bound are used up, the model can stop, as the system rests
when nobody calls. The runs of Sessions do check for deadlock: somebody can always
suspend, reactivate or start a pass. `Tracked` keeps two audit actions in the run, those that
`Required` names; the proofs cover every subset of them.

For Inbound: two workers and one phone make every lookup race its insert, one loss is one repetition
beyond the attempts, and rows that run out block only further creations; the proofs cover any
number. For the office: two calls per race, as above. A limit of two messages, or of five dollars at up to two a call,
is reached and overshot, and two months make the keys of alerts meet the sums of the next. `Batch` = 2 with two leads
lets every due lead be served in one pass; with more leads due than a batch holds, the code promises
nothing (`findMany` is unordered). Two recovery codes and two enrolments: a code and the one that
brings it back. One row per table in `Desk`, since a row is compared with its own tenant only, and two
tenants. A register of five streets on three pages of two, with one town on each page, and two imports. Two towns and two
searches in flight for the form. Loans of up to four units over one or three
months with every interest up to two, indexation up to one, and every share.

`MCOffice`'s run checks for deadlock: each part can always go on, or, as `Loan` at its end, says that it rests.

## 8. Fairness

Safety is checked and proved without any fairness. Only `TrialsEnd` needs some, stated in `FairSpec`:
weak fairness of `ExpireRead` (the job is scheduled daily by Nest's scheduler, whatever happened the
day before), weak fairness of `ExpireSkip`, and strong fairness of `ExpireSuspend(t)` for each tenant:
the pass may fail (`ExpireFails`) again and again, but not for ever at the same tenant while that
tenant comes up again every day. Strong rather than weak, since a failure takes `t` out of the pass
until the next day. No fairness is assumed of calls: users may walk away at any step. None is
stated for workers either: a job whose attempts are used up is not tried again, so that every
message is answered in the end is not what the code promises.

## 9. Proofs

TLAPS proves the following for every value of the constants, from the named assumptions only (distinct
nulls, finitely many calls and workers, positive attempt limits, a tenant for each user, a sender for each
message, limits, costs and bounds that are natural numbers).

| Module | Theorem | Argument |
|---|---|---|
| `SignFlowTypes` | `TypeCorrect` | one step per action over `DataTypeOK`, `CallTypeOK` |
| `SignFlowProofs` | `EvidenceInvariant` | `EvidenceInv` is inductive relative to `TypeOK` |
| | `EvidenceAgrees`, `SignatureEarned` | its first two parts |
| | `AttemptsAreBounded` | attempts plus verifications about to count one stay below the limit plus the calls: a read that lets a verification in has seen fewer attempts than the limit |
| | `ClosedStaysClosed` | by what an action leaves of a closed request (`StaysClosed`): no signer's call begins on it, since its link is cancelled or has lapsed; with `LapsedRequested`, a link lapses only of a request there is, so that none is made again |
| | `EvidenceIsWriteOnce` | initial states map to initial states; each step is `Unlock`, `Seal` or a stutter of `SignEvidence` |
| `SessionsProofs` | `TypeCorrect` | as above, with `OwnersKnown`: what can be used has its user, which the calls rely on |
| | `SessionsAreEarned` | by the few ways in which a step can open a session (`SessionsOpened`); passwords are never taken away (`PasswordsKept`) |
| | `RevocationIsComplete` | by the ways in which a step can touch tokens and session calls (`SessionKinds`) |
| | `LinkUsesAreBounded` | `UsesInv`: uses plus the calls that hold the link never exceed the calls, and a link that is not spent has no uses |
| | `UsableLinksAreBounded` | `LinksInv`: usable links are finitely many and, with the calls about to create one, no more than the calls; by the three ways in which a step can touch both (`UsableKinds`): none is added, all are spent, or a call that was about to create becomes one link |
| | `LockedOutStays` | with `TenantsThere`: whoever has a row, or is named by a token, link or call, has a tenant, so that no registration makes a row of a locked-out user again |
| | `PlatformIsSpared`, `TrialLeftForGood` | by the ways in which a step can treat a tenant (`TenantKinds`) |
| `InboundProofs` | `TypeCorrect` | one lemma per group of actions |
| | `OptOutKept`, `HandoffKept` | by what a step can do to the opt-out list, to `sent` and to a conversation; a worker that may send is one that has passed the check |
| | `NoSecondReply`, `NothingDropped` | `Kept`, inductive under `Inv` (each active job belongs to one worker, `Own`): a job that may still be tried has sent no more than the losses so far; the message is stored before any step that can answer |
| | `FewLeadsPerPhone` | leads of a phone, workers about to create one and the import's turn together never grow past the workers and one; the lookup that finds none starts from none |
| `BillingProofs` | `SpendIsBounded` | inductive given the types: a call that passes the check leaves room for its cost (`RoomBelowLimit`), and recording it uses up its own share (`RoomUsed`) |
| | `AlertsAreBounded` | inductive: a call about to send an alert found none of that key, and then at most all calls are sending |
| | `ReachedIsAnnounced` | `AnnouncedInv`: a limit that is reached is announced, missed, or some call is on its way to announce it |
| `DeskProofs` | `TenantsKeptApart`, `DatesAreKept` | row by row: a step leaves a row or makes it a sound one (`StepKinds`), rows stay with their tenant, so what may be referred to only grows (`OwnLeadsGrow`); what a pass has copied stays sound with the lead it is of (`SoundCopy`); an update that saw a task done knows it has its date (`UpdatesInformed`) |
| `CustomerProofs` | `LoanTypeCorrect`, `LoanIsRepaid`, `LockIsKept` | `LoanInv` adds that bullet loans have no locked payment; each way of repaying takes at most the debt, and all of it in the last month |
| | `FollowupsAreFew`, `OneTaskEach` | `TasksInv`: a pass that goes on to create has found no open task; the tasks of the present reminder exceed the broken passes only while a pass is about to clear it (`CountOK`) |
| | `NoLeadOverlooked` | under `[]DueFits`, what is due at one time fits into a batch: a pass then takes all of it (`BatchTakesAll`), and a due lead it has seen is still to be served or excused (`SeenOK`) |
| | `RatingIsOfInputs`, `ApprovalIsAnnounced` | `MortInv`: an update with none beside it holds the present inputs (`AloneOK`), and an approval that a call has read is announced, will be, or a call failed (`AnnounceOK`) |
| | `ConsentIsRespected` | by counting: a step moves one call out of `Consented` or `Advised` for each referral, and into them only when consent or advisor are there |
| | `StreetsAreComplete` | rows up to the offset of a full import, of towns it knows, are stored or on its page (`ImportOK`) |
| | `PickedLiesThere` | what a field lists and what it picked are of the chosen town unless it took a late answer (`FieldOK`) |
| `OfficeProofs` | `RecoveryCodesAreOnce` | with `CodesIssued`: codes held, read or spent are of enrolments so far, so those of a new one were never spent |
| | `AnswersAreShown` | for each role, the matrix of the API by rows and the page's table by columns hold the same permissions (`TablesAgree`); claims of a member not moved since are the row's (`DeviceOK`) |
| | `LiveRowsStay` | an endpoint, once gone, never lives again (`RowsOK` with `Onward`), so that a delivery deletes no row of a live subscription; a row is there from the server's answer on (`BrowserOK`) |
| | `EachPartRuns`, `OfficeTypeCorrect` | the office's next step is a step or a stutter of every part; then the parts' type invariants |

Why the strengthening of evidence is needed: consistency at the commit depends on what a submission
did steps before. `SubmissionsOwned` says that a working submission owns its file name, `WorkRecorded`
that the audit rows are written before the trail is read and the trail is in the PDF, `CodesProved`
that a submission runs only for an unlocked document. Most actions touch none of this; they are
dispatched by one lemma each (`...Quiet`), and the few that do have a proof of their own.

The modules of the office are proved about in two files: `CustomerProofs`, and `OfficeProofs`, which
extends it and the others and ends with the office as a whole: `MCOffice`'s small instances are
behaviours of each part's specification (`EachPartRuns`), so that the run and the theorems are about
the same specifications.

`NoLeadOverlooked` has a hypothesis besides the specification and three exceptions in its statement. A pass that
broke off, an outage of the API, and a reminder set for a time more than six hours past excuse a lead:
the code promises such a reminder nothing, since `LeadsService.update` stores any date and a pass looks
back six hours only. The hypothesis: the code takes at most a batch of the due
leads, in no order; with more leads due than that, a lead may be passed over until its six hours are
gone, and `NoneOverlooked` does not hold. The run has as many leads as a batch holds, which is
`DueFits` throughout; the theorem asks it only of the leads that are due at one time.

Three definitions were corrected when they were to be proved about: `ReachedLevel` (`Billing`), `EquityPoints`
(`Mortgage`) and the answer of the guards (`Access`) had been CASE expressions with arms that can hold
together, where the code tests one after the other. TLC takes the first arm, so no run could show it; TLA+ leaves
open which is taken, so nothing could be proved. They now test in the code's order.

Only model-checked: `TrialsEnd`, which is liveness under fairness and beyond the prover. All other
properties of the passing runs are theorems.

## 10. What the code says and the runs refute

* `signed_not_cancelled`: "Already signed — cannot cancel" (`signature.service.ts`). Verifying the code
  again after signing takes the status back from signed, and cancel then goes through.
* `cancelled_stays_cancelled`: "Link cancelled by sender" (`public-sign.service.ts`). A signer's call
  that was let in before a cancellation writes its status over it, and the link works again.
* `sessions_outlive`: "refresh will fail since the row is revoked. Net effect: full logout within one
  access-token TTL" (`tenants.service.ts`). A login, registration or refresh under way inserts its
  token after the revocation, and refresh asks for no status.
* `link_single_use`: "deliberately single-use" (`auth-lifecycle.service.ts`). Two calls that both read a
  link before either commits both set a password.
* `llm_hard_cap`: "Hard cap on USD spent on LLM calls ... Enforced by BillingService.checkLlmBudget before
  LlmRouterService.chat()" (`schema.prisma`). Suggestions (`quick-reply.service.ts`) and insights
  (`lead-insights.service.ts`) call the model without that check, and spend on; replies and tests of an
  agent do ask.
* `stale_street`: "the IDs go to avoid stale refs" (`address-picker.tsx`). A search for the old town is not
  aborted; its late answer offers streets that are stored with the new town.

Next to each stands the property that does hold: `EvidenceConsistent` (the evidence itself survives),
`ClosedIsFinal`, `RevocationHolds`, `UsesBounded`, `SpendBounded`, `PickedMatches`.

## 11. Not modelled

* In SignFlow: maintaining bank templates, lists, layout of the PDF (including what it
  does with Hebrew text) and path handling of storage; deadlocks inside PostgreSQL (the abort is a `Fail`).
* In Sessions: which password is set (so that a login under way with the old password is a call under
  way like others), the contents of JWTs and the minutes for which
  an access token outlives its session, mails to owners, statistics. Roles and offices in tokens are in
  `Access`, the second factor in `TwoFactor`; they are not composed with `Sessions`.
* In Inbound: the synchronous mode of the webhook, prompts, the search for an agent beyond its state,
  tasks, notifications and audit rows, which are written and not read; leads that users enter by hand
  (`leads.service.ts` create looks up no phone); whether budget and quota let a call through, which is
  left open there and bounded in `Billing`; leads that a test of an agent finds or creates. The order of
  replies is promised nowhere.
* In the office: call minutes (nothing records them); `NoneOverlooked` for more due leads than a batch; passes that run
  longer than five minutes and overlap;
  the daily summary; in the profile the status column, which is set and nowhere tested; six-digit codes
  and their window; `@RequirePermission` on single routes (only the controllers of the organisation and
  of properties use it, so for the other keys `Answer` says what the guard would say); conditional
  cells, which the guard refuses; deletion and publication of
  properties, kanban and match scores; town names and coordinates; in the form, that a freely typed
  town keeps the ids picked before (`TypeCity` does it; a row without a town is not compared); rates,
  rounding and the mix of tracks in the calculator; keys and payloads of push messages.
* `geo-importer.service.ts` 221-223 says that re-runs do per-row upserts to handle name changes; the code
  inserts and skips what is there (278-281). Names are left out, so no run is about it.
* The page's comment (108-110) says that the matrix is not enforced by the guards. `Access` models the
  guards that have been added since and compares them with it.
* External services (WhatsApp, mail, push, language models, the national register) appear only through
  what the code does with their answers. Catalogs, growth pages, search, reports, exports, audit lists,
  health checks and configuration are lookups, formatting, independent single inserts and start-up.
  Of the web application, whose pages are most of the repository's lines, the rest renders what the API
  answers and keeps no state across requests beyond the access token. `components` in `PROJECT.json`
  gives the reason for each part.

## 12. Plan

1. **Composition**: suspension and closing of an office against the inbound pipeline, which runs unscoped
   and asks no guard; `Billing` as what `Park` and `Send` of Inbound ask.
2. **Abstract specifications** of more components than the evidence register, with their refinements as
   theorems: a queue that answers each message once but for its losses (`Inbound`), a session
   register that revocation empties (`Sessions`).
