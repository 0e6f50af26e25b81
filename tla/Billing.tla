------------------------------ MODULE Billing ------------------------------
(***************************************************************************)
(* The monthly limits of one office: WhatsApp messages and spending on     *)
(* language models (billing.service.ts), as their callers use them:        *)
(* WhatsappService.send, the agent's reply and the test of an agent in the *)
(* orchestrator, and the suggestions and insights that users ask for.      *)
(* Usage is read, used and recorded by separate awaits, and so are the     *)
(* alerts at 80% and 100%.                                                 *)
(*                                                                         *)
(* Replies and messages check the limit and look for an alert afterwards;  *)
(* tests check it and look for none; suggestions and insights do neither.  *)
(*                                                                         *)
(* A call is a process; a limit of 0 means unlimited.  The two limits have *)
(* no state in common, so a behaviour follows one of them.  Call minutes,  *)
(* which nothing records yet, are left out.                                *)
(***************************************************************************)
EXTENDS Naturals, FiniteSets

CONSTANTS
    BillCalls,   \* concurrent calls
    Limit,       \* includedMessages and monthlyLlmBudgetUsd of the tenant
    MaxCost,     \* the most that one call of the model costs
    MaxFree,     \* what unchecked calls spend in a month (a bound)
    MaxMonth     \* months considered (a bound)

Meters == {"whatsapp", "llm"}
Levels == {"warn80", "block100"}

\* 0 is the month before the first.
Months == 0..MaxMonth

ASSUME BillingAssumption ==
    /\ IsFiniteSet(BillCalls)
    /\ Limit \in [Meters -> Nat]
    /\ MaxCost \in Nat \ {0}
    /\ MaxFree \in Nat
    /\ MaxMonth \in Nat \ {0}

VARIABLES
    meter,    \* which of the two limits is followed
    month,    \* the calendar month in the server's time zone
    utc,      \* the calendar month in UTC, which may turn later
    used,     \* usage_events of the month, summed
    alerts,   \* notifications with a quotaAlert key, counted
    bill,     \* the calls
    free,     \* what calls that check no budget have spent (history)
    missed    \* whether, since a call last looked how far the limit is used
              \* up, one that does not look has spent, or one that does has
              \* failed before its alert was out (history)

billVars == <<meter, month, utc, used, alerts, bill, free, missed>>

\* "use", "try" and "spend" are the use of the model by a reply, by a test and
\* by a call that does not check the budget.
BillSteps == {"idle", "check", "use", "ask", "try", "spend", "level", "find", "post"}

\* The most that one call adds.
MostOf(m) == IF m = "whatsapp" THEN 1 ELSE MaxCost

BillCall == [at: BillSteps, level: Levels, key: Months]

BillIdle == [at |-> "idle", level |-> "warn80", key |-> 0]

\* Counters, alerts and calls hold what their columns and variables may hold.
BillingTypeOK ==
    /\ meter \in Meters
    /\ month \in 1..MaxMonth
    /\ utc \in {month - 1, month}
    /\ used \in Nat
    /\ alerts \in [Levels \X Months -> Nat]
    /\ bill \in [BillCalls -> BillCall]
    /\ free \in Nat
    /\ missed \in BOOLEAN

BillingInit ==
    /\ meter \in Meters
    /\ month = 1
    /\ utc = 1
    /\ used = 0
    /\ alerts = [x \in Levels \X Months |-> 0]
    /\ bill = [c \in BillCalls |-> BillIdle]
    /\ free = 0
    /\ missed = FALSE

BillAt(c, step) == bill[c].at = step
BillGoto(c, step) == bill' = [bill EXCEPT ![c].at = step]
BillEnd(c) == bill' = [bill EXCEPT ![c] = BillIdle]

-----------------------------------------------------------------------------
(* Calls.                                                                  *)

StartBilled(c) ==
    /\ BillAt(c, "idle")
    /\ BillGoto(c, "check")
    /\ UNCHANGED <<meter, month, utc, used, alerts, free, missed>>

\* A suggestion or insight for a user is asked of the model without a check.
StartSuggestion(c) ==
    /\ BillAt(c, "idle")
    /\ meter = "llm"
    /\ BillGoto(c, "spend")
    /\ UNCHANGED <<meter, month, utc, used, alerts, free, missed>>

\* POST /agents/:id/test.
StartTest(c) ==
    /\ BillAt(c, "idle")
    /\ meter = "llm"
    /\ BillGoto(c, "ask")
    /\ UNCHANGED <<meter, month, utc, used, alerts, free, missed>>

\* Faulty variant: a message is refused only once the limit was exceeded.
AllowedUpTo == Limit[meter] = 0 \/ used <= Limit[meter]

Allowed == Limit[meter] = 0 \/ used < Limit[meter]

\* checkWhatsAppMessageQuota, checkLlmBudget.  A refused call still looks
\* whether the alert is out, and ends there.
CheckQuota(c) ==
    /\ BillAt(c, "check")
    /\ BillGoto(c, IF Allowed THEN "use" ELSE "level")
    /\ UNCHANGED <<meter, month, utc, used, alerts, free, missed>>

\* A refused test ends at once.
CheckTest(c) ==
    /\ BillAt(c, "ask")
    /\ IF Allowed THEN BillGoto(c, "try") ELSE BillEnd(c)
    /\ UNCHANGED <<meter, month, utc, used, alerts, free, missed>>

\* What was used is recorded; an error of the insert is swallowed.
Record(n) == used' = used + n \/ UNCHANGED used

\* The provider takes the message.
SendMessage(c) ==
    /\ BillAt(c, "use")
    /\ meter = "whatsapp"
    /\ Record(1)
    /\ BillGoto(c, "level")
    /\ UNCHANGED <<meter, month, utc, alerts, free, missed>>

\* LlmRouterService.chat: the first provider in the order of the intent that is
\* available and answers, at its price.
ChatReply(c) ==
    /\ BillAt(c, "use")
    /\ meter = "llm"
    /\ \E cost \in 0..MaxCost : Record(cost)
    /\ BillGoto(c, "level")
    /\ UNCHANGED <<meter, month, utc, alerts, free, missed>>

\* runTest: the model is used and its answer handed back.
ChatTest(c) ==
    /\ BillAt(c, "try")
    /\ meter = "llm"
    /\ \E cost \in 0..MaxCost : Record(cost)
    /\ missed' = (missed \/ used' # used)
    /\ BillEnd(c)
    /\ UNCHANGED <<meter, month, utc, alerts, free>>

\* QuickReplyService.suggest and LeadInsightsService look for no alert either.
ChatSuggest(c) ==
    /\ BillAt(c, "spend")
    /\ \E cost \in 0..MaxCost :
          /\ free + cost <= MaxFree
          /\ used' = used + cost
          /\ free' = free + cost
    /\ missed' = (missed \/ used' # used)
    /\ BillEnd(c)
    /\ UNCHANGED <<meter, month, utc, alerts>>

\* How far the limit is used up.
ReachedLevel ==
    IF Limit[meter] = 0 THEN "none"
    ELSE IF used >= Limit[meter] THEN "block100"
    ELSE IF 5 * used >= 4 * Limit[meter] THEN "warn80"
    ELSE "none"

\* Faulty variant: the alert at 100% is left out.
LookForWarning(c) ==
    /\ BillAt(c, "level")
    /\ IF ReachedLevel # "warn80" THEN BillEnd(c)
       ELSE bill' = [bill EXCEPT ![c] = [bill[c] EXCEPT !.at = "find",
                                                        !.level = "warn80"]]
    /\ missed' = FALSE
    /\ UNCHANGED <<meter, month, utc, used, alerts, free>>

\* checkThresholdNotifications reads the usage again.
LookAtLevel(c) ==
    /\ BillAt(c, "level")
    /\ IF ReachedLevel = "none" THEN BillEnd(c)
       ELSE bill' = [bill EXCEPT ![c] = [bill[c] EXCEPT !.at = "find",
                                                        !.level = ReachedLevel]]
    /\ missed' = FALSE
    /\ UNCHANGED <<meter, month, utc, used, alerts, free>>

\* Faulty variant: the alert is looked for under the server's month and filed
\* under that of UTC.
FindAlertOfMonth(c) ==
    /\ BillAt(c, "find")
    /\ IF alerts[<<bill[c].level, month>>] > 0 THEN BillEnd(c)
       ELSE bill' = [bill EXCEPT ![c] = [bill[c] EXCEPT !.at = "post", !.key = utc]]
    /\ UNCHANGED <<meter, month, utc, used, alerts, free, missed>>

\* The key names the month in UTC, whatever month the usage was summed for.
FindAlert(c) ==
    /\ BillAt(c, "find")
    /\ IF alerts[<<bill[c].level, utc>>] > 0 THEN BillEnd(c)
       ELSE bill' = [bill EXCEPT ![c] = [bill[c] EXCEPT !.at = "post", !.key = utc]]
    /\ UNCHANGED <<meter, month, utc, used, alerts, free, missed>>

\* NotificationsService.broadcast, to owners and managers or to the tenant.
PostAlert(c) ==
    LET x == <<bill[c].level, bill[c].key>> IN
    /\ BillAt(c, "post")
    /\ alerts' = [alerts EXCEPT ![x] = alerts[x] + 1]
    /\ BillEnd(c)
    /\ UNCHANGED <<meter, month, utc, used, free, missed>>

\* An await throws: the database, the provider, all models.
BillFail(c) ==
    /\ ~BillAt(c, "idle")
    /\ missed' = (missed \/ bill[c].at \in {"level", "find", "post"})
    /\ BillEnd(c)
    /\ UNCHANGED <<meter, month, utc, used, alerts, free>>

\* The sums start again at midnight of the server, the keys at that of UTC.
MonthTurns ==
    /\ month < MaxMonth
    /\ utc = month
    /\ month' = month + 1
    /\ used' = 0
    /\ free' = 0
    /\ missed' = FALSE
    /\ UNCHANGED <<meter, utc, alerts, bill>>

UtcTurns ==
    /\ utc < month
    /\ utc' = month
    /\ UNCHANGED <<meter, month, used, alerts, bill, free, missed>>

BillingNext ==
    \/ \E c \in BillCalls :
          \/ StartBilled(c) \/ StartSuggestion(c) \/ StartTest(c)
          \/ CheckQuota(c) \/ CheckTest(c)
          \/ SendMessage(c) \/ ChatReply(c) \/ ChatTest(c) \/ ChatSuggest(c)
          \/ LookAtLevel(c) \/ FindAlert(c) \/ PostAlert(c) \/ BillFail(c)
    \/ MonthTurns \/ UtcTurns

BillingSpec == BillingInit /\ [][BillingNext]_billVars

-----------------------------------------------------------------------------
(* Properties.                                                             *)

\* Calls that have passed the check and have not recorded yet.
PassedCheck == {c \in BillCalls : bill[c].at \in {"use", "try"}}

\* What checked calls have used in a month, with what those under way may still
\* use, passes the limit by less than one call of the highest cost for each
\* call that runs at once (whatsapp.service.ts 43-73, orchestrator 175-199 and 288-307).
SpendBounded ==
    Limit[meter] > 0 =>
        used + MostOf(meter) * Cardinality(PassedCheck)
            < Limit[meter] + free + MostOf(meter) * Cardinality(BillCalls)

\* Calls that found no alert of that key and are about to send it.
Posting(l, k) ==
    {c \in BillCalls : BillAt(c, "post") /\ bill[c].level = l /\ bill[c].key = k}

\* billing.service.ts 25-27: alerts are emitted once per tenant and month.  As
\* looking and sending are two awaits, it is once per call that runs at once.
AlertsBounded ==
    \A l \in Levels, k \in Months :
        alerts[<<l, k>>] + Cardinality(Posting(l, k)) <= Cardinality(BillCalls)

\* Once every call has ended, a limit that is reached was announced under the key
\* of this month or, when UTC was still behind, of the last, unless tests or
\* suggestions have spent, or a call on its way to the alert failed, since a call
\* last looked how far the limit is used up: the next reply or message that ends
\* makes good what those left out (billing.service.ts 119-164, orchestrator
\* 286-315).
AnnouncedWhenReached ==
    (/\ \A c \in BillCalls : BillAt(c, "idle")
     /\ ~missed
     /\ Limit[meter] > 0 /\ used >= Limit[meter])
    => \E k \in {month - 1, month} : alerts[<<"block100", k>>] > 0

\* prisma/schema.prisma 268: a hard cap on what is spent on the models in a
\* month, enforced before LlmRouterService.chat: once it is reached and no
\* checked call is on its way to the model, nothing more is spent.
HardCap ==
    [][(/\ meter = "llm" /\ Limit[meter] > 0 /\ used >= Limit[meter]
        /\ PassedCheck = {})
       => used' <= used]_billVars

=============================================================================
