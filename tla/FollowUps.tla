----------------------------- MODULE FollowUps -----------------------------
(***************************************************************************)
(* Reminders of leads and the two passes that turn them into tasks: every  *)
(* five minutes for reminders that fell due (scheduler.service.ts), every  *)
(* day for leads nobody touched (smart-followups.service.ts), while users  *)
(* and the agent's tools edit the same leads and tasks.                    *)
(*                                                                         *)
(* Tasks in progress count as open.  The daily summary writes nothing that *)
(* is read here.  One pass runs at a time: that a pass over at most 200    *)
(* leads is done before the next tick is assumed, the code does not ensure *)
(* it.                                                                     *)
(***************************************************************************)
EXTENDS Naturals, FiniteSets

CONSTANTS
    FuLeads,    \* leads
    Batch,      \* leads that one pass takes on at most
    MaxBroken,  \* passes that break off (a bound)
    NoLead      \* no lead

ASSUME FollowUpsAssumption ==
    /\ IsFiniteSet(FuLeads)
    /\ Batch \in Nat \ {0}
    /\ MaxBroken \in Nat
    /\ NoLead \notin FuLeads

VARIABLES
    reminder,  \* nextFollowupAt of each lead, against the clock
    auto,      \* open follow-up tasks that the passes made
    own,       \* leads with an open task of a user or of the agent
    pass,      \* the five-minute pass
    daily,     \* the daily pass: the leads it has still to serve
    made,      \* tasks made for the present reminder (history)
    broken,    \* how often a pass broke off between task and clearing (history)
    rounds,    \* whether a pass begun since the lead fell due has ended (history)
    excused    \* a task was open since the lead fell due, a pass broke off, the
               \* API was down, or the reminder was set for a time that no pass
               \* looks at any more (history)

fuRows == <<auto, own>>
fuHist == <<made, broken, rounds, excused>>
fuVars == <<reminder, fuRows, pass, daily, fuHist>>

\* Ahead, due for less than six hours, due for longer or so nearly that no pass
\* looks at it in time.
Clock == {"none", "ahead", "due", "lapsed"}

PassSteps == {"idle", "find", "create", "clear"}

PassIdle == [at |-> "idle", todo |-> {}, lead |-> NoLead, saw |-> {}]

\* Reminders, tasks and passes hold what their columns and variables may hold.
FollowUpsTypeOK ==
    /\ reminder \in [FuLeads -> Clock]
    /\ auto \in [FuLeads -> Nat]
    /\ own \in SUBSET FuLeads
    /\ pass \in [at: PassSteps, todo: SUBSET FuLeads, lead: FuLeads \cup {NoLead},
                 saw: SUBSET FuLeads]
    /\ pass.at \in {"create", "clear"} => pass.lead \in FuLeads
    /\ daily \in SUBSET FuLeads
    /\ made \in [FuLeads -> Nat]
    /\ broken \in [FuLeads -> Nat]
    /\ rounds \in SUBSET FuLeads
    /\ excused \in SUBSET FuLeads

FollowUpsInit ==
    /\ reminder = [l \in FuLeads |-> "none"]
    /\ own = {}
    /\ auto = [l \in FuLeads |-> 0]
    /\ pass = PassIdle
    /\ daily = {}
    /\ made = [l \in FuLeads |-> 0]
    /\ broken = [l \in FuLeads |-> 0]
    /\ rounds = {}
    /\ excused = {}

HasOpenTask(l) == auto[l] > 0 \/ l \in own

-----------------------------------------------------------------------------
(* The five-minute pass.                                                   *)

Due == {l \in FuLeads : reminder[l] = "due"}

\* Faulty variant: the pass is content with half of the leads that are due.
ReadDueSome ==
    /\ pass.at = "idle"
    /\ \E todo \in SUBSET Due :
          /\ 2 * Cardinality(todo) <= Cardinality(Due) + 1
          /\ pass' = [at |-> "find", todo |-> todo, lead |-> NoLead, saw |-> Due]
    /\ UNCHANGED <<reminder, fuRows, daily, fuHist>>

\* Any of the leads when there are too many: findMany orders them by nothing.
ReadDue ==
    /\ pass.at = "idle"
    /\ \E todo \in SUBSET Due :
          /\ todo = Due \/ Cardinality(todo) = Batch
          /\ Cardinality(todo) <= Batch
          /\ pass' = [at |-> "find", todo |-> todo, lead |-> NoLead, saw |-> Due]
    /\ UNCHANGED <<reminder, fuRows, daily, fuHist>>

\* A lead with an open task is passed over and keeps its reminder.
FindTask(l) ==
    /\ pass.at = "find" /\ l \in pass.todo
    /\ IF HasOpenTask(l)
       THEN /\ pass' = [pass EXCEPT !.todo = pass.todo \ {l}]
            /\ excused' = excused \cup {l}
       ELSE /\ pass' = [pass EXCEPT !.at = "create", !.lead = l]
            /\ UNCHANGED excused
    /\ UNCHANGED <<reminder, fuRows, daily, made, broken, rounds>>

\* The task and then the notifications of it.
CreateFollowup ==
    LET l == pass.lead IN
    /\ pass.at = "create"
    /\ auto' = [auto EXCEPT ![l] = auto[l] + 1]
    /\ made' = [made EXCEPT ![l] = made[l] + 1]
    /\ excused' = excused \cup {l}
    /\ pass' = [pass EXCEPT !.at = "clear"]
    /\ UNCHANGED <<reminder, own, daily, broken, rounds>>

\* Faulty variant: the reminder is left standing.
ClearNothing ==
    /\ pass.at = "clear"
    /\ pass' = [pass EXCEPT !.at = "find", !.todo = pass.todo \ {pass.lead},
                            !.lead = NoLead]
    /\ UNCHANGED <<reminder, fuRows, daily, fuHist>>

\* Whatever the reminder is by now.
ClearReminder ==
    /\ pass.at = "clear"
    /\ reminder' = [reminder EXCEPT ![pass.lead] = "none"]
    /\ pass' = [pass EXCEPT !.at = "find", !.todo = pass.todo \ {pass.lead},
                            !.lead = NoLead]
    /\ UNCHANGED <<auto, own, daily, fuHist>>

PassEnds ==
    /\ pass.at = "find" /\ pass.todo = {}
    /\ rounds' = rounds \cup pass.saw
    /\ pass' = PassIdle
    /\ UNCHANGED <<reminder, fuRows, daily, made, broken, excused>>

\* What is counted when a pass ends between the task and the clearing.
BreaksOff ==
    IF pass.at = "clear"
    THEN /\ \A m \in FuLeads : broken[m] < MaxBroken
         /\ broken' = [broken EXCEPT ![pass.lead] = broken[pass.lead] + 1]
    ELSE UNCHANGED broken

\* An await throws and the pass ends there, for all leads behind it too.
PassBreaks ==
    /\ pass.at # "idle"
    /\ BreaksOff
    /\ excused' = excused \cup pass.saw
    /\ pass' = PassIdle
    /\ UNCHANGED <<reminder, fuRows, daily, made, rounds>>

-----------------------------------------------------------------------------
(* The daily pass.                                                         *)

\* Faulty variant: leads that have an open task already are taken too.
DailyReadAll ==
    /\ daily = {}
    /\ daily' \in SUBSET FuLeads
    /\ UNCHANGED <<reminder, fuRows, pass, fuHist>>

\* Any of them: which are contacted or qualified, untouched for three days and
\* without a snoozed task is left open.
DailyRead ==
    /\ daily = {}
    /\ daily' \in SUBSET {l \in FuLeads : ~HasOpenTask(l)}
    /\ UNCHANGED <<reminder, fuRows, pass, fuHist>>

\* An insert that fails is logged and the next lead is served.
DailyCreate(l) ==
    /\ l \in daily
    /\ auto' = [auto EXCEPT ![l] = auto[l] + 1] \/ UNCHANGED auto
    /\ daily' = daily \ {l}
    /\ UNCHANGED <<reminder, own, pass, fuHist>>

-----------------------------------------------------------------------------
(* Users, the agent's tools, time.                                         *)

\* LeadsService.update stores any date, an empty one as 1970; the tool
\* schedule_followup refuses all but those ahead.
SetReminder(l) ==
    /\ \E date \in {"ahead", "due", "lapsed"} :
          /\ reminder' = [reminder EXCEPT ![l] = date]
          /\ excused' = IF date = "lapsed" THEN excused \cup {l} ELSE excused \ {l}
    /\ made' = [made EXCEPT ![l] = 0]
    /\ broken' = [broken EXCEPT ![l] = 0]
    /\ rounds' = rounds \ {l}
    /\ pass' = [pass EXCEPT !.saw = pass.saw \ {l}]
    /\ UNCHANGED <<auto, own, daily>>

\* TasksService.create and update: tasks are closed, snoozed, reopened, added.
EditTasks(l) ==
    /\ \E n \in 0..auto[l] : auto' = [auto EXCEPT ![l] = n]
    /\ \E s \in {own \cup {l}, own \ {l}} : own' = s
    /\ UNCHANGED <<reminder, pass, daily, fuHist>>

FallsDue(l) ==
    /\ reminder[l] = "ahead"
    /\ reminder' = [reminder EXCEPT ![l] = "due"]
    /\ excused' = excused \ {l}
    /\ UNCHANGED <<fuRows, pass, daily, made, broken, rounds>>

\* While the API runs, six hours hold some seventy passes: one that began after
\* the lead fell due has ended, or has broken off.
Lapses(l) ==
    /\ reminder[l] = "due"
    /\ l \in rounds \cup excused
    /\ reminder' = [reminder EXCEPT ![l] = "lapsed"]
    /\ UNCHANGED <<fuRows, pass, daily, fuHist>>

\* The API is down, and with it both passes: reminders may fall due and go past the
\* six hours meanwhile.
Outage ==
    /\ BreaksOff
    /\ \E lost \in SUBSET {l \in FuLeads : reminder[l] \in {"ahead", "due"}} :
          /\ reminder' = [l \in FuLeads |-> IF l \in lost THEN "lapsed" ELSE reminder[l]]
          /\ excused' = excused \cup pass.saw \cup lost
    /\ pass' = PassIdle
    /\ daily' = {}
    /\ UNCHANGED <<fuRows, made, rounds>>

FollowUpsNext ==
    \/ ReadDue \/ CreateFollowup \/ ClearReminder \/ PassEnds \/ PassBreaks
    \/ DailyRead \/ Outage
    \/ \E l \in FuLeads :
          \/ FindTask(l) \/ DailyCreate(l)
          \/ SetReminder(l) \/ EditTasks(l)
          \/ FallsDue(l) \/ Lapses(l)

FollowUpsSpec == FollowUpsInit /\ [][FollowUpsNext]_fuVars

-----------------------------------------------------------------------------
(* Properties.                                                             *)

\* Tasks a pass will still create for the lead on what it has read before.
Coming(l) ==
    (IF pass.at = "create" /\ pass.lead = l THEN 1 ELSE 0)
        + (IF l \in daily THEN 1 ELSE 0)

\* smart-followups.service.ts 14-15: no duplicates in the queue.  Each pass
\* looks for an open task first, but not in the same transaction, so a lead
\* has at most one of each pass, with those still to come.
FewFollowups == \A l \in FuLeads : auto[l] + Coming(l) <= 2

\* scheduler.service.ts 65: the marker is cleared so that the next tick does not
\* create again.  One reminder makes one task, and one more for each pass that
\* broke off between the task and the clearing.
OneTaskPerReminder ==
    \A l \in FuLeads : reminder[l] # "none" => made[l] <= 1 + broken[l]

\* scheduler.service.ts 17-18: for any lead whose reminder has just passed.  As
\* long as the leads that are due at one time fit into a batch, a reminder that
\* goes past the six hours was served or had an open task, unless a pass broke
\* off, the API was down, or it was set for a time that was past them already.
NoneOverlooked == \A l \in FuLeads : reminder[l] = "lapsed" => l \in excused

=============================================================================
