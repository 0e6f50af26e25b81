-------------------------------- MODULE Desk --------------------------------
(***************************************************************************)
(* The daily rows of several tenants in one database: leads, tasks and     *)
(* properties (leads.service.ts, tasks.service.ts, properties.service.ts)  *)
(* under the query extension that scopes every call to the caller's tenant *)
(* (tenant-extension.ts), with the tasks that the agent's tools and the    *)
(* scheduled passes create outside it.                                     *)
(*                                                                         *)
(* Each tenant has one office and one employee, both called by the         *)
(* tenant's name: a column that holds t refers to the office or employee   *)
(* of t.  Rows never change tenant and are never deleted, so a handler     *)
(* that looks up what it refers to and then writes is one action.  Two     *)
(* take two: the update of a task, which decides from the status it read,  *)
(* and a pass, which copies the columns of a lead it read before.          *)
(***************************************************************************)
EXTENDS Naturals, FiniteSets

CONSTANTS
    Firms,      \* tenants
    LeadIds, TaskIds, PropertyIds,
    DeskCalls,  \* concurrent updates of tasks
    Nothing     \* an empty column, or no row yet

VARIABLES
    leads, tasks, listings,
    updates,   \* updates of tasks under way
    copied     \* what a scheduled pass has read of one of the leads it serves

deskVars == <<leads, tasks, listings, updates, copied>>

TaskStatus == {"open", "done"}   \* open: every status but done

\* Columns that refer to other rows; unchecked: whether one of them was
\* written, or copied from a row where it was, without being looked up (history).
LeadRow == [firm: Firms, office: Firms, assigned: Firms \cup {Nothing}, unchecked: BOOLEAN]
TaskRow == [firm: Firms, office: Firms, lead: LeadIds \cup {Nothing},
            assigned: Firms \cup {Nothing}, status: TaskStatus, dated: BOOLEAN,
            unchecked: BOOLEAN]
Listing == [firm: Firms, office: Firms, owner: LeadIds \cup {Nothing},
            active: BOOLEAN, unchecked: BOOLEAN]
Copy == [firm: Firms, office: Firms, lead: LeadIds,
         assigned: Firms \cup {Nothing}, unchecked: BOOLEAN]
Update == [task: TaskIds, status: TaskStatus, seen: TaskStatus]

ASSUME DeskAssumption ==
    /\ Nothing \notin Firms \cup LeadIds
    /\ Nothing \notin LeadRow \cup TaskRow \cup Listing \cup Update \cup Copy

DeskInit ==
    /\ leads = [l \in LeadIds |-> Nothing]
    /\ tasks = [k \in TaskIds |-> Nothing]
    /\ listings = [p \in PropertyIds |-> Nothing]
    /\ updates = [c \in DeskCalls |-> Nothing]
    /\ copied = Nothing

\* The extension adds the caller's tenant to the where clause of every read and
\* write, and to the data of every insert.
Scoped(rows, firm) == {i \in DOMAIN rows : rows[i] # Nothing /\ rows[i].firm = firm}
Free(rows) == {i \in DOMAIN rows : rows[i] = Nothing}

\* Lookups through the scoped client: what a caller of firm may refer to.
Offices(firm) == {firm}
Staff(firm) == {firm, Nothing}
OwnLeads(firm) == Scoped(leads, firm) \cup {Nothing}

-----------------------------------------------------------------------------
(* Leads.                                                                  *)

AddLead(l, row) ==
    /\ l \in Free(leads)
    /\ leads' = [leads EXCEPT ![l] = row]
    /\ UNCHANGED <<tasks, listings, updates, copied>>

CreateLead(firm, l, office, user) ==
    /\ office \in Offices(firm)
    /\ user \in Staff(firm)
    /\ AddLead(l, [firm |-> firm, office |-> office, assigned |-> user, unchecked |-> FALSE])

\* update and assign: a column that keeps its value is not looked up.
UpdateLead(firm, l, office, user) ==
    /\ l \in Scoped(leads, firm)
    /\ office \in Offices(firm) \cup {leads[l].office}
    /\ user \in Staff(firm) \cup {leads[l].assigned}
    /\ leads' = [leads EXCEPT ![l].office = office, ![l].assigned = user]
    /\ UNCHANGED <<tasks, listings, updates, copied>>

\* Faulty variant: the assignee is not looked up.
BulkAssignAnyone(firm, ids, user) ==
    /\ leads' = [l \in LeadIds |->
          IF l \in ids \cap Scoped(leads, firm)
          THEN [leads[l] EXCEPT !.assigned = user] ELSE leads[l]]
    /\ UNCHANGED <<tasks, listings, updates, copied>>

\* bulk: ids of other tenants are passed over.
BulkAssign(firm, ids, user) ==
    /\ user \in Staff(firm)
    /\ leads' = [l \in LeadIds |->
          IF l \in ids \cap Scoped(leads, firm)
          THEN [leads[l] EXCEPT !.assigned = user] ELSE leads[l]]
    /\ UNCHANGED <<tasks, listings, updates, copied>>

\* createPublicLead: a visitor without a tenant asks about an active property;
\* the lead gets the property's tenant and office.
PublicLead(p, l) ==
    /\ listings[p] # Nothing
    /\ listings[p].active
    /\ AddLead(l, [firm |-> listings[p].firm, office |-> listings[p].office,
                   assigned |-> Nothing, unchecked |-> listings[p].unchecked])

-----------------------------------------------------------------------------
(* Properties.                                                             *)

CreateListing(firm, p, office, owner, active) ==
    /\ p \in Free(listings)
    /\ office \in Offices(firm)
    /\ owner \in OwnLeads(firm)
    /\ listings' = [listings EXCEPT ![p] =
          [firm |-> firm, office |-> office, owner |-> owner, active |-> active,
           unchecked |-> FALSE]]
    /\ UNCHANGED <<leads, tasks, updates, copied>>

\* update takes office and owner as they come.
UpdateListing(firm, p, office, owner, active) ==
    /\ p \in Scoped(listings, firm)
    /\ listings' = [listings EXCEPT ![p] =
          [firm |-> firm, office |-> office, owner |-> owner, active |-> active,
           unchecked |-> @.unchecked \/ office # @.office \/ owner # @.owner]]
    /\ UNCHANGED <<leads, tasks, updates, copied>>

\* bulkUploadOwners, one owner: the lead with this phone in the caller's office,
\* or a new one, and its property, in one transaction.
UploadOwner(firm, l, p) ==
    /\ p \in Free(listings)
    /\ \/ /\ l \in Scoped(leads, firm)
          /\ leads[l].office = firm
          /\ UNCHANGED leads
       \/ /\ l \in Free(leads)
          /\ leads' = [leads EXCEPT ![l] = [firm |-> firm, office |-> firm,
                                            assigned |-> Nothing, unchecked |-> FALSE]]
    /\ listings' = [listings EXCEPT ![p] =
          [firm |-> firm, office |-> firm, owner |-> l, active |-> FALSE,
           unchecked |-> FALSE]]
    /\ UNCHANGED <<tasks, updates, copied>>

-----------------------------------------------------------------------------
(* Tasks.                                                                  *)

AddTask(k, row) ==
    /\ k \in Free(tasks)
    /\ tasks' = [tasks EXCEPT ![k] = row]
    /\ UNCHANGED <<leads, listings, updates>>

NewTask(firm, office, lead, user, unchecked) ==
    [firm |-> firm, office |-> office, lead |-> lead, assigned |-> user,
     status |-> "open", dated |-> FALSE, unchecked |-> unchecked]

CreateTask(firm, k, office, lead, user) ==
    /\ office \in Offices(firm)
    /\ lead \in OwnLeads(firm)
    /\ user \in Staff(firm)
    /\ AddTask(k, NewTask(firm, office, lead, user, FALSE))
    /\ UNCHANGED copied

\* The agent's tools in a conversation with the lead: create_task_for_realtor takes
\* the assignee that the model names, handoff_to_human none.
ToolTask(l, k, user) ==
    /\ leads[l] # Nothing
    /\ AddTask(k, NewTask(leads[l].firm, leads[l].firm, l, user, user # Nothing))
    /\ UNCHANGED copied

\* The passes read many leads at once and serve each from what they read of it, so
\* one is followed.  The daily pass copies the assignee, the five-minute one none.
PassRead(l) ==
    /\ copied = Nothing
    /\ leads[l] # Nothing
    /\ \E user \in {leads[l].assigned, Nothing} :
          copied' = [firm |-> leads[l].firm, office |-> leads[l].office, lead |-> l,
                     assigned |-> user, unchecked |-> leads[l].unchecked]
    /\ UNCHANGED <<leads, tasks, listings, updates>>

PassTask(k) ==
    /\ copied # Nothing
    /\ AddTask(k, NewTask(copied.firm, copied.office, copied.lead, copied.assigned,
                          copied.unchecked))
    /\ copied' = Nothing

\* The lead has an open task, or an await throws.
PassSkips ==
    /\ copied # Nothing
    /\ copied' = Nothing
    /\ UNCHANGED <<leads, tasks, listings, updates>>

\* update reads the task.
UpdateTaskRead(firm, c, k, status) ==
    /\ updates[c] = Nothing
    /\ k \in Scoped(tasks, firm)
    /\ updates' = [updates EXCEPT ![c] =
          [task |-> k, status |-> status, seen |-> tasks[k].status]]
    /\ UNCHANGED <<leads, tasks, listings, copied>>

\* Faulty variant: a task that is taken up again loses its date.
UpdateTaskUndates(c, user) ==
    /\ updates[c] # Nothing
    /\ LET u == updates[c]
           k == u.task
       IN  /\ user \in Staff(tasks[k].firm) \cup {tasks[k].assigned}
           /\ tasks' = [tasks EXCEPT ![k].status = u.status, ![k].assigned = user,
                 ![k].dated = u.status = "done" /\ (u.seen # "done" \/ tasks[k].dated)]
    /\ updates' = [updates EXCEPT ![c] = Nothing]
    /\ UNCHANGED <<leads, listings, copied>>

\* It writes what was asked, and the date when the task it read was not done yet.
UpdateTaskWrite(c, user) ==
    /\ updates[c] # Nothing
    /\ LET u == updates[c]
           k == u.task
       IN  /\ user \in Staff(tasks[k].firm) \cup {tasks[k].assigned}
           /\ tasks' = [tasks EXCEPT ![k].status = u.status, ![k].assigned = user,
                 ![k].dated = tasks[k].dated \/ (u.status = "done" /\ u.seen # "done")]
    /\ updates' = [updates EXCEPT ![c] = Nothing]
    /\ UNCHANGED <<leads, listings, copied>>

UpdateTaskFails(c) ==
    /\ updates[c] # Nothing
    /\ updates' = [updates EXCEPT ![c] = Nothing]
    /\ UNCHANGED <<leads, tasks, listings, copied>>

-----------------------------------------------------------------------------

DeskNext ==
    \/ \E firm, office \in Firms, user \in Firms \cup {Nothing}, l \in LeadIds :
          \/ CreateLead(firm, l, office, user) \/ UpdateLead(firm, l, office, user)
          \/ \E k \in TaskIds, lead \in LeadIds \cup {Nothing} :
                CreateTask(firm, k, office, lead, user)
    \/ \E l \in LeadIds :
          \/ PassRead(l)
          \/ \E k \in TaskIds, user \in Firms \cup {Nothing} : ToolTask(l, k, user)
    \/ \E k \in TaskIds : PassTask(k)
    \/ PassSkips
    \/ \E firm \in Firms, user \in Firms \cup {Nothing}, ids \in SUBSET LeadIds :
          BulkAssign(firm, ids, user)
    \/ \E p \in PropertyIds, l \in LeadIds :
          PublicLead(p, l) \/ \E firm \in Firms : UploadOwner(firm, l, p)
    \/ \E firm, office \in Firms, p \in PropertyIds,
          owner \in LeadIds \cup {Nothing}, active \in BOOLEAN :
          \/ CreateListing(firm, p, office, owner, active)
          \/ UpdateListing(firm, p, office, owner, active)
    \/ \E c \in DeskCalls :
          \/ \E firm \in Firms, k \in TaskIds, status \in TaskStatus :
                UpdateTaskRead(firm, c, k, status)
          \/ \E user \in Firms \cup {Nothing} : UpdateTaskWrite(c, user)
          \/ UpdateTaskFails(c)

DeskSpec == DeskInit /\ [][DeskNext]_deskVars

-----------------------------------------------------------------------------

\* Rows and updates hold what their columns and variables may hold.
DeskTypeOK ==
    /\ leads \in [LeadIds -> LeadRow \cup {Nothing}]
    /\ tasks \in [TaskIds -> TaskRow \cup {Nothing}]
    /\ listings \in [PropertyIds -> Listing \cup {Nothing}]
    /\ updates \in [DeskCalls -> Update \cup {Nothing}]
    /\ copied \in Copy \cup {Nothing}

\* Offices, assignees, leads and owners that rows refer to belong to the row's own
\* tenant, also in rows that bulk edits, public enquiries, uploads, tools and passes
\* wrote.  Excepted are the office and owner of a property that an update replaced
\* without looking them up, and the assignee of a task that the model named, with
\* what was copied from there: office of a lead and of its tasks.
RowsOfOneTenant ==
    /\ \A l \in LeadIds : leads[l] # Nothing =>
          /\ ~leads[l].unchecked => leads[l].office = leads[l].firm
          /\ leads[l].assigned \in Staff(leads[l].firm)
    /\ \A k \in TaskIds : tasks[k] # Nothing =>
          /\ tasks[k].lead \in OwnLeads(tasks[k].firm)
          /\ ~tasks[k].unchecked => /\ tasks[k].office = tasks[k].firm
                                     /\ tasks[k].assigned \in Staff(tasks[k].firm)
    /\ \A p \in PropertyIds : listings[p] # Nothing /\ ~listings[p].unchecked =>
          /\ listings[p].office = listings[p].firm
          /\ listings[p].owner \in OwnLeads(listings[p].firm)

\* A task that is done has a completion date, although the update decides about
\* the date from a status it read before the write, and other updates close and
\* reopen the task meanwhile.
DoneTasksDated ==
    \A k \in TaskIds : tasks[k] # Nothing /\ tasks[k].status = "done" => tasks[k].dated
=============================================================================
