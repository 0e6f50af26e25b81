----------------------------- MODULE DeskProofs -----------------------------
(***************************************************************************)
(* Rows refer to their own tenant and done tasks have their date.  A step  *)
(* is described row by row: a row stays as it is or becomes a sound one.   *)
(***************************************************************************)
EXTENDS Desk, TLAPS

\* A lead of one tenant, but for an office that came unchecked.
SoundLead(r) ==
    /\ ~r.unchecked => r.office = r.firm
    /\ r.assigned \in Staff(r.firm)

\* OwnLeads, of any leads.
Own(rows, firm) == Scoped(rows, firm) \cup {Nothing}

\* What a pass has copied, a task and a property, with the leads that may be
\* referred to.
SoundCopy(r, own) ==
    /\ r.lead \in own
    /\ ~r.unchecked => r.office = r.firm /\ r.assigned \in Staff(r.firm)
SoundTask(r, own) ==
    /\ SoundCopy(r, own)
    /\ r.status = "done" => r.dated
SoundListing(r, own) == ~r.unchecked => r.office = r.firm /\ r.owner \in own

\* What a step does to one row.
LeadKept(l) ==
    \/ leads'[l] = leads[l]
    \/ /\ leads'[l] \in LeadRow
       /\ leads[l] # Nothing => leads'[l].firm = leads[l].firm
       /\ SoundLead(leads'[l])
TaskKept(k) ==
    \/ tasks'[k] = tasks[k]
    \/ /\ tasks'[k] \in TaskRow
       /\ tasks[k] # Nothing /\ tasks[k].dated => tasks'[k].dated
       /\ SoundTask(tasks'[k], OwnLeads(tasks'[k].firm))
ListingKept(p) ==
    \/ listings'[p] = listings[p]
    \/ /\ listings'[p] \in Listing
       /\ SoundListing(listings'[p], Own(leads', listings'[p].firm))
CopyKept ==
    \/ copied' \in {copied, Nothing}
    \/ copied' \in Copy /\ SoundCopy(copied', OwnLeads(copied'.firm))

\* An update under way goes by a task that is there, and that has its date when the
\* update read that it was done.
UpdatesInformed ==
    \A c \in DeskCalls : updates[c] # Nothing =>
        LET u == updates[c]
        IN  tasks[u.task] # Nothing /\ (u.seen = "done" => tasks[u.task].dated)

DeskInv ==
    /\ DeskTypeOK
    /\ RowsOfOneTenant
    /\ DoneTasksDated
    /\ UpdatesInformed
    /\ copied # Nothing => SoundCopy(copied, OwnLeads(copied.firm))

-----------------------------------------------------------------------------

\* What the invariant says of one row.
LEMMA RowFacts ==
    ASSUME DeskInv
    PROVE  /\ \A l \in LeadIds : leads[l] # Nothing =>
                leads[l] \in LeadRow /\ SoundLead(leads[l])
           /\ \A k \in TaskIds : tasks[k] # Nothing =>
                tasks[k] \in TaskRow /\ SoundTask(tasks[k], OwnLeads(tasks[k].firm))
           /\ \A p \in PropertyIds : listings[p] # Nothing =>
                listings[p] \in Listing /\ SoundListing(listings[p], OwnLeads(listings[p].firm))
  BY DEF DeskInv, DeskTypeOK, RowsOfOneTenant, DoneTasksDated, SoundLead, SoundTask,
         SoundCopy, SoundListing

\* A new lead of a caller's tenant, and one in the office of an active property.
LEMMA AddedLead ==
    ASSUME DeskInv, NEW l \in LeadIds, NEW row \in LeadRow, SoundLead(row), AddLead(l, row)
    PROVE  /\ leads' \in [LeadIds -> LeadRow \cup {Nothing}]
           /\ \A i \in LeadIds : LeadKept(i)
           /\ UNCHANGED <<tasks, listings, updates, copied>>
  <1>1. leads \in [LeadIds -> LeadRow \cup {Nothing}] /\ leads[l] = Nothing
    BY DEF DeskInv, DeskTypeOK, AddLead, Free
  <1>. QED  BY <1>1 DEF AddLead, LeadKept

LEMMA NewLeads ==
    ASSUME DeskInv, NEW l \in LeadIds,
           \/ \E firm, office \in Firms, user \in Firms \cup {Nothing} :
                 CreateLead(firm, l, office, user)
           \/ \E p \in PropertyIds : PublicLead(p, l)
    PROVE  /\ leads' \in [LeadIds -> LeadRow \cup {Nothing}]
           /\ \A i \in LeadIds : LeadKept(i)
           /\ UNCHANGED <<tasks, listings, updates, copied>>
  <1>1. ASSUME NEW firm \in Firms, NEW office \in Firms, NEW user \in Firms \cup {Nothing},
               CreateLead(firm, l, office, user)
        PROVE  \E row \in LeadRow : SoundLead(row) /\ AddLead(l, row)
    BY <1>1 DEF CreateLead, Offices, Staff, LeadRow, SoundLead
  <1>2. ASSUME NEW p \in PropertyIds, PublicLead(p, l)
        PROVE  \E row \in LeadRow : SoundLead(row) /\ AddLead(l, row)
    <2>1. listings[p] \in Listing /\ (~listings[p].unchecked => listings[p].office = listings[p].firm)
      BY <1>2, RowFacts DEF PublicLead, SoundListing
    <2>. DEFINE row == [firm |-> listings[p].firm, office |-> listings[p].office,
                        assigned |-> Nothing, unchecked |-> listings[p].unchecked]
    <2>2. row \in LeadRow /\ SoundLead(row)
      BY <2>1 DEF Listing, LeadRow, SoundLead, Staff
    <2>. QED  BY <1>2, <2>2 DEF PublicLead
  <1>. QED  BY <1>1, <1>2, AddedLead

\* Edits of leads, one by one or in bulk.
LEMMA EditedLeads ==
    ASSUME DeskAssumption, DeskInv, NEW firm \in Firms, NEW office \in Firms,
           NEW user \in Firms \cup {Nothing}, NEW ids \in SUBSET LeadIds,
           \/ \E l \in LeadIds : UpdateLead(firm, l, office, user)
           \/ BulkAssign(firm, ids, user)
    PROVE  /\ leads' \in [LeadIds -> LeadRow \cup {Nothing}]
           /\ \A i \in LeadIds : LeadKept(i)
           /\ UNCHANGED <<tasks, listings, updates, copied>>
  <1>0. leads \in [LeadIds -> LeadRow \cup {Nothing}]
    BY DEF DeskInv, DeskTypeOK
  <1>1. ASSUME NEW l \in LeadIds, UpdateLead(firm, l, office, user)
        PROVE  /\ leads' \in [LeadIds -> LeadRow \cup {Nothing}]
               /\ \A i \in LeadIds : LeadKept(i)
    <2>. DEFINE row == [leads[l] EXCEPT !.office = office, !.assigned = user]
    <2>1. leads[l] \in LeadRow /\ SoundLead(leads[l]) /\ leads[l].firm = firm
      BY <1>1, RowFacts DEF UpdateLead, Scoped
    <2>2. row \in LeadRow /\ row.firm = leads[l].firm /\ SoundLead(row)
      BY <1>1, <2>1 DEF UpdateLead, LeadRow, SoundLead, Offices, Staff
    <2>3. leads' = [leads EXCEPT ![l] = row]
      BY <1>1 DEF UpdateLead
    <2>. QED  BY <1>0, <2>2, <2>3 DEF LeadKept
  <1>2. ASSUME BulkAssign(firm, ids, user)
        PROVE  /\ leads' \in [LeadIds -> LeadRow \cup {Nothing}]
               /\ \A i \in LeadIds : LeadKept(i)
    <2>1. leads' = [l \in LeadIds |-> IF l \in ids \cap Scoped(leads, firm)
                                      THEN [leads[l] EXCEPT !.assigned = user] ELSE leads[l]]
      BY <1>2 DEF BulkAssign
    <2>2. ASSUME NEW i \in LeadIds
          PROVE  leads'[i] \in LeadRow \cup {Nothing} /\ LeadKept(i)
      <3>1. CASE i \in ids \cap Scoped(leads, firm)
        <4>1. leads[i] \in LeadRow /\ SoundLead(leads[i]) /\ leads[i].firm = firm
          BY <3>1, RowFacts DEF Scoped
        <4>2. leads'[i] = [leads[i] EXCEPT !.assigned = user]
          BY <2>1, <3>1
        <4>3. leads'[i] \in LeadRow /\ leads'[i].firm = firm /\ SoundLead(leads'[i])
          BY <1>2, <4>1, <4>2 DEF BulkAssign, LeadRow, SoundLead, Staff
        <4>. QED  BY <4>1, <4>3 DEF LeadKept
      <3>2. CASE i \notin ids \cap Scoped(leads, firm)
        BY <1>0, <2>1, <3>2 DEF LeadKept
      <3>. QED  BY <3>1, <3>2
    <2>. QED  BY <2>1, <2>2
  <1>. QED  BY <1>1, <1>2 DEF UpdateLead, BulkAssign

-----------------------------------------------------------------------------

\* A property of the caller's tenant, new or updated.
LEMMA SetListing ==
    ASSUME DeskInv, NEW firm \in Firms, NEW office \in Firms, NEW p \in PropertyIds,
           NEW owner \in LeadIds \cup {Nothing}, NEW active \in BOOLEAN,
           \/ CreateListing(firm, p, office, owner, active)
           \/ UpdateListing(firm, p, office, owner, active)
    PROVE  /\ listings' \in [PropertyIds -> Listing \cup {Nothing}]
           /\ \A i \in PropertyIds : ListingKept(i)
           /\ UNCHANGED <<leads, tasks, updates, copied>>
  <1>0. listings \in [PropertyIds -> Listing \cup {Nothing}]
    BY DEF DeskInv, DeskTypeOK
  <1>1. UNCHANGED <<leads, tasks, updates, copied>>
    BY DEF CreateListing, UpdateListing
  <1>2. Own(leads', firm) = OwnLeads(firm)
    BY <1>1 DEF OwnLeads, Own
  <1>3. \E row \in Listing : /\ row.firm = firm /\ SoundListing(row, OwnLeads(firm))
                             /\ listings' = [listings EXCEPT ![p] = row]
    <2>1. CASE CreateListing(firm, p, office, owner, active)
      BY <2>1 DEF CreateListing, Listing, SoundListing, Offices
    <2>2. CASE UpdateListing(firm, p, office, owner, active)
      <3>. DEFINE old == listings[p]
                  row == [firm |-> firm, office |-> office, owner |-> owner, active |-> active,
                          unchecked |-> old.unchecked \/ office # old.office \/ owner # old.owner]
      <3>1. old \in Listing /\ old.firm = firm /\ SoundListing(old, OwnLeads(firm))
        BY <2>2, RowFacts DEF UpdateListing, Scoped
      <3>2. row \in Listing /\ SoundListing(row, OwnLeads(firm))
        BY <3>1 DEF Listing, SoundListing
      <3>3. listings' = [listings EXCEPT ![p] = row]
        BY <1>0, <2>2 DEF UpdateListing
      <3>. QED  BY <3>2, <3>3
    <2>. QED  BY <2>1, <2>2
  <1>4. PICK row \in Listing : /\ row.firm = firm /\ SoundListing(row, OwnLeads(firm))
                               /\ listings' = [listings EXCEPT ![p] = row]
    BY <1>3
  <1>5. listings' \in [PropertyIds -> Listing \cup {Nothing}]
    BY <1>0, <1>4
  <1>6. \A i \in PropertyIds : listings'[i] = IF i = p THEN row ELSE listings[i]
    BY <1>0, <1>4
  <1>7. SoundListing(row, Own(leads', row.firm))
    BY <1>2, <1>4
  <1>. QED  BY <1>1, <1>4, <1>5, <1>6, <1>7 DEF ListingKept

\* An uploaded owner is a lead of the caller's tenant by the time of the property.
LEMMA Uploaded ==
    ASSUME DeskAssumption, DeskInv, NEW firm \in Firms, NEW l \in LeadIds,
           NEW p \in PropertyIds, UploadOwner(firm, l, p)
    PROVE  /\ leads' \in [LeadIds -> LeadRow \cup {Nothing}]
           /\ listings' \in [PropertyIds -> Listing \cup {Nothing}]
           /\ \A i \in LeadIds : LeadKept(i)
           /\ \A i \in PropertyIds : ListingKept(i)
           /\ UNCHANGED <<tasks, updates, copied>>
  <1>. DEFINE lead == [firm |-> firm, office |-> firm, assigned |-> Nothing, unchecked |-> FALSE]
              row == [firm |-> firm, office |-> firm, owner |-> l, active |-> FALSE,
                      unchecked |-> FALSE]
  <1>0. /\ leads \in [LeadIds -> LeadRow \cup {Nothing}]
        /\ listings \in [PropertyIds -> Listing \cup {Nothing}]
    BY DEF DeskInv, DeskTypeOK
  <1>1. lead \in LeadRow /\ SoundLead(lead) /\ lead.firm = firm /\ lead # Nothing
    <2>1. lead \in LeadRow /\ lead.firm = firm /\ SoundLead(lead)
      BY DEF LeadRow, SoundLead, Staff
    <2>. QED  BY <2>1 DEF DeskAssumption
  <1>2. /\ \/ leads' = leads /\ l \in Scoped(leads, firm)
           \/ leads' = [leads EXCEPT ![l] = lead] /\ leads[l] = Nothing
        /\ listings' = [listings EXCEPT ![p] = row]
        /\ UNCHANGED <<tasks, updates, copied>>
    BY DEF UploadOwner, Free
  <1>. HIDE DEF lead
  <1>3. l \in Own(leads', firm)
    BY <1>0, <1>1, <1>2 DEF Own, Scoped
  <1>4. \A i \in LeadIds : LeadKept(i)
    BY <1>0, <1>1, <1>2 DEF LeadKept
  <1>5. row \in Listing /\ SoundListing(row, Own(leads', firm)) /\ row.firm = firm
    BY <1>3 DEF Listing, SoundListing
  <1>. HIDE DEF row
  <1>6. \A i \in PropertyIds : ListingKept(i)
    BY <1>0, <1>2, <1>5 DEF ListingKept
  <1>7. /\ leads' \in [LeadIds -> LeadRow \cup {Nothing}]
        /\ listings' \in [PropertyIds -> Listing \cup {Nothing}]
    BY <1>0, <1>1, <1>2, <1>5
  <1>. QED  BY <1>2, <1>4, <1>6, <1>7

-----------------------------------------------------------------------------

LEMMA AddedTask ==
    ASSUME DeskInv, NEW k \in TaskIds, NEW row \in TaskRow,
           SoundTask(row, OwnLeads(row.firm)), AddTask(k, row)
    PROVE  /\ tasks' \in [TaskIds -> TaskRow \cup {Nothing}]
           /\ \A i \in TaskIds : TaskKept(i)
           /\ UNCHANGED <<leads, listings, updates>>
  <1>1. tasks \in [TaskIds -> TaskRow \cup {Nothing}] /\ tasks[k] = Nothing
    BY DEF DeskInv, DeskTypeOK, AddTask, Free
  <1>. QED  BY <1>1 DEF AddTask, TaskKept

\* A new task whose columns were looked up, or that is marked.
LEMMA NewTaskFacts ==
    ASSUME NEW firm \in Firms, NEW office \in Firms, NEW lead \in LeadIds \cup {Nothing},
           NEW user \in Firms \cup {Nothing}, NEW unchecked \in BOOLEAN,
           lead \in OwnLeads(firm),
           ~unchecked => office = firm /\ user \in Staff(firm)
    PROVE  LET row == NewTask(firm, office, lead, user, unchecked)
           IN  row \in TaskRow /\ SoundTask(row, OwnLeads(row.firm))
  BY DEF NewTask, TaskRow, TaskStatus, SoundTask, SoundCopy

\* Users, tools and passes create tasks.
LEMMA NewTasks ==
    ASSUME DeskAssumption, DeskInv, NEW k \in TaskIds,
           \/ \E firm, office \in Firms, user \in Firms \cup {Nothing},
                 lead \in LeadIds \cup {Nothing} : CreateTask(firm, k, office, lead, user)
           \/ \E l \in LeadIds, user \in Firms \cup {Nothing} : ToolTask(l, k, user)
           \/ PassTask(k)
    PROVE  /\ tasks' \in [TaskIds -> TaskRow \cup {Nothing}]
           /\ \A i \in TaskIds : TaskKept(i)
           /\ UNCHANGED <<leads, listings, updates>>
           /\ copied' \in {copied, Nothing}
  <1>1. ASSUME NEW firm \in Firms, NEW office \in Firms, NEW user \in Firms \cup {Nothing},
               NEW lead \in LeadIds \cup {Nothing}, CreateTask(firm, k, office, lead, user)
        PROVE  \E row \in TaskRow : SoundTask(row, OwnLeads(row.firm)) /\ AddTask(k, row)
    BY <1>1, NewTaskFacts DEF CreateTask, Offices
  <1>2. ASSUME NEW l \in LeadIds, NEW user \in Firms \cup {Nothing}, ToolTask(l, k, user)
        PROVE  \E row \in TaskRow : SoundTask(row, OwnLeads(row.firm)) /\ AddTask(k, row)
    <2>1. leads[l] # Nothing /\ leads[l].firm \in Firms
      BY <1>2, RowFacts DEF ToolTask, LeadRow
    <2>2. l \in OwnLeads(leads[l].firm)
      BY <2>1 DEF OwnLeads, Scoped, DeskInv, DeskTypeOK
    <2>3. user = Nothing => user \in Staff(leads[l].firm)
      BY DEF Staff
    <2>. QED  BY <1>2, <2>1, <2>2, <2>3, NewTaskFacts DEF ToolTask
  <1>3. ASSUME PassTask(k)
        PROVE  \E row \in TaskRow : SoundTask(row, OwnLeads(row.firm)) /\ AddTask(k, row)
    <2>1. copied \in Copy /\ SoundCopy(copied, OwnLeads(copied.firm))
      BY <1>3 DEF PassTask, DeskInv, DeskTypeOK
    <2>2. /\ copied.firm \in Firms /\ copied.office \in Firms /\ copied.lead \in LeadIds
          /\ copied.assigned \in Firms \cup {Nothing} /\ copied.unchecked \in BOOLEAN
      BY <2>1 DEF Copy
    <2>. QED  BY <1>3, <2>1, <2>2, NewTaskFacts DEF PassTask, SoundCopy
  <1>4. copied' \in {copied, Nothing}
    BY DEF CreateTask, ToolTask, PassTask
  <1>. QED  BY <1>1, <1>2, <1>3, <1>4, AddedTask

\* The write of an update: a task it saw done has its date.
LEMMA TaskWritten ==
    ASSUME DeskAssumption, DeskInv, NEW c \in DeskCalls, NEW user \in Firms \cup {Nothing},
           UpdateTaskWrite(c, user)
    PROVE  /\ tasks' \in [TaskIds -> TaskRow \cup {Nothing}]
           /\ \A i \in TaskIds : TaskKept(i)
           /\ UNCHANGED <<leads, listings, copied>>
           /\ updates' = [updates EXCEPT ![c] = Nothing]
  <1>. DEFINE u == updates[c]
              k == u.task
              old == tasks[k]
              row == [old EXCEPT !.status = u.status, !.assigned = user,
                                 !.dated = old.dated \/ (u.status = "done" /\ u.seen # "done")]
  <1>0. tasks \in [TaskIds -> TaskRow \cup {Nothing}]
    BY DEF DeskInv, DeskTypeOK
  <1>1. u \in Update /\ k \in TaskIds /\ old # Nothing /\ (u.seen = "done" => old.dated)
    BY DEF DeskInv, DeskTypeOK, UpdatesInformed, UpdateTaskWrite, Update
  <1>2. old \in TaskRow /\ SoundTask(old, OwnLeads(old.firm))
    BY <1>1, RowFacts
  <1>3. user \in Staff(old.firm) \cup {old.assigned}
    BY DEF UpdateTaskWrite
  <1>4. tasks' = [tasks EXCEPT ![k] = row]
    BY <1>0, <1>1 DEF UpdateTaskWrite
  <1>5. /\ UNCHANGED <<leads, listings, copied>>
        /\ updates' = [updates EXCEPT ![c] = Nothing]
    BY DEF UpdateTaskWrite
  <1>. HIDE DEF old
  <1>6. row \in TaskRow /\ row.firm = old.firm /\ (old.dated => row.dated)
    BY <1>1, <1>2 DEF TaskRow, Update
  <1>7. SoundTask(row, OwnLeads(old.firm))
    BY <1>1, <1>2, <1>3 DEF SoundTask, SoundCopy, TaskRow, Update
  <1>. HIDE DEF row
  <1>8. \A i \in TaskIds : TaskKept(i)
    BY <1>0, <1>1, <1>4, <1>6, <1>7 DEF TaskKept, old
  <1>. QED  BY <1>0, <1>1, <1>4, <1>5, <1>6, <1>8

-----------------------------------------------------------------------------

\* What every step keeps row by row.
StepKinds ==
    /\ leads' \in [LeadIds -> LeadRow \cup {Nothing}]
    /\ tasks' \in [TaskIds -> TaskRow \cup {Nothing}]
    /\ listings' \in [PropertyIds -> Listing \cup {Nothing}]
    /\ \A l \in LeadIds : LeadKept(l)
    /\ \A k \in TaskIds : TaskKept(k)
    /\ \A p \in PropertyIds : ListingKept(p)
    /\ CopyKept
    /\ \/ updates' = updates
       \/ \E c \in DeskCalls : updates' = [updates EXCEPT ![c] = Nothing]
       \/ \E c \in DeskCalls, u \in Update :
             /\ updates' = [updates EXCEPT ![c] = u]
             /\ tasks' = tasks /\ tasks[u.task] # Nothing
             /\ u.seen = tasks[u.task].status

LEMMA DeskSteps ==
    ASSUME DeskAssumption, DeskInv, [DeskNext]_deskVars
    PROVE  StepKinds
  <1>0. /\ leads \in [LeadIds -> LeadRow \cup {Nothing}]
        /\ tasks \in [TaskIds -> TaskRow \cup {Nothing}]
        /\ listings \in [PropertyIds -> Listing \cup {Nothing}]
    BY DEF DeskInv, DeskTypeOK
  <1>1. /\ UNCHANGED leads => \A l \in LeadIds : LeadKept(l)
        /\ UNCHANGED tasks => \A k \in TaskIds : TaskKept(k)
        /\ UNCHANGED listings => \A p \in PropertyIds : ListingKept(p)
        /\ copied' \in {copied, Nothing} => CopyKept
    BY DEF LeadKept, TaskKept, ListingKept, CopyKept
  <1>2. ASSUME NEW l \in LeadIds,
               \/ \E firm, office \in Firms, user \in Firms \cup {Nothing} :
                     CreateLead(firm, l, office, user)
               \/ \E p \in PropertyIds : PublicLead(p, l)
        PROVE  StepKinds
    BY <1>0, <1>1, <1>2, NewLeads DEF StepKinds
  <1>3. ASSUME NEW firm \in Firms, NEW office \in Firms, NEW user \in Firms \cup {Nothing},
               NEW ids \in SUBSET LeadIds,
               \/ \E l \in LeadIds : UpdateLead(firm, l, office, user)
               \/ BulkAssign(firm, ids, user)
        PROVE  StepKinds
    BY <1>0, <1>1, <1>3, EditedLeads DEF StepKinds
  <1>4. ASSUME NEW firm \in Firms, NEW office \in Firms, NEW p \in PropertyIds,
               NEW owner \in LeadIds \cup {Nothing}, NEW active \in BOOLEAN,
               \/ CreateListing(firm, p, office, owner, active)
               \/ UpdateListing(firm, p, office, owner, active)
        PROVE  StepKinds
    BY <1>0, <1>1, <1>4, SetListing DEF StepKinds
  <1>5. ASSUME NEW firm \in Firms, NEW l \in LeadIds, NEW p \in PropertyIds,
               UploadOwner(firm, l, p)
        PROVE  StepKinds
    BY <1>0, <1>1, <1>5, Uploaded DEF StepKinds
  <1>6. ASSUME NEW k \in TaskIds,
               \/ \E firm, office \in Firms, user \in Firms \cup {Nothing},
                     lead \in LeadIds \cup {Nothing} : CreateTask(firm, k, office, lead, user)
               \/ \E l \in LeadIds, user \in Firms \cup {Nothing} : ToolTask(l, k, user)
               \/ PassTask(k)
        PROVE  StepKinds
    BY <1>0, <1>1, <1>6, NewTasks DEF StepKinds
  <1>7. ASSUME NEW c \in DeskCalls, NEW user \in Firms \cup {Nothing}, UpdateTaskWrite(c, user)
        PROVE  StepKinds
    BY <1>0, <1>1, <1>7, TaskWritten DEF StepKinds
  <1>8. ASSUME NEW c \in DeskCalls, NEW firm \in Firms, NEW k \in TaskIds,
               NEW status \in TaskStatus, UpdateTaskRead(firm, c, k, status)
        PROVE  StepKinds
    <2>. DEFINE u == [task |-> k, status |-> status, seen |-> tasks[k].status]
    <2>1. tasks[k] \in TaskRow /\ tasks[k] # Nothing
      BY <1>0, <1>8 DEF UpdateTaskRead, Scoped
    <2>2. u \in Update /\ u.task = k /\ u.seen = tasks[k].status
      BY <2>1 DEF Update, TaskRow
    <2>3. updates' = [updates EXCEPT ![c] = u] /\ UNCHANGED <<leads, tasks, listings, copied>>
      BY <1>8 DEF UpdateTaskRead
    <2>. HIDE DEF u
    <2>. QED  BY <1>0, <1>1, <2>1, <2>2, <2>3 DEF StepKinds
  <1>9. ASSUME NEW c \in DeskCalls, UpdateTaskFails(c)
        PROVE  StepKinds
    BY <1>0, <1>1, <1>9 DEF StepKinds, UpdateTaskFails
  <1>10. CASE UNCHANGED deskVars
    BY <1>0, <1>1, <1>10 DEF StepKinds, deskVars
  <1>12. ASSUME NEW l \in LeadIds, PassRead(l)
         PROVE  StepKinds
    <2>1. leads[l] \in LeadRow /\ SoundLead(leads[l]) /\ l \in OwnLeads(leads[l].firm)
      BY <1>0, <1>12, RowFacts DEF PassRead, OwnLeads, Scoped
    <2>2. PICK user \in {leads[l].assigned, Nothing} :
              copied' = [firm |-> leads[l].firm, office |-> leads[l].office, lead |-> l,
                         assigned |-> user, unchecked |-> leads[l].unchecked]
      BY <1>12 DEF PassRead
    <2>3. copied' \in Copy /\ SoundCopy(copied', OwnLeads(copied'.firm))
      BY <2>1, <2>2 DEF Copy, LeadRow, SoundCopy, SoundLead, Staff
    <2>4. UNCHANGED <<leads, tasks, listings, updates>>
      BY <1>12 DEF PassRead
    <2>. QED  BY <1>0, <1>1, <2>3, <2>4 DEF StepKinds, CopyKept
  <1>13. CASE PassSkips
    BY <1>0, <1>1, <1>13 DEF StepKinds, PassSkips
  <1>11. CASE DeskNext
    <2>1. ASSUME NEW firm \in Firms, NEW user \in Firms \cup {Nothing},
                 NEW ids \in SUBSET LeadIds, BulkAssign(firm, ids, user)
          PROVE  StepKinds
      BY <1>3, <2>1
    <2>2. ASSUME NEW firm \in Firms, NEW office \in Firms, NEW user \in Firms \cup {Nothing},
                 NEW l \in LeadIds,
                 \/ CreateLead(firm, l, office, user) \/ UpdateLead(firm, l, office, user)
                 \/ \E k \in TaskIds, lead \in LeadIds \cup {Nothing} :
                       CreateTask(firm, k, office, lead, user)
          PROVE  StepKinds
      <3>1. {} \in SUBSET LeadIds
        OBVIOUS
      <3>. QED  BY <1>2, <1>3, <1>6, <2>2, <3>1
    <2>3. ASSUME NEW l \in LeadIds,
                 PassRead(l) \/ \E k \in TaskIds, user \in Firms \cup {Nothing} :
                                    ToolTask(l, k, user)
          PROVE  StepKinds
      BY <1>6, <1>12, <2>3
    <2>4. ASSUME NEW k \in TaskIds, PassTask(k)
          PROVE  StepKinds
      BY <1>6, <2>4
    <2>. QED  BY <1>2, <1>4, <1>5, <1>7, <1>8, <1>9, <1>11, <1>13, <2>1, <2>2, <2>3, <2>4
              DEF DeskNext
  <1>. QED  BY <1>10, <1>11

-----------------------------------------------------------------------------

\* Rows stay with their tenant, so what may be referred to only grows.
LEMMA OwnLeadsGrow ==
    ASSUME DeskAssumption, DeskInv, StepKinds, NEW firm
    PROVE  OwnLeads(firm) \subseteq Own(leads', firm)
  <1>1. ASSUME NEW l \in LeadIds, leads[l] # Nothing
        PROVE  leads'[l] # Nothing /\ leads'[l].firm = leads[l].firm
    BY <1>1 DEF StepKinds, LeadKept, DeskAssumption
  <1>2. DOMAIN leads = LeadIds /\ DOMAIN leads' = LeadIds
    BY DEF StepKinds, DeskInv, DeskTypeOK
  <1>. QED  BY <1>1, <1>2 DEF OwnLeads, Own, Scoped

LEMMA DeskInvStep ==
    ASSUME DeskAssumption, DeskInv, [DeskNext]_deskVars
    PROVE  DeskInv'
  <1>0. StepKinds
    BY DeskSteps
  <1>1. DeskTypeOK'
    <2>1. updates \in [DeskCalls -> Update \cup {Nothing}]
      BY DEF DeskInv, DeskTypeOK
    <2>2. updates' \in [DeskCalls -> Update \cup {Nothing}]
      BY <1>0, <2>1 DEF StepKinds
    <2>3. copied' \in Copy \cup {Nothing}
      BY <1>0 DEF StepKinds, CopyKept, DeskInv, DeskTypeOK
    <2>. QED  BY <1>0, <2>2, <2>3 DEF StepKinds, DeskTypeOK
  <1>2. ASSUME NEW l \in LeadIds, leads'[l] # Nothing
        PROVE  SoundLead(leads'[l])
    BY <1>0, <1>2, RowFacts DEF StepKinds, LeadKept
  <1>3. ASSUME NEW k \in TaskIds, tasks'[k] # Nothing
        PROVE  SoundTask(tasks'[k], Own(leads', tasks'[k].firm))
    <2>1. SoundTask(tasks'[k], OwnLeads(tasks'[k].firm))
      BY <1>0, <1>3, RowFacts DEF StepKinds, TaskKept
    <2>2. OwnLeads(tasks'[k].firm) \subseteq Own(leads', tasks'[k].firm)
      BY <1>0, OwnLeadsGrow
    <2>. QED  BY <2>1, <2>2 DEF SoundTask, SoundCopy
  <1>4. ASSUME NEW p \in PropertyIds, listings'[p] # Nothing
        PROVE  SoundListing(listings'[p], Own(leads', listings'[p].firm))
    <2>1. CASE listings'[p] = listings[p]
      <3>1. SoundListing(listings[p], OwnLeads(listings[p].firm))
        BY <1>4, <2>1, RowFacts
      <3>2. OwnLeads(listings[p].firm) \subseteq Own(leads', listings'[p].firm)
        BY <1>0, <2>1, OwnLeadsGrow
      <3>. QED  BY <2>1, <3>1, <3>2 DEF SoundListing
    <2>. QED  BY <1>0, <2>1 DEF StepKinds, ListingKept
  <1>5. RowsOfOneTenant' /\ DoneTasksDated'
    BY <1>2, <1>3, <1>4 DEF RowsOfOneTenant, DoneTasksDated, SoundLead, SoundTask, SoundCopy,
                            SoundListing, OwnLeads, Own
  <1>6. UpdatesInformed'
    <2>. SUFFICES ASSUME NEW c \in DeskCalls, updates'[c] # Nothing
                  PROVE  LET u == updates'[c]
                         IN  tasks'[u.task] # Nothing /\ (u.seen = "done" => tasks'[u.task].dated)
      BY DEF UpdatesInformed
    <2>1. CASE updates'[c] = updates[c]
      <3>. DEFINE k == updates[c].task
      <3>1. /\ k \in TaskIds /\ tasks[k] # Nothing
            /\ updates[c].seen = "done" => tasks[k].dated
        BY <2>1 DEF DeskInv, DeskTypeOK, UpdatesInformed, Update
      <3>2. tasks'[k] # Nothing /\ (tasks[k].dated => tasks'[k].dated)
        BY <1>0, <3>1 DEF StepKinds, TaskKept, DeskAssumption
      <3>. QED  BY <2>1, <3>1, <3>2
    <2>2. CASE updates'[c] # updates[c]
      <3>1. updates \in [DeskCalls -> Update \cup {Nothing}]
        BY DEF DeskInv, DeskTypeOK
      <3>2. PICK u \in Update : /\ updates'[c] = u /\ tasks' = tasks
                                /\ tasks[u.task] # Nothing /\ u.seen = tasks[u.task].status
        BY <1>0, <2>2, <3>1 DEF StepKinds
      <3>3. u.task \in TaskIds /\ (u.seen = "done" => tasks[u.task].dated)
        BY <3>2 DEF Update, DeskInv, DoneTasksDated
      <3>. QED  BY <3>2, <3>3
    <2>. QED  BY <2>1, <2>2
  <1>7. ASSUME copied' # Nothing
        PROVE  SoundCopy(copied', Own(leads', copied'.firm))
    <2>1. SoundCopy(copied', OwnLeads(copied'.firm))
      BY <1>0, <1>7 DEF StepKinds, CopyKept, DeskInv
    <2>2. OwnLeads(copied'.firm) \subseteq Own(leads', copied'.firm)
      BY <1>0, OwnLeadsGrow
    <2>. QED  BY <2>1, <2>2 DEF SoundCopy
  <1>8. (copied # Nothing => SoundCopy(copied, OwnLeads(copied.firm)))'
    BY <1>7 DEF SoundCopy, OwnLeads, Own
  <1>. QED  BY <1>1, <1>5, <1>6, <1>8 DEF DeskInv

LEMMA DeskInvariance == DeskSpec => []DeskInv
  <1>1. DeskInit => DeskInv
    BY DEF DeskInit, DeskInv, DeskTypeOK, RowsOfOneTenant, DoneTasksDated, UpdatesInformed
  <1>2. DeskAssumption /\ DeskInv /\ [DeskNext]_deskVars => DeskInv'
    BY DeskInvStep
  <1>. QED  BY <1>1, <1>2, DeskAssumption, PTL DEF DeskSpec

\* Offices, assignees, leads and owners that rows refer to are of the row's own
\* tenant, for any tenants and rows, but for a property's office and owner that an
\* update replaced, a task's assignee that the model named, and copies of those.
THEOREM TenantsKeptApart == DeskSpec => []RowsOfOneTenant
  <1>1. DeskInv => RowsOfOneTenant
    BY DEF DeskInv
  <1>. QED  BY <1>1, DeskInvariance, PTL

\* A done task has its date, however many updates overlap.
THEOREM DatesAreKept == DeskSpec => []DoneTasksDated
  <1>1. DeskInv => DoneTasksDated
    BY DEF DeskInv
  <1>. QED  BY <1>1, DeskInvariance, PTL

=============================================================================
