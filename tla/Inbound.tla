------------------------------ MODULE Inbound ------------------------------
(***************************************************************************)
(* Incoming WhatsApp messages of one office: the webhook that queues them, *)
(* the BullMQ queue, the workers, and the orchestrator that finds or       *)
(* creates lead, conversation and agent, asks the language model, runs its *)
(* tools and replies (apps/api/src/webhooks, queues, agents), with what    *)
(* users do to the same rows meanwhile (leads, conversations).             *)
(*                                                                         *)
(* A worker is a process with one action per awaited operation on shared   *)
(* data.  Whether the tenant's budget and quota let a call through is left *)
(* open here and is the subject of Billing.  Tasks, notifications and      *)
(* audit rows, which the pipeline writes and never reads, are left out.    *)
(***************************************************************************)
EXTENDS Naturals, FiniteSets, Functions

CONSTANTS
    Messages,    \* messages the provider delivers, once or more
    Phones,      \* phone numbers of customers
    From,        \* the sender of each message
    Workers,     \* concurrent jobs of the processor
    MaxAttempts, \* attempts of a job
    MaxLosses,   \* how often the queue may lose track of jobs (a bound)
    MaxLeads,    \* leads that are ever created (a bound)
    MaxConvs,    \* conversations that are ever created (a bound)
    None         \* no row, no message

\* Rows, numbered as they are created.
Leads == 1..MaxLeads
Convs == 1..MaxConvs

ASSUME InboundAssumption ==
    /\ From \in [Messages -> Phones]
    /\ IsFiniteSet(Workers)
    /\ MaxAttempts \in Nat \ {0}
    /\ MaxLosses \in Nat
    /\ MaxLeads \in Nat
    /\ MaxConvs \in Nat
    /\ None \notin Messages \cup Phones \cup Nat

VARIABLES
    job,       \* the queue: the job of each message
    lead,      \* leads: the phone of each row
    conv,      \* conversations, in the order of their creation
    optOut,    \* opt_outs for WhatsApp
    stored,    \* messages of customers that are in a conversation
    sent,      \* WhatsApp replies that have left, per message
    again,     \* how often the queue lost track of each message (history)
    work,      \* the workers
    import     \* the CSV import: the phones it knows of while it runs

rows == <<lead, conv, optOut, stored>>
vars == <<job, lead, conv, optOut, stored, sent, again, work,
          import>>

-----------------------------------------------------------------------------
(* Types.                                                                  *)

\* "none": unknown to the queue.  A job that waits for its back-off is waiting.
JobRow ==
    {j \in [state: {"none", "waiting", "active", "done", "failed"},
            failures: 0..MaxAttempts, stalled: BOOLEAN] :
        j.failures = MaxAttempts => j.state = "failed"}

ConvRow == [lead: Leads \cup {None}, status: {"absent", "active", "handoff"}]

Step == {"idle", "lead.find", "lead.create", "conv.find", "conv.create",
         "message", "chat", "tools", "reply", "finish"}

Worker == [at: Step, message: Messages \cup {None}, lead: Leads \cup {None},
           conv: Convs \cup {None}]

Resting == [at |-> "idle", message |-> None, lead |-> None, conv |-> None]

\* Steps at which a worker holds a lead, and a conversation.
HasLead == {"conv.find", "conv.create"}
HasConv == {"message", "chat", "tools", "reply"}

LegalWorker ==
    {x \in Worker :
        /\ x.at # "idle" => x.message \in Messages
        /\ x.at \in HasLead => x.lead \in Leads
        /\ x.at \in HasConv => x.conv \in Convs}

\* Rows, queue and workers hold what their columns and variables may hold.
TypeOK ==
    /\ job \in [Messages -> JobRow]
    /\ lead \in [Leads -> Phones \cup {None}]
    /\ conv \in [Convs -> ConvRow]
    /\ optOut \in SUBSET Phones
    /\ stored \in SUBSET Messages
    /\ sent \in [Messages -> Nat]
    /\ again \in [Messages -> Nat]
    /\ work \in [Workers -> LegalWorker]
    /\ import \in [running: BOOLEAN, known: SUBSET Phones]

NoJob == [state |-> "none", failures |-> 0, stalled |-> FALSE]

Init ==
    /\ job = [m \in Messages |-> NoJob]
    /\ lead = [l \in Leads |-> None]
    /\ conv = [c \in Convs |-> [lead |-> None, status |-> "absent"]]
    /\ optOut = {}
    /\ stored = {}
    /\ sent = [m \in Messages |-> 0]
    /\ again = [m \in Messages |-> 0]
    /\ work = [w \in Workers |-> Resting]
    /\ import = [running |-> FALSE, known |-> {}]

-----------------------------------------------------------------------------
(* The queue.                                                              *)

At(w, step) == work[w].at = step
Goto(w, step) == work' = [work EXCEPT ![w].at = step]
Rest(w) == work' = [work EXCEPT ![w] = Resting]

\* The webhook answers 200 whether or not the job was stored, so a message
\* whose enqueueing fails is not delivered again; that step changes nothing.
\* A second delivery finds the job under its identifier and adds nothing.
Receive(m) ==
    /\ job[m].state = "none"
    /\ job' = [job EXCEPT ![m] = [NoJob EXCEPT !.state = "waiting"]]
    /\ UNCHANGED <<rows, sent, again, work, import>>

\* Faulty variant: an attempt after the first does not look at the opt-outs.
TakeCheckingOnce(w, m) ==
    /\ At(w, "idle")
    /\ job[m].state = "waiting"
    /\ job' = [job EXCEPT ![m].state = "active"]
    /\ work' = [work EXCEPT ![w] =
                  [Resting EXCEPT !.message = m,
                                  !.at = IF From[m] \in optOut /\ job[m].failures = 0
                                         THEN "finish" ELSE "lead.find"]]
    /\ UNCHANGED <<rows, sent, again, import>>

\* handleIncoming begins with the office and the opt-outs of the sender.
Take(w, m) ==
    /\ At(w, "idle")
    /\ job[m].state = "waiting"
    /\ job' = [job EXCEPT ![m].state = "active"]
    /\ work' = [work EXCEPT ![w] =
                  [Resting EXCEPT !.message = m,
                                  !.at = IF From[m] \in optOut
                                         THEN "finish" ELSE "lead.find"]]
    /\ UNCHANGED <<rows, sent, again, import>>

\* handleIncoming throws at an await that it does not guard.
Throws == Step \ {"idle", "tools", "finish"}

\* Faulty variant: one attempt too many.
FailLate(w) ==
    LET m == work[w].message
        n == job[m].failures + 1 IN
    /\ work[w].at \in Throws
    /\ job' = [job EXCEPT ![m] =
                 [state |-> IF n > MaxAttempts THEN "failed" ELSE "waiting",
                  failures |-> n, stalled |-> job[m].stalled]]
    /\ Rest(w)
    /\ UNCHANGED <<rows, sent, again, import>>

Fail(w) ==
    LET m == work[w].message
        n == job[m].failures + 1 IN
    /\ work[w].at \in Throws
    /\ job' = [job EXCEPT ![m] =
                 [state |-> IF n = MaxAttempts THEN "failed" ELSE "waiting",
                  failures |-> n, stalled |-> job[m].stalled]]
    /\ Rest(w)
    /\ UNCHANGED <<rows, sent, again, import>>

Losses == FoldFunction(+, 0, again)

\* The queue has no record of what was done for the message so far.
Lose(m) ==
    /\ Losses < MaxLosses
    /\ again' = [again EXCEPT ![m] = again[m] + 1]

\* The process dies, or loses the lock of the job: the job stays active.
Crash(w) ==
    /\ ~At(w, "idle")
    /\ Lose(work[w].message)
    /\ Rest(w)
    /\ UNCHANGED <<job, rows, sent, import>>

\* BullMQ puts a stalled job back once, and fails it the second time.
Recover(m) ==
    /\ job[m].state = "active"
    /\ \A w \in Workers : work[w].message # m
    /\ job' = [job EXCEPT ![m] =
                 [state |-> IF job[m].stalled THEN "failed" ELSE "waiting",
                  failures |-> job[m].failures, stalled |-> TRUE]]
    /\ UNCHANGED <<rows, sent, again, work, import>>

\* removeOnComplete, removeOnFail: a redelivery is a new job from now on.
Prune(m) ==
    /\ job[m].state \in {"done", "failed"}
    /\ Lose(m)
    /\ job' = [job EXCEPT ![m] = NoJob]
    /\ UNCHANGED <<rows, sent, work, import>>

Finish(w) ==
    /\ At(w, "finish")
    /\ job' = [job EXCEPT ![work[w].message].state = "done"]
    /\ Rest(w)
    /\ UNCHANGED <<rows, sent, again, import>>

-----------------------------------------------------------------------------
(* The orchestrator.                                                       *)

\* A table grows by its next row.
NewLead(l, p) ==
    /\ lead[l] = None
    /\ \A k \in Leads : k < l => lead[k] # None
    /\ lead' = [lead EXCEPT ![l] = p]

NewConv(c, l) ==
    /\ conv[c].status = "absent"
    /\ \A d \in Convs : d < c => conv[d].status # "absent"
    /\ conv' = [conv EXCEPT ![c] = [lead |-> l, status |-> "active"]]

HoldLead(w, l) ==
    work' = [work EXCEPT ![w] = [work[w] EXCEPT !.at = "conv.find", !.lead = l]]

HoldConv(w, c) ==
    work' = [work EXCEPT ![w] = [work[w] EXCEPT !.at = "message", !.lead = None,
                                                !.conv = c]]

\* Any of the leads with that phone: findFirst does not order them.
FindLead(w) ==
    LET known == {l \in Leads : lead[l] = From[work[w].message]} IN
    /\ At(w, "lead.find")
    /\ \/ known = {} /\ Goto(w, "lead.create")
       \/ \E l \in known : HoldLead(w, l)
    /\ UNCHANGED <<job, rows, sent, again, import>>

CreateLead(w) ==
    /\ At(w, "lead.create")
    /\ \E l \in Leads : NewLead(l, From[work[w].message]) /\ HoldLead(w, l)
    /\ UNCHANGED <<job, conv, optOut, stored, sent, again, import>>

\* Faulty variant: conversations handed to a person are continued too.
OpenOrHandedOff(l) == {c \in Convs : conv[c].lead = l /\ conv[c].status # "absent"}

\* The conversations of a lead that the agent may continue.
Open(l) == {c \in Convs : conv[c] = [lead |-> l, status |-> "active"]}

\* The one that started last.
FindConversation(w) ==
    LET open == Open(work[w].lead) IN
    /\ At(w, "conv.find")
    /\ \/ open = {} /\ Goto(w, "conv.create")
       \/ \E c \in open : (\A d \in open : d <= c) /\ HoldConv(w, c)
    /\ UNCHANGED <<job, rows, sent, again, import>>

CreateConversation(w) ==
    /\ At(w, "conv.create")
    /\ \E c \in Convs : NewConv(c, work[w].lead) /\ HoldConv(w, c)
    /\ UNCHANGED <<job, lead, optOut, stored, sent, again, import>>

\* Faulty variant: the message is not kept when the agent does not answer.
SaveMessageIfAnswered(w) ==
    /\ At(w, "message")
    /\ \/ stored' = stored \cup {work[w].message} /\ Goto(w, "chat")
       \/ UNCHANGED stored /\ Goto(w, "finish")
    /\ UNCHANGED <<job, lead, conv, optOut, sent, again, import>>

SaveMessage(w) ==
    /\ At(w, "message")
    /\ stored' = stored \cup {work[w].message}
    /\ Goto(w, "chat")
    /\ UNCHANGED <<job, lead, conv, optOut, sent, again, import>>

HandOff(c) == conv' = [conv EXCEPT ![c].status = "handoff"]

\* No budget is left: the conversation goes to a person.
Park(w) ==
    /\ At(w, "chat")
    /\ HandOff(work[w].conv)
    /\ Goto(w, "finish")
    /\ UNCHANGED <<job, lead, optOut, stored, sent, again, import>>

\* The agent for the lead's intent is found, or created.  One that is disabled,
\* or paused (then a task is left), does not answer; for another the model is
\* asked, and its answer is a reply and tools to run.
Chat(w) ==
    /\ At(w, "chat")
    /\ \E step \in {"tools", "finish"} : Goto(w, step)
    /\ UNCHANGED <<job, rows, sent, again, import>>

\* The tools the model asked for run one after the other; one that fails is
\* logged and passed over.  Those about tasks, properties, mortgages and the
\* fields of the lead touch none of these tables.
ToolOptOut(w) ==
    /\ At(w, "tools")
    /\ optOut' = optOut \cup {From[work[w].message]}
    /\ UNCHANGED <<job, lead, conv, stored, sent, again, work, import>>

\* One transaction, with the lead's status and a task on request.
ToolHandOff(w) ==
    /\ At(w, "tools")
    /\ HandOff(work[w].conv)
    /\ UNCHANGED <<job, lead, optOut, stored, sent, again, work, import>>

\* The model's reply may be empty.
EndTools(w) ==
    /\ At(w, "tools")
    /\ \E step \in {"reply", "finish"} : Goto(w, step)
    /\ UNCHANGED <<job, rows, sent, again, import>>

\* Faulty variant: a reply that cannot be sent makes the attempt fail, also
\* when it is the bookkeeping after the sending that failed.
SendOrFail(w) ==
    /\ At(w, "reply")
    /\ sent' = [sent EXCEPT ![work[w].message] = sent[work[w].message] + 1]
    /\ \/ Goto(w, "finish") /\ UNCHANGED job
       \/ Rest(w) /\ job' = [job EXCEPT ![work[w].message].state = "waiting"]
    /\ UNCHANGED <<rows, again, import>>

\* The reply is saved, and sent unless the quota or the provider refuses: every
\* error after the saving is swallowed.
Send(w) ==
    /\ At(w, "reply")
    /\ \/ sent' = [sent EXCEPT ![work[w].message] = sent[work[w].message] + 1]
       \/ UNCHANGED sent
    /\ Goto(w, "finish")
    /\ UNCHANGED <<job, rows, again, import>>

-----------------------------------------------------------------------------
(* Users of the office.                                                    *)

UserHandsOff(c) ==
    /\ conv[c].status # "absent"
    /\ HandOff(c)
    /\ UNCHANGED <<job, lead, optOut, stored, sent, again, work, import>>

UserOpens(l) ==
    /\ lead[l] # None
    /\ \E c \in Convs : NewConv(c, l)
    /\ UNCHANGED <<job, lead, optOut, stored, sent, again, work, import>>

UserOptsOut(l) ==
    /\ lead[l] # None
    /\ optOut' = optOut \cup {lead[l]}
    /\ UNCHANGED <<job, lead, conv, stored, sent, again, work, import>>

\* The import reads the phones that exist, then creates the others row by row.
ImportRead ==
    /\ ~import.running
    /\ import' = [running |-> TRUE, known |-> {lead[l] : l \in Leads} \ {None}]
    /\ UNCHANGED <<job, rows, sent, again, work>>

\* Faulty variant: the phones the import has created itself are not remembered.
ImportRowForgets(p) ==
    /\ import.running
    /\ p \notin import.known
    /\ \E l \in Leads : NewLead(l, p)
    /\ UNCHANGED <<job, conv, optOut, stored, sent, again, work, import>>

ImportRow(p) ==
    /\ import.running
    /\ p \notin import.known
    /\ \E l \in Leads : NewLead(l, p)
    /\ import' = [import EXCEPT !.known = import.known \cup {p}]
    /\ UNCHANGED <<job, conv, optOut, stored, sent, again, work>>

ImportEnds ==
    /\ import.running
    /\ import' = [running |-> FALSE, known |-> {}]
    /\ UNCHANGED <<job, rows, sent, again, work>>

-----------------------------------------------------------------------------

\* One awaited operation of a worker.
Advance(w) ==
    \/ FindLead(w) \/ CreateLead(w)
    \/ FindConversation(w) \/ CreateConversation(w) \/ SaveMessage(w)
    \/ Park(w) \/ Chat(w)
    \/ ToolOptOut(w) \/ ToolHandOff(w) \/ EndTools(w)
    \/ Send(w) \/ Finish(w)

Next ==
    \/ \E m \in Messages : Receive(m) \/ Recover(m) \/ Prune(m)
    \/ \E w \in Workers, m \in Messages : Take(w, m)
    \/ \E w \in Workers : Advance(w) \/ Fail(w) \/ Crash(w)
    \/ \E c \in Convs : UserHandsOff(c)
    \/ \E l \in Leads : UserOpens(l) \/ UserOptsOut(l)
    \/ \E p \in Phones : ImportRow(p)
    \/ ImportRead \/ ImportEnds

Spec == Init /\ [][Next]_vars

-----------------------------------------------------------------------------
(* Properties.                                                             *)

\* A message gets at most one WhatsApp reply for each time the queue took it
\* on without knowing of its earlier work: a failed attempt is never one that
\* has sent (queue.module.ts attempts, orchestrator.service.ts 233-241).
AnsweredOnce == \A m \in Messages : sent[m] <= 1 + again[m]

\* A message that was answered, or whose job is done, is in a conversation of
\* the office, or its sender had opted out: no other early return of
\* handleIncoming comes before the message is stored.
HandledIsStored ==
    \A m \in Messages :
        job[m].state = "done" \/ sent[m] > 0 => m \in stored \/ From[m] \in optOut

\* Who found no lead for a phone and may create one.
Creating(p) == {w \in Workers : At(w, "lead.create") /\ From[work[w].message] = p}

Pending(p) == IF import.running /\ p \notin import.known THEN 1 ELSE 0

\* Workers and import look up the phone and create the lead later, so one
\* phone can get several leads, but those there are and those still to come
\* are never more than the workers and one import.
LeadsPerPhone ==
    \A p \in Phones :
        Cardinality({l \in Leads : lead[l] = p}) + Cardinality(Creating(p))
            + Pending(p) <= Cardinality(Workers) + 1

\* A worker that has passed the check of the opt-out list for a phone.
Passed(w, p) == /\ work[w].at \notin {"idle", "finish"}
                /\ From[work[w].message] = p

\* docs/permissions-enterprise.md: an opt-out is kept and blocks later contact.
\* Once a phone has opted out and the workers let through before are done, no
\* message from it is worked on or answered again.
Silenced(p) == p \in optOut /\ \A w \in Workers : ~Passed(w, p)

OptOutHolds ==
    [][\A p \in Phones : Silenced(p) =>
          /\ Silenced(p)'
          /\ \A m \in Messages : From[m] = p => sent'[m] = sent[m]]_vars

\* A conversation that was handed to a person and that no worker holds is not
\* taken up again by the agent, and stays handed over.
LeftToHumans(c) ==
    /\ conv[c].status = "handoff"
    /\ \A w \in Workers : work[w].at \in HasConv => work[w].conv # c

QuietAfterHandoff == [][\A c \in Convs : LeftToHumans(c) => LeftToHumans(c)']_vars

=============================================================================
