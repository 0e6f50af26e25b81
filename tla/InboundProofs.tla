--------------------------- MODULE InboundProofs ---------------------------
(***************************************************************************)
(* Theorems about Inbound for every number of messages, phones, workers,   *)
(* attempts, leads and conversations.  Every step keeps the types; then    *)
(* three invariants: who holds a message, what has been done for it, and   *)
(* who may still create a lead.                                            *)
(***************************************************************************)
EXTENDS Inbound, FiniteSetTheorems, TLAPS

WorkOK == work \in [Workers -> LegalWorker]
JobOK == job \in [Messages -> JobRow]
LeadOK == lead \in [Leads -> Phones \cup {None}]
ConvOK == conv \in [Convs -> ConvRow]
SentOK == sent \in [Messages -> Nat] /\ again \in [Messages -> Nat]
SetsOK ==
    /\ optOut \in SUBSET Phones
    /\ stored \in SUBSET Messages
    /\ import \in [running: BOOLEAN, known: SUBSET Phones]

LEMMA TypeParts ==
  TypeOK <=> WorkOK /\ JobOK /\ LeadOK /\ ConvOK /\ SentOK /\ SetsOK
  BY DEF TypeOK, WorkOK, JobOK, LeadOK, ConvOK, SentOK, SetsOK

-----------------------------------------------------------------------------
(* What the shared operators do to the types.                              *)

LEMMA WorkerFacts ==
  ASSUME WorkOK, NEW w \in Workers
  PROVE  /\ work[w] \in Worker
         /\ work[w].at \in Step
         /\ ~At(w, "idle") => work[w].message \in Messages
         /\ work[w].at \in HasLead => work[w].lead \in Leads
         /\ work[w].at \in HasConv => work[w].conv \in Convs
<1>1. work[w] \in LegalWorker
  BY DEF WorkOK
<1> QED
  BY <1>1 DEF LegalWorker, Worker, At

LEMMA RestingLegal == Resting \in LegalWorker
  BY DEF Resting, LegalWorker, Worker, Step, HasLead, HasConv

LEMMA SetWorker ==
  ASSUME WorkOK, NEW w \in Workers, NEW x \in LegalWorker,
         work' = [work EXCEPT ![w] = x]
  PROVE  WorkOK'
  BY DEF WorkOK

LEMMA RestLegal ==
  ASSUME WorkOK, NEW w \in Workers, Rest(w)
  PROVE  WorkOK'
  BY RestingLegal, SetWorker DEF Rest

LEMMA GotoLegal ==
  ASSUME WorkOK, NEW w \in Workers, NEW step \in Step, Goto(w, step),
         work[w].at # "idle",
         step \in HasLead => work[w].at \in HasLead,
         step \in HasConv => work[w].at \in HasConv
  PROVE  WorkOK'
<1> DEFINE x == [work[w] EXCEPT !.at = step]
<1>1. work' = [work EXCEPT ![w] = x]
  BY DEF Goto
<1>2. x \in LegalWorker
  <2>1. work[w] \in Worker
    BY WorkerFacts
  <2>2. x \in Worker /\ x.at = step /\ x.message = work[w].message
        /\ x.lead = work[w].lead /\ x.conv = work[w].conv
    BY <2>1 DEF Worker
  <2> HIDE DEF x
  <2> QED
    BY <2>2, WorkerFacts DEF LegalWorker, At
<1> HIDE DEF x
<1> QED
  BY <1>1, <1>2, SetWorker

LEMMA HoldLeadLegal ==
  ASSUME WorkOK, NEW w \in Workers, NEW l \in Leads, HoldLead(w, l),
         work[w].at # "idle"
  PROVE  WorkOK'
<1> DEFINE x == [work[w] EXCEPT !.at = "conv.find", !.lead = l]
<1>1. work' = [work EXCEPT ![w] = x]
  BY DEF HoldLead
<1>2. x \in LegalWorker
  <2>1. work[w] \in Worker
    BY WorkerFacts
  <2>2. [work[w] EXCEPT !.at = "conv.find"] \in Worker
    BY <2>1 DEF Worker, Step
  <2>3. \A y \in Worker : [y EXCEPT !.lead = l] \in Worker
    BY DEF Worker
  <2>4. x \in Worker
    BY <2>2, <2>3
  <2>5. x.at = "conv.find" /\ x.message = work[w].message /\ x.lead = l
    BY <2>1 DEF Worker
  <2> HIDE DEF x
  <2> QED
    BY <2>4, <2>5, WorkerFacts DEF LegalWorker, At, HasLead, HasConv
<1> HIDE DEF x
<1> QED
  BY <1>1, <1>2, SetWorker

LEMMA HoldConvLegal ==
  ASSUME WorkOK, NEW w \in Workers, NEW c \in Convs, HoldConv(w, c),
         work[w].at # "idle"
  PROVE  WorkOK'
<1> DEFINE x == [work[w] EXCEPT !.at = "message", !.lead = None, !.conv = c]
<1>1. work' = [work EXCEPT ![w] = x]
  BY DEF HoldConv
<1>2. x \in LegalWorker
  <2>1. work[w] \in Worker
    BY WorkerFacts
  <2>2. [work[w] EXCEPT !.at = "message"] \in Worker
    BY <2>1 DEF Worker, Step
  <2>3. \A y \in Worker : [y EXCEPT !.lead = None] \in Worker
    BY DEF Worker
  <2>4. \A y \in Worker : [y EXCEPT !.conv = c] \in Worker
    BY DEF Worker
  <2>5. x \in Worker
    BY <2>2, <2>3, <2>4
  <2>6. x.at = "message" /\ x.message = work[w].message /\ x.conv = c
    BY <2>1 DEF Worker
  <2> HIDE DEF x
  <2> QED
    BY <2>5, <2>6, WorkerFacts DEF LegalWorker, At, HasLead, HasConv
<1> HIDE DEF x
<1> QED
  BY <1>1, <1>2, SetWorker

LEMMA SetJob ==
  ASSUME JobOK, NEW m \in Messages, NEW x \in JobRow, job' = [job EXCEPT ![m] = x]
  PROVE  JobOK'
  BY DEF JobOK

LEMMA SetState ==
  ASSUME InboundAssumption, JobOK, NEW m \in Messages, NEW s,
         s \in {"active", "done"},
         job[m].state # "failed", job' = [job EXCEPT ![m].state = s]
  PROVE  JobOK'
<1> DEFINE x == [job[m] EXCEPT !.state = s]
<1>1. job[m] \in JobRow
  BY DEF JobOK
<1>2. x \in JobRow
  BY <1>1 DEF JobRow
<1>3. job' = [job EXCEPT ![m] = x]
  OBVIOUS
<1> HIDE DEF x
<1> QED
  BY <1>2, <1>3, SetJob

LEMMA NewJob ==
  ASSUME InboundAssumption, JobOK, NEW m \in Messages
  PROVE  NoJob \in JobRow /\ [NoJob EXCEPT !.state = "waiting"] \in JobRow
<1>1. 0 \in 0..MaxAttempts /\ 0 # MaxAttempts
  BY DEF InboundAssumption
<1>2. NoJob \in JobRow /\ NoJob.failures # MaxAttempts
  BY <1>1 DEF NoJob, JobRow
<1>3. \A j \in JobRow : j.failures # MaxAttempts => [j EXCEPT !.state = "waiting"] \in JobRow
  BY DEF JobRow
<1> QED
  BY <1>2, <1>3

LEMMA NewLeadLegal ==
  ASSUME LeadOK, NEW l \in Leads, NEW p \in Phones, NewLead(l, p)
  PROVE  LeadOK'
  BY DEF LeadOK, NewLead

LEMMA NewConvLegal ==
  ASSUME ConvOK, NEW c \in Convs, NEW l \in Leads, NewConv(c, l)
  PROVE  ConvOK'
  BY DEF ConvOK, ConvRow, NewConv

LEMMA HandOffLegal ==
  ASSUME ConvOK, NEW c \in Convs, HandOff(c)
  PROVE  ConvOK'
  BY DEF ConvOK, ConvRow, HandOff

LEMMA LoseLegal ==
  ASSUME SentOK, NEW m \in Messages, Lose(m), UNCHANGED sent
  PROVE  SentOK'
  BY DEF SentOK, Lose

-----------------------------------------------------------------------------
(* Type correctness, one step per action.                                  *)

\* A worker holds a message whose job is active, and no other worker has it.
Own ==
    /\ \A w \in Workers : ~At(w, "idle") => job[work[w].message].state = "active"
    /\ \A v, w \in Workers :
          v # w /\ ~At(v, "idle") /\ ~At(w, "idle") => work[v].message # work[w].message

LEMMA TypeNext ==
  ASSUME InboundAssumption, TypeOK, Own, [Next]_vars
  PROVE  TypeOK'
<1> USE InboundAssumption
<1>0. WorkOK /\ JobOK /\ LeadOK /\ ConvOK /\ SentOK /\ SetsOK
  BY TypeParts
<1> DEFINE P == WorkOK' /\ JobOK' /\ LeadOK' /\ ConvOK' /\ SentOK' /\ SetsOK'
<1> SUFFICES P
  BY DEF P, TypeOK, WorkOK, JobOK, LeadOK, ConvOK, SentOK, SetsOK
<1> HIDE DEF P
<1>f. \A m \in Messages : From[m] \in Phones
  BY DEF InboundAssumption
<1>w. ASSUME UNCHANGED work PROVE WorkOK'
  BY <1>0, <1>w DEF WorkOK
<1>j. ASSUME UNCHANGED job PROVE JobOK'
  BY <1>0, <1>j DEF JobOK
<1>l. ASSUME UNCHANGED lead PROVE LeadOK'
  BY <1>0, <1>l DEF LeadOK
<1>c. ASSUME UNCHANGED conv PROVE ConvOK'
  BY <1>0, <1>c DEF ConvOK
<1>s. ASSUME UNCHANGED <<sent, again>> PROVE SentOK'
  BY <1>0, <1>s DEF SentOK
<1>e. ASSUME UNCHANGED <<optOut, stored, import>> PROVE SetsOK'
  BY <1>0, <1>e DEF SetsOK
<1>1. ASSUME NEW m \in Messages, Receive(m) PROVE P
  <2>1. JobOK'
    BY <1>0, <1>1, NewJob, SetJob DEF Receive
  <2> QED
    BY <1>1, <2>1, <1>w, <1>l, <1>c, <1>s, <1>e DEF Receive, rows, P
<1>2. ASSUME NEW m \in Messages, Recover(m) PROVE P
  <2> DEFINE x == [state |-> IF job[m].stalled THEN "failed" ELSE "waiting",
                   failures |-> job[m].failures, stalled |-> TRUE]
  <2>1. job[m] \in JobRow /\ job[m].state = "active"
    BY <1>0, <1>2 DEF Recover, JobOK
  <2>2. x \in JobRow
    BY <2>1 DEF JobRow
  <2>3. job' = [job EXCEPT ![m] = x]
    BY <1>2 DEF Recover
  <2> HIDE DEF x
  <2>4. JobOK'
    BY <1>0, <2>2, <2>3, SetJob
  <2> QED
    BY <1>2, <2>4, <1>w, <1>l, <1>c, <1>s, <1>e DEF Recover, rows, P
<1>3. ASSUME NEW m \in Messages, Prune(m) PROVE P
  <2>1. JobOK'
    BY <1>0, <1>3, NewJob, SetJob DEF Prune
  <2>2. SentOK'
    BY <1>0, <1>3, LoseLegal DEF Prune
  <2> QED
    BY <1>3, <2>1, <2>2, <1>w, <1>l, <1>c, <1>e DEF Prune, rows, P
<1>4. ASSUME NEW w \in Workers, NEW m \in Messages, Take(w, m) PROVE P
  <2>1. JobOK'
    BY <1>0, <1>4, SetState DEF Take
  <2> DEFINE step == IF From[m] \in optOut THEN "finish" ELSE "lead.find"
  <2> DEFINE x == [Resting EXCEPT !.message = m, !.at = step]
  <2>2. x \in LegalWorker
    BY DEF Resting, LegalWorker, Worker, Step, HasLead, HasConv
  <2>3. work' = [work EXCEPT ![w] = x]
    BY <1>4 DEF Take
  <2> HIDE DEF x
  <2>4. WorkOK'
    BY <1>0, <2>2, <2>3, SetWorker
  <2> QED
    BY <1>4, <2>1, <2>4, <1>l, <1>c, <1>s, <1>e DEF Take, rows, P
<1>5. ASSUME NEW w \in Workers, Fail(w) PROVE P
  <2>1. work[w].message \in Messages
    BY <1>0, <1>5, WorkerFacts DEF Fail, Throws, At
  <2> DEFINE m == work[w].message
  <2> DEFINE n == job[m].failures + 1
  <2> DEFINE x == [state |-> IF n = MaxAttempts THEN "failed" ELSE "waiting",
                   failures |-> n, stalled |-> job[m].stalled]
  <2>2. job[m] \in JobRow /\ job[m].state = "active"
    BY <1>0, <1>5, <2>1 DEF JobOK, Own, Fail, Throws, At
  <2>3. x \in JobRow
    BY <2>2 DEF JobRow, InboundAssumption
  <2>4. job' = [job EXCEPT ![m] = x]
    BY <1>5 DEF Fail
  <2> HIDE DEF x
  <2>5. JobOK'
    BY <1>0, <2>1, <2>3, <2>4, SetJob
  <2>6. WorkOK'
    BY <1>0, <1>5, RestLegal DEF Fail
  <2> QED
    BY <1>5, <2>5, <2>6, <1>l, <1>c, <1>s, <1>e DEF Fail, rows, P
<1>6. ASSUME NEW w \in Workers, Crash(w) PROVE P
  <2>1. work[w].message \in Messages
    BY <1>0, <1>6, WorkerFacts DEF Crash
  <2>2. WorkOK' /\ SentOK'
    BY <1>0, <1>6, <2>1, RestLegal, LoseLegal DEF Crash
  <2> QED
    BY <1>6, <2>2, <1>j, <1>l, <1>c, <1>e DEF Crash, rows, P
<1>7. ASSUME NEW w \in Workers, Advance(w) PROVE P
  <2> USE DEF HasLead, HasConv, Step
  <2>0. ~At(w, "idle") => work[w].message \in Messages /\ From[work[w].message] \in Phones
    BY <1>0, <1>f, WorkerFacts
  <2>1. CASE FindLead(w)
    <3>1. WorkOK'
      BY <1>0, <2>1, GotoLegal, HoldLeadLegal DEF FindLead, At
    <3> QED
      BY <2>1, <3>1, <1>j, <1>l, <1>c, <1>s, <1>e DEF FindLead, rows, P
  <2>2. CASE CreateLead(w)
    <3>1. PICK l \in Leads : NewLead(l, From[work[w].message]) /\ HoldLead(w, l)
      BY <2>2 DEF CreateLead
    <3>2. WorkOK' /\ LeadOK'
      BY <1>0, <2>0, <2>2, <3>1, HoldLeadLegal, NewLeadLegal DEF CreateLead, At
    <3> QED
      BY <2>2, <3>2, <1>j, <1>c, <1>s, <1>e DEF CreateLead, P
  <2>3. CASE FindConversation(w)
    <3>1. WorkOK'
      BY <1>0, <2>3, GotoLegal, HoldConvLegal DEF FindConversation, Open, At
    <3> QED
      BY <2>3, <3>1, <1>j, <1>l, <1>c, <1>s, <1>e DEF FindConversation, rows, P
  <2>4. CASE CreateConversation(w)
    <3>1. PICK c \in Convs : NewConv(c, work[w].lead) /\ HoldConv(w, c)
      BY <2>4 DEF CreateConversation
    <3>2. work[w].lead \in Leads
      BY <1>0, <2>4, WorkerFacts DEF CreateConversation, At
    <3>3. WorkOK' /\ ConvOK'
      BY <1>0, <2>4, <3>1, <3>2, HoldConvLegal, NewConvLegal DEF CreateConversation, At
    <3> QED
      BY <2>4, <3>3, <1>j, <1>l, <1>s, <1>e DEF CreateConversation, P
  <2>5. CASE SaveMessage(w)
    <3>1. WorkOK'
      BY <1>0, <2>5, GotoLegal DEF SaveMessage, At
    <3>2. SetsOK'
      BY <1>0, <2>0, <2>5 DEF SetsOK, SaveMessage, At
    <3> QED
      BY <2>5, <3>1, <3>2, <1>j, <1>l, <1>c, <1>s DEF SaveMessage, P
  <2>6. CASE Park(w)
    <3>1. work[w].conv \in Convs
      BY <1>0, <2>6, WorkerFacts DEF Park, At
    <3>2. WorkOK' /\ ConvOK'
      BY <1>0, <2>6, <3>1, GotoLegal, HandOffLegal DEF Park, At
    <3> QED
      BY <2>6, <3>2, <1>j, <1>l, <1>s, <1>e DEF Park, P
  <2>7. CASE Chat(w)
    <3>1. WorkOK'
      BY <1>0, <2>7, GotoLegal DEF Chat, At
    <3> QED
      BY <2>7, <3>1, <1>j, <1>l, <1>c, <1>s, <1>e DEF Chat, rows, P
  <2>8. CASE ToolOptOut(w)
    <3>1. SetsOK'
      BY <1>0, <2>0, <2>8 DEF SetsOK, ToolOptOut, At
    <3> QED
      BY <2>8, <3>1, <1>w, <1>j, <1>l, <1>c, <1>s DEF ToolOptOut, P
  <2>9. CASE ToolHandOff(w)
    <3>1. work[w].conv \in Convs
      BY <1>0, <2>9, WorkerFacts DEF ToolHandOff, At
    <3>2. ConvOK'
      BY <1>0, <2>9, <3>1, HandOffLegal DEF ToolHandOff
    <3> QED
      BY <2>9, <3>2, <1>w, <1>j, <1>l, <1>s, <1>e DEF ToolHandOff, P
  <2>10. CASE EndTools(w)
    <3>1. WorkOK'
      BY <1>0, <2>10, GotoLegal DEF EndTools, At
    <3> QED
      BY <2>10, <3>1, <1>j, <1>l, <1>c, <1>s, <1>e DEF EndTools, rows, P
  <2>11. CASE Send(w)
    <3>1. WorkOK'
      BY <1>0, <2>11, GotoLegal DEF Send, At
    <3>2. SentOK'
      BY <1>0, <2>0, <2>11 DEF SentOK, Send, At
    <3> QED
      BY <2>11, <3>1, <3>2, <1>j, <1>l, <1>c, <1>e DEF Send, rows, P
  <2>12. CASE Finish(w)
    <3>1. job[work[w].message].state = "active"
      BY <1>0, <2>12 DEF Finish, Own, At
    <3>2. WorkOK' /\ JobOK'
      BY <1>0, <2>0, <2>12, <3>1, RestLegal, SetState DEF Finish, At
    <3> QED
      BY <2>12, <3>2, <1>l, <1>c, <1>s, <1>e DEF Finish, rows, P
  <2> QED
    BY <1>7, <2>1, <2>2, <2>3, <2>4, <2>5, <2>6, <2>7, <2>8, <2>9, <2>10, <2>11, <2>12
       DEF Advance
<1>8. ASSUME NEW c \in Convs, UserHandsOff(c) PROVE P
  <2>1. ConvOK'
    BY <1>0, <1>8, HandOffLegal DEF UserHandsOff
  <2> QED
    BY <1>8, <2>1, <1>w, <1>j, <1>l, <1>s, <1>e DEF UserHandsOff, P
<1>9. ASSUME NEW l \in Leads, UserOpens(l) PROVE P
  <2>1. ConvOK'
    BY <1>0, <1>9, NewConvLegal DEF UserOpens
  <2> QED
    BY <1>9, <2>1, <1>w, <1>j, <1>l, <1>s, <1>e DEF UserOpens, P
<1>10. ASSUME NEW l \in Leads, UserOptsOut(l) PROVE P
  <2>1. SetsOK'
    BY <1>0, <1>10 DEF SetsOK, LeadOK, UserOptsOut
  <2> QED
    BY <1>10, <2>1, <1>w, <1>j, <1>l, <1>c, <1>s DEF UserOptsOut, P
<1>11. ASSUME NEW p \in Phones, ImportRow(p) PROVE P
  <2>1. LeadOK'
    BY <1>0, <1>11, NewLeadLegal DEF ImportRow
  <2>2. SetsOK'
    BY <1>0, <1>11 DEF SetsOK, ImportRow
  <2> QED
    BY <1>11, <2>1, <2>2, <1>w, <1>j, <1>c, <1>s DEF ImportRow, P
<1>12. CASE ImportRead
  <2>1. SetsOK'
    BY <1>0, <1>12 DEF SetsOK, LeadOK, ImportRead, rows
  <2> QED
    BY <1>12, <2>1, <1>w, <1>j, <1>l, <1>c, <1>s DEF ImportRead, rows, P
<1>13. CASE ImportEnds
  <2>1. SetsOK'
    BY <1>0, <1>13 DEF SetsOK, ImportEnds, rows
  <2> QED
    BY <1>13, <2>1, <1>w, <1>j, <1>l, <1>c, <1>s DEF ImportEnds, rows, P
<1>14. CASE UNCHANGED vars
  BY <1>14, <1>w, <1>j, <1>l, <1>c, <1>s, <1>e DEF vars, P
<1> QED
  BY <1>1, <1>2, <1>3, <1>4, <1>5, <1>6, <1>7, <1>8, <1>9, <1>10, <1>11, <1>12, <1>13,
     <1>14 DEF Next

-----------------------------------------------------------------------------
(* Who holds a message, and what was done for it.                          *)

IdleHoldsNothing == \A w \in Workers : At(w, "idle") => work[w] = Resting

Inv == TypeOK /\ Own /\ IdleHoldsNothing

LEMMA InitInv ==
  ASSUME InboundAssumption, Init
  PROVE  Inv
<1>1. JobOK /\ LeadOK /\ ConvOK /\ SentOK /\ SetsOK
  <2>1. JobOK
    <3>1. NoJob \in JobRow
      BY NewJob DEF InboundAssumption, JobRow, NoJob
    <3> QED
      BY <3>1 DEF Init, JobOK
  <2>2. ConvOK
    BY DEF Init, ConvOK, ConvRow
  <2> QED
    BY <2>1, <2>2 DEF Init, LeadOK, SentOK, SetsOK
<1>2. WorkOK /\ \A w \in Workers : work[w] = Resting
  BY RestingLegal DEF Init, WorkOK
<1> QED
  BY <1>1, <1>2, TypeParts DEF Inv, Own, IdleHoldsNothing, At, Resting

\* The worker goes on with the message it holds.
Moves(w) ==
    /\ UNCHANGED job
    /\ work[w].at \notin {"idle", "finish"}
    /\ work'[w].at # "idle"
    /\ work'[w].message = work[w].message
    /\ \A v \in Workers : v # w => work'[v] = work[v]

\* The worker lets go of its message.
LetsGo(w) ==
    /\ ~At(w, "idle")
    /\ work'[w] = Resting
    /\ \A v \in Workers : v # w => work'[v] = work[v]

LEMMA GotoMoves ==
  ASSUME WorkOK, NEW w \in Workers, work[w].at \notin {"idle", "finish"},
         UNCHANGED job,
         \/ \E step \in Step \ {"idle"} : Goto(w, step)
         \/ \E l \in Leads : HoldLead(w, l)
         \/ \E c \in Convs : HoldConv(w, c)
  PROVE  Moves(w)
<1>1. work[w] \in Worker
  BY WorkerFacts
<1>2. CASE \E step \in Step \ {"idle"} : Goto(w, step)
  BY <1>1, <1>2 DEF WorkOK, Goto, Moves, Worker
<1>3. CASE \E l \in Leads : HoldLead(w, l)
  BY <1>1, <1>3 DEF WorkOK, HoldLead, Moves, Worker
<1>4. CASE \E c \in Convs : HoldConv(w, c)
  BY <1>1, <1>4 DEF WorkOK, HoldConv, Moves, Worker
<1> QED
  BY <1>2, <1>3, <1>4

LEMMA RestLetsGo ==
  ASSUME WorkOK, NEW w \in Workers, ~At(w, "idle"), Rest(w)
  PROVE  LetsGo(w)
  BY DEF WorkOK, Rest, LetsGo

LEMMA AdvanceMoves ==
  ASSUME WorkOK, NEW w \in Workers, Advance(w), ~Finish(w)
  PROVE  Moves(w) \/ UNCHANGED <<job, work>>
<1>1. CASE ToolOptOut(w) \/ ToolHandOff(w)
  BY <1>1 DEF ToolOptOut, ToolHandOff
<1>2. CASE FindLead(w) \/ CreateLead(w) \/ FindConversation(w)
  BY <1>2, GotoMoves DEF FindLead, CreateLead, FindConversation, Open, At, Step
<1>3. CASE CreateConversation(w) \/ SaveMessage(w) \/ Park(w)
  BY <1>3, GotoMoves DEF CreateConversation, SaveMessage, Park, At, Step
<1>4. CASE Chat(w) \/ EndTools(w) \/ Send(w)
  BY <1>4, GotoMoves DEF Chat, EndTools, Send, At, Step
<1> QED
  BY <1>1, <1>2, <1>3, <1>4 DEF Advance

LEMMA OwnMoves ==
  ASSUME Own, IdleHoldsNothing, NEW w \in Workers, Moves(w)
  PROVE  Own' /\ IdleHoldsNothing'
  BY DEF Own, IdleHoldsNothing, Moves, At

LEMMA OwnLetsGo ==
  ASSUME Own, IdleHoldsNothing, NEW w \in Workers, LetsGo(w),
         \A m \in Messages : m # work[w].message => job'[m] = job[m],
         WorkOK
  PROVE  Own' /\ IdleHoldsNothing'
<1>1. \A v \in Workers : ~At(v, "idle") => work[v].message \in Messages
  BY WorkerFacts
<1> QED
  BY <1>1 DEF Own, IdleHoldsNothing, LetsGo, At, Resting

LEMMA OwnNext ==
  ASSUME InboundAssumption, Inv, [Next]_vars
  PROVE  Inv'
<1>0. TypeOK' /\ WorkOK /\ JobOK
  BY TypeNext, TypeParts DEF Inv
<1>a. Own /\ IdleHoldsNothing
  BY DEF Inv
<1> SUFFICES Own' /\ IdleHoldsNothing'
  BY <1>0 DEF Inv
<1>m. \A v \in Workers : ~At(v, "idle") => work[v].message \in Messages
  BY <1>0, WorkerFacts
<1>1. CASE UNCHANGED <<job, work>>
  BY <1>a, <1>1 DEF Own, IdleHoldsNothing, At
<1>2. ASSUME NEW m \in Messages, Receive(m) \/ Recover(m) \/ Prune(m)
      PROVE  Own' /\ IdleHoldsNothing'
  <2>1. /\ UNCHANGED work
        /\ \A n \in Messages : n # m => job'[n] = job[n]
        /\ \A v \in Workers : ~At(v, "idle") => work[v].message # m
    BY <1>0, <1>2, <1>a DEF Receive, Recover, Prune, JobOK, Own
  <2> QED
    BY <1>a, <1>m, <2>1 DEF Own, IdleHoldsNothing, At
<1>3. ASSUME NEW w \in Workers, NEW m \in Messages, Take(w, m)
      PROVE  Own' /\ IdleHoldsNothing'
  <2>1. /\ work'[w].message = m /\ work'[w].at # "idle"
        /\ \A v \in Workers : v # w => work'[v] = work[v]
        /\ job'[m].state = "active" /\ job[m].state = "waiting"
        /\ \A n \in Messages : n # m => job'[n] = job[n]
    BY <1>0, <1>3 DEF Take, JobOK, JobRow, WorkOK, Resting
  <2> QED
    BY <1>a, <1>m, <2>1 DEF Own, IdleHoldsNothing, At
<1>4. ASSUME NEW w \in Workers, Fail(w) \/ Crash(w) \/ Finish(w)
      PROVE  Own' /\ IdleHoldsNothing'
  <2>1. ~At(w, "idle") /\ Rest(w)
    BY <1>4 DEF Fail, Crash, Finish, Throws, At
  <2>2. \A n \in Messages : n # work[w].message => job'[n] = job[n]
    BY <1>0, <1>4 DEF Fail, Crash, Finish, JobOK
  <2> QED
    BY <1>0, <1>a, <2>1, <2>2, RestLetsGo, OwnLetsGo
<1>5. ASSUME NEW w \in Workers, Advance(w)
      PROVE  Own' /\ IdleHoldsNothing'
  BY <1>0, <1>1, <1>4, <1>5, <1>a, AdvanceMoves, OwnMoves
<1>6. CASE UNCHANGED vars
  BY <1>1, <1>6 DEF vars
<1>7. ASSUME NEW c \in Convs, UserHandsOff(c) PROVE UNCHANGED <<job, work>>
  BY <1>7 DEF UserHandsOff
<1>8. ASSUME NEW l \in Leads, UserOpens(l) \/ UserOptsOut(l)
      PROVE  UNCHANGED <<job, work>>
  BY <1>8 DEF UserOpens, UserOptsOut
<1>9. ASSUME \/ \E p \in Phones : ImportRow(p)
             \/ ImportRead \/ ImportEnds
      PROVE  UNCHANGED <<job, work>>
  BY <1>9 DEF ImportRow, ImportRead, ImportEnds
<1> QED
  BY <1>1, <1>2, <1>3, <1>4, <1>5, <1>6, <1>7, <1>8, <1>9 DEF Next

LEMMA Invariance ==
  ASSUME InboundAssumption
  PROVE  Spec => []Inv
<1>1. Init => Inv
  BY InitInv
<1>2. Inv /\ [Next]_vars => Inv'
  BY OwnNext
<1> QED
  BY <1>1, <1>2, PTL DEF Spec

\* Rows, queue and workers keep their types, whatever fails or crashes.
THEOREM TypeCorrect == Spec => []TypeOK
<1>1. Inv => TypeOK
  BY DEF Inv
<1> QED
  BY <1>1, Invariance, InboundAssumption, PTL

-----------------------------------------------------------------------------
(* Opt-outs and handoffs.                                                  *)

LEMMA FirstStep ==
  ASSUME WorkOK, NEW w \in Workers, NEW m \in Messages, Take(w, m)
  PROVE  /\ work'[w].message = m
         /\ work'[w].at = IF From[m] \in optOut THEN "finish" ELSE "lead.find"
         /\ \A v \in Workers : v # w => work'[v] = work[v]
  BY DEF Take, WorkOK, Resting

LEMMA OptOutStep ==
  ASSUME InboundAssumption, Inv, [Next]_vars, NEW p \in Phones, Silenced(p)
  PROVE  /\ Silenced(p)'
         /\ \A m \in Messages : From[m] = p => sent'[m] = sent[m]
<1> DEFINE G == Silenced(p)' /\ \A m \in Messages : From[m] = p => sent'[m] = sent[m]
<1> SUFFICES G
  OBVIOUS
<1> HIDE DEF G
<1>0. WorkOK /\ SentOK /\ SetsOK
  BY TypeParts DEF Inv
<1>a. p \in optOut /\ \A w \in Workers : ~Passed(w, p)
  BY DEF Silenced
<1>1. ASSUME optOut \subseteq optOut', UNCHANGED <<work, sent>> PROVE G
  BY <1>1, <1>a DEF G, Silenced, Passed
<1>2. ASSUME NEW w \in Workers, optOut \subseteq optOut', UNCHANGED sent,
             LetsGo(w) \/ Moves(w)
      PROVE  G
  <2>1. ~Passed(w, p)'
    BY <1>2, <1>a DEF LetsGo, Moves, Passed, Resting
  <2> QED
    BY <1>2, <1>a, <2>1 DEF G, Silenced, Passed, LetsGo, Moves
<1>3. ASSUME NEW m \in Messages, Receive(m) \/ Recover(m) \/ Prune(m) PROVE G
  BY <1>1, <1>3 DEF Receive, Recover, Prune, rows
<1>4. ASSUME NEW w \in Workers, NEW m \in Messages, Take(w, m) PROVE G
  <2>1. ~Passed(w, p)'
    BY <1>0, <1>4, <1>a, FirstStep DEF Passed
  <2> QED
    BY <1>0, <1>4, <1>a, <2>1, FirstStep DEF G, Silenced, Passed, Take, rows
<1>5. ASSUME NEW w \in Workers, Fail(w) \/ Crash(w) \/ Finish(w) PROVE G
  <2>1. ~At(w, "idle") /\ Rest(w)
    BY <1>5 DEF Fail, Crash, Finish, Throws, At
  <2> QED
    BY <1>0, <1>2, <1>5, <2>1, RestLetsGo DEF Fail, Crash, Finish, rows
<1>6. ASSUME NEW w \in Workers, Advance(w) PROVE G
  <2>1. CASE Send(w)
    <3>1. Moves(w) \/ UNCHANGED <<job, work>>
      BY <1>0, <1>6, <2>1, AdvanceMoves DEF Send, Finish, At
    <3>2. From[work[w].message] # p
      BY <1>a, <2>1 DEF Send, Passed, At
    <3>3. \A m \in Messages : From[m] = p => sent'[m] = sent[m]
      BY <1>0, <2>1, <3>2 DEF Send, SentOK
    <3>4. Silenced(p)'
      BY <1>a, <2>1, <3>1, <3>2 DEF Silenced, Passed, Moves, Send, rows
    <3> QED
      BY <3>3, <3>4 DEF G
  <2>2. CASE ~Send(w)
    <3>1. optOut \subseteq optOut' /\ UNCHANGED sent
      BY <1>6, <2>2 DEF Advance, FindLead, CreateLead, FindConversation,
         CreateConversation, SaveMessage, Park, Chat, ToolOptOut, ToolHandOff,
         EndTools, Finish, rows
    <3> QED
      BY <1>0, <1>1, <1>2, <1>5, <1>6, <3>1, AdvanceMoves
  <2> QED
    BY <2>1, <2>2
<1>7. ASSUME NEW c \in Convs, UserHandsOff(c) PROVE G
  BY <1>1, <1>7 DEF UserHandsOff
<1>8. ASSUME NEW l \in Leads, UserOpens(l) \/ UserOptsOut(l) PROVE G
  BY <1>1, <1>8 DEF UserOpens, UserOptsOut
<1>9. ASSUME NEW q \in Phones, ImportRow(q) PROVE G
  BY <1>1, <1>9 DEF ImportRow
<1>10. CASE ImportRead \/ ImportEnds \/ UNCHANGED vars
  BY <1>1, <1>10 DEF ImportRead, ImportEnds, vars, rows
<1> QED
  BY <1>3, <1>4, <1>5, <1>6, <1>7, <1>8, <1>9, <1>10 DEF Next

\* An opt-out holds for good: once the workers let through before it are done,
\* no message from the phone is worked on or answered, in no schedule of
\* retries, crashes and redeliveries.
THEOREM OptOutKept == Spec => OptOutHolds
<1> DEFINE A == \A p \in Phones : Silenced(p) =>
                   /\ Silenced(p)'
                   /\ \A m \in Messages : From[m] = p => sent'[m] = sent[m]
<1>1. Inv /\ [Next]_vars => [A]_vars
  BY OptOutStep, InboundAssumption
<1> QED
  BY <1>1, Invariance, InboundAssumption, PTL DEF Spec, OptOutHolds

LEMMA HandoffStep ==
  ASSUME Inv, [Next]_vars, NEW c \in Convs, LeftToHumans(c)
  PROVE  LeftToHumans(c)'
<1>0. WorkOK /\ ConvOK
  BY TypeParts DEF Inv
<1>a. conv[c].status = "handoff" /\ \A w \in Workers : work[w].at \in HasConv => work[w].conv # c
  BY DEF LeftToHumans
<1>g. ASSUME conv'[c].status = "handoff", UNCHANGED work PROVE LeftToHumans(c)'
  BY <1>a, <1>g DEF LeftToHumans
<1>h. ASSUME NEW d, HandOff(d) PROVE conv'[c].status = "handoff"
  BY <1>0, <1>a, <1>h DEF HandOff, ConvOK, ConvRow
<1>n. ASSUME NEW d, NEW l, NewConv(d, l) PROVE conv'[c].status = "handoff"
  BY <1>0, <1>a, <1>n DEF NewConv, ConvOK
<1>w. ASSUME NEW w \in Workers, conv'[c].status = "handoff",
             \A v \in Workers : v # w => work'[v] = work[v],
             work'[w].at \in HasConv => work'[w].conv # c
      PROVE  LeftToHumans(c)'
  BY <1>a, <1>w DEF LeftToHumans
<1>o. ASSUME NEW w \in Workers, NEW step, Goto(w, step),
             step \in HasConv => work[w].at \in HasConv, conv'[c].status = "handoff"
      PROVE  LeftToHumans(c)'
  <2>1. /\ work'[w].at = step /\ work'[w].conv = work[w].conv
        /\ \A v \in Workers : v # w => work'[v] = work[v]
    BY <1>0, <1>o, WorkerFacts DEF Goto, WorkOK, Worker
  <2> QED
    BY <1>o, <1>w, <1>a, <2>1
<1>r. ASSUME NEW w \in Workers, Rest(w), conv'[c].status = "handoff"
      PROVE  LeftToHumans(c)'
  <2>1. /\ work'[w].at = "idle"
        /\ \A v \in Workers : v # w => work'[v] = work[v]
    BY <1>0, <1>r DEF Rest, WorkOK, Resting
  <2> QED
    BY <1>r, <1>w, <2>1 DEF HasConv
<1>1. ASSUME NEW m \in Messages, Receive(m) \/ Recover(m) \/ Prune(m)
      PROVE  LeftToHumans(c)'
  BY <1>1, <1>a, <1>g DEF Receive, Recover, Prune, rows
<1>2. ASSUME NEW w \in Workers, NEW m \in Messages, Take(w, m)
      PROVE  LeftToHumans(c)'
  <2>1. conv'[c].status = "handoff"
    BY <1>2, <1>a DEF Take, rows
  <2> QED
    BY <1>0, <1>2, <1>w, <2>1, FirstStep DEF HasConv
<1>3. ASSUME NEW w \in Workers, Fail(w) \/ Crash(w) \/ Finish(w)
      PROVE  LeftToHumans(c)'
  BY <1>3, <1>a, <1>r DEF Fail, Crash, Finish, rows
<1>4. ASSUME NEW w \in Workers, Advance(w) PROVE LeftToHumans(c)'
  <2> USE DEF HasConv, At
  <2>1. CASE FindLead(w)
    <3>1. conv'[c].status = "handoff"
      BY <1>a, <2>1 DEF FindLead, rows
    <3>2. CASE \E l \in Leads : HoldLead(w, l)
      <4>1. /\ work'[w].at = "conv.find"
            /\ \A v \in Workers : v # w => work'[v] = work[v]
        BY <1>0, <3>2, WorkerFacts DEF HoldLead, WorkOK, Worker
      <4> QED
        BY <1>w, <3>1, <4>1
    <3> QED
      BY <2>1, <1>o, <3>1, <3>2 DEF FindLead
  <2>2. CASE CreateLead(w)
    <3>1. conv'[c].status = "handoff"
      BY <1>a, <2>2 DEF CreateLead
    <3>2. /\ work'[w].at = "conv.find"
          /\ \A v \in Workers : v # w => work'[v] = work[v]
      BY <1>0, <2>2, WorkerFacts DEF CreateLead, HoldLead, WorkOK, Worker
    <3> QED
      BY <1>w, <3>1, <3>2
  <2>3. CASE FindConversation(w)
    <3>1. conv'[c].status = "handoff"
      BY <1>a, <2>3 DEF FindConversation, rows
    <3>2. CASE \E d \in Open(work[w].lead) : HoldConv(w, d)
      <4>1. PICK d \in Open(work[w].lead) : HoldConv(w, d)
        BY <3>2
      <4>2. d # c
        BY <1>a DEF Open
      <4>3. /\ work'[w].conv = d
            /\ \A v \in Workers : v # w => work'[v] = work[v]
        BY <1>0, <4>1, WorkerFacts DEF HoldConv, WorkOK, Worker
      <4> QED
        BY <1>w, <3>1, <4>2, <4>3
    <3> QED
      BY <2>3, <1>o, <3>1, <3>2 DEF FindConversation
  <2>4. CASE CreateConversation(w)
    <3>1. PICK d \in Convs : NewConv(d, work[w].lead) /\ HoldConv(w, d)
      BY <2>4 DEF CreateConversation
    <3>2. conv'[c].status = "handoff" /\ d # c
      BY <1>a, <1>n, <3>1 DEF NewConv
    <3>3. /\ work'[w].conv = d
          /\ \A v \in Workers : v # w => work'[v] = work[v]
      BY <1>0, <3>1, WorkerFacts DEF HoldConv, WorkOK, Worker
    <3> QED
      BY <1>w, <3>2, <3>3
  <2>5. CASE SaveMessage(w) \/ Chat(w) \/ EndTools(w) \/ Send(w)
    BY <2>5, <1>a, <1>o DEF SaveMessage, Chat, EndTools, Send, rows
  <2>6. CASE Park(w)
    BY <2>6, <1>h, <1>o DEF Park
  <2>7. CASE ToolOptOut(w) \/ ToolHandOff(w)
    BY <2>7, <1>a, <1>g, <1>h DEF ToolOptOut, ToolHandOff
  <2> QED
    BY <1>3, <1>4, <2>1, <2>2, <2>3, <2>4, <2>5, <2>6, <2>7 DEF Advance
<1>5. ASSUME NEW d \in Convs, UserHandsOff(d) PROVE LeftToHumans(c)'
  BY <1>5, <1>g, <1>h DEF UserHandsOff
<1>6. ASSUME NEW l \in Leads, UserOpens(l) \/ UserOptsOut(l) PROVE LeftToHumans(c)'
  BY <1>6, <1>a, <1>g, <1>n DEF UserOpens, UserOptsOut
<1>7. ASSUME \/ \E q \in Phones : ImportRow(q)
             \/ ImportRead \/ ImportEnds \/ UNCHANGED vars
      PROVE  LeftToHumans(c)'
  BY <1>7, <1>a, <1>g DEF ImportRow, ImportRead, ImportEnds, vars, rows
<1> QED
  BY <1>1, <1>2, <1>3, <1>4, <1>5, <1>6, <1>7 DEF Next

\* A conversation handed to a person stays with people: the agent never takes
\* it up again, whatever messages arrive and whoever opens conversations.
THEOREM HandoffKept == Spec => QuietAfterHandoff
<1>1. Inv /\ [Next]_vars => [\A c \in Convs : LeftToHumans(c) => LeftToHumans(c)']_vars
  BY HandoffStep
<1> QED
  BY <1>1, Invariance, InboundAssumption, PTL DEF Spec, QuietAfterHandoff

-----------------------------------------------------------------------------
(* Replies and saved messages.                                             *)

\* Every reply is followed by a loss, but the one whose job is ending or done.
Counted ==
    \A m \in Messages :
        /\ sent[m] <= 1 + again[m]
        /\ sent[m] > again[m] =>
              \/ job[m].state = "done"
              \/ \E w \in Workers : At(w, "finish") /\ work[w].message = m

\* Workers past the saving hold messages that are saved.
Saved ==
    \A w \in Workers :
        /\ work[w].at \in {"chat", "tools", "reply"} => work[w].message \in stored
        /\ At(w, "finish") => \/ work[w].message \in stored
                              \/ From[work[w].message] \in optOut

Kept == Counted /\ Saved /\ HandledIsStored

LEMMA InitKept == InboundAssumption /\ Init => Kept
  BY DEF InboundAssumption, Init, Kept, Counted, Saved, HandledIsStored, Resting, NoJob, At

LEMMA KeptStep ==
  ASSUME InboundAssumption, Inv, Kept, [Next]_vars
  PROVE  Kept'
<1>0. WorkOK /\ SentOK /\ SetsOK /\ JobOK
  BY TypeParts DEF Inv
<1>a. Own /\ Counted /\ Saved /\ HandledIsStored
  BY DEF Inv, Kept
<1>n. \A m \in Messages : sent[m] \in Nat /\ again[m] \in Nat
  BY <1>0 DEF SentOK
<1> SUFFICES Counted' /\ Saved' /\ HandledIsStored'
  BY DEF Kept
<1> DEFINE G == Counted' /\ Saved' /\ HandledIsStored'
<1> SUFFICES G
  OBVIOUS
<1> HIDE DEF G
<1>q. ASSUME stored \subseteq stored', optOut \subseteq optOut',
             UNCHANGED <<job, work, sent, again>>
      PROVE  G
  BY <1>a, <1>q DEF G, Counted, Saved, HandledIsStored, At
<1>j. ASSUME NEW m \in Messages, UNCHANGED <<work, sent, stored, optOut>>,
             \A n \in Messages : n # m => job'[n] = job[n] /\ again'[n] = again[n],
             again'[m] \in Nat, sent[m] <= again'[m], job'[m].state # "done"
      PROVE  G
  BY <1>a, <1>n, <1>j DEF G, Counted, Saved, HandledIsStored, At
<1>o. ASSUME NEW w \in Workers, ~At(w, "idle")
      PROVE  /\ work[w].message \in Messages
             /\ job[work[w].message].state = "active"
             /\ \A v \in Workers : v # w /\ ~At(v, "idle")
                   => work[v].message # work[w].message
  BY <1>0, <1>a, <1>o, WorkerFacts DEF Own
<1>1. ASSUME NEW m \in Messages, Receive(m) PROVE G
  <2>1. sent[m] <= again[m]
    BY <1>1, <1>a, <1>o, <1>n DEF Receive, Counted, At
  <2> QED
    BY <1>0, <1>1, <2>1, <1>j, <1>n DEF Receive, rows, JobOK
<1>2. ASSUME NEW m \in Messages, Recover(m) PROVE G
  <2>1. sent[m] <= again[m]
    BY <1>2, <1>a, <1>n DEF Recover, Counted
  <2> QED
    BY <1>0, <1>2, <2>1, <1>j, <1>n DEF Recover, rows, JobOK
<1>3. ASSUME NEW m \in Messages, Prune(m) PROVE G
  <2>1. sent[m] <= again'[m] /\ again'[m] \in Nat
    BY <1>0, <1>3, <1>a, <1>n DEF Prune, Lose, Counted, SentOK
  <2> QED
    BY <1>0, <1>3, <2>1, <1>j DEF Prune, rows, JobOK, Lose, SentOK, NoJob
<1>4. ASSUME NEW w \in Workers, NEW m \in Messages, Take(w, m) PROVE G
  <2>1. sent[m] <= again[m]
    BY <1>4, <1>a, <1>o, <1>n DEF Take, Counted, At
  <2>2. /\ job'[m].state = "active"
        /\ \A n \in Messages : n # m => job'[n] = job[n]
        /\ UNCHANGED <<stored, optOut, sent, again>>
        /\ At(w, "idle")
    BY <1>0, <1>4 DEF Take, rows, JobOK, JobRow
  <2>3. Counted'
    BY <1>0, <1>a, <1>n, <1>4, <2>1, <2>2, FirstStep DEF Counted, At
  <2>4. Saved'
    BY <1>0, <1>a, <1>4, <2>2, FirstStep DEF Saved, At
  <2>5. HandledIsStored'
    BY <1>a, <2>2 DEF HandledIsStored
  <2> QED
    BY <2>3, <2>4, <2>5 DEF G
<1>5. ASSUME NEW w \in Workers, Fail(w) \/ Crash(w) PROVE G
  <2> DEFINE m == work[w].message
  <2>1. ~At(w, "idle") /\ Rest(w)
    BY <1>5 DEF Fail, Crash, Throws, At
  <2>2. LetsGo(w) /\ m \in Messages
    BY <1>0, <1>o, <2>1, RestLetsGo
  <2>3. /\ sent[m] <= again'[m] /\ again'[m] \in Nat /\ job'[m].state # "done"
        /\ \A n \in Messages : n # m => job'[n] = job[n] /\ again'[n] = again[n]
        /\ UNCHANGED <<stored, optOut, sent>>
    <3>1. CASE Fail(w)
      <4>1. sent[m] <= again[m]
        BY <1>a, <1>o, <1>n, <2>1, <3>1 DEF Fail, Throws, Counted, At
      <4> QED
        BY <1>0, <1>n, <2>2, <3>1, <4>1 DEF Fail, rows, JobOK
    <3>2. CASE Crash(w)
      BY <1>0, <1>a, <1>n, <1>o, <2>1, <2>2, <3>2 DEF Crash, Lose, rows, SentOK, Counted
    <3> QED
      BY <1>5, <3>1, <3>2
  <2> HIDE DEF m
  <2>4. Counted'
    <3> SUFFICES ASSUME NEW n \in Messages
                 PROVE  /\ sent'[n] <= 1 + again'[n]
                        /\ sent'[n] > again'[n] =>
                             \/ job'[n].state = "done"
                             \/ \E v \in Workers : At(v, "finish")' /\ work'[v].message = n
      BY DEF Counted
    <3>1. CASE n = m
      BY <2>3, <3>1, <1>n
    <3>2. CASE n # m
      BY <1>a, <1>n, <2>2, <2>3, <3>2 DEF Counted, LetsGo, At, m
    <3> QED
      BY <3>1, <3>2
  <2>5. Saved'
    BY <1>a, <2>2, <2>3 DEF Saved, LetsGo, Resting, At
  <2>6. HandledIsStored'
    BY <1>a, <2>3 DEF HandledIsStored
  <2> QED
    BY <2>4, <2>5, <2>6 DEF G
<1>6. ASSUME NEW w \in Workers, Finish(w) PROVE G
  <2>1. LetsGo(w) /\ work[w].message \in Messages
    BY <1>0, <1>6, <1>o, RestLetsGo DEF Finish, At
  <2>2. /\ job'[work[w].message].state = "done"
        /\ \A n \in Messages : n # work[w].message => job'[n] = job[n]
        /\ UNCHANGED <<stored, optOut, sent, again>>
    BY <1>0, <1>6, <2>1 DEF Finish, rows, JobOK, JobRow
  <2>3. Counted'
    BY <1>a, <1>n, <2>1, <2>2 DEF Counted, LetsGo, At
  <2>4. Saved'
    BY <1>a, <2>1, <2>2 DEF Saved, LetsGo, Resting, At
  <2>5. HandledIsStored'
    BY <1>6, <1>a, <2>2 DEF HandledIsStored, Saved, Finish
  <2> QED
    BY <2>3, <2>4, <2>5 DEF G
<1>7. ASSUME NEW w \in Workers, Advance(w), ~Finish(w), ~Send(w) PROVE G
  <2>1. /\ stored \subseteq stored' /\ optOut \subseteq optOut'
        /\ UNCHANGED <<sent, again>>
    BY <1>7 DEF Advance, FindLead, CreateLead, FindConversation, CreateConversation,
       SaveMessage, Park, Chat, ToolOptOut, ToolHandOff, EndTools, rows
  <2>2. CASE UNCHANGED <<job, work>>
    BY <1>q, <2>1, <2>2
  <2>3. CASE Moves(w)
    <3>1. Counted'
      BY <1>a, <1>n, <2>1, <2>3 DEF Counted, Moves, At
    <3>2. /\ work'[w].at \in {"chat", "tools", "reply"} => work[w].message \in stored'
          /\ work'[w].at = "finish" => work[w].message \in stored'
      <4>1. work[w].at \in {"chat", "tools", "reply"} => work[w].message \in stored
        BY <1>a DEF Saved
      <4>2. ASSUME NEW step, Goto(w, step) PROVE work'[w].at = step
        BY <1>0, <4>2, WorkerFacts DEF Goto, WorkOK, Worker
      <4>3. ASSUME NEW l, HoldLead(w, l) PROVE work'[w].at = "conv.find"
        BY <1>0, <4>3, WorkerFacts DEF HoldLead, WorkOK, Worker
      <4>4. ASSUME NEW c, HoldConv(w, c) PROVE work'[w].at = "message"
        BY <1>0, <4>4, WorkerFacts DEF HoldConv, WorkOK, Worker
      <4>5. CASE FindLead(w) \/ CreateLead(w) \/ FindConversation(w) \/ CreateConversation(w)
        BY <4>2, <4>3, <4>4, <4>5 DEF FindLead, CreateLead, FindConversation,
           CreateConversation
      <4>6. CASE SaveMessage(w)
        BY <4>6 DEF SaveMessage
      <4>7. CASE Park(w) \/ Chat(w) \/ EndTools(w) \/ ToolOptOut(w) \/ ToolHandOff(w)
        BY <2>1, <4>1, <4>7 DEF Park, Chat, EndTools, ToolOptOut, ToolHandOff, At
      <4> QED
        BY <1>7, <4>5, <4>6, <4>7 DEF Advance
    <3>3. Saved'
      BY <1>a, <2>1, <2>3, <3>2 DEF Saved, Moves, At
    <3>4. HandledIsStored'
      BY <1>a, <2>1, <2>3 DEF HandledIsStored, Moves
    <3> QED
      BY <3>1, <3>3, <3>4 DEF G
  <2> QED
    BY <1>0, <1>7, <2>2, <2>3, AdvanceMoves
<1>8. ASSUME NEW w \in Workers, Send(w) PROVE G
  <2> DEFINE m == work[w].message
  <2>1. At(w, "reply") /\ m \in Messages /\ m \in stored
    BY <1>8, <1>a, <1>o DEF Send, Saved, At
  <2>2. sent[m] <= again[m]
    BY <1>a, <1>n, <1>o, <2>1 DEF Counted, At
  <2>3. /\ work'[w].at = "finish" /\ work'[w].message = m
        /\ \A v \in Workers : v # w => work'[v] = work[v]
    BY <1>0, <1>8, WorkerFacts DEF Send, Goto, WorkOK, Worker
  <2>4. /\ \A n \in Messages : n # m => sent'[n] = sent[n]
        /\ sent'[m] \in {sent[m], sent[m] + 1}
        /\ UNCHANGED <<job, stored, optOut, again>>
    BY <1>0, <1>8, <2>1 DEF Send, SentOK, rows
  <2> HIDE DEF m
  <2>5. Counted'
    <3> SUFFICES ASSUME NEW n \in Messages
                 PROVE  /\ sent'[n] <= 1 + again'[n]
                        /\ sent'[n] > again'[n] =>
                             \/ job'[n].state = "done"
                             \/ \E v \in Workers : At(v, "finish")' /\ work'[v].message = n
      BY DEF Counted
    <3>1. CASE n = m
      BY <1>n, <2>2, <2>3, <2>4, <3>1 DEF At
    <3>2. CASE n # m
      BY <1>a, <1>n, <2>1, <2>3, <2>4, <3>2 DEF Counted, At
    <3> QED
      BY <3>1, <3>2
  <2>6. Saved'
    BY <1>a, <2>1, <2>3, <2>4 DEF Saved, At
  <2>7. HandledIsStored'
    BY <1>a, <2>1, <2>4 DEF HandledIsStored
  <2> QED
    BY <2>5, <2>6, <2>7 DEF G
<1>9. ASSUME \/ \E c \in Convs : UserHandsOff(c)
             \/ \E l \in Leads : UserOpens(l) \/ UserOptsOut(l)
             \/ \E p \in Phones : ImportRow(p)
             \/ ImportRead \/ ImportEnds \/ UNCHANGED vars
      PROVE  G
  BY <1>9, <1>q DEF UserHandsOff, UserOpens, UserOptsOut, ImportRow, ImportRead, ImportEnds,
     rows, vars
<1> QED
  BY <1>1, <1>2, <1>3, <1>4, <1>5, <1>6, <1>7, <1>8, <1>9 DEF Next, Advance

LEMMA KeptInvariant == Spec => []Kept
<1>1. Init => Kept
  BY InitKept, InboundAssumption
<1>2. Inv /\ Kept /\ [Next]_vars => Kept'
  BY KeptStep, InboundAssumption
<1> QED
  BY <1>1, <1>2, Invariance, InboundAssumption, PTL DEF Spec

\* No message is answered twice unless the queue lost track of it in between.
THEOREM NoSecondReply == Spec => []AnsweredOnce
<1>1. Kept => AnsweredOnce
  BY DEF Kept, Counted, AnsweredOnce
<1> QED
  BY <1>1, KeptInvariant, PTL

\* No message is dropped: what was answered or finished is in a conversation,
\* unless its sender opted out.
THEOREM NothingDropped == Spec => []HandledIsStored
<1>1. Kept => HandledIsStored
  BY DEF Kept
<1> QED
  BY <1>1, KeptInvariant, PTL

-----------------------------------------------------------------------------
(* Leads of one phone.                                                     *)

LeadsOf(p) == {l \in Leads : lead[l] = p}

LEMMA Finite ==
  ASSUME InboundAssumption
  PROVE  /\ \A L : L \subseteq Leads => IsFiniteSet(L) /\ Cardinality(L) \in Nat
         /\ \A W : W \subseteq Workers =>
               /\ IsFiniteSet(W) /\ Cardinality(W) \in Nat
               /\ Cardinality(W) <= Cardinality(Workers)
         /\ Cardinality(Workers) \in Nat
<1>1. IsFiniteSet(Leads)
  BY FS_Interval DEF InboundAssumption, Leads
<1>2. IsFiniteSet(Workers)
  BY DEF InboundAssumption
<1>3. ASSUME NEW L, L \subseteq Leads PROVE IsFiniteSet(L) /\ Cardinality(L) \in Nat
  BY <1>1, <1>3, FS_Subset, FS_CardinalityType
<1>4. ASSUME NEW W, W \subseteq Workers
      PROVE  /\ IsFiniteSet(W) /\ Cardinality(W) \in Nat
             /\ Cardinality(W) <= Cardinality(Workers)
  BY <1>2, <1>4, FS_Subset, FS_CardinalityType
<1> QED
  BY <1>2, <1>3, <1>4, FS_CardinalityType

\* With L leads and W workers about to create one, there is room for pending.
Room(L, W, pending) ==
    Cardinality(L) + Cardinality(W) + pending <= Cardinality(Workers) + 1

LEMMA RoomEmpty ==
  ASSUME InboundAssumption, NEW W, W \subseteq Workers, NEW pending \in {0, 1}
  PROVE  Room({}, W, pending)
<1>1. Cardinality({}) = 0
  BY FS_EmptySet
<1> QED
  BY <1>1, Finite DEF Room

LEMMA RoomLess ==
  ASSUME InboundAssumption, NEW L, L \subseteq Leads, NEW W, W \subseteq Workers,
         NEW V, V \subseteq W, NEW i \in {0, 1}, NEW j \in {0, 1}, j <= i,
         Room(L, W, i)
  PROVE  Room(L, V, j)
<1>1. IsFiniteSet(W) /\ Cardinality(W) \in Nat /\ Cardinality(V) \in Nat
      /\ Cardinality(L) \in Nat /\ Cardinality(Workers) \in Nat
  BY Finite
<1>2. Cardinality(V) <= Cardinality(W)
  BY <1>1, FS_Subset
<1> QED
  BY <1>1, <1>2 DEF Room

\* A worker that creates a lead no longer is about to.
LEMMA RoomCreated ==
  ASSUME InboundAssumption, NEW L, L \subseteq Leads, NEW W, W \subseteq Workers,
         NEW l \in Leads, NEW w \in W, NEW i \in {0, 1}, Room(L, W, i)
  PROVE  Room(L \cup {l}, W \ {w}, i)
<1>1. /\ IsFiniteSet(W) /\ IsFiniteSet(L)
      /\ Cardinality(W) \in Nat /\ Cardinality(L) \in Nat /\ Cardinality(Workers) \in Nat
  BY Finite
<1>2. Cardinality(W \ {w}) = Cardinality(W) - 1
  BY <1>1, FS_RemoveElement
<1>3. Cardinality(L \cup {l}) = IF l \in L THEN Cardinality(L) ELSE Cardinality(L) + 1
  BY <1>1, FS_AddElement
<1> QED
  BY <1>1, <1>2, <1>3 DEF Room

LEMMA RoomImported ==
  ASSUME InboundAssumption, NEW L, L \subseteq Leads, NEW W, W \subseteq Workers,
         NEW l \in Leads, Room(L, W, 1)
  PROVE  Room(L \cup {l}, W, 0)
<1>1. /\ IsFiniteSet(L)
      /\ Cardinality(W) \in Nat /\ Cardinality(L) \in Nat /\ Cardinality(Workers) \in Nat
  BY Finite
<1>2. Cardinality(L \cup {l}) = IF l \in L THEN Cardinality(L) ELSE Cardinality(L) + 1
  BY <1>1, FS_AddElement
<1> QED
  BY <1>1, <1>2 DEF Room

LEMMA LeadsAsRoom ==
  LeadsPerPhone <=> \A p \in Phones : Room(LeadsOf(p), Creating(p), Pending(p))
  BY DEF LeadsPerPhone, Room, LeadsOf

LEMMA RoomInit ==
  ASSUME InboundAssumption, Init
  PROVE  LeadsPerPhone
<1> SUFFICES ASSUME NEW p \in Phones
             PROVE  Room(LeadsOf(p), Creating(p), Pending(p))
  BY LeadsAsRoom
<1>1. LeadsOf(p) = {}
  BY DEF LeadsOf, Init, InboundAssumption
<1>2. Creating(p) \subseteq Workers /\ Pending(p) \in {0, 1}
  BY DEF Creating, Pending
<1> QED
  BY <1>1, <1>2, RoomEmpty

LEMMA RoomStep ==
  ASSUME InboundAssumption, Inv, LeadsPerPhone, [Next]_vars
  PROVE  LeadsPerPhone'
<1> SUFFICES ASSUME NEW p \in Phones
             PROVE  Room(LeadsOf(p)', Creating(p)', Pending(p)')
  BY DEF LeadsPerPhone, Room, LeadsOf
<1> DEFINE G == Room(LeadsOf(p)', Creating(p)', Pending(p)')
<1> HIDE DEF G
<1> SUFFICES G
  BY DEF G
<1>0. WorkOK /\ LeadOK /\ SetsOK
  BY TypeParts DEF Inv
<1>a. Room(LeadsOf(p), Creating(p), Pending(p))
  BY LeadsAsRoom
<1>b. /\ LeadsOf(p) \subseteq Leads /\ LeadsOf(p)' \subseteq Leads
      /\ Creating(p) \subseteq Workers /\ Creating(p)' \subseteq Workers
      /\ Pending(p) \in {0, 1} /\ Pending(p)' \in {0, 1}
  BY DEF LeadsOf, Creating, Pending
<1>e. ASSUME LeadsOf(p)' = {} PROVE G
  BY <1>b, <1>e, RoomEmpty DEF G
<1>s. ASSUME LeadsOf(p)' = LeadsOf(p), Creating(p)' \subseteq Creating(p),
             Pending(p)' <= Pending(p)
      PROVE  G
  BY <1>a, <1>b, <1>s, RoomLess DEF G
<1>u. ASSUME UNCHANGED lead PROVE LeadsOf(p)' = LeadsOf(p)
  BY <1>u DEF LeadsOf
<1>i. ASSUME UNCHANGED import PROVE Pending(p)' <= Pending(p)
  BY <1>b, <1>i DEF Pending
<1>w. ASSUME UNCHANGED work PROVE Creating(p)' = Creating(p)
  BY <1>w DEF Creating, At
<1>x. ASSUME NEW w \in Workers, \A v \in Workers : v # w => work'[v] = work[v],
             work'[w].at # "lead.create"
      PROVE  Creating(p)' = Creating(p) \ {w}
  BY <1>x DEF Creating, At
<1>g. ASSUME NEW w \in Workers, NEW step \in Step, Goto(w, step)
      PROVE  /\ work'[w].at = step /\ work'[w].message = work[w].message
             /\ \A v \in Workers : v # w => work'[v] = work[v]
  BY <1>0, <1>g, WorkerFacts DEF Goto, WorkOK, Worker
<1>h. ASSUME NEW w \in Workers,
             (\E l \in Leads : HoldLead(w, l)) \/ (\E c \in Convs : HoldConv(w, c)) \/ Rest(w)
      PROVE  /\ work'[w].at # "lead.create"
             /\ \A v \in Workers : v # w => work'[v] = work[v]
  <2>1. CASE \E l \in Leads : HoldLead(w, l)
    BY <1>0, <2>1, WorkerFacts DEF HoldLead, WorkOK, Worker
  <2>2. CASE \E c \in Convs : HoldConv(w, c)
    BY <1>0, <2>2, WorkerFacts DEF HoldConv, WorkOK, Worker
  <2>3. CASE Rest(w)
    BY <1>0, <2>3 DEF Rest, Resting, WorkOK
  <2> QED
    BY <1>h, <2>1, <2>2, <2>3
<1>n. ASSUME NEW l \in Leads, NEW q \in Phones, NewLead(l, q)
      PROVE  LeadsOf(p)' = IF q = p THEN LeadsOf(p) \cup {l} ELSE LeadsOf(p)
  BY <1>0, <1>n DEF NewLead, LeadOK, LeadsOf, InboundAssumption
<1>1. ASSUME NEW m \in Messages, Receive(m) \/ Recover(m) \/ Prune(m) PROVE G
  BY <1>1, <1>s, <1>u, <1>i, <1>w DEF Receive, Recover, Prune, rows
<1>2. ASSUME NEW w \in Workers, NEW m \in Messages, Take(w, m) PROVE G
  <2>1. Creating(p)' = Creating(p) \ {w}
    BY <1>0, <1>2, <1>x, FirstStep
  <2> QED
    BY <1>2, <1>s, <1>u, <1>i, <2>1 DEF Take, rows
<1>3. ASSUME NEW w \in Workers, Fail(w) \/ Crash(w) \/ Finish(w) PROVE G
  <2>1. Creating(p)' = Creating(p) \ {w}
    BY <1>3, <1>h, <1>x DEF Fail, Crash, Finish
  <2> QED
    BY <1>3, <1>s, <1>u, <1>i, <2>1 DEF Fail, Crash, Finish, rows
<1>4. ASSUME NEW w \in Workers, FindLead(w) PROVE G
  <2> DEFINE q == From[work[w].message]
  <2>1. UNCHANGED <<lead, import>> /\ At(w, "lead.find")
    BY <1>4 DEF FindLead, rows
  <2>2. CASE (\E l \in Leads : HoldLead(w, l)) \/ (Goto(w, "lead.create") /\ q # p)
    <3>1. Creating(p)' \subseteq Creating(p)
      <4>1. CASE \E l \in Leads : HoldLead(w, l)
        BY <1>h, <1>x, <4>1
      <4>2. CASE Goto(w, "lead.create") /\ q # p
        BY <1>g, <4>2 DEF Creating, At, Step
      <4> QED
        BY <2>2, <4>1, <4>2
    <3> QED
      BY <1>s, <1>u, <1>i, <2>1, <3>1
  <2>3. CASE LeadsOf(p) = {}
    BY <1>e, <1>u, <2>1, <2>3
  <2> QED
    BY <1>4, <2>2, <2>3 DEF FindLead, LeadsOf
<1>5. ASSUME NEW w \in Workers, CreateLead(w) PROVE G
  <2> DEFINE q == From[work[w].message]
  <2>1. PICK l \in Leads : NewLead(l, q) /\ HoldLead(w, l)
    BY <1>5 DEF CreateLead
  <2>2. q \in Phones
    BY <1>0, <1>5, WorkerFacts DEF CreateLead, At, InboundAssumption
  <2>3. Creating(p)' = Creating(p) \ {w} /\ Pending(p)' = Pending(p)
    BY <1>5, <1>h, <1>x, <2>1 DEF CreateLead, Pending
  <2>4. CASE q # p
    BY <1>b, <1>n, <1>s, <2>1, <2>2, <2>3, <2>4
  <2>5. CASE q = p
    <3>1. LeadsOf(p)' = LeadsOf(p) \cup {l} /\ w \in Creating(p)
      BY <1>5, <1>n, <2>1, <2>2, <2>5 DEF CreateLead, Creating, At
    <3>2. Room(LeadsOf(p) \cup {l}, Creating(p) \ {w}, Pending(p))
      BY <1>a, <1>b, <3>1, RoomCreated
    <3> QED
      BY <2>3, <3>1, <3>2 DEF G
  <2> QED
    BY <2>4, <2>5
<1>6. ASSUME NEW w \in Workers, FindConversation(w) \/ CreateConversation(w) PROVE G
  <2>1. UNCHANGED <<lead, import>>
    BY <1>6 DEF FindConversation, CreateConversation, rows
  <2>2. CASE Goto(w, "conv.create")
    <3>1. Creating(p)' \subseteq Creating(p)
      BY <1>g, <1>x, <2>2 DEF Step
    <3> QED
      BY <1>s, <1>u, <1>i, <2>1, <3>1
  <2>3. CASE \E c \in Convs : HoldConv(w, c)
    <3>1. Creating(p)' \subseteq Creating(p)
      BY <1>h, <1>x, <2>3
    <3> QED
      BY <1>s, <1>u, <1>i, <2>1, <3>1
  <2> QED
    BY <1>6, <2>2, <2>3 DEF FindConversation, CreateConversation, Open
<1>7. ASSUME NEW w \in Workers, SaveMessage(w) \/ Park(w) \/ Chat(w) \/ EndTools(w) \/ Send(w)
      PROVE  G
  <2>1. UNCHANGED <<lead, import>>
    BY <1>7 DEF SaveMessage, Park, Chat, EndTools, Send, rows
  <2>2. \E step \in Step : step # "lead.create" /\ Goto(w, step)
    BY <1>7 DEF SaveMessage, Park, Chat, EndTools, Send, Step
  <2>3. Creating(p)' \subseteq Creating(p)
    BY <1>g, <1>x, <2>2
  <2> QED
    BY <1>s, <1>u, <1>i, <2>1, <2>3
<1>8. ASSUME \/ \E w \in Workers : ToolOptOut(w) \/ ToolHandOff(w)
             \/ \E c \in Convs : UserHandsOff(c)
             \/ \E l \in Leads : UserOpens(l) \/ UserOptsOut(l)
             \/ UNCHANGED vars
      PROVE  G
  BY <1>8, <1>s, <1>u, <1>i, <1>w DEF ToolOptOut, ToolHandOff, UserHandsOff, UserOpens,
     UserOptsOut, vars, rows
<1>9. ASSUME NEW q \in Phones, ImportRow(q) PROVE G
  <2>1. PICK l \in Leads : NewLead(l, q)
    BY <1>9 DEF ImportRow
  <2>2. UNCHANGED work
    BY <1>9 DEF ImportRow
  <2>3. CASE q # p
    <3>1. Pending(p)' <= Pending(p)
      BY <1>0, <1>b, <1>9, <2>3 DEF ImportRow, Pending, SetsOK
    <3> QED
      BY <1>n, <1>s, <1>w, <2>1, <2>2, <2>3, <3>1
  <2>4. CASE q = p
    <3>1. Pending(p) = 1 /\ Pending(p)' = 0
      BY <1>0, <1>9, <2>4 DEF ImportRow, Pending, SetsOK
    <3>2. LeadsOf(p)' = LeadsOf(p) \cup {l}
      BY <1>n, <2>1, <2>4
    <3>3. Creating(p)' = Creating(p)
      BY <1>w, <2>2
    <3> QED
      BY <1>a, <1>b, <3>1, <3>2, <3>3, RoomImported DEF G
  <2> QED
    BY <2>3, <2>4
<1>10. CASE ImportRead
  <2>1. UNCHANGED <<lead, work>>
    BY <1>10 DEF ImportRead, rows
  <2>2. CASE LeadsOf(p) = {}
    BY <1>e, <1>u, <2>1, <2>2
  <2>3. CASE LeadsOf(p) # {}
    <3>1. p \in {lead[l] : l \in Leads} \ {None}
      BY <2>3 DEF LeadsOf, InboundAssumption
    <3>2. Pending(p)' = 0
      BY <1>10, <3>1 DEF ImportRead, Pending
    <3> QED
      BY <1>b, <1>s, <1>u, <1>w, <2>1, <3>2
  <2> QED
    BY <2>2, <2>3
<1>11. CASE ImportEnds
  <2>1. UNCHANGED <<lead, work>> /\ Pending(p)' = 0
    BY <1>11 DEF ImportEnds, rows, Pending
  <2> QED
    BY <1>b, <1>s, <1>u, <1>w, <2>1
<1> QED
  BY <1>1, <1>2, <1>3, <1>4, <1>5, <1>6, <1>7, <1>8, <1>9, <1>10, <1>11 DEF Next, Advance

\* However workers, retries and an import overlap, a phone gets at most one
\* lead from each of them.
THEOREM FewLeadsPerPhone == Spec => []LeadsPerPhone
<1>1. Init => LeadsPerPhone
  BY RoomInit, InboundAssumption
<1>2. Inv /\ LeadsPerPhone /\ [Next]_vars => LeadsPerPhone'
  BY RoomStep, InboundAssumption
<1> QED
  BY <1>1, <1>2, Invariance, InboundAssumption, PTL DEF Spec

=============================================================================
