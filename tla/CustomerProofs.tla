--------------------------- MODULE CustomerProofs ---------------------------
(***************************************************************************)
(* Theorems about what is done for a customer: the repayment schedule, the *)
(* mortgage profile, follow-ups of leads, and the addresses of properties. *)
(***************************************************************************)
EXTENDS Loan, FollowUps, Mortgage, Streets, Picker, FiniteSetTheorems, TLAPS

-----------------------------------------------------------------------------
(* The repayment schedule: what is repaid, what is left at the end of the   *)
(* term, and the payment that a prepayment locks.                           *)

LEMMA DivFacts ==
    ASSUME NEW d \in Nat, NEW n \in Nat \ {0}
    PROVE  d \div n \in 0..d /\ (n = 1 => d \div n = d)
  OBVIOUS

-----------------------------------------------------------------------------
(* The inputs and the amounts of a month.                                  *)

\* What clamping makes of the inputs.
LegalPlan(p) ==
    /\ p.principal \in Nat /\ p.amount \in Nat
    /\ p.months \in 1..LongestTerm
    /\ p.grace \in 0..(p.months - 1)
    /\ p.method \in Methods

LEMMA PlanFacts ==
    ASSUME LoanAssumption, NEW p \in Plans
    PROVE  LegalPlan(p)
  <1>1. PICK sum \in Sums, method \in Methods, linked \in BOOLEAN, term \in Terms,
            asked \in Graces, prepay \in Prepayments, at \in Terms, amount \in Sums,
            shorten \in BOOLEAN :
            p = Plan(sum, method, linked, term, asked, prepay, at, amount, shorten)
    BY DEF Plans
  <1>2. /\ p.principal = sum /\ p.amount = amount /\ p.method = method
        /\ p.months = Clamp(term, 1, LongestTerm)
        /\ p.grace = Grace(asked, p.months)
    BY <1>1 DEF Plan
  <1>3. term \in Int /\ asked \in Int /\ sum \in Nat /\ amount \in Nat
    BY DEF LoanAssumption
  <1>4. p.months \in 1..LongestTerm
    BY <1>2, <1>3 DEF Clamp, Lower, Higher, LongestTerm
  <1>5. p.grace \in 0..(p.months - 1)
    BY <1>2, <1>3, <1>4 DEF Grace, Clamp, Lower, Higher, LongestTerm, LongestGrace
  <1>. QED  BY <1>2, <1>3, <1>4, <1>5 DEF LegalPlan

\* A month that is not over, and what is left open in it.
OpenMonth(debt, interest, share) ==
    /\ LegalPlan(plan)
    /\ coming \in 1..plan.months
    /\ locked \in Nat
    /\ debt \in Nat /\ interest \in Nat /\ share \in 0..debt

\* An equal share is part of the debt, and all of it in the last month; it is
\* short of the locked payment only when it repays the debt.
LEMMA EqualPrincipalFacts ==
    ASSUME NEW debt, NEW interest, NEW share, OpenMonth(debt, interest, share)
    PROVE  LET principal == EqualPrincipal(debt, interest)
           IN  /\ principal \in 0..debt
               /\ coming = plan.months => principal = debt
               /\ principal < debt => interest + principal >= locked
  <1>. DEFINE n == plan.months - coming + 1
              equal == debt \div n
  <1>0. plan.months \in Nat /\ coming \in 1..plan.months
    BY DEF OpenMonth, LegalPlan, LongestTerm
  <1>1. n \in Nat \ {0} /\ (coming = plan.months => n = 1)
    BY <1>0
  <1>2. debt \in Nat /\ interest \in Nat /\ locked \in Nat
    BY DEF OpenMonth
  <1>3. equal \in 0..debt /\ (n = 1 => equal = debt)
    BY <1>1, <1>2, DivFacts
  <1>4. EqualPrincipal(debt, interest) =
            IF locked > interest + equal THEN Lower(debt, locked - interest) ELSE equal
    BY DEF EqualPrincipal
  <1>. HIDE DEF equal, n
  <1>. QED  BY <1>1, <1>2, <1>3, <1>4 DEF Lower

\* So it is with the annuity.
LEMMA AnnuityFacts ==
    ASSUME NEW debt, NEW interest, NEW share, OpenMonth(debt, interest, share)
    PROVE  LET principal == Annuity(debt, interest, share)
           IN  /\ principal \in 0..debt
               /\ coming = plan.months => principal = debt
               /\ principal < debt => interest + principal >= locked
  BY DEF OpenMonth, Annuity, Lower, Higher

\* And with every method, but for months of grace and loans repaid at the end.
LEMMA RepaymentFacts ==
    ASSUME NEW debt, NEW interest, NEW share, OpenMonth(debt, interest, share)
    PROVE  LET principal == Repayment(debt, interest, share)
           IN  /\ principal \in 0..debt
               /\ coming = plan.months => principal = debt
               /\ plan.method # "bullet" /\ coming > plan.grace /\ principal < debt =>
                     interest + principal >= locked
  <1>0. /\ debt \in Nat /\ plan.months \in Nat /\ plan.grace \in Nat /\ coming \in Nat
        /\ plan.grace < plan.months
        /\ plan.method \in {"shpitzer", "equal_principal", "bullet"}
    BY DEF OpenMonth, LegalPlan, Methods, LongestTerm
  <1>1. CASE plan.method = "bullet"
    BY <1>0, <1>1 DEF Repayment
  <1>2. CASE plan.method # "bullet" /\ coming <= plan.grace
    BY <1>0, <1>2 DEF Repayment
  <1>3. CASE plan.method = "equal_principal" /\ coming > plan.grace
    <2>1. Repayment(debt, interest, share) = EqualPrincipal(debt, interest)
      BY <1>0, <1>3 DEF Repayment
    <2>. QED  BY <2>1, EqualPrincipalFacts
  <1>4. CASE plan.method = "shpitzer" /\ coming > plan.grace
    <2>1. Repayment(debt, interest, share) = Annuity(debt, interest, share)
      BY <1>0, <1>4 DEF Repayment
    <2>. QED  BY <2>1, AnnuityFacts
  <1>. QED  BY <1>0, <1>1, <1>2, <1>3, <1>4

\* A prepayment is part of what is left.
LEMMA ExtraFacts ==
    ASSUME NEW left \in Nat, LegalPlan(plan)
    PROVE  Extra(left) \in 0..left
  BY DEF Extra, Lower, LegalPlan

-----------------------------------------------------------------------------
(* The inductive invariant: types, Repaid, and that no payment is locked   *)
(* for a loan repaid at the end.                                           *)

LoanInv ==
    /\ LoanTypeOK
    /\ Repaid
    /\ plan.method = "bullet" => locked = 0

LEMMA InitLoanInv == LoanAssumption /\ LoanInit => LoanInv
  <1>. SUFFICES ASSUME LoanAssumption, LoanInit PROVE LoanInv
    OBVIOUS
  <1>1. LegalPlan(plan)
    BY PlanFacts DEF LoanInit
  <1>2. plan.principal \in Nat /\ plan.months \in Nat /\ plan.months >= 1
    BY <1>1 DEF LegalPlan, LongestTerm
  <1>. QED  BY <1>2 DEF LoanInit, LoanInv, LoanTypeOK, Repaid, LongestTerm

\* What a month does: it repays a part of the debt, all of it in the last month,
\* and keeps to the locked payment.
LEMMA MonthFacts ==
    ASSUME LoanAssumption, LoanInv,
           NEW index \in 0..MaxIndex, NEW interest \in 0..MaxInterest,
           NEW share \in 0..(balance + index), Month(index, interest, share)
    PROVE  /\ LoanInv'
           /\ coming > plan.grace /\ balance' > 0 => regular' >= locked
  <1>. DEFINE debt == balance + index
              principal == Repayment(debt, interest, share)
              left == debt - principal
              extra == Extra(left)
  <1>1. LegalPlan(plan)
    BY PlanFacts DEF LoanInv, LoanTypeOK
  <1>2. /\ index \in Nat /\ interest \in Nat
        /\ balance \in Nat /\ locked \in Nat /\ repaid \in Nat /\ indexed \in Nat
        /\ coming \in Nat /\ plan.months \in Nat /\ plan.months <= LongestTerm
    BY <1>1 DEF LoanAssumption, LoanInv, LoanTypeOK, LegalPlan, LongestTerm
  <1>3. coming \in 1..plan.months
    BY <1>2 DEF Month, Over, LoanInv, LoanTypeOK, LongestTerm
  <1>4. OpenMonth(debt, interest, share)
    BY <1>1, <1>2, <1>3 DEF OpenMonth
  <1>5. /\ principal \in 0..debt
        /\ coming = plan.months => principal = debt
        /\ plan.method # "bullet" /\ coming > plan.grace /\ principal < debt =>
              interest + principal >= locked
    BY <1>4, RepaymentFacts
  <1>6. debt \in Nat /\ left \in Nat
    BY <1>2, <1>5
  <1>7. extra \in 0..left
    BY <1>1, <1>6, ExtraFacts
  <1>8. /\ regular' = interest + principal
        /\ balance' = left - extra
        /\ repaid' = repaid + principal + extra
        /\ locked' = IF Locks(left) THEN Higher(locked, interest + principal) ELSE locked
        /\ indexed' = indexed + index /\ coming' = coming + 1 /\ plan' = plan
    BY DEF Month
  <1>9. Locks(left) => plan.method # "bullet"
    BY DEF Locks
  <1>10. debt = balance + index /\ left = debt - principal
    OBVIOUS
  <1>. HIDE DEF debt, principal, left, extra
  <1>11. locked' \in Nat /\ (plan.method = "bullet" => locked' = 0)
    BY <1>2, <1>5, <1>6, <1>8, <1>9 DEF Higher, LoanInv
  <1>12. regular' \in Nat /\ balance' \in Nat /\ repaid' \in Nat /\ indexed' \in Nat
    BY <1>2, <1>5, <1>6, <1>7, <1>8
  <1>13. LoanTypeOK'
    BY <1>2, <1>3, <1>8, <1>11, <1>12 DEF LoanTypeOK, LoanInv, LongestTerm
  <1>14. repaid' + balance' = plan.principal + indexed'
    <2>1. repaid + balance = plan.principal + indexed /\ plan.principal \in Nat
      BY <1>1 DEF LoanInv, Repaid, LegalPlan
    <2>. QED  BY <2>1, <1>2, <1>5, <1>6, <1>7, <1>8, <1>10
  <1>15. coming' > plan.months => balance' = 0
    BY <1>2, <1>3, <1>5, <1>6, <1>7, <1>8, <1>10
  <1>16. LoanInv'
    BY <1>8, <1>11, <1>13, <1>14, <1>15 DEF LoanInv, Repaid
  <1>17. ASSUME coming > plan.grace, balance' > 0 PROVE regular' >= locked
    <2>1. principal < debt
      BY <1>2, <1>5, <1>6, <1>7, <1>8, <1>10, <1>17
    <2>2. CASE plan.method = "bullet"
      BY <2>2, <1>2, <1>5, <1>6, <1>8 DEF LoanInv
    <2>3. CASE plan.method # "bullet"
      BY <2>1, <2>3, <1>5, <1>8, <1>17
    <2>. QED  BY <2>2, <2>3
  <1>. QED  BY <1>16, <1>17

LEMMA LoanInvStep == LoanAssumption /\ LoanInv /\ [LoanNext]_loanVars => LoanInv'
  <1>. SUFFICES ASSUME LoanAssumption, LoanInv, [LoanNext]_loanVars PROVE LoanInv'
    OBVIOUS
  <1>1. CASE LoanNext /\ ~ScheduleDone
    BY <1>1, MonthFacts DEF LoanNext
  <1>2. CASE ScheduleDone \/ UNCHANGED loanVars
    BY <1>2 DEF ScheduleDone, loanVars, LoanInv, LoanTypeOK, Repaid
  <1>. QED  BY <1>1, <1>2

LEMMA LoanInvariance == LoanSpec => []LoanInv
  BY InitLoanInv, LoanInvStep, LoanAssumption, PTL DEF LoanSpec

-----------------------------------------------------------------------------

\* The schedule of amortize keeps its types: the inputs stay clamped and no
\* balance, payment or sum is ever negative.
THEOREM LoanTypeCorrect == LoanSpec => []LoanTypeOK
  <1>1. LoanInv => LoanTypeOK
    BY DEF LoanInv
  <1>. QED  BY <1>1, LoanInvariance, PTL

\* What was lent and what indexation added is repaid to the last unit by the end
\* of the term, whatever the method, rates, grace and prepayments.
THEOREM LoanIsRepaid == LoanSpec => []Repaid
  <1>1. LoanInv => Repaid
    BY DEF LoanInv
  <1>. QED  BY <1>1, LoanInvariance, PTL

\* After a prepayment that shortens the term, no payment falls below the one it
\* locked until the loan is repaid.
THEOREM LockIsKept == LoanSpec => LockedKept
  <1>1. ASSUME LoanInv, [LoanNext]_loanVars
        PROVE  [coming' = coming + 1 /\ coming > plan.grace /\ balance' > 0 =>
                   regular' >= locked]_loanVars
    <2>1. CASE LoanNext /\ ~ScheduleDone
      BY <1>1, <2>1, MonthFacts, LoanAssumption DEF LoanNext
    <2>2. CASE ScheduleDone \/ UNCHANGED loanVars
      BY <2>2 DEF ScheduleDone, loanVars
    <2>. QED  BY <1>1, <2>1, <2>2
  <1>. QED  BY <1>1, LoanInvariance, PTL DEF LoanSpec, LockedKept

-----------------------------------------------------------------------------
(* Follow-ups: few tasks per lead, one per reminder, and no lead overlooked.*)

PassRec == [at: PassSteps, todo: SUBSET FuLeads, lead: FuLeads \cup {NoLead},
            saw: SUBSET FuLeads]

LEMMA FollowUpsTyped ==
    ASSUME FollowUpsAssumption, FollowUpsTypeOK, [FollowUpsNext]_fuVars
    PROVE  FollowUpsTypeOK'
  <1>1. FollowUpsTypeOK /\ PassIdle \in PassRec /\ Due \subseteq FuLeads
    BY DEF PassIdle, PassRec, PassSteps, Due
  <1>a. ASSUME pass' \in PassRec, pass'.at \in {"create", "clear"} => pass'.lead \in FuLeads,
               UNCHANGED fuRows, daily' = daily,
               reminder' \in [FuLeads -> Clock], made' \in [FuLeads -> Nat],
               broken' \in [FuLeads -> Nat],
               rounds' \in SUBSET FuLeads, excused' \in SUBSET FuLeads
        PROVE  FollowUpsTypeOK'
    BY <1>1, <1>a DEF FollowUpsTypeOK, PassRec, fuRows
  <1>b. /\ pass \in PassRec /\ (pass.at \in {"create", "clear"} => pass.lead \in FuLeads)
        /\ pass.todo \subseteq FuLeads /\ pass.saw \subseteq FuLeads
        /\ reminder \in [FuLeads -> Clock] /\ made \in [FuLeads -> Nat]
        /\ broken \in [FuLeads -> Nat] /\ auto \in [FuLeads -> Nat]
        /\ rounds \in SUBSET FuLeads /\ excused \in SUBSET FuLeads
    BY <1>1 DEF FollowUpsTypeOK, PassRec
  <1>2. CASE ReadDue
    <2>1. pass' \in PassRec /\ pass'.at = "find"
      BY <1>1, <1>2 DEF ReadDue, PassRec, PassSteps
    <2>. QED  BY <1>a, <1>b, <1>2, <2>1 DEF ReadDue, fuHist
  <1>3. ASSUME NEW l \in FuLeads, FindTask(l) PROVE FollowUpsTypeOK'
    <2>1. pass' \in PassRec /\ (pass'.at \in {"create", "clear"} => pass'.lead \in FuLeads)
      <3>1. CASE HasOpenTask(l)
        BY <1>b, <1>3, <3>1 DEF FindTask, PassRec, PassSteps
      <3>2. CASE ~HasOpenTask(l)
        BY <1>b, <1>3, <3>2 DEF FindTask, PassRec, PassSteps
      <3>. QED  BY <3>1, <3>2
    <2>2. excused' \in SUBSET FuLeads
      BY <1>b, <1>3 DEF FindTask
    <2>. QED  BY <1>a, <1>b, <1>3, <2>1, <2>2 DEF FindTask
  <1>4. CASE CreateFollowup
    <2>1. pass.lead \in FuLeads /\ pass.at = "create"
      BY <1>b, <1>4 DEF CreateFollowup
    <2>2. pass' \in PassRec /\ pass'.lead = pass.lead
      BY <1>b, <1>4 DEF CreateFollowup, PassRec, PassSteps
    <2>3. auto' \in [FuLeads -> Nat] /\ made' \in [FuLeads -> Nat]
      BY <1>b, <1>4, <2>1 DEF CreateFollowup
    <2>4. excused' \in SUBSET FuLeads
      BY <1>b, <1>4, <2>1 DEF CreateFollowup
    <2>. QED  BY <1>1, <1>4, <2>1, <2>2, <2>3, <2>4
              DEF CreateFollowup, FollowUpsTypeOK, PassRec
  <1>5. CASE ClearReminder
    <2>1. pass' \in PassRec /\ pass'.at = "find"
      BY <1>b, <1>5 DEF ClearReminder, PassRec, PassSteps
    <2>2. reminder' \in [FuLeads -> Clock]
      BY <1>b, <1>5 DEF ClearReminder, Clock
    <2>. QED  BY <1>a, <1>b, <1>5, <2>1, <2>2 DEF ClearReminder, fuHist, fuRows
  <1>6. CASE PassEnds
    BY <1>1, <1>a, <1>b, <1>6 DEF PassEnds, PassIdle
  <1>7. CASE PassBreaks
    <2>1. broken' \in [FuLeads -> Nat]
      BY <1>b, <1>7 DEF PassBreaks, BreaksOff
    <2>2. pass' = PassIdle /\ PassIdle.at = "idle"
      BY <1>7 DEF PassBreaks, PassIdle
    <2>. QED  BY <1>1, <1>a, <1>b, <1>7, <2>1, <2>2 DEF PassBreaks
  <1>8. CASE DailyRead
    BY <1>1, <1>8 DEF DailyRead, FollowUpsTypeOK, fuRows, fuHist
  <1>9. ASSUME NEW l \in FuLeads, DailyCreate(l) PROVE FollowUpsTypeOK'
    <2>1. auto' \in [FuLeads -> Nat]
      BY <1>b, <1>9 DEF DailyCreate
    <2>. QED  BY <1>1, <1>9, <2>1 DEF DailyCreate, FollowUpsTypeOK, fuHist
  <1>10. ASSUME NEW l \in FuLeads, SetReminder(l) PROVE FollowUpsTypeOK'
    <2>1. pass' \in PassRec /\ pass'.at = pass.at /\ pass'.lead = pass.lead
      BY <1>b, <1>10 DEF SetReminder, PassRec
    <2>2. /\ reminder' \in [FuLeads -> Clock] /\ made' \in [FuLeads -> Nat]
          /\ broken' \in [FuLeads -> Nat]
      BY <1>b, <1>10 DEF SetReminder, Clock
    <2>3. excused' \in SUBSET FuLeads /\ rounds' \in SUBSET FuLeads
      BY <1>b, <1>10 DEF SetReminder
    <2>. QED  BY <1>a, <1>b, <1>10, <2>1, <2>2, <2>3 DEF SetReminder, fuRows
  <1>11. ASSUME NEW l \in FuLeads, EditTasks(l) PROVE FollowUpsTypeOK'
    <2>1. auto' \in [FuLeads -> Nat] /\ own' \in SUBSET FuLeads
      BY <1>1, <1>11 DEF EditTasks, FollowUpsTypeOK
    <2>. QED  BY <1>1, <1>11, <2>1 DEF EditTasks, FollowUpsTypeOK, fuHist
  <1>12. ASSUME NEW l \in FuLeads, FallsDue(l) \/ Lapses(l) PROVE FollowUpsTypeOK'
    <2>1. reminder' \in [FuLeads -> Clock] /\ pass' = pass
      BY <1>b, <1>12 DEF FallsDue, Lapses, Clock
    <2>. QED  BY <1>a, <1>b, <1>12, <2>1 DEF FallsDue, Lapses, fuHist, fuRows
  <1>13. CASE UNCHANGED fuVars
    BY <1>1, <1>13 DEF fuVars, fuRows, fuHist, FollowUpsTypeOK
  <1>14. CASE Outage
    <2>1. reminder' \in [FuLeads -> Clock] /\ excused' \in SUBSET FuLeads
      BY <1>b, <1>14 DEF Outage, Clock
    <2>2. broken' \in [FuLeads -> Nat]
      BY <1>b, <1>14 DEF Outage, BreaksOff
    <2>3. pass' \in PassRec /\ pass'.at = "idle" /\ daily' \in SUBSET FuLeads
      BY <1>1, <1>14 DEF Outage, PassIdle
    <2>4. UNCHANGED <<fuRows, made, rounds>>
      BY <1>14 DEF Outage
    <2>. QED  BY <1>1, <2>1, <2>2, <2>3, <2>4 DEF FollowUpsTypeOK, PassRec, fuRows
  <1>. QED  BY <1>2, <1>3, <1>4, <1>5, <1>6, <1>7, <1>8, <1>9, <1>10, <1>11, <1>12, <1>13, <1>14
            DEF FollowUpsNext

\* The tasks of the present reminder but for one that a pass is about to clear.
CountOK(l) ==
    reminder[l] # "none" =>
        made[l] <= broken[l] + (IF pass.at = "clear" /\ pass.lead = l THEN 1 ELSE 0)

TasksInv ==
    /\ FollowUpsTypeOK
    /\ FewFollowups
    /\ \A l \in FuLeads : CountOK(l)

LEMMA FewKept ==
    ASSUME TasksInv, FollowUpsTypeOK', [FollowUpsNext]_fuVars, NEW k \in FuLeads
    PROVE  auto'[k] + Coming(k)' <= 2
  <1>1. /\ auto[k] + Coming(k) <= 2 /\ auto[k] \in Nat /\ auto'[k] \in Nat
        /\ auto \in [FuLeads -> Nat]
        /\ pass.at \in {"create", "clear"} => pass.lead \in FuLeads
        /\ pass \in [at: PassSteps, todo: SUBSET FuLeads, lead: FuLeads \cup {NoLead},
                     saw: SUBSET FuLeads]
    BY DEF TasksInv, FewFollowups, FollowUpsTypeOK
  <1>a. ASSUME auto'[k] <= auto[k],
               pass'.at = "create" => pass.at = "create" /\ pass'.lead = pass.lead,
               k \in daily' => k \in daily
        PROVE  auto'[k] + Coming(k)' <= 2
    BY <1>1, <1>a DEF Coming
  <1>b. ASSUME auto'[k] = 0 PROVE auto'[k] + Coming(k)' <= 2
    BY <1>b DEF Coming
  <1>2. CASE ReadDue
    <2>1. pass'.at = "find" /\ auto' = auto /\ daily' = daily
      BY <1>2 DEF ReadDue, fuRows
    <2>. QED  BY <1>1, <1>a, <2>1
  <1>3. ASSUME NEW l \in FuLeads, FindTask(l) PROVE auto'[k] + Coming(k)' <= 2
    <2>1. auto' = auto /\ daily' = daily
      BY <1>3 DEF FindTask, fuRows
    <2>2. CASE HasOpenTask(l)
      <3>1. pass'.at = pass.at /\ pass'.lead = pass.lead
        BY <1>1, <1>3, <2>2 DEF FindTask
      <3>. QED  BY <1>1, <1>a, <2>1, <3>1
    <2>3. CASE ~HasOpenTask(l)
      <3>0. auto[l] = 0
        BY <1>1, <2>3 DEF HasOpenTask
      <3>4. pass' = [pass EXCEPT !.at = "create", !.lead = l]
        BY <1>3, <2>3 DEF FindTask
      <3>1. pass'.lead = l /\ auto[l] = 0
        BY <1>1, <3>0, <3>4
      <3>2. CASE k = l
        BY <1>b, <2>1, <3>1, <3>2
      <3>3. CASE k # l
        BY <1>1, <2>1, <3>1, <3>3 DEF Coming
      <3>. QED  BY <3>2, <3>3
    <2>. QED  BY <2>2, <2>3
  <1>4. CASE CreateFollowup
    <2>1. /\ pass.at = "create" /\ pass'.at = "clear" /\ daily' = daily
          /\ auto'[k] = IF k = pass.lead THEN auto[k] + 1 ELSE auto[k]
      BY <1>1, <1>4 DEF CreateFollowup
    <2>. QED  BY <1>1, <2>1 DEF Coming
  <1>5. CASE ClearReminder
    <2>1. pass'.at = "find" /\ auto' = auto /\ daily' = daily
      BY <1>1, <1>5 DEF ClearReminder
    <2>. QED  BY <1>1, <1>a, <2>1
  <1>6. CASE PassEnds \/ PassBreaks
    <2>1. pass'.at = "idle" /\ auto' = auto /\ daily' = daily
      BY <1>6 DEF PassEnds, PassBreaks, PassIdle, fuRows
    <2>. QED  BY <1>1, <1>a, <2>1
  <1>7. CASE DailyRead
    <2>1. /\ auto' = auto /\ pass' = pass
          /\ daily' \subseteq {l \in FuLeads : ~HasOpenTask(l)}
      BY <1>7 DEF DailyRead, fuRows
    <2>2. CASE k \in daily'
      BY <1>1, <1>b, <2>1, <2>2 DEF HasOpenTask
    <2>3. CASE k \notin daily'
      BY <1>1, <1>a, <2>1, <2>3
    <2>. QED  BY <2>2, <2>3
  <1>8. ASSUME NEW l \in FuLeads, DailyCreate(l) PROVE auto'[k] + Coming(k)' <= 2
    <2>4. auto' = auto \/ auto' = [auto EXCEPT ![l] = auto[l] + 1]
      BY <1>8 DEF DailyCreate
    <2>1. /\ pass' = pass /\ l \in daily /\ daily' = daily \ {l}
          /\ auto'[k] = auto[k] \/ (k = l /\ auto'[k] = auto[k] + 1)
      BY <1>1, <1>8, <2>4 DEF DailyCreate
    <2>2. CASE k = l
      BY <1>1, <2>1, <2>2 DEF Coming
    <2>3. CASE k # l
      BY <1>1, <1>a, <2>1, <2>3
    <2>. QED  BY <2>2, <2>3
  <1>9. ASSUME NEW l \in FuLeads, SetReminder(l) PROVE auto'[k] + Coming(k)' <= 2
    <2>1. pass'.at = pass.at /\ pass'.lead = pass.lead /\ auto' = auto /\ daily' = daily
      BY <1>1, <1>9 DEF SetReminder
    <2>. QED  BY <1>1, <1>a, <2>1
  <1>10. ASSUME NEW l \in FuLeads, EditTasks(l) PROVE auto'[k] + Coming(k)' <= 2
    <2>1. auto'[k] <= auto[k] /\ pass' = pass /\ daily' = daily
      BY <1>1, <1>10 DEF EditTasks
    <2>. QED  BY <1>1, <1>a, <2>1
  <1>11. CASE UNCHANGED <<auto, pass, daily>>
    BY <1>1, <1>a, <1>11
  <1>12. CASE Outage
    <2>1. pass'.at = "idle" /\ auto' = auto /\ daily' = {}
      BY <1>12 DEF Outage, PassIdle, fuRows
    <2>. QED  BY <1>1, <1>a, <2>1
  <1>. QED  BY <1>2, <1>3, <1>4, <1>5, <1>6, <1>7, <1>8, <1>9, <1>10, <1>11, <1>12
            DEF FollowUpsNext, FallsDue, Lapses, fuVars, fuRows

LEMMA CountKept ==
    ASSUME TasksInv, [FollowUpsNext]_fuVars, NEW k \in FuLeads
    PROVE  CountOK(k)'
  <1>1. /\ CountOK(k) /\ made[k] \in Nat /\ broken[k] \in Nat
        /\ reminder \in [FuLeads -> Clock] /\ made \in [FuLeads -> Nat]
        /\ broken \in [FuLeads -> Nat]
        /\ pass.at \in {"create", "clear"} => pass.lead \in FuLeads
        /\ pass \in [at: PassSteps, todo: SUBSET FuLeads, lead: FuLeads \cup {NoLead},
                     saw: SUBSET FuLeads]
    BY DEF TasksInv, FollowUpsTypeOK
  <1>a. ASSUME reminder'[k] # "none" => reminder[k] # "none", UNCHANGED <<made, broken>>,
               pass.at = "clear" => pass'.at = "clear" /\ pass'.lead = pass.lead,
               pass'.at = "clear" => pass.at = "clear"
        PROVE  CountOK(k)'
    BY <1>1, <1>a DEF CountOK
  <1>2. CASE ReadDue
    <2>1. pass.at = "idle" /\ pass'.at = "find" /\ UNCHANGED <<reminder, made, broken>>
      BY <1>2 DEF ReadDue, fuHist
    <2>. QED  BY <1>1, <1>a, <2>1
  <1>3. ASSUME NEW l \in FuLeads, FindTask(l) PROVE CountOK(k)'
    <2>1. pass.at = "find" /\ pass'.at # "clear" /\ UNCHANGED <<reminder, made, broken>>
      BY <1>1, <1>3 DEF FindTask
    <2>. QED  BY <1>1, <1>a, <2>1
  <1>4. CASE CreateFollowup
    <2>1. /\ pass.at = "create" /\ pass'.at = "clear" /\ pass'.lead = pass.lead
          /\ UNCHANGED <<reminder, broken>>
          /\ made'[k] = IF k = pass.lead THEN made[k] + 1 ELSE made[k]
      BY <1>1, <1>4 DEF CreateFollowup
    <2>. QED  BY <1>1, <2>1 DEF CountOK
  <1>5. CASE ClearReminder
    <2>1. /\ pass.at = "clear" /\ pass'.at = "find" /\ UNCHANGED <<made, broken>>
          /\ reminder'[k] = IF k = pass.lead THEN "none" ELSE reminder[k]
      BY <1>1, <1>5 DEF ClearReminder, fuHist
    <2>. QED  BY <1>1, <2>1 DEF CountOK
  <1>6. CASE PassEnds
    <2>1. pass.at = "find" /\ pass'.at = "idle" /\ UNCHANGED <<reminder, made, broken>>
      BY <1>6 DEF PassEnds, PassIdle
    <2>. QED  BY <1>1, <1>a, <2>1
  <1>7. CASE PassBreaks
    <2>1. /\ pass'.at = "idle" /\ UNCHANGED <<reminder, made>>
          /\ broken'[k] = IF pass.at = "clear" /\ pass.lead = k THEN broken[k] + 1 ELSE broken[k]
      BY <1>1, <1>7 DEF PassBreaks, BreaksOff, PassIdle
    <2>. QED  BY <1>1, <2>1 DEF CountOK
  <1>8. ASSUME NEW l \in FuLeads, SetReminder(l) PROVE CountOK(k)'
    <2>1. /\ pass'.at = pass.at /\ pass'.lead = pass.lead
          /\ k # l => reminder'[k] = reminder[k]
          /\ made'[k] = IF k = l THEN 0 ELSE made[k]
          /\ broken'[k] = IF k = l THEN 0 ELSE broken[k]
      BY <1>1, <1>8 DEF SetReminder
    <2>. QED  BY <1>1, <2>1 DEF CountOK
  <1>9. ASSUME NEW l \in FuLeads, FallsDue(l) \/ Lapses(l) PROVE CountOK(k)'
    <2>1. /\ pass' = pass /\ UNCHANGED <<made, broken>>
          /\ reminder'[k] # "none" => reminder[k] # "none"
      BY <1>1, <1>9 DEF FallsDue, Lapses, fuHist
    <2>. QED  BY <1>1, <1>a, <2>1
  <1>10. CASE UNCHANGED <<reminder, pass, made, broken>>
    BY <1>1, <1>a, <1>10
  <1>11. CASE Outage
    <2>1. /\ pass'.at = "idle" /\ made' = made
          /\ reminder'[k] # "none" => reminder[k] # "none"
          /\ broken'[k] = IF pass.at = "clear" /\ pass.lead = k THEN broken[k] + 1 ELSE broken[k]
      BY <1>1, <1>11 DEF Outage, BreaksOff, PassIdle
    <2>. QED  BY <1>1, <2>1 DEF CountOK
  <1>. QED  BY <1>2, <1>3, <1>4, <1>5, <1>6, <1>7, <1>8, <1>9, <1>10, <1>11
            DEF FollowUpsNext, DailyRead, DailyCreate, EditTasks, fuVars, fuRows, fuHist

LEMMA TasksHold == FollowUpsSpec => []TasksInv
  <1>1. FollowUpsAssumption /\ FollowUpsInit => TasksInv
    BY DEF FollowUpsInit, TasksInv, FollowUpsTypeOK, FewFollowups, CountOK, Coming, PassIdle,
           PassSteps, Clock
  <1>2. FollowUpsAssumption /\ TasksInv /\ [FollowUpsNext]_fuVars => TasksInv'
    <2>. SUFFICES ASSUME FollowUpsAssumption, TasksInv, [FollowUpsNext]_fuVars PROVE TasksInv'
      OBVIOUS
    <2>1. FollowUpsTypeOK'
      BY FollowUpsTyped DEF TasksInv
    <2>2. FewFollowups'
      BY <2>1, FewKept DEF FewFollowups
    <2>. QED  BY <2>1, <2>2, CountKept DEF TasksInv
  <1>. QED  BY <1>1, <1>2, FollowUpsAssumption, PTL DEF FollowUpsSpec

\* The two passes make no more than one open task each for a lead, those still to come
\* included, for any leads and batch size.
THEOREM FollowupsAreFew == FollowUpsSpec => []FewFollowups
  <1>1. TasksInv => FewFollowups
    BY DEF TasksInv
  <1>. QED  BY <1>1, TasksHold, PTL

\* A reminder makes one task, and one more for each pass that broke off between the
\* task and the clearing, for any leads and batch size.
THEOREM OneTaskEach == FollowUpsSpec => []OneTaskPerReminder
  <1>1. TasksInv => OneTaskPerReminder
    BY DEF TasksInv, CountOK, OneTaskPerReminder, FollowUpsTypeOK
  <1>. QED  BY <1>1, TasksHold, PTL

-----------------------------------------------------------------------------

\* What falls due at one time fits into one pass.
DueFits == Cardinality(Due) <= Batch

\* A pass that runs still has the due leads it has seen, or they are excused; those
\* of a pass that ended are excused.
SeenOK(l) ==
    /\ reminder[l] = "ahead" => l \notin rounds /\ l \notin pass.saw
    /\ reminder[l] = "due" /\ l \in rounds => l \in excused
    /\ reminder[l] = "due" /\ l \in pass.saw => l \in pass.todo \/ l \in excused
    /\ reminder[l] = "lapsed" => l \in excused

LookInv == FollowUpsTypeOK /\ \A l \in FuLeads : SeenOK(l)

\* A pass that reads no more leads than a batch takes them all.
LEMMA BatchTakesAll ==
    ASSUME FollowUpsAssumption, FollowUpsTypeOK, DueFits, ReadDue
    PROVE  pass'.todo = Due /\ pass'.saw = Due
  <1>1. IsFiniteSet(Due)
    BY FS_Subset DEF FollowUpsAssumption, Due
  <1>2. PICK todo \in SUBSET Due :
            /\ todo = Due \/ Cardinality(todo) = Batch
            /\ pass' = [at |-> "find", todo |-> todo, lead |-> NoLead, saw |-> Due]
    BY DEF ReadDue
  <1>3. /\ Cardinality(todo) <= Cardinality(Due)
        /\ Cardinality(todo) = Cardinality(Due) => todo = Due
    BY <1>1, FS_Subset
  <1>4. Cardinality(Due) \in Nat /\ Batch \in Nat
    BY <1>1, FS_CardinalityType DEF FollowUpsAssumption
  <1>5. todo = Due
    BY <1>2, <1>3, <1>4 DEF DueFits
  <1>. QED  BY <1>2, <1>5

LEMMA SeenKept ==
    ASSUME FollowUpsAssumption, LookInv, DueFits, [FollowUpsNext]_fuVars, NEW k \in FuLeads
    PROVE  SeenOK(k)'
  <1>1. /\ SeenOK(k) /\ FollowUpsTypeOK
        /\ reminder \in [FuLeads -> Clock]
        /\ pass.at \in {"create", "clear"} => pass.lead \in FuLeads
        /\ pass \in [at: PassSteps, todo: SUBSET FuLeads, lead: FuLeads \cup {NoLead},
                     saw: SUBSET FuLeads]
    BY DEF LookInv, FollowUpsTypeOK
  <1>2. CASE ReadDue
    <2>1. pass'.todo = Due /\ pass'.saw = Due /\ UNCHANGED <<reminder, rounds, excused>>
      BY <1>1, <1>2, BatchTakesAll DEF ReadDue, fuHist
    <2>. QED  BY <1>1, <2>1 DEF SeenOK, Due
  <1>3. ASSUME NEW l \in FuLeads, FindTask(l) PROVE SeenOK(k)'
    <2>1. /\ pass'.saw = pass.saw /\ UNCHANGED <<reminder, rounds>>
          /\ \/ pass'.todo = pass.todo /\ excused' = excused
             \/ pass'.todo = pass.todo \ {l} /\ excused' = excused \cup {l}
      BY <1>1, <1>3 DEF FindTask
    <2>. QED  BY <1>1, <2>1 DEF SeenOK
  <1>4. CASE CreateFollowup
    <2>1. /\ pass'.saw = pass.saw /\ pass'.todo = pass.todo /\ UNCHANGED <<reminder, rounds>>
          /\ excused \subseteq excused'
      BY <1>1, <1>4 DEF CreateFollowup
    <2>. QED  BY <1>1, <2>1 DEF SeenOK
  <1>5. CASE ClearReminder
    <2>1. /\ pass'.saw = pass.saw /\ pass'.todo = pass.todo \ {pass.lead}
          /\ UNCHANGED <<rounds, excused>>
          /\ reminder'[k] = IF k = pass.lead THEN "none" ELSE reminder[k]
      BY <1>1, <1>5 DEF ClearReminder, fuHist
    <2>. QED  BY <1>1, <2>1 DEF SeenOK
  <1>6. CASE PassEnds
    <2>1. /\ pass.todo = {} /\ pass'.saw = {} /\ rounds' = rounds \cup pass.saw
          /\ UNCHANGED <<reminder, excused>>
      BY <1>6 DEF PassEnds, PassIdle
    <2>. QED  BY <1>1, <2>1 DEF SeenOK
  <1>7. CASE PassBreaks
    <2>1. pass'.saw = {} /\ UNCHANGED <<reminder, rounds>> /\ excused \subseteq excused'
      BY <1>7 DEF PassBreaks, PassIdle
    <2>. QED  BY <1>1, <2>1 DEF SeenOK
  <1>8. ASSUME NEW l \in FuLeads, SetReminder(l) PROVE SeenOK(k)'
    <2>1. /\ pass'.saw = pass.saw \ {l} /\ pass'.todo = pass.todo
          /\ rounds' = rounds \ {l}
      BY <1>1, <1>8 DEF SetReminder
    <2>2. CASE k = l
      <3>1. reminder'[k] = "lapsed" => k \in excused'
        BY <1>1, <1>8, <2>2 DEF SetReminder
      <3>. QED  BY <2>1, <2>2, <3>1 DEF SeenOK
    <2>3. CASE k # l
      <3>1. reminder'[k] = reminder[k] /\ (k \in excused => k \in excused')
        BY <1>1, <1>8, <2>3 DEF SetReminder
      <3>. QED  BY <1>1, <2>1, <2>3, <3>1 DEF SeenOK
    <2>. QED  BY <2>2, <2>3
  <1>9. ASSUME NEW l \in FuLeads, FallsDue(l) PROVE SeenOK(k)'
    <2>1. /\ reminder[l] = "ahead" /\ UNCHANGED <<pass, rounds>> /\ excused' = excused \ {l}
          /\ reminder'[k] = IF k = l THEN "due" ELSE reminder[k]
      BY <1>1, <1>9 DEF FallsDue
    <2>. QED  BY <1>1, <2>1 DEF SeenOK
  <1>10. ASSUME NEW l \in FuLeads, Lapses(l) PROVE SeenOK(k)'
    <2>1. /\ reminder[l] = "due" /\ UNCHANGED <<pass, rounds, excused>>
          /\ l \in rounds \cup excused
          /\ reminder'[k] = IF k = l THEN "lapsed" ELSE reminder[k]
      BY <1>1, <1>10 DEF Lapses, fuHist
    <2>. QED  BY <1>1, <2>1 DEF SeenOK
  <1>11. CASE UNCHANGED <<reminder, pass, rounds, excused>>
    BY <1>1, <1>11 DEF SeenOK
  <1>12. CASE Outage
    <2>1. PICK lost \in SUBSET FuLeads :
              /\ reminder' = [l \in FuLeads |-> IF l \in lost THEN "lapsed" ELSE reminder[l]]
              /\ excused' = excused \cup pass.saw \cup lost
      BY <1>12 DEF Outage
    <2>2. reminder'[k] = IF k \in lost THEN "lapsed" ELSE reminder[k]
      BY <2>1
    <2>3. pass'.saw = {} /\ rounds' = rounds
      BY <1>12 DEF Outage, PassIdle
    <2>. QED  BY <1>1, <2>1, <2>2, <2>3 DEF SeenOK
  <1>. QED  BY <1>2, <1>3, <1>4, <1>5, <1>6, <1>7, <1>8, <1>9, <1>10, <1>11, <1>12
            DEF FollowUpsNext, DailyRead, DailyCreate, EditTasks, fuVars, fuRows, fuHist

\* As long as what is due at one time fits into a batch, no reminder runs past its six
\* hours unserved, unless a pass broke off, the API was down, or the reminder was set
\* for a time past them already, for any leads and batch size.
THEOREM NoLeadOverlooked == FollowUpsSpec /\ []DueFits => []NoneOverlooked
  <1>1. FollowUpsAssumption /\ FollowUpsInit => LookInv
    BY DEF FollowUpsInit, LookInv, FollowUpsTypeOK, SeenOK, PassIdle, PassSteps, Clock
  <1>2. FollowUpsAssumption /\ DueFits /\ LookInv /\ [FollowUpsNext]_fuVars => LookInv'
    BY FollowUpsTyped, SeenKept DEF LookInv
  <1>3. LookInv => NoneOverlooked
    BY DEF LookInv, SeenOK, NoneOverlooked
  <1>. QED  BY <1>1, <1>2, <1>3, FollowUpsAssumption, PTL DEF FollowUpsSpec

-----------------------------------------------------------------------------
(* Mortgages: score and bucket follow the inputs, a pre-approval is         *)
(* announced, and consent withdrawn stops what was not under way.           *)

UpdateSteps == {"update.write", "update.score", "tool.write"}

\* An approval that was announced, will be, or whose announcement failed.
ApprovalKnown == announced \/ silent \/ \E c \in MortCalls : mort[c].announce

\* An update with none beside it has the present inputs for the row it scores.
AloneOK(c) ==
    mort[c].alone /\ mort[c].at \in UpdateSteps =>
        /\ \A d \in MortCalls : mort[d].at \in UpdateSteps => d = c
        /\ mort[c].at # "update.write" => mort[c].row = inputs

\* Announcements come after the inputs; an approval that a call has read is known.
AnnounceOK(c) ==
    /\ mort[c].announce => mort[c].at \in {"update.score", "announce"}
    /\ mort[c].at \in {"update.write", "tool.write"} /\ mort[c].row.approved => ApprovalKnown

RatingOK ==
    ~mixed => rating = RatingOf(inputs) \/ \E c \in MortCalls : MortAt(c, "update.score")

MortInv ==
    /\ MortgageTypeOK /\ ApprovalAnnounced /\ RatingOK
    /\ \A c \in MortCalls : AloneOK(c) /\ AnnounceOK(c)

LEMMA UnsetFacts ==
    ASSUME MortgageAssumption
    PROVE  /\ Unset \in Inputs /\ ~Unset.approved
           /\ \A p \in Inputs : [Unset EXCEPT !.approved = p.approved] \in Inputs
           /\ \A p \in Inputs : [Unset EXCEPT !.approved = p.approved].approved = p.approved
  BY DEF MortgageAssumption, Unset, Inputs

LEMMA MergeFacts ==
    ASSUME MortgageAssumption, NEW row \in Inputs, NEW dto \in Dtos
    PROVE  /\ Merge(row, dto) \in Inputs
           /\ Merge(row, dto).approved => row.approved \/ dto.approved = TRUE
  <1>1. /\ row = [price |-> row.price, equity |-> row.equity, income |-> row.income,
                  approved |-> row.approved]
        /\ row.price \in Prices /\ row.equity \in Equities /\ row.income \in Incomes
        /\ row.approved \in BOOLEAN
    BY DEF Inputs
  <1>2. /\ dto.price \in Prices \cup {Same} /\ dto.equity \in Equities \cup {Same}
        /\ dto.income \in Incomes \cup {Same} /\ dto.approved \in BOOLEAN \cup {Same}
    BY DEF Dtos
  <1>. DEFINE pick(f) == IF dto[f] = Same THEN row[f] ELSE dto[f]
  <1>3. /\ pick("price") \in Prices /\ pick("equity") \in Equities
        /\ pick("income") \in Incomes /\ pick("approved") \in BOOLEAN
    BY <1>1, <1>2
  <1>4. Merge(row, dto) = [price |-> pick("price"), equity |-> pick("equity"),
                           income |-> pick("income"), approved |-> pick("approved")]
    BY DEF Merge
  <1>5. pick("approved") => row.approved \/ dto.approved = TRUE
    BY <1>1, <1>2
  <1>. HIDE DEF pick
  <1>6. Merge(row, dto).approved = pick("approved")
    BY <1>4
  <1>. QED  BY <1>3, <1>4, <1>5, <1>6 DEF Inputs

\* What the score is computed to is a score and a bucket.
LEMMA RatingFacts ==
    ASSUME MortgageAssumption
    PROVE  /\ \A p \in Inputs : RatingOf(p) \in [score: Nat, bucket: Buckets]
           /\ RatingOf(Unset) = [score |-> 0, bucket |-> "unknown"]
  <1>1. ASSUME NEW p \in Inputs PROVE RatingOf(p) \in [score: Nat, bucket: Buckets]
    <2>1. p.price \in Nat /\ p.equity \in Nat /\ p.income \in Nat /\ p.approved \in BOOLEAN
      BY DEF MortgageAssumption, Inputs
    <2>2. EquityPoints(p) \in Nat
      BY DEF EquityPoints
    <2>3. ScoreOf(p) \in Nat
      BY <2>2 DEF ScoreOf, Points
    <2>4. BucketOf(p) \in Buckets
      <3>1. CASE p.approved
        BY <3>1 DEF BucketOf, Buckets
      <3>2. CASE ~p.approved /\ ScoreOf(p) >= 60
        BY <2>3, <3>2 DEF BucketOf, Buckets
      <3>3. CASE ~p.approved /\ ScoreOf(p) >= 30 /\ ScoreOf(p) < 60
        BY <2>3, <3>3 DEF BucketOf, Buckets
      <3>4. CASE ~p.approved /\ ScoreOf(p) < 30
        BY <2>3, <3>4 DEF BucketOf, Buckets
      <3>. QED  BY <2>1, <2>3, <3>1, <3>2, <3>3, <3>4
    <2>. QED  BY <2>3, <2>4 DEF RatingOf
  <1>2. /\ Unset.price = 0 /\ Unset.equity = 0 /\ Unset.income = 0 /\ Unset.approved = FALSE
    BY DEF Unset
  <1>3. ScoreOf(Unset) = 0
    BY <1>2 DEF ScoreOf, Points, EquityPoints
  <1>4. BucketOf(Unset) = "unknown"
    BY <1>2, <1>3 DEF BucketOf
  <1>. QED  BY <1>1, <1>3, <1>4 DEF RatingOf

\* A call c that has begun goes on to x.
LEMMA MortCallStep ==
    ASSUME MortInv, NEW c \in MortCalls, NEW x \in MortCall, mort' = [mort EXCEPT ![c] = x],
           inputs' \in Inputs, rating' \in [score: Nat, bucket: Buckets],
           consent' \in BOOLEAN, advising' \in BOOLEAN, referrals' \in 0..MaxReferrals,
           announced' \in BOOLEAN, silent' \in BOOLEAN, mixed' \in BOOLEAN,
           x.at \notin {"update.write", "tool.write"},
           x.at = "update.score" => mort[c].at \in UpdateSteps,
           x.at = "update.score" /\ x.alone => mort[c].alone /\ x.row = inputs',
           inputs' # inputs => mort[c].at \in UpdateSteps,
           \/ mixed'
           \/ rating' = RatingOf(inputs')
           \/ x.at = "update.score"
           \/ mort[c].at # "update.score" /\ UNCHANGED <<inputs, rating, mixed>>,
           x.announce => x.at \in {"update.score", "announce"},
           announced => announced', silent => silent',
           mort[c].announce => x.announce \/ announced' \/ silent',
           inputs'.approved => inputs.approved \/ x.announce \/ ApprovalKnown
    PROVE  MortInv'
  <1>1. MortgageTypeOK /\ mort \in [MortCalls -> MortCall]
    BY DEF MortInv, MortgageTypeOK
  <1>2. \A d \in MortCalls : mort'[d] = IF d = c THEN x ELSE mort[d]
    BY <1>1
  <1>3. MortgageTypeOK'
    BY <1>1 DEF MortgageTypeOK
  <1>4. ApprovalKnown => ApprovalKnown'
    BY <1>2 DEF ApprovalKnown
  <1>5. ApprovalAnnounced'
    <2>1. inputs.approved => ApprovalKnown
      BY DEF MortInv, ApprovalAnnounced, ApprovalKnown
    <2>2. x.announce => ApprovalKnown'
      BY <1>2 DEF ApprovalKnown
    <2>3. inputs'.approved => ApprovalKnown'
      BY <1>4, <2>1, <2>2
    <2>. QED  BY <2>3 DEF ApprovalAnnounced, ApprovalKnown
  <1>6. RatingOK'
    BY <1>2 DEF MortInv, RatingOK, MortAt
  <1>7. ASSUME NEW d \in MortCalls PROVE AloneOK(d)' /\ AnnounceOK(d)'
    <2>1. AloneOK(d) /\ AloneOK(c) /\ AnnounceOK(d)
      BY DEF MortInv
    <2>2. CASE d = c
      <3>1. mort'[d] = x
        BY <1>2, <2>2
      <3>2. AnnounceOK(d)'
        BY <3>1 DEF AnnounceOK
      <3>3. AloneOK(d)'
        BY <1>2, <2>1, <2>2, <3>1 DEF AloneOK, UpdateSteps
      <3>. QED  BY <3>2, <3>3
    <2>3. CASE d # c
      <3>1. mort'[d] = mort[d]
        BY <1>2, <2>3
      <3>2. AnnounceOK(d)'
        BY <1>4, <2>1, <3>1 DEF AnnounceOK
      <3>3. mort[d].alone /\ mort[d].at \in UpdateSteps =>
                inputs' = inputs /\ mort[c].at \notin UpdateSteps
        BY <2>1, <2>3 DEF AloneOK
      <3>4. AloneOK(d)'
        BY <1>2, <2>1, <3>1, <3>3 DEF AloneOK, UpdateSteps
      <3>. QED  BY <3>2, <3>4
    <2>. QED  BY <2>2, <2>3
  <1>. QED  BY <1>3, <1>5, <1>6, <1>7 DEF MortInv

\* A call that does nothing yet begins to update: nobody is alone any more.
LEMMA ReadStep ==
    ASSUME MortgageAssumption, MortInv, NEW c \in MortCalls,
           NEW step \in {"update.write", "tool.write"}, ReadProfile(c, step)
    PROVE  MortInv'
  <1>. DEFINE row == IF step = "tool.write" THEN inputs
                     ELSE [Unset EXCEPT !.approved = inputs.approved]
              x == [at |-> step, announce |-> FALSE, alone |-> Updating = {}, row |-> row]
  <1>1. /\ MortgageTypeOK /\ mort \in [MortCalls -> MortCall] /\ inputs \in Inputs
        /\ mort[c].at = "idle" /\ AnnounceOK(c)
    BY DEF MortInv, MortgageTypeOK, ReadProfile, MortAt
  <1>2. row \in Inputs /\ row.approved = inputs.approved
    BY <1>1, UnsetFacts
  <1>3. /\ \A d \in MortCalls : mort'[d] = IF d = c THEN x ELSE [mort[d] EXCEPT !.alone = FALSE]
        /\ mort' = [d \in MortCalls |-> mort'[d]]
        /\ UNCHANGED <<inputs, rating, consent, advising, referrals, announced, silent, mixed>>
    BY DEF ReadProfile
  <1>4. /\ x \in MortCall /\ x.at = step /\ ~x.announce /\ x.row = row
        /\ x.alone = (Updating = {})
    BY <1>2 DEF MortCall, MortSteps
  <1>. HIDE DEF x, row
  <1>5. \A d \in MortCalls : d # c =>
            /\ mort'[d] \in MortCall /\ ~mort'[d].alone
            /\ mort'[d].at = mort[d].at /\ mort'[d].announce = mort[d].announce
            /\ mort'[d].row = mort[d].row
    <2>. SUFFICES ASSUME NEW d \in MortCalls, d # c
                  PROVE  /\ mort'[d] \in MortCall /\ ~mort'[d].alone
                         /\ mort'[d].at = mort[d].at /\ mort'[d].announce = mort[d].announce
                         /\ mort'[d].row = mort[d].row
      OBVIOUS
    <2>1. mort'[d] = [mort[d] EXCEPT !.alone = FALSE] /\ mort[d] \in MortCall
      BY <1>1, <1>3
    <2>. QED  BY <2>1 DEF MortCall
  <1>6. MortgageTypeOK'
    <2>1. \A d \in MortCalls : mort'[d] \in MortCall
      BY <1>3, <1>4, <1>5
    <2>2. mort' \in [MortCalls -> MortCall]
      BY <1>3, <2>1
    <2>. QED  BY <1>1, <1>3, <2>2 DEF MortgageTypeOK
  <1>7. ~mort[c].announce
    BY <1>1 DEF AnnounceOK
  <1>8. ApprovalKnown => ApprovalKnown'
    BY <1>3, <1>5, <1>7 DEF ApprovalKnown
  <1>9. inputs.approved => ApprovalKnown
    BY DEF MortInv, ApprovalAnnounced, ApprovalKnown
  <1>10. ApprovalAnnounced'
    BY <1>3, <1>8, <1>9 DEF ApprovalAnnounced, ApprovalKnown
  <1>11. RatingOK'
    BY <1>1, <1>3, <1>5 DEF MortInv, RatingOK, MortAt
  <1>12. ASSUME NEW d \in MortCalls PROVE AloneOK(d)' /\ AnnounceOK(d)'
    <2>1. CASE d = c
      <3>1. mort'[d] = x
        BY <1>3, <2>1
      <3>2. AnnounceOK(d)'
        BY <1>2, <1>4, <1>8, <1>9, <3>1 DEF AnnounceOK
      <3>3. x.alone => \A e \in MortCalls : e # c => mort[e].at \notin UpdateSteps
        BY <1>4 DEF Updating, UpdateSteps
      <3>4. x.at = "tool.write" => x.row = inputs
        BY <1>4 DEF row
      <3>. QED  BY <1>3, <1>4, <1>5, <2>1, <3>1, <3>2, <3>3, <3>4 DEF AloneOK
    <2>2. CASE d # c
      <3>1. AnnounceOK(d)
        BY DEF MortInv
      <3>. QED  BY <1>5, <1>8, <2>2, <3>1 DEF AloneOK, AnnounceOK
    <2>. QED  BY <2>1, <2>2
  <1>. QED  BY <1>6, <1>10, <1>11, <1>12 DEF MortInv

\* A call that has written inputs may owe an announcement.
LEMMA WriteFacts ==
    ASSUME MortgageAssumption, MortInv, NEW c \in MortCalls, NEW dto \in Dtos,
           mort[c].at \in {"update.write", "tool.write"}, inputs' = Merge(inputs, dto)
    PROVE  /\ inputs' \in Inputs /\ ~mort[c].announce /\ Approves(c, dto) \in BOOLEAN
           /\ inputs'.approved => inputs.approved \/ Approves(c, dto) \/ ApprovalKnown
  <1>1. inputs \in Inputs /\ AnnounceOK(c)
    BY DEF MortInv, MortgageTypeOK
  <1>. QED  BY <1>1, MergeFacts DEF AnnounceOK, Approves

LEMMA ProfileStep ==
    ASSUME MortgageAssumption, MortInv, ProfileNext
    PROVE  MortInv'
  <1>. SUFFICES ASSUME NEW c \in MortCalls,
                       \/ UpdateProfile(c) \/ UpdateScoreByHand(c) \/ WriteScore(c)
                       \/ CollectInfo(c) \/ Announce(c) \/ MortFail(c)
                PROVE  MortInv'
    BY ReadStep DEF ProfileNext
  <1>1. /\ MortgageTypeOK /\ mort \in [MortCalls -> MortCall] /\ inputs \in Inputs
        /\ mort[c] \in MortCall /\ mort[c].row \in Inputs
        /\ rating \in [score: Nat, bucket: Buckets]
        /\ consent \in BOOLEAN /\ advising \in BOOLEAN /\ referrals \in 0..MaxReferrals
        /\ announced \in BOOLEAN /\ silent \in BOOLEAN /\ mixed \in BOOLEAN
        /\ AloneOK(c) /\ AnnounceOK(c)
    BY DEF MortInv, MortgageTypeOK, MortCall
  <1>2. /\ MortIdle \in MortCall /\ MortIdle.at = "idle" /\ ~MortIdle.announce
    BY UnsetFacts DEF MortIdle, MortCall, MortSteps
  <1>3. ASSUME NEW a \in BOOLEAN
        PROVE  LET x == [MortIdle EXCEPT !.at = "announce", !.announce = a]
               IN  x \in MortCall /\ x.at = "announce" /\ x.announce = a
    BY UnsetFacts DEF MortIdle, MortCall, MortSteps
  <1>4. CASE UpdateProfile(c)
    <2>1. PICK dto \in Dtos :
              /\ inputs' = Merge(inputs, dto)
              /\ mort' = [mort EXCEPT ![c] =
                    [at |-> "update.score", row |-> Merge(inputs, dto),
                     announce |-> Approves(c, dto), alone |-> mort[c].alone]]
      BY <1>4 DEF UpdateProfile
    <2>. DEFINE x == [at |-> "update.score", row |-> Merge(inputs, dto),
                      announce |-> Approves(c, dto), alone |-> mort[c].alone]
    <2>2. mort[c].at = "update.write" /\ UNCHANGED <<rating, consent, advising, referrals,
                                                     announced, silent, mixed>>
      BY <1>4 DEF UpdateProfile, MortAt
    <2>3. /\ inputs' \in Inputs /\ ~mort[c].announce /\ Approves(c, dto) \in BOOLEAN
          /\ inputs'.approved => inputs.approved \/ Approves(c, dto) \/ ApprovalKnown
      BY <2>1, <2>2, WriteFacts
    <2>4. /\ x \in MortCall /\ x.at = "update.score" /\ x.row = inputs'
          /\ x.announce = Approves(c, dto) /\ x.alone = mort[c].alone
      BY <1>1, <2>1, <2>3 DEF MortCall, MortSteps
    <2>5. mort' = [mort EXCEPT ![c] = x]
      BY <2>1
    <2>. HIDE DEF x
    <2>. QED  BY <1>1, <2>2, <2>3, <2>4, <2>5, MortCallStep DEF UpdateSteps
  <1>5. CASE UpdateScoreByHand(c)
    <2>1. PICK dto \in Dtos, r \in ByHand :
              /\ inputs' = Merge(inputs, dto)
              /\ rating' = r
              /\ mort' = [mort EXCEPT ![c] =
                    [MortIdle EXCEPT !.at = "announce", !.announce = Approves(c, dto)]]
      BY <1>5 DEF UpdateScoreByHand
    <2>. DEFINE x == [MortIdle EXCEPT !.at = "announce", !.announce = Approves(c, dto)]
    <2>2. mort[c].at = "update.write" /\ mixed' = TRUE
          /\ UNCHANGED <<consent, advising, referrals, announced, silent>>
      BY <1>5 DEF UpdateScoreByHand, MortAt
    <2>3. /\ inputs' \in Inputs /\ ~mort[c].announce /\ Approves(c, dto) \in BOOLEAN
          /\ inputs'.approved => inputs.approved \/ Approves(c, dto) \/ ApprovalKnown
      BY <2>1, <2>2, WriteFacts
    <2>4. x \in MortCall /\ x.at = "announce" /\ x.announce = Approves(c, dto)
      BY <1>3, <2>3
    <2>5. mort' = [mort EXCEPT ![c] = x] /\ rating' \in [score: Nat, bucket: Buckets]
      BY <2>1 DEF MortgageAssumption, Buckets
    <2>. HIDE DEF x
    <2>. QED  BY <1>1, <2>2, <2>3, <2>4, <2>5, MortCallStep DEF UpdateSteps
  <1>6. CASE WriteScore(c)
    <2>. DEFINE x == [MortIdle EXCEPT !.at = "announce", !.announce = mort[c].announce]
    <2>1. /\ mort[c].at = "update.score" /\ rating' = RatingOf(mort[c].row)
          /\ mort' = [mort EXCEPT ![c] = x] /\ mixed' = ~mort[c].alone
          /\ UNCHANGED <<inputs, consent, advising, referrals, announced, silent>>
      BY <1>6 DEF WriteScore, MortAt
    <2>2. mort[c].announce \in BOOLEAN /\ mort[c].alone \in BOOLEAN
      BY <1>1 DEF MortCall
    <2>3. x \in MortCall /\ x.at = "announce" /\ x.announce = mort[c].announce
      BY <1>3, <2>2
    <2>4. mort[c].alone => mort[c].row = inputs
      BY <1>1, <2>1 DEF AloneOK, UpdateSteps
    <2>5. rating' \in [score: Nat, bucket: Buckets] /\ mixed' \in BOOLEAN
      BY <1>1, <2>1, <2>2, RatingFacts
    <2>. HIDE DEF x
    <2>. QED  BY <1>1, <2>1, <2>2, <2>3, <2>4, <2>5, MortCallStep
  <1>7. CASE CollectInfo(c)
    <2>1. PICK dto \in Dtos :
              /\ inputs' = Merge(inputs, dto)
              /\ rating' = RatingOf(Merge(mort[c].row, dto))
              /\ mort' = [mort EXCEPT ![c] =
                    [MortIdle EXCEPT !.at = "announce", !.announce = Approves(c, dto)]]
      BY <1>7 DEF CollectInfo
    <2>. DEFINE x == [MortIdle EXCEPT !.at = "announce", !.announce = Approves(c, dto)]
    <2>2. mort[c].at = "tool.write" /\ mixed' = ~mort[c].alone
          /\ UNCHANGED <<consent, advising, referrals, announced, silent>>
      BY <1>7 DEF CollectInfo, MortAt
    <2>3. /\ inputs' \in Inputs /\ ~mort[c].announce /\ Approves(c, dto) \in BOOLEAN
          /\ inputs'.approved => inputs.approved \/ Approves(c, dto) \/ ApprovalKnown
      BY <2>1, <2>2, WriteFacts
    <2>4. x \in MortCall /\ x.at = "announce" /\ x.announce = Approves(c, dto)
      BY <1>3, <2>3
    <2>5. mort[c].alone => rating' = RatingOf(inputs')
      BY <1>1, <2>1, <2>2 DEF AloneOK, UpdateSteps
    <2>6. rating' \in [score: Nat, bucket: Buckets]
      BY <1>1, <2>1, MergeFacts, RatingFacts
    <2>7. mort' = [mort EXCEPT ![c] = x] /\ mort[c].alone \in BOOLEAN /\ mixed' \in BOOLEAN
      BY <1>1, <2>1, <2>2 DEF MortCall
    <2>. HIDE DEF x
    <2>. QED  BY <1>1, <2>2, <2>3, <2>4, <2>5, <2>6, <2>7, MortCallStep DEF UpdateSteps
  <1>8. CASE Announce(c)
    <2>1. /\ mort[c].at = "announce" /\ announced' = (announced \/ mort[c].announce)
          /\ mort' = [mort EXCEPT ![c] = MortIdle]
          /\ UNCHANGED <<inputs, rating, consent, advising, referrals, silent, mixed>>
      BY <1>8 DEF Announce, MortAt, MortEnd
    <2>2. announced' \in BOOLEAN
      BY <2>1
    <2>. QED  BY <1>1, <1>2, <2>1, <2>2, MortCallStep
  <1>9. CASE MortFail(c)
    <2>1. /\ silent' = (silent \/ mort[c].announce)
          /\ mixed' = (mixed \/ mort[c].at = "update.score")
          /\ mort' = [mort EXCEPT ![c] = MortIdle]
          /\ UNCHANGED <<inputs, rating, consent, advising, referrals, announced>>
      BY <1>9 DEF MortFail, MortAt, MortEnd
    <2>2. silent' \in BOOLEAN /\ mixed' \in BOOLEAN
      BY <2>1
    <2>3. mort[c].at # "update.score" => mixed' = mixed
      BY <1>1, <2>1
    <2>. QED  BY <1>1, <1>2, <2>1, <2>2, <2>3, MortCallStep
  <1>. QED  BY <1>4, <1>5, <1>6, <1>7, <1>8, <1>9

LEMMA ReferralStep ==
    ASSUME MortgageAssumption, MortInv, ReferralNext
    PROVE  MortInv'
  <1>1. CASE \E b \in BOOLEAN : RecordConsent(b) \/ UpdateAdvisor(b)
    BY <1>1 DEF RecordConsent, UpdateAdvisor, MortInv, MortgageTypeOK, ApprovalAnnounced,
                RatingOK, AloneOK, AnnounceOK, ApprovalKnown, MortAt
  <1>2. ASSUME NEW c \in MortCalls, MortFail(c) PROVE MortInv'
    BY <1>2, ProfileStep DEF ProfileNext
  <1>3. ASSUME NEW c \in MortCalls, Refer(c) \/ FindAdvisor(c) \/ CreateReferral(c)
        PROVE  MortInv'
    <2>1. /\ mort[c].at \in {"idle", "refer.advisor", "refer.create"}
          /\ UNCHANGED <<inputs, rating, consent, advising, announced, silent, mixed>>
      BY <1>3 DEF Refer, FindAdvisor, CreateReferral, MortAt
    <2>2. /\ mort \in [MortCalls -> MortCall] /\ inputs \in Inputs /\ mort[c] \in MortCall
          /\ rating \in [score: Nat, bucket: Buckets]
          /\ consent \in BOOLEAN /\ advising \in BOOLEAN /\ referrals \in 0..MaxReferrals
          /\ announced \in BOOLEAN /\ silent \in BOOLEAN /\ mixed \in BOOLEAN
          /\ AnnounceOK(c) /\ MaxReferrals \in Nat
      BY DEF MortInv, MortgageTypeOK, MortgageAssumption
    <2>3. referrals' \in 0..MaxReferrals
      BY <1>3, <2>2 DEF Refer, FindAdvisor, CreateReferral
    <2>4. ~mort[c].announce
      BY <2>1, <2>2 DEF AnnounceOK
    <2>a. ASSUME NEW x \in MortCall, mort' = [mort EXCEPT ![c] = x], ~x.announce,
                 x.at \in {"idle", "refer.advisor", "refer.create"}
          PROVE  MortInv'
      BY <2>a, <2>1, <2>2, <2>3, <2>4, MortCallStep DEF UpdateSteps
    <2>5. MortIdle \in MortCall /\ MortIdle.at = "idle" /\ ~MortIdle.announce
      BY UnsetFacts DEF MortIdle, MortCall, MortSteps
    <2>6. CASE Refer(c)
      <3>. DEFINE x == [MortIdle EXCEPT !.at = "refer.advisor"]
      <3>1. x \in MortCall /\ x.at = "refer.advisor" /\ ~x.announce
        BY UnsetFacts DEF MortIdle, MortCall, MortSteps
      <3>2. mort' = [mort EXCEPT ![c] = x]
        BY <2>6 DEF Refer
      <3>. HIDE DEF x
      <3>. QED  BY <2>a, <3>1, <3>2
    <2>7. CASE FindAdvisor(c)
      <3>. DEFINE x == [mort[c] EXCEPT !.at = "refer.create"]
      <3>1. x \in MortCall /\ x.at = "refer.create" /\ ~x.announce
        BY <2>2, <2>4 DEF MortCall, MortSteps
      <3>2. mort' = [mort EXCEPT ![c] = x] \/ mort' = [mort EXCEPT ![c] = MortIdle]
        BY <2>7 DEF FindAdvisor, MortEnd
      <3>. HIDE DEF x
      <3>. QED  BY <2>a, <2>5, <3>1, <3>2
    <2>8. CASE CreateReferral(c)
      BY <2>a, <2>5, <2>8 DEF CreateReferral, MortEnd
    <2>. QED  BY <1>3, <2>6, <2>7, <2>8
  <1>. QED  BY <1>1, <1>2, <1>3 DEF ReferralNext

LEMMA MortInvHolds == MortgageSpec => []MortInv
  <1>1. MortgageAssumption /\ MortgageInit => MortInv
    <2>. SUFFICES ASSUME MortgageAssumption, MortgageInit PROVE MortInv
      OBVIOUS
    <2>1. MortIdle \in MortCall /\ MortIdle.at = "idle" /\ ~MortIdle.announce
      BY UnsetFacts DEF MortIdle, MortCall, MortSteps
    <2>2. MortgageTypeOK
      <3>1. inputs \in Inputs /\ mort \in [MortCalls -> MortCall]
        BY <2>1, UnsetFacts DEF MortgageInit
      <3>2. rating \in [score: Nat, bucket: Buckets]
        BY DEF MortgageInit, Buckets
      <3>3. referrals \in 0..MaxReferrals
        BY DEF MortgageInit, MortgageAssumption
      <3>. QED  BY <3>1, <3>2, <3>3 DEF MortgageInit, MortgageTypeOK
    <2>3. RatingOK /\ ApprovalAnnounced
      BY UnsetFacts, RatingFacts DEF MortgageInit, RatingOK, ApprovalAnnounced
    <2>4. \A c \in MortCalls : AloneOK(c) /\ AnnounceOK(c)
      BY <2>1 DEF MortgageInit, AloneOK, AnnounceOK, UpdateSteps
    <2>. QED  BY <2>2, <2>3, <2>4 DEF MortInv
  <1>2. MortgageAssumption /\ MortInv /\ [MortgageNext]_mortVars => MortInv'
    <2>. SUFFICES ASSUME MortgageAssumption, MortInv, [MortgageNext]_mortVars PROVE MortInv'
      OBVIOUS
    <2>1. CASE UNCHANGED mortVars
      BY <2>1 DEF mortVars, MortInv, MortgageTypeOK, ApprovalAnnounced, RatingOK, AloneOK,
                  AnnounceOK, ApprovalKnown, MortAt
    <2>. QED  BY <2>1, ProfileStep, ReferralStep DEF MortgageNext
  <1>. QED  BY <1>1, <1>2, MortgageAssumption, PTL DEF MortgageSpec

\* When nobody updates and the last update ran alone, score and bucket are those of the
\* inputs, for any amounts and any calls at once.
THEOREM RatingIsOfInputs == MortgageSpec => []RatingFollows
  <1>1. MortInv => RatingFollows
    BY DEF MortInv, RatingOK, RatingFollows, Updating, MortAt
  <1>. QED  BY <1>1, MortInvHolds, PTL

\* A pre-approval that the profile shows has been announced, will be, or a call failed
\* before it was, for any calls at once.
THEOREM ApprovalIsAnnounced == MortgageSpec => []ApprovalAnnounced
  <1>1. MortInv => ApprovalAnnounced
    BY DEF MortInv
  <1>. QED  BY <1>1, MortInvHolds, PTL

-----------------------------------------------------------------------------

\* A call leaves a set of calls at most with a referral, and enters it only by a step
\* that is allowed to; for Consented and for Advised.
LEMMA CountStep ==
    ASSUME MortgageAssumption, NEW S, NEW T, S \subseteq MortCalls, referrals \in Nat,
           NEW c \in MortCalls,
           \/ T \subseteq S /\ referrals' = referrals
           \/ c \in S /\ T \subseteq S \ {c} /\ referrals' = referrals + 1
    PROVE  referrals' + Cardinality(T) <= referrals + Cardinality(S)
  <1>1. IsFiniteSet(S) /\ IsFiniteSet(S \ {c})
    BY FS_Subset DEF MortgageAssumption
  <1>2. CASE T \subseteq S /\ referrals' = referrals
    <2>1. Cardinality(T) <= Cardinality(S) /\ IsFiniteSet(T)
      BY <1>1, <1>2, FS_Subset
    <2>. QED  BY <1>1, <1>2, <2>1, FS_CardinalityType
  <1>3. CASE c \in S /\ T \subseteq S \ {c} /\ referrals' = referrals + 1
    <2>1. Cardinality(T) <= Cardinality(S \ {c}) /\ IsFiniteSet(T)
      BY <1>1, <1>3, FS_Subset
    <2>2. Cardinality(S \ {c}) = Cardinality(S) - 1
      BY <1>1, <1>3, FS_RemoveElement
    <2>3. Cardinality(S) \in Nat /\ Cardinality(S \ {c}) \in Nat /\ Cardinality(T) \in Nat
      BY <1>1, <2>1, FS_CardinalityType
    <2>. QED  BY <1>3, <2>1, <2>2, <2>3
  <1>. QED  BY <1>2, <1>3

LEMMA ReferralsGuarded ==
    ASSUME MortgageAssumption, MortgageTypeOK, [MortgageNext]_mortVars
    PROVE  /\ ~consent => referrals' + Cardinality(Consented')
                             <= referrals + Cardinality(Consented)
           /\ ~advising => referrals' + Cardinality(Advised')
                              <= referrals + Cardinality(Advised)
  <1>. DEFINE Goal == /\ ~consent => referrals' + Cardinality(Consented')
                                        <= referrals + Cardinality(Consented)
                      /\ ~advising => referrals' + Cardinality(Advised')
                                         <= referrals + Cardinality(Advised)
  <1>1. /\ mort \in [MortCalls -> MortCall] /\ referrals \in Nat
        /\ Consented \subseteq MortCalls /\ Advised \subseteq MortCalls
    BY DEF MortgageTypeOK, MortgageAssumption, Consented, Advised
  <1>a. ASSUME NEW c \in MortCalls, ~consent => Consented' \subseteq Consented,
               ~advising => Advised' \subseteq Advised, referrals' = referrals
        PROVE  Goal
    BY <1>1, <1>a, CountStep
  <1>b. ASSUME NEW c \in MortCalls, \A d \in MortCalls : mort'[d].at = mort[d].at \/ d = c,
               mort'[c].at \notin {"refer.advisor", "refer.create"}, referrals' = referrals
        PROVE  Goal
    <2>1. Consented' \subseteq Consented /\ Advised' \subseteq Advised
      BY <1>b DEF Consented, Advised, MortAt
    <2>. QED  BY <1>a, <1>b, <2>1
  <1>2. ASSUME NEW c \in MortCalls, NEW step \in {"update.write", "tool.write"},
               ReadProfile(c, step)
        PROVE  Goal
    <2>1. \A d \in MortCalls : mort'[d].at = IF d = c THEN step ELSE mort[d].at
      BY <1>1, <1>2 DEF ReadProfile, MortCall
    <2>. QED  BY <1>2, <1>b, <2>1 DEF ReadProfile
  <1>3. ASSUME NEW c \in MortCalls,
               \/ UpdateProfile(c) \/ UpdateScoreByHand(c) \/ WriteScore(c)
               \/ CollectInfo(c) \/ Announce(c) \/ MortFail(c)
        PROVE  Goal
    <2>1. CASE UpdateProfile(c)
      BY <1>1, <1>b, <2>1 DEF UpdateProfile
    <2>2. CASE UpdateScoreByHand(c)
      BY <1>1, <1>b, <2>2 DEF UpdateScoreByHand, MortIdle
    <2>3. CASE WriteScore(c)
      BY <1>1, <1>b, <2>3 DEF WriteScore, MortIdle
    <2>4. CASE CollectInfo(c)
      BY <1>1, <1>b, <2>4 DEF CollectInfo, MortIdle
    <2>5. CASE Announce(c) \/ MortFail(c)
      BY <1>1, <1>b, <2>5 DEF Announce, MortFail, MortEnd, MortIdle
    <2>. QED  BY <1>3, <2>1, <2>2, <2>3, <2>4, <2>5
  <1>4. ASSUME NEW c \in MortCalls, Refer(c) PROVE Goal
    <2>1. /\ consent /\ mort[c].at = "idle" /\ referrals' = referrals
          /\ mort' = [mort EXCEPT ![c] = [MortIdle EXCEPT !.at = "refer.advisor"]]
      BY <1>4 DEF Refer, MortAt
    <2>2. \A d \in MortCalls : mort'[d].at = IF d = c THEN "refer.advisor" ELSE mort[d].at
      BY <1>1, <2>1 DEF MortIdle
    <2>3. Advised' \subseteq Advised
      BY <2>2 DEF Advised, MortAt
    <2>. QED  BY <1>a, <2>1, <2>3
  <1>5. ASSUME NEW c \in MortCalls, FindAdvisor(c) PROVE Goal
    <2>1. mort[c].at = "refer.advisor" /\ referrals' = referrals
      BY <1>5 DEF FindAdvisor, MortAt
    <2>2. CASE advising
      <3>1. \A d \in MortCalls : mort'[d].at = IF d = c THEN "refer.create" ELSE mort[d].at
        BY <1>1, <1>5, <2>2 DEF FindAdvisor, MortCall
      <3>2. Consented' \subseteq Consented
        BY <2>1, <3>1 DEF Consented
      <3>. QED  BY <1>a, <2>1, <2>2, <3>2
    <2>3. CASE ~advising
      <3>1. \A d \in MortCalls : mort'[d].at = IF d = c THEN "idle" ELSE mort[d].at
        BY <1>1, <1>5, <2>3 DEF FindAdvisor, MortEnd, MortIdle
      <3>. QED  BY <1>b, <2>1, <3>1
    <2>. QED  BY <2>2, <2>3
  <1>6. ASSUME NEW c \in MortCalls, CreateReferral(c) PROVE Goal
    <2>1. mort[c].at = "refer.create" /\ referrals' = referrals + 1
      BY <1>6 DEF CreateReferral, MortAt
    <2>2. \A d \in MortCalls : mort'[d].at = IF d = c THEN "idle" ELSE mort[d].at
      BY <1>1, <1>6 DEF CreateReferral, MortEnd, MortIdle
    <2>3. c \in Consented /\ Consented' \subseteq Consented \ {c}
      BY <2>1, <2>2 DEF Consented
    <2>4. c \in Advised /\ Advised' \subseteq Advised \ {c}
      BY <2>1, <2>2 DEF Advised, MortAt
    <2>. QED  BY <1>1, <2>1, <2>3, <2>4, CountStep
  <1>7. CASE UNCHANGED <<mort, referrals>>
    <2>1. Consented' = Consented /\ Advised' = Advised
      BY <1>7 DEF Consented, Advised, MortAt
    <2>2. IsFiniteSet(Consented) /\ IsFiniteSet(Advised)
      BY <1>1, FS_Subset DEF MortgageAssumption
    <2>. QED  BY <1>1, <1>7, <2>1, <2>2, FS_CardinalityType
  <1>. QED  BY <1>2, <1>3, <1>4, <1>5, <1>6, <1>7
            DEF MortgageNext, ProfileNext, ReferralNext, RecordConsent, UpdateAdvisor, mortVars

\* No referral is begun without consent, nor sent on without an active advisor: what
\* is made after either was withdrawn was under way, for any calls at once.
THEOREM ConsentIsRespected == MortgageSpec => ConsentRespected
  <1>1. MortInv => MortgageTypeOK
    BY DEF MortInv
  <1>2. MortgageAssumption /\ MortgageTypeOK /\ [MortgageNext]_mortVars =>
            [/\ ~consent => referrals' + Cardinality(Consented')
                               <= referrals + Cardinality(Consented)
             /\ ~advising => referrals' + Cardinality(Advised')
                                <= referrals + Cardinality(Advised)]_mortVars
    BY ReferralsGuarded
  <1>. QED  BY <1>1, <1>2, MortInvHolds, MortgageAssumption, PTL
            DEF MortgageSpec, ConsentRespected

-----------------------------------------------------------------------------
(* The import of streets: what a full import has passed is stored.          *)

\* Rows up to the import's offset, of towns it knows, are stored or on its page.
ImportOK(i) ==
    imports[i] # NoImport /\ imports[i].full =>
        /\ imports[i].skip = {}
        /\ \A j \in 1..imports[i].offset : Register[j].town \in imports[i].known =>
              Register[j] \in streets \cup imports[i].page

StreetsInv == StreetsTypeOK /\ StreetsComplete /\ \A i \in Imports : ImportOK(i)

LEMMA RegisterFacts ==
    ASSUME StreetsAssumption
    PROVE  /\ Len(Register) \in Nat /\ DOMAIN Register = 1..Len(Register)
           /\ Page \in Nat \ {0}
           /\ \A j \in 1..Len(Register) : Register[j] \in Rows /\ Register[j].town \in Towns
  <1>1. Len(Register) \in Nat /\ DOMAIN Register = 1..Len(Register)
    BY DEF StreetsAssumption
  <1>. QED  BY <1>1 DEF StreetsAssumption, Rows

\* An import goes on to x, streets and promises only grow.
LEMMA ImportStep ==
    ASSUME StreetsAssumption, StreetsInv, NEW i \in Imports, NEW x \in Import \cup {NoImport},
           imports' = [imports EXCEPT ![i] = x], towns' = towns,
           streets \subseteq streets', streets' \subseteq Rows,
           promised' \subseteq Towns,
           \A t \in promised' \ promised : RowsOf(t) \subseteq streets',
           x # NoImport /\ x.full =>
                /\ x.skip = {}
                /\ \A j \in 1..x.offset : Register[j].town \in x.known =>
                      Register[j] \in streets' \cup x.page
    PROVE  StreetsInv'
  <1>1. StreetsTypeOK
    BY DEF StreetsInv
  <1>2. StreetsTypeOK'
    BY <1>1 DEF StreetsTypeOK
  <1>3. StreetsComplete'
    BY DEF StreetsInv, StreetsComplete
  <1>4. ASSUME NEW k \in Imports PROVE ImportOK(k)'
    <2>1. imports'[k] = IF k = i THEN x ELSE imports[k]
      BY <1>1 DEF StreetsTypeOK
    <2>2. CASE k = i
      BY <2>1, <2>2 DEF ImportOK
    <2>3. CASE k # i
      <3>1. ImportOK(k) /\ imports'[k] = imports[k]
        BY <2>1, <2>3 DEF StreetsInv
      <3>. QED  BY <3>1 DEF ImportOK
    <2>. QED  BY <2>2, <2>3
  <1>. QED  BY <1>2, <1>3, <1>4 DEF StreetsInv

LEMMA StreetsStep ==
    ASSUME StreetsAssumption, StreetsInv, [StreetsNext]_streetVars PROVE StreetsInv'
  <1>1. /\ StreetsTypeOK /\ StreetsComplete /\ Len(Register) \in Nat
        /\ towns \subseteq Towns /\ streets \subseteq Rows /\ promised \subseteq Towns
        /\ Page \in Nat \ {0}
        /\ \A j \in 1..Len(Register) : Register[j] \in Rows /\ Register[j].town \in Towns
    BY RegisterFacts DEF StreetsInv, StreetsTypeOK
  <1>2. ASSUME NEW i \in Imports, imports[i] # NoImport
        PROVE  imports[i] \in Import /\ ImportOK(i)
    BY <1>1, <1>2 DEF StreetsInv, StreetsTypeOK
  <1>3. CASE UNCHANGED <<streets, imports, promised>> /\ towns' \subseteq Towns
    BY <1>3 DEF StreetsInv, StreetsTypeOK, StreetsComplete, ImportOK
  <1>4. ASSUME NEW i \in Imports, NEW full \in BOOLEAN, Start(i, full) PROVE StreetsInv'
    <2>. DEFINE skip == IF full THEN {} ELSE {r.town : r \in streets}
                x == [full |-> full, known |-> towns, skip |-> skip, offset |-> 0, page |-> {}]
    <2>1. \A r \in Rows : r.town \in Towns
      BY DEF Rows, StreetsAssumption
    <2>2. skip \subseteq Towns
      BY <1>1, <2>1
    <2>3. x \in Import /\ x.offset = 0 /\ (x.full => x.skip = {})
      BY <1>1, <2>2 DEF Import
    <2>4. imports' = [imports EXCEPT ![i] = x] /\ UNCHANGED <<towns, streets, promised>>
      BY <1>4 DEF Start
    <2>. HIDE DEF x
    <2>5. 1..x.offset = {}
      BY <2>3
    <2>. QED  BY <1>1, <2>3, <2>4, <2>5, ImportStep
  <1>5. ASSUME NEW i \in Imports, Fetch(i) PROVE StreetsInv'
    <2>. DEFINE m == imports[i]
                n == Lesser(m.offset + Page, Len(Register))
                page == {r \in PageRows(m.offset) : r.town \in m.known \ m.skip}
                x == [m EXCEPT !.offset = n, !.page = page]
    <2>1. /\ m # NoImport /\ m \in Import /\ m.page = {} /\ ImportOK(i)
          /\ m.offset \in 0..Len(Register)
      BY <1>2, <1>5 DEF Fetch, Import
    <2>2. n \in 0..Len(Register) /\ n = Lesser(m.offset + Page, Len(Register))
      BY <1>1, <2>1 DEF Lesser
    <2>3. PageRows(m.offset) = {Register[j] : j \in (m.offset + 1)..n}
      BY DEF PageRows
    <2>4. page \subseteq Rows
      BY <1>1, <2>1, <2>2, <2>3
    <2>5. /\ x \in Import /\ x.full = m.full /\ x.known = m.known /\ x.skip = m.skip
          /\ x.offset = n /\ x.page = page
      BY <2>1, <2>2, <2>4 DEF Import
    <2>6. imports' = [imports EXCEPT ![i] = x] /\ UNCHANGED <<towns, streets, promised>>
      BY <1>5 DEF Fetch
    <2>7. ASSUME m.full PROVE /\ m.skip = {}
                              /\ \A j \in 1..n : Register[j].town \in m.known =>
                                    Register[j] \in streets \cup page
      <3>1. /\ m.skip = {}
            /\ \A j \in 1..m.offset : Register[j].town \in m.known => Register[j] \in streets
        BY <2>1, <2>7 DEF ImportOK
      <3>2. ASSUME NEW j \in 1..n, Register[j].town \in m.known
            PROVE  Register[j] \in streets \cup page
        <4>1. j \in 1..m.offset \/ j \in (m.offset + 1)..n
          BY <2>1, <2>2
        <4>. QED  BY <2>3, <3>1, <3>2, <4>1
      <3>. QED  BY <3>1, <3>2
    <2>. HIDE DEF x, page, n
    <2>. QED  BY <1>1, <2>5, <2>6, <2>7, ImportStep
  <1>6. ASSUME NEW i \in Imports, NEW t \in Towns, StoreBucket(i, t) PROVE StreetsInv'
    <2>. DEFINE m == imports[i]
                x == [m EXCEPT !.page = m.page \ RowsOf(t)]
    <2>1. m # NoImport /\ m \in Import /\ ImportOK(i) /\ m.page \subseteq Rows
      BY <1>2, <1>6 DEF StoreBucket, Import
    <2>2. /\ x \in Import /\ x.full = m.full /\ x.known = m.known /\ x.skip = m.skip
          /\ x.offset = m.offset /\ x.page = m.page \ RowsOf(t)
      BY <2>1 DEF Import
    <2>3. /\ imports' = [imports EXCEPT ![i] = x] /\ UNCHANGED <<towns, promised>>
          /\ streets' = streets \cup (m.page \cap RowsOf(t))
      BY <1>6 DEF StoreBucket
    <2>4. m.full => /\ m.skip = {}
                    /\ \A j \in 1..m.offset : Register[j].town \in m.known =>
                          Register[j] \in streets' \cup (m.page \ RowsOf(t))
      BY <2>1, <2>3 DEF ImportOK
    <2>. HIDE DEF x
    <2>. QED  BY <1>1, <2>1, <2>2, <2>3, <2>4, ImportStep
  <1>7. ASSUME NEW i \in Imports, Break(i) PROVE StreetsInv'
    BY <1>1, <1>7, ImportStep DEF Break
  <1>8. ASSUME NEW i \in Imports, Report(i) PROVE StreetsInv'
    <2>. DEFINE m == imports[i]
                done == IF m.full THEN m.known ELSE {}
    <2>1. /\ m # NoImport /\ m \in Import /\ ImportOK(i) /\ m.page = {}
          /\ m.offset = Len(Register) /\ m.known \subseteq Towns
      BY <1>2, <1>8 DEF Report, Import
    <2>2. /\ imports' = [imports EXCEPT ![i] = NoImport] /\ UNCHANGED <<towns, streets>>
          /\ promised' = promised \cup done
      BY <1>8 DEF Report
    <2>3. ASSUME NEW t \in done PROVE RowsOf(t) \subseteq streets
      <3>1. m.full /\ t \in m.known
        BY <2>3
      <3>2. \A j \in 1..Len(Register) : Register[j].town \in m.known => Register[j] \in streets
        BY <2>1, <3>1 DEF ImportOK
      <3>3. \A r \in Rows : \E j \in 1..Len(Register) : r = Register[j]
        BY RegisterFacts DEF Rows
      <3>. QED  BY <3>1, <3>2, <3>3 DEF RowsOf
    <2>. QED  BY <1>1, <2>1, <2>2, <2>3, ImportStep
  <1>9. ASSUME NEW t \in Towns, AddTown(t) PROVE StreetsInv'
    BY <1>1, <1>3, <1>9 DEF AddTown
  <1>10. CASE UNCHANGED streetVars
    BY <1>1, <1>3, <1>10 DEF streetVars
  <1>. QED  BY <1>4, <1>5, <1>6, <1>7, <1>8, <1>9, <1>10 DEF StreetsNext

LEMMA StreetsInvHolds == StreetsSpec => []StreetsInv
  <1>1. StreetsAssumption /\ StreetsInit => StreetsInv
    BY DEF StreetsAssumption, StreetsInit, StreetsInv, StreetsTypeOK, StreetsComplete, ImportOK
  <1>2. StreetsAssumption /\ StreetsInv /\ [StreetsNext]_streetVars => StreetsInv'
    BY StreetsStep
  <1>. QED  BY <1>1, <1>2, StreetsAssumption, PTL DEF StreetsSpec

\* Once a full import has reported, the streets of every town it knew are stored, for
\* any register, page size, and imports that run beside each other and break off.
THEOREM StreetsAreComplete == StreetsSpec => []StreetsComplete
  <1>1. StreetsInv => StreetsComplete
    BY DEF StreetsInv
  <1>. QED  BY <1>1, StreetsInvHolds, PTL

-----------------------------------------------------------------------------
(* The address form: what is picked lies in the town it is stored with.     *)

\* What a field lists and has picked is of the chosen town, unless it took an answer
\* for another one; with no town chosen, the lists are beside the point.
FieldOK(f) ==
    city # NoCity /\ ~late[f] => shown[f] \in {NoCity, city} /\ picked[f] \in {NoCity, city}

StoredOK(f) ==
    stored.city # NoCity /\ stored.picked[f] # NoCity /\ ~stored.late[f] =>
        stored.picked[f] = stored.city

PickerInv == PickerTypeOK /\ \A f \in Fields : FieldOK(f) /\ StoredOK(f)

LEMMA PickerTyped ==
    ASSUME PickerAssumption, PickerTypeOK, [PickerNext]_pickerVars
    PROVE  PickerTypeOK'
  <1>. USE DEF CityOrNone, NoneOf, Never
  <1>1. /\ MaxFlying \in Nat \ {0} /\ PickerTypeOK
        /\ NoneOf \in [Fields -> CityOrNone] /\ Never \in [Fields -> BOOLEAN]
    BY DEF PickerAssumption
  <1>2. ASSUME NEW t \in CityOrNone, CityBecomes(t), UNCHANGED <<flying, stored>>,
               picked' \in {picked, NoneOf}
        PROVE  PickerTypeOK'
    BY <1>1, <1>2 DEF CityBecomes, PickerTypeOK
  <1>3. CASE TypeCity
    BY <1>2, <1>3 DEF TypeCity
  <1>4. ASSUME NEW t \in Cities, SelectCity(t) PROVE PickerTypeOK'
    BY <1>2, <1>4 DEF SelectCity
  <1>5. CASE Submit
    BY <1>1, <1>5 DEF Submit, PickerTypeOK
  <1>6. ASSUME NEW f \in Fields, NEW t \in Cities, NEW n \in 0..MaxFlying,
               flying' = [flying EXCEPT ![f][t] = n]
        PROVE  flying' \in [Fields -> [Cities -> 0..MaxFlying]]
    BY <1>1, <1>6 DEF PickerTypeOK
  <1>7. ASSUME NEW f \in Fields, Search(f) PROVE PickerTypeOK'
    <2>1. city \in Cities /\ flying[f][city] + 1 \in 0..MaxFlying
      BY <1>1, <1>7 DEF Search, PickerTypeOK
    <2>2. flying' = [flying EXCEPT ![f][city] = flying[f][city] + 1]
      BY <1>7 DEF Search
    <2>3. flying' \in [Fields -> [Cities -> 0..MaxFlying]]
      BY <1>6, <2>1, <2>2
    <2>. QED  BY <1>1, <1>7, <2>3 DEF Search, PickerTypeOK
  <1>8. ASSUME NEW f \in Fields, NEW t \in Cities, Answered(f, t) \/ SearchFails(f, t)
        PROVE  PickerTypeOK'
    <2>1. flying[f][t] - 1 \in 0..MaxFlying
      BY <1>1, <1>8 DEF Answered, SearchFails, PickerTypeOK
    <2>2. flying' = [flying EXCEPT ![f][t] = flying[f][t] - 1]
      BY <1>8 DEF Answered, SearchFails
    <2>3. flying' \in [Fields -> [Cities -> 0..MaxFlying]]
      BY <1>6, <2>1, <2>2
    <2>4. CASE SearchFails(f, t)
      BY <1>1, <2>3, <2>4 DEF SearchFails, PickerTypeOK
    <2>5. CASE Answered(f, t)
      <3>1. shown' \in [Fields -> CityOrNone] /\ late' \in [Fields -> BOOLEAN]
        BY <1>1, <2>5 DEF Answered, PickerTypeOK
      <3>. QED  BY <1>1, <2>3, <2>5, <3>1 DEF Answered, PickerTypeOK
    <2>. QED  BY <1>8, <2>4, <2>5
  <1>9. ASSUME NEW f \in Fields, TypeField(f) \/ PickOption(f) PROVE PickerTypeOK'
    BY <1>1, <1>9 DEF TypeField, PickOption, PickerTypeOK
  <1>10. CASE UNCHANGED pickerVars
    BY <1>1, <1>10 DEF pickerVars, PickerTypeOK
  <1>. QED  BY <1>3, <1>4, <1>5, <1>7, <1>8, <1>9, <1>10 DEF PickerNext

LEMMA FieldsKept ==
    ASSUME PickerInv, [PickerNext]_pickerVars, NEW g \in Fields
    PROVE  FieldOK(g)' /\ StoredOK(g)'
  <1>1. FieldOK(g) /\ StoredOK(g) /\ PickerTypeOK
    BY DEF PickerInv
  <1>2. ASSUME NEW t, CityBecomes(t), UNCHANGED <<flying, stored>>,
               picked' = NoneOf \/ t = NoCity
        PROVE  FieldOK(g)' /\ StoredOK(g)'
    BY <1>1, <1>2 DEF CityBecomes, FieldOK, StoredOK, NoneOf, Never
  <1>3. CASE TypeCity
    BY <1>2, <1>3 DEF TypeCity
  <1>4. ASSUME NEW t \in Cities, SelectCity(t) PROVE FieldOK(g)' /\ StoredOK(g)'
    BY <1>2, <1>4 DEF SelectCity
  <1>5. CASE Submit
    BY <1>1, <1>5 DEF Submit, FieldOK, StoredOK, NoneOf, Never
  <1>6. ASSUME NEW f \in Fields, NEW t \in Cities, Answered(f, t)
        PROVE  FieldOK(g)' /\ StoredOK(g)'
    BY <1>1, <1>6 DEF Answered, FieldOK, StoredOK, PickerTypeOK
  <1>7. ASSUME NEW f \in Fields, PickOption(f) \/ TypeField(f)
        PROVE  FieldOK(g)' /\ StoredOK(g)'
    BY <1>1, <1>7 DEF PickOption, TypeField, FieldOK, StoredOK, PickerTypeOK
  <1>8. ASSUME UNCHANGED <<city, picked, shown, late, stored>>
        PROVE  FieldOK(g)' /\ StoredOK(g)'
    BY <1>1, <1>8 DEF FieldOK, StoredOK
  <1>. QED  BY <1>3, <1>4, <1>5, <1>6, <1>7, <1>8
            DEF PickerNext, pickerVars, Search, SearchFails

LEMMA PickerInvHolds == PickerSpec => []PickerInv
  <1>1. PickerAssumption /\ PickerInit => PickerInv
    BY DEF PickerAssumption, PickerInit, PickerInv, PickerTypeOK, FieldOK, StoredOK, CityOrNone,
           NoneOf, Never
  <1>2. PickerAssumption /\ PickerInv /\ [PickerNext]_pickerVars => PickerInv'
    BY PickerTyped, FieldsKept DEF PickerInv
  <1>. QED  BY <1>1, <1>2, PickerAssumption, PTL DEF PickerSpec

\* A street or neighbourhood that is sent with a town lies in that town, unless the
\* field took an answer for another town, for any fields, towns and searches in flight.
THEOREM PickedLiesThere == PickerSpec => []PickedMatches
  <1>1. PickerInv => PickedMatches
    BY DEF PickerInv, PickerTypeOK, FieldOK, StoredOK, PickedMatches
  <1>. QED  BY <1>1, PickerInvHolds, PTL

=============================================================================
