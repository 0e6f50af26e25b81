-------------------------------- MODULE Loan --------------------------------
(***************************************************************************)
(* The repayment schedule of one track of the mortgage calculator          *)
(* (web lib/mortgage.ts, amortize), one step per month.                    *)
(*                                                                         *)
(* Amounts are whole numbers; zero stands for the at most 0.01 below which *)
(* the loop stops.  What interest and indexation come to in a month, and   *)
(* what share of the debt the annuity formula repays, is left open, so the *)
(* results hold for every rate, rate change and price index.               *)
(***************************************************************************)
EXTENDS Integers

CONSTANTS
    Sums,        \* principals and prepayment amounts
    Terms,       \* months asked for, and months to prepay in
    Graces,      \* months of grace asked for
    MaxInterest, \* interest of a month (a bound)
    MaxIndex     \* indexation of a month (a bound)

ASSUME LoanAssumption ==
    /\ Sums \subseteq Nat /\ Terms \subseteq Int /\ Graces \subseteq Int
    /\ MaxInterest \in Nat /\ MaxIndex \in Nat

VARIABLES
    plan,     \* the inputs after clamping
    coming,   \* the month to come
    balance,
    locked,   \* lockedPayment, 0 for null
    regular,  \* regularPayment of the last row
    repaid,   \* principal and extra payments so far
    indexed   \* index adjustments so far

loanVars == <<plan, coming, balance, locked, regular, repaid, indexed>>

Lower(a, b) == IF a < b THEN a ELSE b
Higher(a, b) == IF a > b THEN a ELSE b
Clamp(x, low, high) == Lower(high, Higher(low, x))

Methods == {"shpitzer", "equal_principal", "bullet"}
Prepayments == {"none", "partial", "full"}

\* The longest terms are 480 months, and 60 of grace.
LongestTerm == 480
LongestGrace == 60

\* Faulty variant: the last month may be one of grace.
GraceUnclamped(asked, months) == Clamp(asked, 0, LongestGrace)

Grace(asked, months) == Clamp(asked, 0, Lower(LongestGrace, months - 1))

Plan(sum, method, linked, term, asked, prepay, at, amount, shorten) ==
    LET months == Clamp(term, 1, LongestTerm)
    IN  [principal |-> sum, method |-> method, linked |-> linked,
         months |-> months, grace |-> Grace(asked, months),
         prepay |-> prepay, at |-> Clamp(at, 0, months), amount |-> amount,
         shorten |-> shorten]

Plans == {Plan(sum, method, linked, term, asked, prepay, at, amount, shorten) :
    sum \in Sums, method \in Methods, linked \in BOOLEAN, term \in Terms,
    asked \in Graces, prepay \in Prepayments, at \in Terms, amount \in Sums,
    shorten \in BOOLEAN}

LoanInit ==
    /\ plan \in Plans
    /\ coming = 1
    /\ balance = plan.principal
    /\ locked = 0 /\ regular = 0 /\ repaid = 0 /\ indexed = 0

Over == coming > plan.months \/ balance = 0

-----------------------------------------------------------------------------

\* Faulty variant: the locked payment is left out of equal_principal.
EqualPrincipalUnlocked(debt, interest) == debt \div (plan.months - coming + 1)

\* An equal share of the debt, or what the locked payment leaves after interest.
EqualPrincipal(debt, interest) ==
    LET share == debt \div (plan.months - coming + 1)
    IN  IF locked > interest + share THEN Lower(debt, locked - interest) ELSE share

\* Faulty variant: a payment may be higher than the debt.
AnnuityUncapped(debt, interest, share) ==
    IF coming = plan.months THEN debt
    ELSE Higher(0, Higher(locked, interest + share) - interest)

\* The annuity, the locked payment if that is higher, all in the last month; the
\* formula repays share of the debt.
Annuity(debt, interest, share) ==
    IF coming = plan.months THEN debt
    ELSE Lower(debt, Higher(0, Higher(locked, interest + share) - interest))

Repayment(debt, interest, share) ==
    CASE plan.method = "bullet" -> IF coming = plan.months THEN debt ELSE 0
      [] plan.method # "bullet" /\ coming <= plan.grace -> 0
      [] plan.method = "equal_principal" /\ coming > plan.grace -> EqualPrincipal(debt, interest)
      [] OTHER -> Annuity(debt, interest, share)

\* The extra payment of the chosen month, at most what is left.
Extra(left) ==
    CASE plan.prepay = "none" \/ plan.at # coming -> 0
      [] plan.prepay = "full" /\ plan.at = coming -> left
      [] OTHER -> Lower(left, plan.amount)

\* A partial prepayment that shortens the term locks the payment.
Locks(left) ==
    left > 0 /\ plan.prepay = "partial" /\ plan.at = coming /\ plan.shorten
    /\ plan.method # "bullet"

Month(index, interest, share) ==
    /\ ~Over
    /\ ~plan.linked => index = 0
    /\ LET debt == balance + index
           principal == Repayment(debt, interest, share)
           left == debt - principal
       IN  /\ regular' = interest + principal
           /\ balance' = left - Extra(left)
           /\ repaid' = repaid + principal + Extra(left)
           /\ locked' = IF Locks(left) THEN Higher(locked, interest + principal) ELSE locked
    /\ indexed' = indexed + index
    /\ coming' = coming + 1
    /\ UNCHANGED plan

\* The loop has ended.
ScheduleDone == Over /\ UNCHANGED loanVars

LoanNext ==
    \/ \E index \in 0..MaxIndex, interest \in 0..MaxInterest :
          \E share \in 0..(balance + index) : Month(index, interest, share)
    \/ ScheduleDone

LoanSpec == LoanInit /\ [][LoanNext]_loanVars

-----------------------------------------------------------------------------

\* The inputs are clamped, and no amount is negative.
LoanTypeOK ==
    /\ plan \in Plans
    /\ coming \in 1..(LongestTerm + 1)
    /\ balance \in Nat /\ locked \in Nat /\ regular \in Nat
    /\ repaid \in Nat /\ indexed \in Nat

\* The borrower pays back what was borrowed and what indexation added, no more and
\* no less: at any time the rest is the balance, and when the term is over nothing is
\* left, whatever grace, prepayments and locked payments came in between.
Repaid ==
    /\ repaid + balance = plan.principal + indexed
    /\ coming > plan.months => balance = 0

\* After a prepayment that shortens the term, the monthly payment does not fall below
\* the one it locked, unless the month pays the rest or is one of grace.
LockedKept ==
    [][coming' = coming + 1 /\ coming > plan.grace /\ balance' > 0 => regular' >= locked]_loanVars
=============================================================================
