------------------------------ MODULE MCOffice ------------------------------
(***************************************************************************)
(* Small instances of the modules around the signing, session and message  *)
(* cores.  They share no variables, so one configuration checks them all:  *)
(* part says which of them a behaviour runs, the others rest in their      *)
(* initial states.                                                         *)
(***************************************************************************)
EXTENDS Billing, FollowUps, Mortgage, TwoFactor, Access, Desk, Streets, Picker,
    Loan, Push, TLC

CONSTANTS c1, c2,   \* concurrent calls
          x1, x2    \* leads, tenants, towns, codes

VARIABLE part

\* The limits of a month's messages, and of a month's model calls in dollars.
MCLimit == [whatsapp |-> 2, llm |-> 5]

\* A score a user entered in place of the computed one.
MCByHand == {[score |-> 100, bucket |-> "ready"]}

\* Five rows on three pages of two; the streets of "a" are on all of them.
MCRegister ==
    LET row(town, street) == [town |-> town, street |-> street]
    IN  <<row("a", 1), row("b", 1), row("a", 2), row("b", 2), row("a", 3)>>

MCSym == Permutations({c1, c2}) \cup Permutations({x1, x2})

Parts == {"billing", "followups", "mortgage", "referral", "twofactor", "access",
          "desk", "streets", "picker", "loan", "push"}

officeVars == <<billVars, fuVars, mortVars, tfVars, acVars, deskVars, streetVars,
                pickerVars, loanVars, pushVars>>

\* A part that does not run starts in one fixed initial state of its own.
Rests(p, state) == part # p => state

OfficeInit ==
    /\ part \in Parts
    /\ BillingInit /\ Rests("billing", meter = "llm")
    /\ FollowUpsInit /\ MortgageInit /\ TwoFactorInit /\ DeskInit
    /\ StreetsInit /\ PickerInit /\ PushInit
    /\ AccessInit /\ Rests("access", acRow = [role |-> "viewer", office |-> NoOffice])
    /\ LoanInit
    /\ Rests("loan", plan = Plan(1, "bullet", FALSE, 1, 0, "none", 1, 1, FALSE))

OfficeNext ==
    /\ UNCHANGED part
    /\ part # "billing" => UNCHANGED billVars
    /\ part # "followups" => UNCHANGED fuVars
    /\ part \notin {"mortgage", "referral"} => UNCHANGED mortVars
    /\ part # "twofactor" => UNCHANGED tfVars
    /\ part # "access" => UNCHANGED acVars
    /\ part # "desk" => UNCHANGED deskVars
    /\ part # "streets" => UNCHANGED streetVars
    /\ part # "picker" => UNCHANGED pickerVars
    /\ part # "loan" => UNCHANGED loanVars
    /\ part # "push" => UNCHANGED pushVars
    /\ \/ part = "billing" /\ BillingNext
       \/ part = "followups" /\ FollowUpsNext
       \/ part = "mortgage" /\ ProfileNext
       \/ part = "referral" /\ ReferralNext
       \/ part = "twofactor" /\ TwoFactorNext
       \/ part = "access" /\ AccessNext
       \/ part = "desk" /\ DeskNext
       \/ part = "streets" /\ StreetsNext
       \/ part = "picker" /\ PickerNext
       \/ part = "loan" /\ LoanNext
       \/ part = "push" /\ PushNext

OfficeSpec == OfficeInit /\ [][OfficeNext]_<<part, officeVars>>

\* Every row, call and page variable of these modules has its type.
OfficeTypeOK ==
    /\ part \in Parts
    /\ part = "billing" => BillingTypeOK
    /\ part = "followups" => FollowUpsTypeOK
    /\ part \in {"mortgage", "referral"} => MortgageTypeOK
    /\ part = "twofactor" => TwoFactorTypeOK
    /\ part = "access" => AccessTypeOK
    /\ part = "desk" => DeskTypeOK
    /\ part = "streets" => StreetsTypeOK
    /\ part = "picker" => PickerTypeOK
    /\ part = "loan" => LoanTypeOK
    /\ part = "push" => PushTypeOK

\* Only the message budget, and only the address form: the runs that refute a
\* comment on one of them need no other part.
BillingOnly == OfficeInit /\ part = "billing" /\ [][OfficeNext]_<<part, officeVars>>

PickerOnly == OfficeInit /\ part = "picker" /\ [][OfficeNext]_<<part, officeVars>>
=============================================================================
