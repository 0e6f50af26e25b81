------------------------------ MODULE Mortgage ------------------------------
(***************************************************************************)
(* The mortgage profile of one lead (mortgage.service.ts) and the agent's  *)
(* tools on it (tools.service.ts): financial inputs and the readiness      *)
(* score computed from them, the customer's consent, and referrals to an   *)
(* advisor.  Users and agent work on one profile, each by several awaits.  *)
(*                                                                         *)
(* An amount of 0 stands for one that was not given.  The status column,   *)
(* which is filled in and tested nowhere else, the later course of a       *)
(* referral and the co-applicant are left out.                             *)
(***************************************************************************)
EXTENDS Naturals, FiniteSets

CONSTANTS
    MortCalls,     \* concurrent calls
    Prices, Equities, Incomes,   \* amounts that may be given
    ByHand,        \* scores and buckets that a user may set
    MaxReferrals,  \* referrals (a bound)
    Same           \* a field that an update leaves alone

ASSUME MortgageAssumption ==
    /\ IsFiniteSet(MortCalls)
    /\ Prices \subseteq Nat /\ Equities \subseteq Nat /\ Incomes \subseteq Nat
    /\ 0 \in Prices /\ 0 \in Equities /\ 0 \in Incomes
    /\ ByHand \subseteq [score: Nat, bucket: {"unknown", "not_ready", "partial",
                                            "ready", "approved"}]
    /\ MaxReferrals \in Nat
    /\ Same \notin Nat \cup BOOLEAN

VARIABLES
    inputs,     \* the financial columns of the profile
    rating,     \* readinessScore and readiness
    consent,    \* consentToShareWithAdvisor
    advising,   \* whether the advisor is active
    referrals,  \* referrals made
    mort,       \* the calls
    announced,  \* whether a pre-approval was ever announced (history)
    silent,     \* whether a call failed before its announcement (history)
    mixed       \* whether the last update overlapped another, broke off at the
                \* score, or set it by hand (history)

mortVars == <<inputs, rating, consent, advising, referrals, mort, announced,
              silent, mixed>>

Inputs == [price: Prices, equity: Equities, income: Incomes, approved: BOOLEAN]
Unset == [price |-> 0, equity |-> 0, income |-> 0, approved |-> FALSE]

Buckets == {"unknown", "not_ready", "partial", "ready", "approved"}

-----------------------------------------------------------------------------
(* The score (computeReadiness, and computeReadinessScore of the tools).   *)

Points(held, n) == IF held THEN n ELSE 0

EquityPoints(p) ==
    IF p.equity = 0 \/ p.price = 0 THEN 0
    ELSE IF 4 * p.equity >= p.price THEN 20
    ELSE 5

\* It never reaches 100, to which the code cuts it.
ScoreOf(p) ==
    Points(p.approved, 50) + Points(p.price > 0, 10) + Points(p.income >= 12000, 15)
        + EquityPoints(p)

BucketOf(p) ==
    CASE p.approved -> "approved"
      [] ~p.approved /\ ScoreOf(p) >= 60 -> "ready"
      [] ~p.approved /\ ScoreOf(p) >= 30 /\ ScoreOf(p) < 60 -> "partial"
      [] ~p.approved /\ ScoreOf(p) < 30 ->
            IF p.price + p.equity + p.income > 0 THEN "not_ready" ELSE "unknown"

RatingOf(p) == [score |-> ScoreOf(p), bucket |-> BucketOf(p)]

-----------------------------------------------------------------------------

MortSteps == {"idle", "update.write", "update.score", "tool.write", "announce",
              "refer.advisor", "refer.create"}

\* A call, the row it has read, and whether no other update has run beside it.
MortCall == [at: MortSteps, row: Inputs, announce: BOOLEAN, alone: BOOLEAN]
MortIdle == [at |-> "idle", row |-> Unset, announce |-> FALSE, alone |-> FALSE]

\* The profile and the calls hold what their columns and variables may hold.
MortgageTypeOK ==
    /\ inputs \in Inputs
    /\ rating \in [score: Nat, bucket: Buckets]
    /\ consent \in BOOLEAN /\ advising \in BOOLEAN
    /\ referrals \in 0..MaxReferrals
    /\ mort \in [MortCalls -> MortCall]
    /\ announced \in BOOLEAN /\ silent \in BOOLEAN /\ mixed \in BOOLEAN

MortgageInit ==
    /\ inputs = Unset
    /\ rating = [score |-> 0, bucket |-> "unknown"]
    /\ consent = FALSE /\ advising = TRUE
    /\ referrals = 0
    /\ mort = [c \in MortCalls |-> MortIdle]
    /\ announced = FALSE /\ silent = FALSE /\ mixed = FALSE

MortAt(c, step) == mort[c].at = step
MortEnd(c) == mort' = [mort EXCEPT ![c] = MortIdle]

Updating == {c \in MortCalls :
                mort[c].at \in {"update.write", "update.score", "tool.write"}}

\* What an update or a tool call carries, and the row it makes of another.
Dtos == [price: Prices \cup {Same}, equity: Equities \cup {Same},
         income: Incomes \cup {Same}, approved: BOOLEAN \cup {Same}]

Merge(row, dto) ==
    [f \in {"price", "equity", "income", "approved"} |->
        IF dto[f] = Same THEN row[f] ELSE dto[f]]

Approves(c, dto) == dto.approved = TRUE /\ ~mort[c].row.approved

-----------------------------------------------------------------------------
(* Updates.                                                                *)

\* updateProfile and collectMortgageInfo begin by reading the profile; the first
\* looks only at the approval it finds.
ReadProfile(c, step) ==
    /\ MortAt(c, "idle")
    /\ step \in {"update.write", "tool.write"}
    /\ mort' = [d \in MortCalls |->
          IF d = c
          THEN [at |-> step, announce |-> FALSE, alone |-> Updating = {},
                row |-> IF step = "tool.write" THEN inputs
                        ELSE [Unset EXCEPT !.approved = inputs.approved]]
          ELSE [mort[d] EXCEPT !.alone = FALSE]]
    /\ UNCHANGED <<inputs, rating, consent, advising, referrals, announced, silent,
                   mixed>>

\* Faulty variant: the score is computed from the row as it was before.
UpdateProfileOldRow(c) ==
    /\ MortAt(c, "update.write")
    /\ \E dto \in Dtos :
          /\ inputs' = Merge(inputs, dto)
          /\ mort' = [mort EXCEPT ![c] =
                [at |-> "update.score", row |-> inputs,
                 announce |-> Approves(c, dto), alone |-> mort[c].alone]]
    /\ UNCHANGED <<rating, consent, advising, referrals, announced, silent, mixed>>

\* The inputs are written; the score follows from the row that comes back.
UpdateProfile(c) ==
    /\ MortAt(c, "update.write")
    /\ \E dto \in Dtos :
          /\ inputs' = Merge(inputs, dto)
          /\ mort' = [mort EXCEPT ![c] =
                [at |-> "update.score", row |-> Merge(inputs, dto),
                 announce |-> Approves(c, dto), alone |-> mort[c].alone]]
    /\ UNCHANGED <<rating, consent, advising, referrals, announced, silent, mixed>>

\* An update that sets the score by hand is not followed by a computed one.
UpdateScoreByHand(c) ==
    /\ MortAt(c, "update.write")
    /\ \E dto \in Dtos, r \in ByHand :
          /\ inputs' = Merge(inputs, dto)
          /\ rating' = r
          /\ mort' = [mort EXCEPT ![c] =
                [MortIdle EXCEPT !.at = "announce", !.announce = Approves(c, dto)]]
    /\ mixed' = TRUE
    /\ UNCHANGED <<consent, advising, referrals, announced, silent>>

WriteScore(c) ==
    /\ MortAt(c, "update.score")
    /\ rating' = RatingOf(mort[c].row)
    /\ mort' = [mort EXCEPT ![c] =
          [MortIdle EXCEPT !.at = "announce", !.announce = mort[c].announce]]
    /\ mixed' = ~mort[c].alone
    /\ UNCHANGED <<inputs, consent, advising, referrals, announced, silent>>

\* The tool writes inputs and score at once, the score from the row it has read.
CollectInfo(c) ==
    /\ MortAt(c, "tool.write")
    /\ \E dto \in Dtos :
          /\ inputs' = Merge(inputs, dto)
          /\ rating' = RatingOf(Merge(mort[c].row, dto))
          /\ mort' = [mort EXCEPT ![c] =
                [MortIdle EXCEPT !.at = "announce", !.announce = Approves(c, dto)]]
    /\ mixed' = ~mort[c].alone
    /\ UNCHANGED <<consent, advising, referrals, announced, silent>>

\* Faulty variant: the announcement goes only to leads that are scored ready.
AnnounceReady(c) ==
    /\ MortAt(c, "announce")
    /\ announced' = (announced \/ (mort[c].announce /\ rating.bucket = "ready"))
    /\ MortEnd(c)
    /\ UNCHANGED <<inputs, rating, consent, advising, referrals, silent, mixed>>

\* notifyPreApproved, for an approval that the row read before did not have.
Announce(c) ==
    /\ MortAt(c, "announce")
    /\ announced' = (announced \/ mort[c].announce)
    /\ MortEnd(c)
    /\ UNCHANGED <<inputs, rating, consent, advising, referrals, silent, mixed>>

-----------------------------------------------------------------------------
(* Consent and referral.                                                   *)

\* recordConsent, recordMortgageConsent.
RecordConsent(given) ==
    /\ consent' = given
    /\ UNCHANGED <<inputs, rating, advising, referrals, mort, announced, silent, mixed>>

\* updateAdvisor.
UpdateAdvisor(active) ==
    /\ advising' = active
    /\ UNCHANGED <<inputs, rating, consent, referrals, mort, announced, silent, mixed>>

\* Faulty variant: consent is not asked for.
ReferUnasked(c) ==
    /\ MortAt(c, "idle")
    /\ mort' = [mort EXCEPT ![c] = [MortIdle EXCEPT !.at = "refer.advisor"]]
    /\ UNCHANGED <<inputs, rating, consent, advising, referrals, announced, silent, mixed>>

\* refer and referToMortgageAdvisor stop at a profile without consent.
Refer(c) ==
    /\ MortAt(c, "idle")
    /\ consent
    /\ mort' = [mort EXCEPT ![c] = [MortIdle EXCEPT !.at = "refer.advisor"]]
    /\ UNCHANGED <<inputs, rating, consent, advising, referrals, announced, silent, mixed>>

FindAdvisor(c) ==
    /\ MortAt(c, "refer.advisor")
    /\ IF advising THEN mort' = [mort EXCEPT ![c].at = "refer.create"] ELSE MortEnd(c)
    /\ UNCHANGED <<inputs, rating, consent, advising, referrals, announced, silent, mixed>>

\* What follows, the profile's status and a notification, is left out.
CreateReferral(c) ==
    /\ MortAt(c, "refer.create")
    /\ referrals < MaxReferrals
    /\ referrals' = referrals + 1
    /\ MortEnd(c)
    /\ UNCHANGED <<inputs, rating, consent, advising, announced, silent, mixed>>

\* An await throws.
MortFail(c) ==
    /\ ~MortAt(c, "idle")
    /\ silent' = (silent \/ mort[c].announce)
    /\ mixed' = (mixed \/ MortAt(c, "update.score"))
    /\ MortEnd(c)
    /\ UNCHANGED <<inputs, rating, consent, advising, referrals, announced>>

\* The two halves share no column.
ProfileNext ==
    \E c \in MortCalls :
        \/ \E step \in {"update.write", "tool.write"} : ReadProfile(c, step)
        \/ UpdateProfile(c) \/ UpdateScoreByHand(c) \/ WriteScore(c)
        \/ CollectInfo(c) \/ Announce(c) \/ MortFail(c)

ReferralNext ==
    \/ \E c \in MortCalls :
          \/ Refer(c) \/ FindAdvisor(c) \/ CreateReferral(c) \/ MortFail(c)
    \/ \E b \in BOOLEAN : RecordConsent(b) \/ UpdateAdvisor(b)

MortgageNext == ProfileNext \/ ReferralNext

MortgageSpec == MortgageInit /\ [][MortgageNext]_mortVars

-----------------------------------------------------------------------------
(* Properties.                                                             *)

\* When nobody is updating, and the last update ran alone, score and bucket are
\* those of the inputs (mortgage.service.ts 158-177, and the tool's
\* own way to the same columns).
RatingFollows == Updating = {} /\ ~mixed => rating = RatingOf(inputs)

\* A profile that shows a pre-approval has been announced to the office, unless
\* a call failed on the way: of updates that overlap, at least one has read a
\* row without it.
ApprovalAnnounced ==
    inputs.approved =>
        announced \/ silent \/ \E c \in MortCalls : mort[c].announce

\* Referrals that have seen the consent, and those that have found an advisor.
Consented == {c \in MortCalls : mort[c].at \in {"refer.advisor", "refer.create"}}
Advised == {c \in MortCalls : MortAt(c, "refer.create")}

\* prisma/schema.prisma 711: consent is required before sharing with an advisor.
\* Consent is read by one await and the referral inserted by a later one: what is
\* referred after the consent was withdrawn is what was under way by then, and
\* nothing more until it is given again; so with an advisor who has left.
ConsentRespected ==
    [][/\ ~consent => referrals' + Cardinality(Consented')
                         <= referrals + Cardinality(Consented)
       /\ ~advising => referrals' + Cardinality(Advised')
                          <= referrals + Cardinality(Advised)]_mortVars

=============================================================================
