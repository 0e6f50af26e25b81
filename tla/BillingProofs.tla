--------------------------- MODULE BillingProofs ----------------------------
(***************************************************************************)
(* Theorems about the monthly limits: how far checked calls pass one, and  *)
(* how often an alert goes out, for every number of calls, limit and cost. *)
(***************************************************************************)
EXTENDS Billing, FiniteSetTheorems, TLAPS

\* The meter is given a call's most expensive use.
LEMMA MostFacts ==
    ASSUME BillingAssumption, meter \in Meters
    PROVE  MostOf(meter) \in Nat /\ Limit[meter] \in Nat
  BY DEF BillingAssumption, MostOf

-----------------------------------------------------------------------------
(* Types.                                                                  *)

\* An action of a call leaves the other calls alone.
Becomes(c, x) == bill' = [bill EXCEPT ![c] = x]

LEMMA CallSteps ==
    ASSUME BillingAssumption, BillingTypeOK, NEW c \in BillCalls, NEW step \in BillSteps
    PROVE  /\ BillGoto(c, step) => Becomes(c, [bill[c] EXCEPT !.at = step])
           /\ [bill[c] EXCEPT !.at = step] \in BillCall
           /\ BillEnd(c) => Becomes(c, BillIdle)
           /\ BillIdle \in BillCall
  <1>1. bill[c] \in BillCall
    BY DEF BillingTypeOK
  <1>2. [bill[c] EXCEPT !.at = step] \in BillCall
    BY <1>1 DEF BillCall
  <1>3. BillIdle \in BillCall
    BY DEF BillingAssumption, BillCall, BillIdle, BillSteps, Levels, Months
  <1>4. BillGoto(c, step) => Becomes(c, [bill[c] EXCEPT !.at = step])
    BY DEF BillGoto, Becomes
  <1>5. BillEnd(c) => Becomes(c, BillIdle)
    BY DEF BillEnd, Becomes
  <1>. QED  BY <1>2, <1>3, <1>4, <1>5

\* The call x that the step of c leaves, and what it adds to used and to free.
CallMoves(c) ==
    \E x \in BillCall :
        /\ Becomes(c, x)
        /\ used' \in Nat /\ free' \in Nat
        /\ missed' \in BOOLEAN /\ alerts' \in [Levels \X Months -> Nat]
        /\ UNCHANGED <<meter, month, utc>>

CallStep(c) ==
    \/ StartBilled(c) \/ StartSuggestion(c) \/ StartTest(c)
    \/ CheckQuota(c) \/ CheckTest(c)
    \/ SendMessage(c) \/ ChatReply(c) \/ ChatTest(c) \/ ChatSuggest(c)
    \/ LookAtLevel(c) \/ FindAlert(c) \/ PostAlert(c) \/ BillFail(c)

LEMMA QuietTypes ==
    ASSUME BillingAssumption, BillingTypeOK, NEW c \in BillCalls, NEW x \in BillCall,
           Becomes(c, x), missed' \in BOOLEAN,
           UNCHANGED <<meter, month, utc, used, alerts, free>>
    PROVE  CallMoves(c)
  BY DEF CallMoves, BillingTypeOK

LEMMA CallTypes ==
    ASSUME BillingAssumption, BillingTypeOK, NEW c \in BillCalls, CallStep(c)
    PROVE  CallMoves(c)
  <1>0. /\ used \in Nat /\ free \in Nat /\ missed \in BOOLEAN
        /\ alerts \in [Levels \X Months -> Nat] /\ bill[c] \in BillCall
        /\ utc \in Months
    BY DEF BillingTypeOK, Months, BillingAssumption
  <1>1. CASE StartBilled(c)
    BY <1>0, <1>1, CallSteps, QuietTypes DEF StartBilled, BillSteps
  <1>2. CASE StartSuggestion(c) \/ StartTest(c)
    BY <1>0, <1>2, CallSteps, QuietTypes DEF StartSuggestion, StartTest, BillSteps
  <1>3. CASE CheckQuota(c)
    <2>1. PICK step \in {"use", "level"} : BillGoto(c, step)
      BY <1>3 DEF CheckQuota
    <2>. QED  BY <1>0, <1>3, <2>1, CallSteps, QuietTypes DEF CheckQuota, BillSteps
  <1>4. CASE SendMessage(c)
    <2>1. used' \in Nat
      BY <1>0, <1>4 DEF SendMessage, Record
    <2>. QED  BY <1>0, <1>4, <2>1, CallSteps DEF SendMessage, BillSteps, CallMoves
  <1>5. CASE ChatReply(c)
    <2>1. used' \in Nat
      BY <1>0, <1>5 DEF ChatReply, Record, BillingAssumption
    <2>. QED  BY <1>0, <1>5, <2>1, CallSteps DEF ChatReply, BillSteps, CallMoves
  <1>6. CASE ChatSuggest(c)
    <2>1. used' \in Nat /\ free' \in Nat /\ missed' \in BOOLEAN
      <3>1. used' \in Nat /\ free' \in Nat
        BY <1>0, <1>6 DEF ChatSuggest, BillingAssumption
      <3>2. missed' \in BOOLEAN
        BY <1>6 DEF ChatSuggest
      <3>. QED  BY <3>1, <3>2
    <2>2. "idle" \in BillSteps
      BY DEF BillSteps
    <2>3. Becomes(c, BillIdle) /\ BillIdle \in BillCall
      BY <1>6, <2>2, CallSteps DEF ChatSuggest
    <2>. QED  BY <1>0, <1>6, <2>1, <2>3 DEF ChatSuggest, CallMoves
  <1>11. CASE CheckTest(c)
    <2>1. \E x \in BillCall : Becomes(c, x)
      BY <1>11, CallSteps DEF CheckTest, BillSteps
    <2>. QED  BY <1>0, <1>11, <2>1, QuietTypes DEF CheckTest
  <1>12. CASE ChatTest(c)
    <2>1. used' \in Nat
      BY <1>0, <1>12 DEF ChatTest, Record, BillingAssumption
    <2>2. missed' \in BOOLEAN
      BY <1>12 DEF ChatTest
    <2>3. "idle" \in BillSteps
      BY DEF BillSteps
    <2>4. Becomes(c, BillIdle) /\ BillIdle \in BillCall
      BY <1>12, <2>3, CallSteps DEF ChatTest
    <2>. QED  BY <1>0, <1>12, <2>1, <2>2, <2>4 DEF ChatTest, CallMoves
  <1>7. CASE LookAtLevel(c)
    <2>1. ReachedLevel \in Levels \cup {"none"}
      BY DEF ReachedLevel, Levels
    <2>2. ReachedLevel # "none" =>
              [bill[c] EXCEPT !.at = "find", !.level = ReachedLevel] \in BillCall
      BY <1>0, <2>1 DEF BillCall, BillSteps
    <2>3. "idle" \in BillSteps
      BY DEF BillSteps
    <2>4. \E x \in BillCall : Becomes(c, x)
      BY <1>7, <2>2, <2>3, CallSteps DEF LookAtLevel, Becomes
    <2>. QED  BY <1>7, <2>4, QuietTypes DEF LookAtLevel
  <1>8. CASE FindAlert(c)
    <2>2. [bill[c] EXCEPT !.at = "post", !.key = utc] \in BillCall
      BY <1>0 DEF BillCall, BillSteps
    <2>3. "idle" \in BillSteps
      BY DEF BillSteps
    <2>4. \E x \in BillCall : Becomes(c, x)
      BY <1>8, <2>2, <2>3, CallSteps DEF FindAlert, Becomes
    <2>. QED  BY <1>0, <1>8, <2>4, QuietTypes DEF FindAlert
  <1>9. CASE PostAlert(c)
    <2>1. alerts' \in [Levels \X Months -> Nat]
      BY <1>0, <1>9 DEF PostAlert, BillCall
    <2>2. "idle" \in BillSteps
      BY DEF BillSteps
    <2>3. Becomes(c, BillIdle) /\ BillIdle \in BillCall
      BY <1>9, <2>2, CallSteps DEF PostAlert
    <2>. QED  BY <1>0, <1>9, <2>1, <2>3 DEF PostAlert, CallMoves
  <1>10. CASE BillFail(c)
    <2>1. missed' \in BOOLEAN
      BY <1>10 DEF BillFail
    <2>2. "idle" \in BillSteps
      BY DEF BillSteps
    <2>3. Becomes(c, BillIdle) /\ BillIdle \in BillCall
      BY <1>10, <2>2, CallSteps DEF BillFail
    <2>. QED  BY <1>0, <1>10, <2>1, <2>3 DEF BillFail, CallMoves
  <1>. QED  BY <1>1, <1>2, <1>3, <1>4, <1>5, <1>6, <1>7, <1>8, <1>9, <1>10, <1>11, <1>12
            DEF CallStep

LEMMA BillingTypeInit == BillingAssumption /\ BillingInit => BillingTypeOK
  <1>. SUFFICES ASSUME BillingAssumption, BillingInit PROVE BillingTypeOK
    OBVIOUS
  <1>1. BillIdle \in BillCall
    BY DEF BillingAssumption, BillCall, BillIdle, BillSteps, Levels, Months
  <1>2. bill \in [BillCalls -> BillCall]
    BY <1>1 DEF BillingInit
  <1>3. alerts \in [Levels \X Months -> Nat]
    BY DEF BillingInit
  <1>4. month \in 1..MaxMonth /\ utc \in {month - 1, month} /\ used \in Nat /\ free \in Nat
    BY DEF BillingInit, BillingAssumption
  <1>5. meter \in Meters /\ missed \in BOOLEAN
    BY DEF BillingInit
  <1>. QED  BY <1>2, <1>3, <1>4, <1>5 DEF BillingTypeOK

LEMMA BillingTypeNext ==
    ASSUME BillingAssumption, BillingTypeOK, [BillingNext]_billVars
    PROVE  BillingTypeOK'
  <1>1. CASE \E c \in BillCalls : CallStep(c)
    <2>1. PICK c \in BillCalls : CallMoves(c)
      BY <1>1, CallTypes
    <2>. QED  BY <2>1 DEF CallMoves, Becomes, BillingTypeOK
  <1>2. CASE MonthTurns
    <2>1. month' \in 1..MaxMonth /\ utc' \in {month' - 1, month'}
      BY <1>2 DEF MonthTurns, BillingTypeOK, BillingAssumption
    <2>2. used' \in Nat /\ free' \in Nat /\ missed' \in BOOLEAN
      BY <1>2 DEF MonthTurns
    <2>3. UNCHANGED <<meter, alerts, bill>>
      BY <1>2 DEF MonthTurns
    <2>. QED  BY <2>1, <2>2, <2>3 DEF BillingTypeOK
  <1>3. CASE UtcTurns
    BY <1>3 DEF UtcTurns, BillingTypeOK, BillingAssumption
  <1>4. CASE UNCHANGED billVars
    BY <1>4 DEF billVars, BillingTypeOK
  <1>. QED  BY <1>1, <1>2, <1>3, <1>4 DEF BillingNext, CallStep

LEMMA BillingTypes == BillingSpec => []BillingTypeOK
  BY BillingTypeInit, BillingTypeNext, BillingAssumption, PTL DEF BillingSpec

-----------------------------------------------------------------------------
(* Numbers of calls.                                                       *)

\* A set of calls is finite; it grows by at most one call, and a set that some call
\* is not in has room for it.
LEMMA CallSets ==
    ASSUME BillingAssumption, NEW S, S \subseteq BillCalls
    PROVE  /\ IsFiniteSet(S) /\ Cardinality(S) \in Nat /\ Cardinality(BillCalls) \in Nat
           /\ Cardinality(S) <= Cardinality(BillCalls)
  <1>1. IsFiniteSet(BillCalls)
    BY DEF BillingAssumption
  <1>2. IsFiniteSet(S) /\ Cardinality(S) <= Cardinality(BillCalls)
    BY <1>1, FS_Subset
  <1>. QED  BY <1>1, <1>2, FS_CardinalityType

LEMMA CallLeaves ==
    ASSUME BillingAssumption, NEW S, S \subseteq BillCalls, NEW c
    PROVE  /\ Cardinality(S \ {c}) \in Nat
           /\ Cardinality(S \ {c}) =
                 IF c \in S THEN Cardinality(S) - 1 ELSE Cardinality(S)
  <1>1. IsFiniteSet(S)
    BY CallSets
  <1>. QED  BY <1>1, FS_RemoveElement, FS_CardinalityType

LEMMA CallJoins ==
    ASSUME BillingAssumption, NEW S, S \subseteq BillCalls, NEW c \in BillCalls
    PROVE  /\ Cardinality(S \cup {c}) \in Nat
           /\ Cardinality(S \cup {c}) =
                 IF c \in S THEN Cardinality(S) ELSE Cardinality(S) + 1
  <1>1. IsFiniteSet(S)
    BY CallSets
  <1>2. Cardinality(S \cup {c}) = IF c \in S THEN Cardinality(S) ELSE Cardinality(S) + 1
    BY <1>1, FS_AddElement
  <1>3. Cardinality(S) \in Nat
    BY CallSets
  <1>. QED  BY <1>2, <1>3

LEMMA Times ==
    ASSUME NEW m \in Nat, NEW a \in Nat, NEW b \in Nat, a <= b
    PROVE  m * a \in Nat /\ m * b \in Nat /\ m * a <= m * b
  <1>1. PICK d \in Nat : b = a + d
    <2>. WITNESS b - a \in Nat
    <2>. QED  OBVIOUS
  <1>2. m * b = m * a + m * d
    BY <1>1
  <1>3. m * a \in Nat /\ m * d \in Nat
    OBVIOUS
  <1>. QED  BY <1>2, <1>3

-----------------------------------------------------------------------------
(* Spending.                                                               *)

\* With p checked calls before their use there is room below the limit.
Room(u, f, S) ==
    u + MostOf(meter) * Cardinality(S)
        < Limit[meter] + f + MostOf(meter) * Cardinality(BillCalls)

\* Any number of calls has room while the limit is not reached.
LEMMA RoomBelowLimit ==
    ASSUME BillingAssumption, BillingTypeOK, NEW S, S \subseteq BillCalls,
           NEW u \in Nat, NEW f \in Nat, u < Limit[meter]
    PROVE  Room(u, f, S)
  <1>1. /\ Cardinality(S) \in Nat /\ Cardinality(BillCalls) \in Nat
        /\ Cardinality(S) <= Cardinality(BillCalls)
    BY CallSets
  <1>2. MostOf(meter) \in Nat /\ Limit[meter] \in Nat
    BY MostFacts DEF BillingTypeOK
  <1>3. /\ MostOf(meter) * Cardinality(S) <= MostOf(meter) * Cardinality(BillCalls)
        /\ MostOf(meter) * Cardinality(S) \in Nat
        /\ MostOf(meter) * Cardinality(BillCalls) \in Nat
    BY <1>1, <1>2, Times
  <1>. QED  BY <1>2, <1>3 DEF Room

\* What is spent beside the checks counts on both sides; a call that is about to use
\* the model no longer leaves room.
LEMMA RoomKept ==
    ASSUME BillingAssumption, BillingTypeOK, NEW S, S \subseteq BillCalls,
           NEW T, T \subseteq S, NEW u \in Nat, NEW f \in Nat, NEW cost \in Nat,
           Room(u, f, S)
    PROVE  Room(u, f, T) /\ Room(u + cost, f + cost, T)
  <1>1. Cardinality(T) \in Nat /\ Cardinality(S) \in Nat /\ IsFiniteSet(S)
        /\ Cardinality(BillCalls) \in Nat
    BY CallSets
  <1>2. Cardinality(T) <= Cardinality(S)
    BY <1>1, FS_Subset
  <1>3. MostOf(meter) \in Nat /\ Limit[meter] \in Nat
    BY MostFacts DEF BillingTypeOK
  <1>4. /\ MostOf(meter) * Cardinality(T) <= MostOf(meter) * Cardinality(S)
        /\ MostOf(meter) * Cardinality(S) \in Nat /\ MostOf(meter) * Cardinality(T) \in Nat
        /\ MostOf(meter) * Cardinality(BillCalls) \in Nat
    BY <1>1, <1>2, <1>3, Times
  <1>. QED  BY <1>3, <1>4 DEF Room

LEMMA RoomUsed ==
    ASSUME BillingAssumption, BillingTypeOK, NEW S, S \subseteq BillCalls, NEW c \in S,
           NEW u \in Nat, NEW f \in Nat, NEW cost \in 0..MostOf(meter), Room(u, f, S)
    PROVE  Room(u, f, S \ {c}) /\ Room(u + cost, f, S \ {c})
  <1>1. Cardinality(S) \in Nat /\ Cardinality(BillCalls) \in Nat
    BY CallSets
  <1>2. Cardinality(S \ {c}) \in Nat /\ Cardinality(S \ {c}) = Cardinality(S) - 1
    BY CallLeaves
  <1>3. MostOf(meter) \in Nat /\ Limit[meter] \in Nat
    BY MostFacts DEF BillingTypeOK
  <1>4. MostOf(meter) * Cardinality(S) =
            MostOf(meter) * Cardinality(S \ {c}) + MostOf(meter)
    BY <1>1, <1>2, <1>3
  <1>5. /\ MostOf(meter) * Cardinality(S \ {c}) \in Nat
        /\ MostOf(meter) * Cardinality(BillCalls) \in Nat
    BY <1>1, <1>2, <1>3, Times
  <1>. QED  BY <1>3, <1>4, <1>5 DEF Room

\* The checked calls before their use after a step that leaves x of c.
LEMMA PassedAfter ==
    ASSUME BillingTypeOK, NEW c \in BillCalls, NEW x, Becomes(c, x)
    PROVE  PassedCheck' = IF x.at \in {"use", "try"} THEN PassedCheck \cup {c} ELSE PassedCheck \ {c}
  BY DEF BillingTypeOK, Becomes, PassedCheck, BillAt

LEMMA SpendStep ==
    ASSUME BillingAssumption, BillingTypeOK, SpendBounded, [BillingNext]_billVars
    PROVE  SpendBounded'
  <1>. SUFFICES ASSUME Limit[meter] > 0, UNCHANGED meter
                PROVE  Room(used', free', PassedCheck')
    <2>1. UNCHANGED meter
      BY DEF BillingNext, billVars, StartBilled, StartSuggestion, StartTest, CheckQuota,
             CheckTest, SendMessage, ChatReply, ChatTest, ChatSuggest, LookAtLevel, FindAlert, PostAlert, BillFail,
             MonthTurns, UtcTurns
    <2>. QED  BY <2>1 DEF SpendBounded, Room, MostOf
  <1>0. /\ PassedCheck \subseteq BillCalls /\ used \in Nat /\ free \in Nat
        /\ Room(used, free, PassedCheck) /\ MaxCost \in Nat
    BY DEF PassedCheck, BillingTypeOK, SpendBounded, Room, BillingAssumption
  <1>1. ASSUME NEW c \in BillCalls, NEW step \in BillSteps \ {"use", "try"}, BillGoto(c, step),
               UNCHANGED <<used, free>>
        PROVE  Room(used', free', PassedCheck')
    <2>1. PassedCheck' = PassedCheck \ {c}
      BY <1>1 DEF BillGoto, PassedCheck, BillAt, BillingTypeOK
    <2>. QED  BY <1>0, <1>1, <2>1, RoomKept
  <1>2. ASSUME NEW c \in BillCalls, NEW x, x.at \notin {"use", "try"}, Becomes(c, x),
               UNCHANGED <<used, free>>
        PROVE  Room(used', free', PassedCheck')
    <2>1. PassedCheck' = PassedCheck \ {c}
      BY <1>2, PassedAfter
    <2>. QED  BY <1>0, <1>2, <2>1, RoomKept
  <1>3. ASSUME NEW c \in BillCalls, BillAt(c, "use") \/ BillAt(c, "try"),
               NEW x, x.at \notin {"use", "try"}, Becomes(c, x), UNCHANGED free,
               NEW cost \in 0..MostOf(meter), Record(cost)
        PROVE  Room(used', free', PassedCheck')
    <2>1. c \in PassedCheck /\ PassedCheck' = PassedCheck \ {c}
      BY <1>3, PassedAfter DEF PassedCheck, BillAt
    <2>. QED  BY <1>0, <1>3, <2>1, RoomUsed DEF Record
  <1>4. CASE \E c \in BillCalls : StartBilled(c) \/ StartSuggestion(c) \/ StartTest(c)
    BY <1>1, <1>4 DEF StartBilled, StartSuggestion, StartTest, BillSteps
  <1>5. CASE \E c \in BillCalls : CheckQuota(c) \/ CheckTest(c)
    <2>1. CASE Allowed
      <3>1. used' = used /\ free' = free /\ used < Limit[meter]
        BY <1>5, <2>1, MostFacts DEF CheckQuota, CheckTest, Allowed, BillingTypeOK
      <3>2. PassedCheck' \subseteq BillCalls
        BY DEF PassedCheck
      <3>. QED  BY <1>0, <3>1, <3>2, RoomBelowLimit
    <2>2. CASE ~Allowed
      <3>1. PICK c \in BillCalls : CheckQuota(c) \/ CheckTest(c)
        BY <1>5
      <3>2. BillGoto(c, "level") \/ BillEnd(c)
        BY <2>2, <3>1 DEF CheckQuota, CheckTest
      <3>3. UNCHANGED <<used, free>>
        BY <3>1 DEF CheckQuota, CheckTest
      <3>4. CASE BillGoto(c, "level")
        BY <1>1, <3>3, <3>4 DEF BillSteps
      <3>5. CASE BillEnd(c)
        BY <1>2, <3>3, <3>5 DEF BillEnd, Becomes, BillIdle
      <3>. QED  BY <3>2, <3>4, <3>5
    <2>. QED  BY <2>1, <2>2
  <1>6. CASE \E c \in BillCalls : SendMessage(c)
    <2>1. PICK c \in BillCalls : SendMessage(c)
      BY <1>6
    <2>2. 1 \in 0..MostOf(meter) /\ Record(1) /\ UNCHANGED free /\ BillAt(c, "use")
      BY <2>1 DEF SendMessage, MostOf
    <2>3. Becomes(c, [bill[c] EXCEPT !.at = "level"]) /\ bill[c] \in BillCall
      BY <2>1 DEF SendMessage, BillGoto, Becomes, BillingTypeOK
    <2>4. [bill[c] EXCEPT !.at = "level"].at \notin {"use", "try"}
      BY <2>3 DEF BillCall
    <2>. QED  BY <1>3, <2>2, <2>3, <2>4
  <1>7. CASE \E c \in BillCalls : ChatReply(c) \/ ChatTest(c)
    <2>1. PICK c \in BillCalls : ChatReply(c) \/ ChatTest(c)
      BY <1>7
    <2>2. PICK cost \in 0..MaxCost : Record(cost)
      BY <2>1 DEF ChatReply, ChatTest
    <2>3. MostOf(meter) = MaxCost
      BY <2>1 DEF ChatReply, ChatTest, MostOf
    <2>4. cost \in 0..MostOf(meter)
      BY <2>2, <2>3
    <2>5. UNCHANGED free /\ (BillAt(c, "use") \/ BillAt(c, "try"))
      BY <2>1 DEF ChatReply, ChatTest
    <2>6. bill[c] \in BillCall /\ BillIdle.at = "idle"
      BY DEF BillingTypeOK, BillIdle
    <2>7. PICK x : x.at \notin {"use", "try"} /\ Becomes(c, x)
      BY <2>1, <2>6 DEF ChatReply, ChatTest, BillGoto, BillEnd, Becomes, BillCall
    <2>. QED  BY <1>3, <2>2, <2>4, <2>5, <2>7
  <1>8. CASE \E c \in BillCalls : ChatSuggest(c)
    <2>1. PICK c \in BillCalls : ChatSuggest(c)
      BY <1>8
    <2>2. PICK cost \in 0..MaxCost : used' = used + cost /\ free' = free + cost
      BY <2>1 DEF ChatSuggest
    <2>3. PassedCheck' \subseteq PassedCheck
      BY <2>1 DEF ChatSuggest, BillEnd, BillIdle, PassedCheck, BillAt, BillingTypeOK
    <2>. QED  BY <1>0, <2>2, <2>3, RoomKept
  <1>9. CASE \E c \in BillCalls : LookAtLevel(c) \/ FindAlert(c) \/ PostAlert(c) \/ BillFail(c)
    <2>1. PICK c \in BillCalls : LookAtLevel(c) \/ FindAlert(c) \/ PostAlert(c) \/ BillFail(c)
      BY <1>9
    <2>2. bill[c] \in BillCall /\ BillIdle.at = "idle"
      BY DEF BillingTypeOK, BillIdle
    <2>3. UNCHANGED <<used, free>>
      BY <2>1 DEF LookAtLevel, FindAlert, PostAlert, BillFail
    <2>4. PICK x : x.at \notin {"use", "try"} /\ Becomes(c, x)
      BY <2>1, <2>2 DEF LookAtLevel, FindAlert, PostAlert, BillFail, BillEnd, Becomes, BillCall
    <2>. QED  BY <1>2, <2>3, <2>4
  <1>10. CASE MonthTurns
    <2>1. used' = 0 /\ free' = 0 /\ PassedCheck' \subseteq BillCalls
      BY <1>10 DEF MonthTurns, PassedCheck
    <2>. QED  BY <2>1, RoomBelowLimit
  <1>11. CASE UtcTurns \/ UNCHANGED billVars
    <2>1. UNCHANGED <<used, free, bill>>
      BY <1>11 DEF UtcTurns, billVars
    <2>2. PassedCheck' = PassedCheck
      BY <2>1 DEF PassedCheck, BillAt
    <2>. QED  BY <1>0, <2>1, <2>2
  <1>. QED  BY <1>4, <1>5, <1>6, <1>7, <1>8, <1>9, <1>10, <1>11 DEF BillingNext

\* Checked calls pass a monthly limit by less than one call of the highest cost for
\* each call that runs at once, whatever the limit, the calls and their costs.
THEOREM SpendIsBounded == BillingSpec => []SpendBounded
  <1>1. BillingAssumption /\ BillingInit => SpendBounded
    <2>. SUFFICES ASSUME BillingAssumption, BillingInit, Limit[meter] > 0
                  PROVE  Room(used, free, PassedCheck)
      BY DEF SpendBounded, Room
    <2>1. BillingTypeOK
      BY BillingTypeInit
    <2>2. used = 0 /\ free = 0 /\ PassedCheck \subseteq BillCalls
      BY DEF BillingInit, PassedCheck
    <2>. QED  BY <2>1, <2>2, RoomBelowLimit
  <1>2. BillingAssumption /\ BillingTypeOK /\ SpendBounded /\ [BillingNext]_billVars
            => SpendBounded'
    BY SpendStep
  <1>. QED  BY <1>1, <1>2, BillingTypes, BillingAssumption, PTL DEF BillingSpec

-----------------------------------------------------------------------------
(* Alerts.                                                                 *)

\* What holds of one key, with a alerts sent and the calls S about to send one.
Scarce(a, S) == a + Cardinality(S) <= Cardinality(BillCalls)

LEMMA PostingAfter ==
    ASSUME BillingTypeOK, NEW c \in BillCalls, NEW x, Becomes(c, x), NEW l, NEW k
    PROVE  Posting(l, k)' = IF x.at = "post" /\ x.level = l /\ x.key = k
                            THEN Posting(l, k) \cup {c} ELSE Posting(l, k) \ {c}
  BY DEF BillingTypeOK, Becomes, Posting, BillAt

LEMMA ScarceLess ==
    ASSUME BillingAssumption, NEW S, S \subseteq BillCalls, NEW c, NEW a \in Nat, Scarce(a, S)
    PROVE  Scarce(a, S \ {c}) /\ (c \in S => Scarce(a + 1, S \ {c}))
  <1>1. Cardinality(S) \in Nat /\ Cardinality(BillCalls) \in Nat
    BY CallSets
  <1>2. /\ Cardinality(S \ {c}) \in Nat
        /\ Cardinality(S \ {c}) = IF c \in S THEN Cardinality(S) - 1 ELSE Cardinality(S)
    BY CallLeaves
  <1>. QED  BY <1>1, <1>2 DEF Scarce

LEMMA AlertStep ==
    ASSUME BillingAssumption, BillingTypeOK, AlertsBounded, [BillingNext]_billVars
    PROVE  AlertsBounded'
  <1>. SUFFICES ASSUME NEW l \in Levels, NEW k \in Months
                PROVE  Scarce(alerts'[<<l, k>>], Posting(l, k)')
    BY DEF AlertsBounded, Scarce
  <1>0. /\ alerts \in [Levels \X Months -> Nat] /\ alerts[<<l, k>>] \in Nat
        /\ Scarce(alerts[<<l, k>>], Posting(l, k)) /\ Posting(l, k) \subseteq BillCalls
        /\ <<l, k>> \in Levels \X Months
    BY DEF BillingTypeOK, AlertsBounded, Scarce, Posting
  <1>1. ASSUME NEW c \in BillCalls, NEW x, x.at # "post", Becomes(c, x), UNCHANGED alerts
        PROVE  Scarce(alerts'[<<l, k>>], Posting(l, k)')
    <2>1. Posting(l, k)' = Posting(l, k) \ {c}
      BY <1>1, PostingAfter
    <2>. QED  BY <1>0, <1>1, <2>1, ScarceLess
  <1>2. CASE \E c \in BillCalls :
            \/ StartBilled(c) \/ StartSuggestion(c) \/ StartTest(c)
            \/ CheckQuota(c) \/ CheckTest(c)
            \/ SendMessage(c) \/ ChatReply(c) \/ ChatTest(c) \/ ChatSuggest(c)
            \/ LookAtLevel(c) \/ BillFail(c)
    <2>1. PICK c \in BillCalls :
            \/ StartBilled(c) \/ StartSuggestion(c) \/ StartTest(c)
            \/ CheckQuota(c) \/ CheckTest(c)
            \/ SendMessage(c) \/ ChatReply(c) \/ ChatTest(c) \/ ChatSuggest(c)
            \/ LookAtLevel(c) \/ BillFail(c)
      BY <1>2
    <2>2. bill[c] \in BillCall /\ BillIdle.at = "idle"
      BY DEF BillingTypeOK, BillIdle
    <2>3. UNCHANGED alerts
      BY <2>1 DEF StartBilled, StartSuggestion, StartTest, CheckQuota, CheckTest,
                  SendMessage, ChatReply, ChatTest, ChatSuggest, LookAtLevel, BillFail
    <2>4. \/ BillGoto(c, "check") \/ BillGoto(c, "spend") \/ BillGoto(c, "use")
          \/ BillGoto(c, "ask") \/ BillGoto(c, "try")
          \/ BillGoto(c, "level") \/ BillEnd(c)
          \/ Becomes(c, [bill[c] EXCEPT !.at = "find", !.level = ReachedLevel])
      BY <2>1 DEF StartBilled, StartSuggestion, StartTest, CheckQuota, CheckTest,
                  SendMessage, ChatReply, ChatTest, ChatSuggest, LookAtLevel, BillFail,
                  Becomes
    <2>5. PICK x : x.at # "post" /\ Becomes(c, x)
      BY <2>2, <2>4 DEF BillGoto, BillEnd, Becomes, BillCall
    <2>. QED  BY <1>1, <2>3, <2>5
  <1>3. CASE \E c \in BillCalls : FindAlert(c)
    <2>1. PICK c \in BillCalls : FindAlert(c)
      BY <1>3
    <2>2. alerts' = alerts
      BY <2>1 DEF FindAlert
    <2>3. CASE alerts[<<bill[c].level, utc>>] > 0
      <3>1. Becomes(c, BillIdle) /\ BillIdle.at # "post"
        BY <2>1, <2>3 DEF FindAlert, BillEnd, Becomes, BillIdle
      <3>. QED  BY <1>1, <2>2, <3>1
    <2>4. CASE ~(alerts[<<bill[c].level, utc>>] > 0)
      <3>. DEFINE x == [bill[c] EXCEPT !.at = "post", !.key = utc]
      <3>1. Becomes(c, x)
        BY <2>1, <2>4 DEF FindAlert, Becomes
      <3>2. x.level = bill[c].level /\ x.key = utc
        BY DEF BillingTypeOK, BillCall
      <3>. HIDE DEF x
      <3>3. CASE x.level = l /\ x.key = k
        <4>1. alerts'[<<l, k>>] = 0
          BY <1>0, <2>2, <2>4, <3>2, <3>3
        <4>2. Posting(l, k)' \subseteq BillCalls
          BY DEF Posting
        <4>3. Cardinality(Posting(l, k)') \in Nat /\ Cardinality(Posting(l, k)') <= Cardinality(BillCalls)
          BY <4>2, CallSets
        <4>. QED  BY <4>1, <4>3 DEF Scarce
      <3>4. CASE ~(x.level = l /\ x.key = k)
        <4>1. Posting(l, k)' = Posting(l, k) \ {c}
          BY <3>1, <3>4, PostingAfter
        <4>2. Scarce(alerts[<<l, k>>], Posting(l, k) \ {c})
          BY <1>0, ScarceLess
        <4>3. alerts'[<<l, k>>] = alerts[<<l, k>>]
          BY <2>2
        <4>. QED  BY <4>1, <4>2, <4>3
      <3>. QED  BY <3>3, <3>4
    <2>. QED  BY <2>3, <2>4
  <1>4. CASE \E c \in BillCalls : PostAlert(c)
    <2>1. PICK c \in BillCalls : PostAlert(c)
      BY <1>4
    <2>2. Becomes(c, BillIdle) /\ BillIdle.at # "post"
      BY <2>1 DEF PostAlert, BillEnd, Becomes, BillIdle
    <2>3. Posting(l, k)' = Posting(l, k) \ {c}
      BY <2>2, PostingAfter
    <2>4. CASE bill[c].level = l /\ bill[c].key = k
      <3>1. c \in Posting(l, k)
        BY <2>1, <2>4 DEF PostAlert, Posting
      <3>2. alerts'[<<l, k>>] = alerts[<<l, k>>] + 1
        BY <1>0, <2>1, <2>4 DEF PostAlert
      <3>. QED  BY <1>0, <2>3, <3>1, <3>2, ScarceLess
    <2>5. CASE ~(bill[c].level = l /\ bill[c].key = k)
      <3>1. alerts'[<<l, k>>] = alerts[<<l, k>>]
        BY <1>0, <2>1, <2>5 DEF PostAlert
      <3>2. Scarce(alerts[<<l, k>>], Posting(l, k) \ {c})
        BY <1>0, ScarceLess
      <3>. QED  BY <2>3, <3>1, <3>2
    <2>. QED  BY <2>4, <2>5
  <1>5. CASE MonthTurns \/ UtcTurns \/ UNCHANGED billVars
    <2>1. UNCHANGED <<alerts, bill>>
      BY <1>5 DEF MonthTurns, UtcTurns, billVars
    <2>2. Posting(l, k)' = Posting(l, k)
      BY <2>1 DEF Posting, BillAt
    <2>. QED  BY <1>0, <2>1, <2>2
  <1>. QED  BY <1>2, <1>3, <1>4, <1>5 DEF BillingNext

\* An alert goes out at most once for each call that runs at once, under any key of
\* any month, although looking for it and sending it are two awaits.
THEOREM AlertsAreBounded == BillingSpec => []AlertsBounded
  <1>1. BillingAssumption /\ BillingInit => AlertsBounded
    <2>. SUFFICES ASSUME BillingAssumption, BillingInit, NEW l \in Levels, NEW k \in Months
                  PROVE  alerts[<<l, k>>] + Cardinality(Posting(l, k)) <= Cardinality(BillCalls)
      BY DEF AlertsBounded
    <2>1. alerts[<<l, k>>] = 0 /\ Posting(l, k) \subseteq BillCalls
      BY DEF BillingInit, Posting
    <2>2. Cardinality(Posting(l, k)) \in Nat /\ Cardinality(Posting(l, k)) <= Cardinality(BillCalls)
      BY <2>1, CallSets
    <2>. QED  BY <2>1, <2>2
  <1>2. BillingAssumption /\ BillingTypeOK /\ AlertsBounded /\ [BillingNext]_billVars
            => AlertsBounded'
    BY AlertStep
  <1>. QED  BY <1>1, <1>2, BillingTypes, BillingAssumption, PTL DEF BillingSpec

-----------------------------------------------------------------------------
(* Announcements.                                                          *)

\* The limit is reached, and what was spent since the last look was looked at.
Reached == ~missed /\ Limit[meter] > 0 /\ used >= Limit[meter]

Announced == \E k \in {month - 1, month} : alerts[<<"block100", k>>] > 0

\* A call that will announce the limit unless it fails.
Announcing(c) ==
    \/ BillAt(c, "level")
    \/ BillAt(c, "find") /\ bill[c].level = "block100"
    \/ BillAt(c, "post") /\ bill[c].level = "block100" /\ bill[c].key \in {month - 1, month}

AnnouncedInv == Reached => Announced \/ \E c \in BillCalls : Announcing(c)

\* A step of a call that leaves the alerts alone keeps the invariant when it reaches
\* no limit, or c announces it afterwards.
LEMMA AnnounceMoves ==
    ASSUME BillingAssumption, BillingTypeOK, AnnouncedInv, NEW c \in BillCalls, NEW x,
           Becomes(c, x), UNCHANGED <<month, alerts>>, Reached',
           Announcing(c)' \/ (Reached /\ ~Announcing(c))
    PROVE  Announced' \/ \E d \in BillCalls : Announcing(d)'
  <1>1. CASE Announcing(c)'
    BY <1>1
  <1>2. CASE Reached /\ Announced
    BY <1>2 DEF Announced
  <1>3. ASSUME Reached, ~Announcing(c), NEW d \in BillCalls, Announcing(d)
        PROVE  Announcing(d)'
    <2>1. bill'[d] = bill[d]
      BY <1>3 DEF Becomes, BillingTypeOK
    <2>. QED  BY <1>3, <2>1 DEF Announcing, BillAt
  <1>. QED  BY <1>1, <1>2, <1>3 DEF AnnouncedInv

LEMMA AnnounceStep ==
    ASSUME BillingAssumption, BillingTypeOK, AnnouncedInv, [BillingNext]_billVars
    PROVE  AnnouncedInv'
  <1>. SUFFICES ASSUME Reached'
                PROVE  Announced' \/ \E d \in BillCalls : Announcing(d)'
    BY DEF AnnouncedInv
  <1>. DEFINE Goal == Announced' \/ \E d \in BillCalls : Announcing(d)'
  <1>0. /\ used \in Nat /\ free \in Nat /\ Limit[meter] \in Nat
        /\ alerts \in [Levels \X Months -> Nat] /\ month \in 1..MaxMonth
        /\ utc \in {month - 1, month}
        /\ BillIdle.at = "idle"
    BY DEF BillingTypeOK, BillingAssumption, BillIdle
  <1>1. ASSUME NEW c \in BillCalls, NEW x, Becomes(c, x)
        PROVE  bill'[c] = x
    BY <1>1 DEF BillingTypeOK, Becomes
  <1>2. CASE \E c \in BillCalls : \/ StartBilled(c) \/ StartSuggestion(c) \/ StartTest(c)
                                 \/ CheckQuota(c) \/ CheckTest(c)
    <2>1. PICK c \in BillCalls : \/ StartBilled(c) \/ StartSuggestion(c) \/ StartTest(c)
                                \/ CheckQuota(c) \/ CheckTest(c)
      BY <1>2
    <2>2. Reached /\ UNCHANGED <<month, alerts>>
      BY <2>1 DEF StartBilled, StartSuggestion, StartTest, CheckQuota, CheckTest, Reached
    <2>3. ~Announcing(c)
      BY <2>1 DEF StartBilled, StartSuggestion, StartTest, CheckQuota, CheckTest, Announcing,
                  BillAt
    <2>4. \E x : Becomes(c, x)
      BY <2>1 DEF StartBilled, StartSuggestion, StartTest, CheckQuota, CheckTest, BillGoto,
                  BillEnd, Becomes
    <2>. QED  BY <2>2, <2>3, <2>4, AnnounceMoves
  <1>3. CASE \E c \in BillCalls : SendMessage(c) \/ ChatReply(c)
    <2>1. PICK c \in BillCalls : SendMessage(c) \/ ChatReply(c)
      BY <1>3
    <2>2. Becomes(c, [bill[c] EXCEPT !.at = "level"])
      BY <2>1 DEF SendMessage, ChatReply, BillGoto, Becomes
    <2>3. bill[c] \in BillCall
      BY DEF BillingTypeOK
    <2>4. Announcing(c)'
      BY <1>1, <2>2, <2>3 DEF Announcing, BillAt, BillCall
    <2>. QED  BY <2>4
  <1>4. CASE \E c \in BillCalls : ChatSuggest(c) \/ ChatTest(c)
    <2>1. PICK c \in BillCalls : ChatSuggest(c) \/ ChatTest(c)
      BY <1>4
    <2>2. missed' = (missed \/ used' # used) /\ UNCHANGED meter
      BY <2>1 DEF ChatSuggest, ChatTest
    <2>3. used' = used /\ ~missed
      BY <2>2 DEF Reached
    <2>4. Reached
      BY <2>2, <2>3 DEF Reached
    <2>5. ~Announcing(c)
      BY <2>1 DEF ChatSuggest, ChatTest, Announcing, BillAt
    <2>6. Becomes(c, BillIdle) /\ UNCHANGED <<month, alerts>>
      BY <2>1 DEF ChatSuggest, ChatTest, BillEnd, Becomes
    <2>. QED  BY <2>4, <2>5, <2>6, AnnounceMoves
  <1>5. CASE \E c \in BillCalls : LookAtLevel(c)
    <2>1. PICK c \in BillCalls : LookAtLevel(c)
      BY <1>5
    <2>2. Limit[meter] > 0 /\ used >= Limit[meter]
      BY <2>1 DEF LookAtLevel, Reached
    <2>3. ReachedLevel = "block100"
      BY <1>0, <2>2 DEF ReachedLevel
    <2>4. Becomes(c, [bill[c] EXCEPT !.at = "find", !.level = "block100"])
      BY <2>1, <2>3 DEF LookAtLevel, Becomes
    <2>5. bill[c] \in BillCall
      BY DEF BillingTypeOK
    <2>6. Announcing(c)'
      BY <1>1, <2>4, <2>5 DEF Announcing, BillAt, BillCall
    <2>. QED  BY <2>6
  <1>6. CASE \E c \in BillCalls : FindAlert(c)
    <2>1. PICK c \in BillCalls : FindAlert(c)
      BY <1>6
    <2>2. Reached /\ UNCHANGED <<month, alerts>>
      BY <2>1 DEF FindAlert, Reached
    <2>3. CASE bill[c].level # "block100"
      <3>1. ~Announcing(c)
        BY <2>1, <2>3 DEF FindAlert, Announcing, BillAt
      <3>2. \E x : Becomes(c, x)
        BY <2>1 DEF FindAlert, BillEnd, Becomes
      <3>. QED  BY <2>2, <3>1, <3>2, AnnounceMoves
    <2>4. CASE bill[c].level = "block100" /\ alerts[<<bill[c].level, utc>>] > 0
      BY <1>0, <2>2, <2>4 DEF Announced
    <2>5. CASE bill[c].level = "block100" /\ ~(alerts[<<bill[c].level, utc>>] > 0)
      <3>1. Becomes(c, [bill[c] EXCEPT !.at = "post", !.key = utc])
        BY <2>1, <2>5 DEF FindAlert, Becomes
      <3>2. bill[c] \in BillCall
        BY DEF BillingTypeOK
      <3>3. Announcing(c)'
        BY <1>0, <1>1, <2>2, <2>5, <3>1, <3>2 DEF Announcing, BillAt, BillCall
      <3>. QED  BY <3>3
    <2>. QED  BY <2>3, <2>4, <2>5
  <1>7. CASE \E c \in BillCalls : PostAlert(c)
    <2>1. PICK c \in BillCalls : PostAlert(c)
      BY <1>7
    <2>2. Reached /\ month' = month
      BY <2>1 DEF PostAlert, Reached
    <2>3. bill[c] \in BillCall /\ bill'[c] = BillIdle
      BY <2>1 DEF BillingTypeOK, PostAlert, BillEnd
    <2>4. \A k \in Months : alerts'[<<"block100", k>>] =
              IF bill[c].level = "block100" /\ bill[c].key = k
              THEN alerts[<<"block100", k>>] + 1 ELSE alerts[<<"block100", k>>]
      <3>1. <<bill[c].level, bill[c].key>> \in Levels \X Months
        BY <2>3 DEF BillCall
      <3>2. \A k \in Months : <<"block100", k>> \in Levels \X Months
        BY DEF Levels
      <3>. QED  BY <1>0, <2>1, <3>1, <3>2 DEF PostAlert
    <2>5. month \in Months /\ month - 1 \in Months
      BY <1>0 DEF Months, BillingAssumption
    <2>6. \A k \in Months : alerts[<<"block100", k>>] \in Nat
      BY <1>0 DEF Levels
    <2>7. CASE Announced
      BY <2>2, <2>4, <2>5, <2>6, <2>7 DEF Announced
    <2>8. CASE Announcing(c)
      <3>1. bill[c].level = "block100" /\ bill[c].key \in {month - 1, month}
        BY <2>1, <2>8 DEF PostAlert, Announcing, BillAt
      <3>. QED  BY <2>2, <2>4, <2>5, <2>6, <3>1 DEF Announced
    <2>9. ASSUME NEW d \in BillCalls, d # c, Announcing(d)
          PROVE  Announcing(d)'
      <3>1. bill'[d] = bill[d]
        BY <2>1, <2>9 DEF PostAlert, BillEnd, BillingTypeOK
      <3>. QED  BY <2>2, <2>9, <3>1 DEF Announcing, BillAt
    <2>. QED  BY <2>2, <2>7, <2>8, <2>9 DEF AnnouncedInv
  <1>8. CASE \E c \in BillCalls : BillFail(c)
    <2>1. PICK c \in BillCalls : BillFail(c)
      BY <1>8
    <2>2. Reached /\ bill[c].at \notin {"level", "find", "post"}
      BY <2>1 DEF BillFail, Reached
    <2>3. ~Announcing(c)
      BY <2>2 DEF Announcing, BillAt
    <2>4. Becomes(c, BillIdle) /\ UNCHANGED <<month, alerts>>
      BY <2>1 DEF BillFail, BillEnd, Becomes
    <2>. QED  BY <2>2, <2>3, <2>4, AnnounceMoves
  <1>9. CASE MonthTurns
    BY <1>0, <1>9 DEF MonthTurns, Reached
  <1>10. CASE UtcTurns \/ UNCHANGED billVars
    <2>1. UNCHANGED <<alerts, bill, month, missed, free, meter, used>>
      BY <1>10 DEF UtcTurns, billVars
    <2>2. Reached /\ Announced' = Announced /\ \A d \in BillCalls : Announcing(d)' = Announcing(d)
      BY <2>1 DEF Reached, Announced, Announcing, BillAt
    <2>. QED  BY <2>2 DEF AnnouncedInv
  <1>. QED
    BY <1>2, <1>3, <1>4, <1>5, <1>6, <1>7, <1>8, <1>9, <1>10 DEF BillingNext

\* A limit that is reached is announced under the key of the month, or of the last one
\* while UTC is behind, once the calls have ended, unless tests or suggestions have
\* spent or a look has failed since a call last looked.
THEOREM ReachedIsAnnounced == BillingSpec => []AnnouncedWhenReached
  <1>1. BillingAssumption /\ BillingInit => AnnouncedInv
    BY DEF BillingInit, BillingAssumption, AnnouncedInv, Reached
  <1>2. BillingAssumption /\ BillingTypeOK /\ AnnouncedInv /\ [BillingNext]_billVars
            => AnnouncedInv'
    BY AnnounceStep
  <1>3. AnnouncedInv => AnnouncedWhenReached
    BY DEF AnnouncedInv, AnnouncedWhenReached, Reached, Announced, Announcing, BillAt
  <1>. QED  BY <1>1, <1>2, <1>3, BillingTypes, BillingAssumption, PTL DEF BillingSpec

=============================================================================
