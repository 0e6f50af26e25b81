------------------------------- MODULE Picker -------------------------------
(***************************************************************************)
(* The structured address of the new-property form: the town field, the    *)
(* street and neighbourhood fields that search within the chosen town      *)
(* (address-picker.tsx, city-, street- and neighborhood-autocomplete.tsx), *)
(* and the row the form's submission stores (properties.service.ts).       *)
(*                                                                         *)
(* An option is known by the town it belongs to.  The debounce timer and   *)
(* the opening and closing of a list decide when a search is sent and an   *)
(* option is picked; both may happen at any time the field is enabled.     *)
(***************************************************************************)
EXTENDS Naturals, FiniteSets

CONSTANTS
    Fields,     \* fields that search within the town, "street" and "neighborhood"
    Cities,     \* settlements to choose from
    NoCity,     \* nothing chosen, or an empty list
    MaxFlying   \* searches in flight per field and town (a bound)

ASSUME PickerAssumption ==
    /\ Fields \subseteq {"street", "neighborhood"} /\ "street" \in Fields
    /\ IsFiniteSet(Cities) /\ NoCity \notin Cities
    /\ MaxFlying \in Nat \ {0}

VARIABLES
    city,     \* settlementId
    picked,   \* streetId and neighborhoodId
    shown,    \* the options each field lists
    flying,   \* searches without an answer
    late,     \* whether a field, since the town changed, took an answer for
              \* another town (history)
    stored    \* the last row stored

pickerVars == <<city, picked, shown, flying, late, stored>>

NoneOf == [f \in Fields |-> NoCity]
Never == [f \in Fields |-> FALSE]
CityOrNone == Cities \cup {NoCity}

PickerInit ==
    /\ city = NoCity
    /\ picked = NoneOf
    /\ shown = NoneOf
    /\ flying = [f \in Fields |-> [t \in Cities |-> 0]]
    /\ late = Never
    /\ stored = [city |-> NoCity, picked |-> NoneOf, late |-> Never]

\* The reset effect of both fields runs when settlementId changes, and only then;
\* searches in flight are not aborted.
CityBecomes(t) ==
    /\ city' = t
    /\ shown' = IF t = city THEN shown ELSE NoneOf
    /\ late' = IF t = city THEN late ELSE Never

-----------------------------------------------------------------------------

\* The user types into the town field: the town is dropped, street and
\* neighbourhood are not.
TypeCity ==
    /\ CityBecomes(NoCity)
    /\ UNCHANGED <<picked, flying, stored>>

\* Faulty variant: only the town changes.
SelectCityOnly(t) ==
    /\ CityBecomes(t)
    /\ UNCHANGED <<picked, flying, stored>>

\* The user picks a town; street and neighbourhood are cleared.
SelectCity(t) ==
    /\ CityBecomes(t)
    /\ picked' = NoneOf
    /\ UNCHANGED <<flying, stored>>

\* Focus, typing or the timer sends a search within the chosen town.
Search(f) ==
    /\ city # NoCity
    /\ flying[f][city] < MaxFlying
    /\ flying' = [flying EXCEPT ![f][city] = @ + 1]
    /\ UNCHANGED <<city, picked, shown, late, stored>>

\* An answer replaces the list, whichever town it is for; it may be empty.
Answered(f, t) ==
    /\ flying[f][t] > 0
    /\ flying' = [flying EXCEPT ![f][t] = @ - 1]
    /\ \E found \in {t, NoCity} : shown' = [shown EXCEPT ![f] = found]
    /\ late' = [late EXCEPT ![f] = @ \/ t # city]
    /\ UNCHANGED <<city, picked, stored>>

\* The search fails; the list stays.
SearchFails(f, t) ==
    /\ flying[f][t] > 0
    /\ flying' = [flying EXCEPT ![f][t] = @ - 1]
    /\ UNCHANGED <<city, picked, shown, late, stored>>

\* The user types into an enabled street or neighbourhood field.
TypeField(f) ==
    /\ city # NoCity
    /\ picked' = [picked EXCEPT ![f] = NoCity]
    /\ UNCHANGED <<city, shown, flying, late, stored>>

PickOption(f) ==
    /\ city # NoCity
    /\ shown[f] # NoCity
    /\ picked' = [picked EXCEPT ![f] = shown[f]]
    /\ UNCHANGED <<city, shown, flying, late, stored>>

\* The form is sent as it is, create stores the ids and the names they stand
\* for, and the page is left.
Submit ==
    /\ stored' = [city |-> city, picked |-> picked, late |-> late]
    /\ city' = NoCity /\ picked' = NoneOf /\ shown' = NoneOf /\ late' = Never
    /\ flying' = [f \in Fields |-> [t \in Cities |-> 0]]

PickerNext ==
    \/ TypeCity \/ Submit
    \/ \E t \in Cities : SelectCity(t)
    \/ \E f \in Fields :
          \/ Search(f) \/ TypeField(f) \/ PickOption(f)
          \/ \E t \in Cities : Answered(f, t) \/ SearchFails(f, t)

PickerSpec == PickerInit /\ [][PickerNext]_pickerVars

-----------------------------------------------------------------------------

\* Ids, lists and searches are of towns there are.
PickerTypeOK ==
    /\ city \in CityOrNone
    /\ picked \in [Fields -> CityOrNone] /\ shown \in [Fields -> CityOrNone]
    /\ flying \in [Fields -> [Cities -> 0..MaxFlying]]
    /\ late \in [Fields -> BOOLEAN]
    /\ stored \in [city: CityOrNone, picked: [Fields -> CityOrNone],
                   late: [Fields -> BOOLEAN]]

\* A street or neighbourhood that is sent with a town lies in that town, as long
\* as the field took no answer for another town since the town was chosen,
\* whatever was typed, picked and searched before.
PickedMatches ==
    /\ \A f \in Fields :
          city # NoCity /\ picked[f] # NoCity /\ ~late[f] => picked[f] = city
    /\ \A f \in Fields :
          stored.city # NoCity /\ stored.picked[f] # NoCity /\ ~stored.late[f] =>
             stored.picked[f] = stored.city

\* What the comments promise without that exception: no stored property refers to a
\* street of another town than its own.
StreetInCity ==
    stored.city # NoCity /\ stored.picked["street"] # NoCity =>
        stored.picked["street"] = stored.city
=============================================================================
