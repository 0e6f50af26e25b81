-------------------------------- MODULE Push --------------------------------
(***************************************************************************)
(* Web push for one user with several browsers: the toggle of the settings *)
(* page (push-toggle.tsx), the rows of the server and the deliveries that  *)
(* prune them (push.service.ts).                                           *)
(*                                                                         *)
(* A browser's subscription has an endpoint of its own, never used again   *)
(* once it is gone; each browser has one page open, and its button is      *)
(* disabled while a request runs.  Keys and payloads are left out.         *)
(***************************************************************************)
EXTENDS Naturals, FiniteSets

CONSTANTS
    Browsers,
    MaxSubscriptions,  \* subscriptions per browser (a bound)
    Sends              \* concurrent deliveries to the user

ASSUME PushAssumption ==
    /\ IsFiniteSet(Browsers)
    /\ MaxSubscriptions \in Nat

VARIABLES
    live,      \* the browser's subscription, 0 for none
    latest,    \* subscriptions so far
    toggle,    \* what the page is doing
    known,     \* whether the server confirmed the live subscription to the page
               \* and the user has not turned it off since (history)
    subs,      \* rows of push_subscriptions
    sends      \* the deliveries

pushVars == <<live, latest, toggle, known, subs, sends>>

Endpoints == Browsers \X (1..MaxSubscriptions)
\* The endpoint of the browser's latest subscription.
Endpoint(b) == <<b, latest[b]>>

ToggleSteps == {"idle", "permitted", "posting", "posted", "deleting", "deleted"}
Send == [running: BOOLEAN, left: SUBSET Endpoints, gone: SUBSET Endpoints]
NoSend == [running |-> FALSE, left |-> {}, gone |-> {}]

PushInit ==
    /\ live = [b \in Browsers |-> 0]
    /\ latest = [b \in Browsers |-> 0]
    /\ toggle = [b \in Browsers |-> "idle"]
    /\ known = [b \in Browsers |-> FALSE]
    /\ subs = {}
    /\ sends = [s \in Sends |-> NoSend]

Goes(b, from, to) ==
    /\ toggle[b] = from
    /\ toggle' = [toggle EXCEPT ![b] = to]

-----------------------------------------------------------------------------
(* The page.                                                               *)

\* enable: the user grants permission and the server sends its key.
TurnOn(b) ==
    /\ Goes(b, "idle", "permitted")
    /\ UNCHANGED <<live, latest, known, subs, sends>>

\* The browser subscribes, or gives the subscription it has.
BrowserSubscribe(b) ==
    /\ Goes(b, "permitted", "posting")
    /\ \/ live[b] # 0 /\ UNCHANGED <<live, latest>>
       \/ /\ live[b] = 0
          /\ latest[b] < MaxSubscriptions
          /\ latest' = [latest EXCEPT ![b] = @ + 1]
          /\ live' = [live EXCEPT ![b] = latest[b] + 1]
    /\ UNCHANGED <<known, subs, sends>>

\* subscribe on the server: an upsert; the subscription may be gone by now.
Subscribe(b) ==
    /\ Goes(b, "posting", "posted")
    /\ subs' = subs \cup {Endpoint(b)}
    /\ UNCHANGED <<live, latest, known, sends>>

Enabled(b) ==
    /\ Goes(b, "posted", "idle")
    /\ known' = [known EXCEPT ![b] = live[b] # 0]
    /\ UNCHANGED <<live, latest, subs, sends>>

\* disable, when the browser has a subscription.
TurnOff(b) ==
    /\ live[b] # 0
    /\ Goes(b, "idle", "deleting")
    /\ known' = [known EXCEPT ![b] = FALSE]
    /\ UNCHANGED <<live, latest, subs, sends>>

\* unsubscribe on the server; its failure is ignored.
Unsubscribe(b) ==
    /\ Goes(b, "deleting", "deleted")
    /\ \E rest \in {subs, subs \ {Endpoint(b)}} : subs' = rest
    /\ UNCHANGED <<live, latest, known, sends>>

BrowserUnsubscribe(b) ==
    /\ Goes(b, "deleted", "idle")
    /\ live' = [live EXCEPT ![b] = 0]
    /\ UNCHANGED <<latest, known, subs, sends>>

\* A request fails, or the page is left: what was done stays, and a request
\* that has not arrived by then never does.
ToggleFails(b) ==
    /\ toggle[b] # "idle"
    /\ toggle' = [toggle EXCEPT ![b] = "idle"]
    /\ UNCHANGED <<live, latest, known, subs, sends>>

\* The user revokes the permission or removes the app.
SubscriptionDies(b) ==
    /\ live[b] # 0
    /\ live' = [live EXCEPT ![b] = 0]
    /\ known' = [known EXCEPT ![b] = FALSE]
    /\ UNCHANGED <<latest, toggle, subs, sends>>

-----------------------------------------------------------------------------
(* Deliveries.                                                             *)

\* sendToUser reads the rows.
SendRead(s) ==
    /\ ~sends[s].running
    /\ sends' = [sends EXCEPT ![s] = [running |-> TRUE, left |-> subs, gone |-> {}]]
    /\ UNCHANGED <<live, latest, toggle, known, subs>>

Alive(e) == live[e[1]] = e[2]

\* One row: delivered, failed for a while, or answered 404 or 410, which only a
\* subscription that is gone gets.
SendOne(s, e) ==
    /\ sends[s].gone = {}
    /\ e \in sends[s].left
    /\ \E gone \in SUBSET {e} :
          /\ gone # {} => ~Alive(e)
          /\ sends' = [sends EXCEPT ![s] =
                [running |-> TRUE, left |-> sends[s].left \ {e}, gone |-> gone]]
    /\ UNCHANGED <<live, latest, toggle, known, subs>>

\* Faulty variant: all rows of that browser are deleted.
PruneBrowser(s) ==
    /\ sends[s].gone # {}
    /\ subs' = {e \in subs : \A g \in sends[s].gone : e[1] # g[1]}
    /\ sends' = [sends EXCEPT ![s].gone = {}]
    /\ UNCHANGED <<live, latest, toggle, known>>

\* The row is deleted by its id; a failure is ignored.
Prune(s) ==
    /\ sends[s].gone # {}
    /\ \E rest \in {subs, subs \ sends[s].gone} : subs' = rest
    /\ sends' = [sends EXCEPT ![s].gone = {}]
    /\ UNCHANGED <<live, latest, toggle, known>>

SendEnds(s) ==
    /\ sends[s].running /\ sends[s].left = {} /\ sends[s].gone = {}
    /\ sends' = [sends EXCEPT ![s] = NoSend]
    /\ UNCHANGED <<live, latest, toggle, known, subs>>

PushNext ==
    \/ \E b \in Browsers :
          \/ TurnOn(b) \/ BrowserSubscribe(b) \/ Subscribe(b) \/ Enabled(b)
          \/ TurnOff(b) \/ Unsubscribe(b) \/ BrowserUnsubscribe(b)
          \/ ToggleFails(b) \/ SubscriptionDies(b)
    \/ \E s \in Sends :
          \/ SendRead(s) \/ Prune(s) \/ SendEnds(s)
          \/ \E e \in Endpoints : SendOne(s, e)

PushSpec == PushInit /\ [][PushNext]_pushVars

-----------------------------------------------------------------------------

\* Rows are of subscriptions there have been, and each browser has one step.
PushTypeOK ==
    /\ live \in [Browsers -> 0..MaxSubscriptions]
    /\ latest \in [Browsers -> 0..MaxSubscriptions]
    /\ toggle \in [Browsers -> ToggleSteps]
    /\ known \in [Browsers -> BOOLEAN]
    /\ subs \in SUBSET Endpoints
    /\ sends \in [Sends -> Send]

\* A subscription that the server confirmed keeps its row while it is alive and the
\* user has not turned it off, also when deliveries that began before it prune
\* earlier subscriptions of the same browser.
LiveRowsKept == \A b \in Browsers : known[b] => Endpoint(b) \in subs
=============================================================================
