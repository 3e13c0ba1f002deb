---------------------------- MODULE BrowserSession ----------------------------
(***************************************************************************)
(* Who is logged in, in the tabs of one browser and in the storage that    *)
(* they share: what a member may rely on, whatever requests are under way. *)
(* A tab becomes a member's only when that member's login was asked for in *)
(* it, or when the page is loaded again while the storage names the        *)
(* member; logging out clears the tab and the storage together.            *)
(***************************************************************************)
CONSTANTS
  Tab,      \* tabs of the browser
  Member,   \* usernames
  NoOne     \* nobody is logged in

VARIABLES
  session,  \* session[t]: the member whose token tab t holds
  stored,   \* the member whose token is in the storage
  asking    \* asking[t]: members whose logins are under way in tab t

sessionVars == <<session, stored, asking>>

Init ==
  /\ stored \in Member \cup {NoOne}
  /\ session \in [Tab -> {stored, NoOne}]
  /\ asking = [t \in Tab |-> {}]

(* A login under way may end with the step, and others of the same member  *)
(* may go on.                                                              *)
Settled(t, m) == asking' \in {asking, [asking EXCEPT ![t] = @ \ {m}]}

Ask(t, m) ==
  /\ asking' = [asking EXCEPT ![t] = @ \cup {m}]
  /\ UNCHANGED <<session, stored>>

GiveUp(t, m) ==
  /\ Settled(t, m)
  /\ UNCHANGED <<session, stored>>

SignIn(t, m) ==
  /\ m \in asking[t]
  /\ session' = [session EXCEPT ![t] = m]
  /\ stored' = m
  /\ Settled(t, m)

SignOut(t, m) ==
  /\ session' = [session EXCEPT ![t] = NoOne]
  /\ stored' = NoOne
  /\ Settled(t, m)

(* The page is loaded again, and forgets what was under way.               *)
Resume(t) ==
  /\ session' = [session EXCEPT ![t] = stored]
  /\ asking' = [asking EXCEPT ![t] = {}]
  /\ UNCHANGED stored

(* A tab writes the session it holds.                                      *)
Publish(t) ==
  /\ stored' = session[t]
  /\ UNCHANGED <<session, asking>>

Next ==
  \E t \in Tab :
    \/ Resume(t)
    \/ Publish(t)
    \/ \E m \in Member \cup {NoOne} :
         Ask(t, m) \/ GiveUp(t, m) \/ SignIn(t, m) \/ SignOut(t, m)

Spec == Init /\ [][Next]_sessionVars

=============================================================================
