--------------------------- MODULE WebClientProofs ---------------------------
(***************************************************************************)
(* The invariants of the web client, for every number of tabs, members and *)
(* requests under way, and for any mix of bundles.  They are inductive     *)
(* once it is said which promises a request was sent with still hold.      *)
(***************************************************************************)
EXTENDS WebClient, TLAPS

(* A session is a token together with the name it belongs to.              *)
TokensNamed ==
  /\ storage.token = storage.name
  /\ \A t \in Tab : store[t].token = store[t].name

(* A tab with the first bundle stays on its page and sends nothing.        *)
FirstIdle ==
  \A t \in Tab : Build[t] = "first" =>
    /\ page[t] = "home" /\ going[t] = "none" /\ store[t] = NoSession
    /\ \A i \in Slot : call[i].tab # t

(* The pages that name a member name the one who is logged in, until they  *)
(* are left or the member is logged out.                                   *)
FormIsOwn ==
  \A t \in Tab : page[t] \in {"profile", "changepassword"} =>
    store[t].token \in {NoOne, form[t].name}

(* The fields that a request of each kind has.                             *)
Filled(c) ==
  /\ c.op \in {"login", "check", "create"} => c.name \in Username
  /\ c.op \in {"create", "update"} => c.mail \in Email
  /\ c.mounted => c.tab \in Tab

CallsFilled == \A i \in Slot : Filled(call[i])

(* What is known of a name in the join page and of the checks under way.   *)
CheckKnown(c) ==
  c.op = "check" =>
    /\ c.answer = "free" => c.name \in said
    /\ c.mounted => /\ page[c.tab] = "join" /\ form[c.tab].name \in Username
                    /\ ~overtaken => form[c.tab].name = c.name

FreeKnown(t) ==
  form[t].free => /\ form[t].name \in Username
                  /\ ~overtaken => form[t].name \in said

JoinInv ==
  /\ \A i \in Slot : CheckKnown(call[i])
  /\ \A t \in Tab : FreeKnown(t)
  /\ JoinChecked

SessionInv ==
  TypeOK /\ TokensNamed /\ FirstIdle /\ FormIsOwn /\ CallsFilled /\ OwnToken
         /\ StorageIsSomeTabs /\ JoinInv

(* What a session shows of its member.                                     *)
Shown(s) == IF s.name = NoOne THEN s.mail = NoMail ELSE s.mail \in saved[s.name]

(* What a request that nothing has overtaken may rely on.                  *)
CallShown(c) ==
  /\ c.op = "login" /\ c.answer = "ok" => c.mail \in saved[c.name]
  /\ c.op = "update" /\ c.tab \in Tab =>
       /\ c.token = store[c.tab].token
       /\ c.answer = "ok" => c.token # NoOne /\ c.mail \in saved[c.name]
       /\ IF c.mounted THEN page[c.tab] = "profile" /\ form[c.tab].mail = c.mail
                       ELSE c.kept = c.mail

MailInv ==
  /\ \A u \in Username : account[u] \in saved[u] \cup {NoMail}
  /\ ~overtaken =>
       /\ Shown(storage)
       /\ \A t \in Tab : blank[t] = NoMail /\ Shown(store[t])
       /\ \A i \in Slot : CallShown(call[i])

-----------------------------------------------------------------------------
(* Sessions, forms and calls.                                              *)

(* Sessions, forms and calls have the shapes that TypeOK gives them.       *)
LEMMA Shapes ==
  /\ NoCall \in Call /\ NoSession \in Session
  /\ \A u \in Username, m \in Mail : SignedIn(u, m) \in Session
  /\ \A m \in Mail : LoggedOut(m) \in Session
  /\ \A p, s : s \in Session => Setup(p, s) \in Form
  BY DEF NoCall, Call, NoSession, Session, Someone, Mail, SignedIn, LoggedOut, Setup, Form

(* Requests of a page that is left.                                        *)
LEMMA UnmountedCalls ==
  ASSUME NEW f \in [Slot -> Call], NEW t \in Tab, form \in [Tab -> Form]
  PROVE  /\ Unmounted(f, t) \in [Slot -> Call]
         /\ \A i \in Slot :
              LET c == Unmounted(f, t)[i] IN
              /\ c.tab = f[i].tab /\ c.op = f[i].op /\ c.name = f[i].name
              /\ c.mail = f[i].mail /\ c.token = f[i].token /\ c.answer = f[i].answer
              /\ c.mounted => f[i].mounted /\ c.tab # t
              /\ IF f[i].mounted /\ f[i].tab = t THEN c.kept = form[t].mail ELSE c = f[i]
  <1>1. form[t].mail \in Mail
    BY DEF Form
  <1> SUFFICES ASSUME NEW i \in Slot
               PROVE  LET c == Unmounted(f, t)[i] IN
                      /\ c \in Call
                      /\ c.tab = f[i].tab /\ c.op = f[i].op /\ c.name = f[i].name
                      /\ c.mail = f[i].mail /\ c.token = f[i].token /\ c.answer = f[i].answer
                      /\ c.mounted => f[i].mounted /\ c.tab # t
                      /\ IF f[i].mounted /\ f[i].tab = t THEN c.kept = form[t].mail ELSE c = f[i]
    BY DEF Unmounted
  <1>2. f[i] \in Call
    OBVIOUS
  <1>3. CASE f[i].tab = t /\ f[i].mounted
    BY <1>1, <1>2, <1>3 DEF Unmounted, Call
  <1>4. CASE ~(f[i].tab = t /\ f[i].mounted)
    BY <1>2, <1>4 DEF Unmounted, Call
  <1> QED BY <1>3, <1>4

-----------------------------------------------------------------------------
(* Navigation.                                                             *)

(* What a navigation of tab t to page p amounts to: it has left its page   *)
(* for p, set up with session s, or it is still where it was.              *)
Moved(t, p, s, f) ==
  /\ page' \in [Tab -> Pages] /\ going' \in [Tab -> Pages \cup {"none"}]
  /\ form' \in [Tab -> Form] /\ call' \in [Slot -> Call]
  /\ \A r \in Tab \ {t} : page'[r] = page[r] /\ going'[r] = going[r] /\ form'[r] = form[r]
  /\ p = "home" => page'[t] = "home" /\ going'[t] = "none"
  /\ \/ page'[t] = page[t] /\ form'[t] = form[t] /\ call' = f
     \/ page'[t] = p /\ form'[t] = Setup(p, s) /\ call' = Unmounted(f, t)

(* A page that is mounted has been moved to.                               *)
LEMMA MountMoves ==
  ASSUME TypeOK, NEW t \in Tab, NEW p \in Pages, NEW s \in Session, NEW f \in [Slot -> Call],
         Mount(t, p, s, f)
  PROVE  Moved(t, p, s, f)
  <1>1. Setup(p, s) \in Form /\ Unmounted(f, t) \in [Slot -> Call]
    BY Shapes, UnmountedCalls DEF TypeOK
  <1>2. "none" \in Pages \cup {"none"}
    OBVIOUS
  <1> QED BY <1>1, <1>2 DEF Mount, Moved, TypeOK

(* A push moves to the page, or waits for its chunk where it is.           *)
LEMMA PushMoves ==
  ASSUME TypeOK, NEW t \in Tab, NEW p \in Pages, NEW s \in Session, NEW f \in [Slot -> Call],
         Push(t, p, s, f)
  PROVE  Moved(t, p, s, f)
  <1>1. CASE Mount(t, p, s, f)
    BY <1>1, MountMoves
  <1>2. CASE /\ going' = [going EXCEPT ![t] = IF p = page[t] THEN "none" ELSE p]
             /\ p = page[t] \/ p # "home"
             /\ call' = f
             /\ UNCHANGED <<page, form>>
    BY <1>2 DEF Moved, TypeOK
  <1> QED BY <1>1, <1>2 DEF Push

(* Pages still name the member who is logged in, or nobody is any more.    *)
LEMMA MovedForms ==
  ASSUME TypeOK, FormIsOwn, NEW t \in Tab, NEW p \in Pages, NEW s \in Session, NEW f,
         Moved(t, p, s, f), store' = [store EXCEPT ![t] = s], s.token = s.name,
         p = "home" \/ s.token \in {NoOne, store[t].token}
  PROVE  FormIsOwn'
  <1> SUFFICES ASSUME NEW r \in Tab, page'[r] \in {"profile", "changepassword"}
               PROVE  store'[r].token \in {NoOne, form'[r].name}
    BY DEF FormIsOwn
  <1>1. CASE r # t
    BY <1>1 DEF Moved, FormIsOwn, TypeOK
  <1>2. CASE r = t
    <2>1. p # "home" /\ store'[t] = s
      BY <1>2 DEF Moved, TypeOK
    <2>2. CASE page'[t] = page[t] /\ form'[t] = form[t]
      BY <1>2, <2>1, <2>2 DEF FormIsOwn
    <2>3. CASE page'[t] = p /\ form'[t] = Setup(p, s)
      BY <1>2, <2>1, <2>3 DEF Setup
    <2> QED BY <2>2, <2>3 DEF Moved
  <1> QED BY <1>1, <1>2

(* The fields of a page that may be left have not been found free on the   *)
(* new one, and requests that are still mounted are of unchanged pages.    *)
LEMMA MovedFields ==
  ASSUME TypeOK, CallsFilled, NEW t \in Tab, NEW p \in Pages, NEW s \in Session,
         NEW f \in [Slot -> Call], Moved(t, p, s, f)
  PROVE  /\ \A r \in Tab : form'[r].free => form'[r] = form[r]
         /\ \A i \in Slot :
              /\ call'[i].op = f[i].op /\ call'[i].name = f[i].name
              /\ call'[i].token = f[i].token /\ call'[i].mail = f[i].mail
              /\ call'[i].tab = f[i].tab /\ call'[i].answer = f[i].answer
              /\ call'[i].mounted => f[i].mounted
         /\ \A i \in Slot : call'[i].mounted /\ call'[i].tab \in Tab =>
              page'[call'[i].tab] = page[call'[i].tab] /\ form'[call'[i].tab] = form[call'[i].tab]
  <1>1. form \in [Tab -> Form]
    BY DEF TypeOK
  <1>2. CASE page'[t] = page[t] /\ form'[t] = form[t] /\ call' = f
    BY <1>2 DEF Moved
  <1>3. CASE page'[t] = p /\ form'[t] = Setup(p, s) /\ call' = Unmounted(f, t)
    <2>1. ~form'[t].free
      BY <1>3 DEF Setup
    <2>2. \A r \in Tab \ {t} : page'[r] = page[r] /\ form'[r] = form[r]
      BY DEF Moved
    <2>3. \A i \in Slot :
            /\ call'[i].op = f[i].op /\ call'[i].name = f[i].name
            /\ call'[i].token = f[i].token /\ call'[i].mail = f[i].mail
            /\ call'[i].tab = f[i].tab /\ call'[i].answer = f[i].answer
            /\ call'[i].mounted => f[i].mounted /\ call'[i].tab # t
      BY <1>1, <1>3, UnmountedCalls
    <2>4. \A i \in Slot : call'[i].mounted /\ call'[i].tab \in Tab =>
           page'[call'[i].tab] = page[call'[i].tab] /\ form'[call'[i].tab] = form[call'[i].tab]
      <3> SUFFICES ASSUME NEW i \in Slot, call'[i].mounted, NEW r \in Tab, r = call'[i].tab
                   PROVE  page'[r] = page[r] /\ form'[r] = form[r]
        OBVIOUS
      <3>1. r \in Tab \ {t}
        BY <2>3
      <3> QED BY <2>2, <3>1
    <2>5. \A r \in Tab : form'[r].free => form'[r] = form[r]
      BY <2>1, <2>2
    <2> QED BY <2>3, <2>4, <2>5
  <1> QED BY <1>2, <1>3 DEF Moved

-----------------------------------------------------------------------------
(* Requests.                                                               *)

(* d is what has become of request c in a step.                            *)
Continues(d, c) ==
  \/ d = NoCall
  \/ /\ d.op = c.op /\ d.name = c.name /\ d.token = c.token
     /\ d.op \in {"create", "update"} => d.mail = c.mail
     /\ d.tab \in {c.tab, NoTab}
     /\ d.mounted => c.mounted /\ d.tab = c.tab
     /\ d.op = "check" /\ d.answer = "free" => c.answer = "free" \/ c.name \in said'

(* Requests that only go on, from pages that have not changed.             *)
LEMMA ContinuedCalls ==
  ASSUME TypeOK, CallsFilled, OwnToken, JoinInv,
         \A i \in Slot : Continues(call'[i], call[i]),
         \A i \in Slot : call'[i].mounted /\ call'[i].tab \in Tab =>
           page'[call'[i].tab] = page[call'[i].tab] /\ form'[call'[i].tab] = form[call'[i].tab],
         \A r \in Tab : form'[r].free => form'[r] = form[r],
         said \subseteq said', overtaken => overtaken'
  PROVE  CallsFilled' /\ OwnToken' /\ JoinInv'
  <1>1. NoCall.op = "none" /\ NoCall.mounted = FALSE
    BY DEF NoCall
  <1>2. ASSUME NEW i \in Slot
        PROVE  /\ Filled(call[i])'
               /\ call'[i].op \in {"update", "password"} => call'[i].token \in {NoOne, call'[i].name}
               /\ CheckKnown(call[i])'
               /\ ~overtaken' => (call'[i].op = "create" => call'[i].name \in said')
    <2>1. Filled(call[i]) /\ CheckKnown(call[i])
      BY DEF CallsFilled, JoinInv
    <2>2. CASE call'[i] = NoCall
      BY <1>1, <2>2 DEF Filled, CheckKnown
    <2>3. CASE call'[i] # NoCall
      <3>1. Continues(call'[i], call[i]) /\ Filled(call'[i])
        BY <2>1, <2>3 DEF Continues, Filled
      <3>2. CheckKnown(call[i])'
        BY <2>1, <2>3, <3>1 DEF Continues, CheckKnown, Filled
      <3> QED BY <2>3, <3>1, <3>2 DEF Continues, OwnToken, JoinInv, JoinChecked, Filled
    <2> QED BY <2>2, <2>3
  <1>3. ASSUME NEW r \in Tab PROVE FreeKnown(r)'
    BY DEF JoinInv, FreeKnown
  <1> QED BY <1>2, <1>3 DEF CallsFilled, OwnToken, JoinInv, JoinChecked

(* An ended request leaves its slot empty.                                 *)
LEMMA EndedCalls ==
  ASSUME TypeOK, NEW k \in Slot
  PROVE  /\ Ended(k) \in [Slot -> Call]
         /\ Ended(k)[k] = NoCall
         /\ \A i \in Slot \ {k} : Ended(k)[i] = call[i]
  BY Shapes DEF Ended, TypeOK

(* A navigation, with whatever session it finds or brings, and perhaps     *)
(* with the end of a request.                                              *)
LEMMA MovedPreserves ==
  ASSUME SessionInv, NEW t \in Tab, NEW p \in Pages, NEW s \in Session, NEW f \in [Slot -> Call],
         Moved(t, p, s, f),
         f = call \/ \E k \in Slot : f = Ended(k),
         store' = [store EXCEPT ![t] = s], s.token = s.name,
         storage' \in Session, storage'.token = storage'.name, StorageIsSomeTabs',
         p = "home" \/ s.token \in {NoOne, store[t].token},
         Build[t] = "first" => p = "home" /\ s = NoSession,
         overtaken' \in BOOLEAN, overtaken => overtaken',
         blank' \in [Tab -> Mail], acts' \in 0 .. MaxActs, UNCHANGED <<account, saved, said>>
  PROVE  SessionInv'
  <1>1. TypeOK /\ TokensNamed /\ FirstIdle /\ FormIsOwn /\ CallsFilled /\ OwnToken /\ JoinInv
    BY DEF SessionInv
  <1>2. TypeOK'
    BY <1>1 DEF TypeOK, Moved
  <1>3. TokensNamed'
    BY <1>1 DEF TypeOK, TokensNamed
  <1>4. FormIsOwn'
    BY <1>1, MovedForms
  <1>5. ASSUME NEW i \in Slot
        PROVE  /\ f[i] = call[i] \/ f[i] = NoCall
               /\ f[i].tab = call[i].tab \/ f[i].tab = NoTab
    BY <1>1, EndedCalls DEF NoCall
  <1>6. FirstIdle'
    <2> SUFFICES ASSUME NEW r \in Tab, Build[r] = "first"
                 PROVE  /\ page'[r] = "home" /\ going'[r] = "none" /\ store'[r] = NoSession
                        /\ \A i \in Slot : call'[i].tab # r
      BY DEF FirstIdle
    <2>1. page'[r] = "home" /\ going'[r] = "none" /\ store'[r] = NoSession
      BY <1>1 DEF FirstIdle, Moved, TypeOK
    <2>2. ASSUME NEW i \in Slot PROVE call'[i].tab # r
      <3>1. call'[i].tab = f[i].tab /\ call[i].tab # r
        BY <1>1, MovedFields DEF FirstIdle
      <3> QED BY <1>5, <3>1, ClientAssumption
    <2> QED BY <2>1, <2>2
  <1>7. CallsFilled' /\ OwnToken' /\ JoinInv'
    <2>1. ASSUME NEW i \in Slot PROVE Continues(call'[i], call[i])
      <3>1. CASE f[i] = call[i]
        BY <1>1, <3>1, MovedFields DEF Continues
      <3>2. CASE f[i] = NoCall
        <4>1. ~f[i].mounted
          BY <3>2 DEF NoCall
        <4>2. CASE call' = f
          BY <3>2, <4>2 DEF Continues
        <4>3. CASE call' = Unmounted(f, t)
          <5>1. call'[i] = f[i]
            BY <1>1, <4>1, <4>3, UnmountedCalls DEF TypeOK
          <5> QED BY <3>2, <5>1 DEF Continues
        <4> QED BY <4>2, <4>3 DEF Moved
      <3> QED BY <1>5, <3>1, <3>2
    <2>2. \A i \in Slot : call'[i].mounted /\ call'[i].tab \in Tab =>
           page'[call'[i].tab] = page[call'[i].tab] /\ form'[call'[i].tab] = form[call'[i].tab]
      BY <1>1, MovedFields
    <2>3. \A r \in Tab : form'[r].free => form'[r] = form[r]
      BY <1>1, MovedFields
    <2> QED BY <1>1, <2>1, <2>2, <2>3, ContinuedCalls
  <1> QED BY <1>2, <1>3, <1>4, <1>6, <1>7 DEF SessionInv

(* A step in which no page and no session changes hands.                   *)
LEMMA QuietPreserves ==
  ASSUME SessionInv, TypeOK', TokensNamed', StorageIsSomeTabs',
         UNCHANGED <<page, form>>, \A t \in Tab : going'[t] \in {going[t], "none"},
         \A t \in Tab : store'[t].token = store[t].token,
         \A t \in Tab : Build[t] = "first" => store'[t] = store[t],
         \A i \in Slot : Continues(call'[i], call[i]),
         said \subseteq said', overtaken => overtaken'
  PROVE  SessionInv'
  <1>1. TypeOK /\ FirstIdle /\ FormIsOwn /\ CallsFilled /\ OwnToken /\ JoinInv
    BY DEF SessionInv
  <1>2. FormIsOwn'
    BY <1>1 DEF FormIsOwn
  <1>3. FirstIdle'
    <2>1. ASSUME NEW i \in Slot PROVE call'[i].tab \in {call[i].tab, NoTab}
      BY DEF Continues, NoCall
    <2> QED BY <1>1, <2>1, ClientAssumption DEF FirstIdle
  <1>4. CallsFilled' /\ OwnToken' /\ JoinInv'
    BY <1>1, ContinuedCalls
  <1> QED BY <1>2, <1>3, <1>4 DEF SessionInv

(* While no store and no storage changes, what a page load would restore   *)
(* stays what some tab holds.                                              *)
LEMMA SessionsStay ==
  ASSUME SessionInv, UNCHANGED <<store, storage>>
  PROVE  TokensNamed' /\ StorageIsSomeTabs'
  BY DEF SessionInv, TokensNamed, StorageIsSomeTabs

(* What is known of the session of a tab that stays what it is.            *)
LEMMA KeptSession ==
  ASSUME SessionInv, NEW t \in Tab
  PROVE  /\ store = [store EXCEPT ![t] = store[t]]
         /\ store[t] \in Session /\ store[t].token = store[t].name
         /\ Build[t] = "first" => store[t] = NoSession /\ going[t] = "none"
         /\ \A i \in Slot : call[i].tab = t => Build[t] # "first"
  BY DEF SessionInv, TypeOK, TokensNamed, FirstIdle

(* The session that is left after logging out is nobody's.                 *)
LEMMA NobodysSession ==
  /\ \A m : LoggedOut(m).token = NoOne /\ LoggedOut(m).name = NoOne
  /\ NoSession.token = NoOne /\ NoSession.name = NoOne
  BY DEF LoggedOut, NoSession

-----------------------------------------------------------------------------
(* What the member does.                                                   *)

(* What the member does is counted.                                        *)
LEMMA ActCounts ==
  ASSUME TypeOK, Act
  PROVE  acts' \in 0 .. MaxActs
  BY ClientAssumption DEF TypeOK, Act

(* The member follows a link or goes back.                                 *)
LEMMA GoPreserves ==
  ASSUME SessionInv, NEW t \in Tab, NEW p \in Pages, Go(t, p)
  PROVE  SessionInv'
  <1>1. /\ Push(t, p, store[t], call) /\ Act /\ p \in PagesOf(Build[t])
        /\ UNCHANGED <<store, blank, storage, account, saved, said, overtaken>>
    BY DEF Go, history
  <1>2. TypeOK /\ TokensNamed
    BY DEF SessionInv
  <1>3. call \in [Slot -> Call] /\ blank \in [Tab -> Mail] /\ storage \in Session /\ overtaken \in BOOLEAN
    BY <1>2 DEF TypeOK
  <1>4. Moved(t, p, store[t], call)
    BY <1>1, <1>2, <1>3, KeptSession, PushMoves
  <1>5. Build[t] = "first" => p = "home"
    BY <1>1 DEF PagesOf
  <1>6. storage.token = storage.name
    BY <1>2 DEF TokensNamed
  <1>7. acts' \in 0 .. MaxActs /\ StorageIsSomeTabs'
    BY <1>1, <1>2, ActCounts, SessionsStay
  <1>8. store' = [store EXCEPT ![t] = store[t]]
    BY <1>1, KeptSession
  <1> QED BY <1>1, <1>3, <1>4, <1>5, <1>6, <1>7, <1>8, KeptSession, MovedPreserves

(* Logging out ends the session in the tab and in the storage.             *)
LEMMA LogoutSessions ==
  ASSUME SessionInv, NEW t \in Tab, Logout(t)
  PROVE  /\ LoggedOut(blank[t]) \in Session
         /\ LoggedOut(blank[t]).token = NoOne /\ LoggedOut(blank[t]).name = NoOne
         /\ store' = [store EXCEPT ![t] = LoggedOut(blank[t])]
         /\ storage' \in Session /\ storage'.token = storage'.name /\ StorageIsSomeTabs'
         /\ blank' \in [Tab -> Mail] /\ overtaken' \in BOOLEAN
         /\ overtaken => overtaken'
  <1>1. blank \in [Tab -> Mail] /\ overtaken \in BOOLEAN
    BY DEF SessionInv, TypeOK
  <1>2. Waiting(t, "update") \in BOOLEAN
    BY DEF Waiting
  <1> QED BY <1>1, <1>2, Shapes, NobodysSession DEF Logout, Overtaking, StorageIsSomeTabs

(* Logging out, and the way home.                                          *)
LEMMA LogoutMenuItemPreserves ==
  ASSUME SessionInv, NEW t \in Tab, LogoutMenuItem(t)
  PROVE  SessionInv'
  <1> DEFINE s == LoggedOut(blank[t])
  <1>1. /\ Push(t, "home", s, call) /\ Act /\ Logout(t) /\ store[t].name # NoOne
        /\ UNCHANGED <<account, saved, said>>
    BY DEF LogoutMenuItem, history
  <1>2. TypeOK /\ call \in [Slot -> Call] /\ "home" \in Pages
    BY DEF SessionInv, TypeOK, Pages
  <1>3. Moved(t, "home", s, call)
    BY <1>1, <1>2, LogoutSessions, PushMoves
  <1>4. Build[t] # "first"
    BY <1>1, KeptSession, NobodysSession
  <1>5. acts' \in 0 .. MaxActs
    BY <1>1, <1>2, ActCounts
  <1>6. /\ s \in Session /\ s.token = NoOne /\ s.token = s.name
        /\ store' = [store EXCEPT ![t] = s]
        /\ storage' \in Session /\ storage'.token = storage'.name /\ StorageIsSomeTabs'
        /\ blank' \in [Tab -> Mail] /\ overtaken' \in BOOLEAN
        /\ overtaken => overtaken'
    BY <1>1, LogoutSessions
  <1> HIDE DEF s
  <1> QED BY <1>1, <1>2, <1>3, <1>4, <1>5, <1>6, MovedPreserves

(* A page load: memory is new.                                             *)
LEMMA ReloadPreserves ==
  ASSUME SessionInv, NEW t \in Tab, NEW p \in Pages, Reload(t, p)
  PROVE  SessionInv'
  <1> DEFINE s == Loaded(t)
  <1>1. TypeOK /\ TokensNamed /\ FirstIdle /\ FormIsOwn /\ CallsFilled /\ OwnToken /\ JoinInv
        /\ StorageIsSomeTabs
    BY DEF SessionInv
  <1>2. s \in Session /\ s.token = s.name /\ Setup(p, s) \in Form /\ ~Setup(p, s).free
    BY <1>1, Shapes, NobodysSession DEF Loaded, TypeOK, TokensNamed, Setup
  <1>3. Build[t] = "first" => p = "home" /\ s = NoSession /\ store[t] = NoSession
    BY <1>1 DEF Reload, PagesOf, Loaded, FirstIdle
  <1>4. ASSUME NEW i \in Slot
        PROVE  /\ call'[i] \in Call /\ Continues(call'[i], call[i])
               /\ call'[i].tab # t /\ call'[i].tab \in {call[i].tab, NoTab}
               /\ call'[i].mounted => call'[i] = call[i]
    <2>1. call[i] \in Call /\ NoTab # t
      BY <1>1, ClientAssumption DEF TypeOK
    <2>2. CASE call[i].tab # t
      BY <2>1, <2>2 DEF Reload, Continues
    <2>3. CASE call[i].tab = t /\ call[i].answer # "none"
      BY <2>1, <2>3, Shapes DEF Reload, Continues, NoCall
    <2>4. CASE call[i].tab = t /\ call[i].answer = "none"
      <3>1. call'[i] = [call[i] EXCEPT !.tab = NoTab, !.mounted = FALSE]
        BY <2>4 DEF Reload
      <3> QED BY <2>1, <2>4, <3>1 DEF Continues, Call
    <2> QED BY <2>2, <2>3, <2>4
  <1>5. /\ page' = [page EXCEPT ![t] = p] /\ going' = [going EXCEPT ![t] = "none"]
        /\ form' = [form EXCEPT ![t] = Setup(p, s)] /\ store' = [store EXCEPT ![t] = s]
        /\ blank' = [blank EXCEPT ![t] = NoMail] /\ Act
        /\ UNCHANGED <<storage, account, saved, said, overtaken>>
    BY DEF Reload, history
  <1>6. TypeOK'
    <2>1. call' = [i \in Slot |-> call'[i]]
      BY DEF Reload
    <2>2. call' \in [Slot -> Call]
      BY <1>4, <2>1
    <2>3. acts' \in 0 .. MaxActs /\ NoMail \in Mail
      BY <1>1, <1>5, ActCounts DEF Mail
    <2> HIDE DEF s
    <2> QED BY <1>1, <1>2, <1>5, <2>2, <2>3 DEF TypeOK
  <1> HIDE DEF s
  <1>7. TokensNamed'
    BY <1>1, <1>2, <1>5 DEF TokensNamed, TypeOK
  <1>8. StorageIsSomeTabs'
    <2>1. CASE storage = NoSession
      BY <1>5, <2>1 DEF StorageIsSomeTabs
    <2>2. CASE storage # NoSession
      <3>1. PICK r \in Tab : store[r] = storage
        BY <1>1, <2>2 DEF StorageIsSomeTabs
      <3>2. CASE r # t
        BY <1>1, <1>5, <3>1, <3>2 DEF StorageIsSomeTabs, TypeOK
      <3>3. CASE r = t
        <4>1. s = storage
          BY <1>3, <2>2, <3>1, <3>3 DEF s, Loaded
        <4> QED BY <1>1, <1>5, <4>1 DEF StorageIsSomeTabs, TypeOK
      <3> QED BY <3>2, <3>3
    <2> QED BY <2>1, <2>2
  <1>9. FirstIdle'
    BY <1>1, <1>3, <1>4, <1>5, ClientAssumption DEF FirstIdle, TypeOK
  <1>10. FormIsOwn'
    <2>1. p \in {"profile", "changepassword"} => Setup(p, s).name = s.token
      BY <1>2 DEF Setup
    <2> QED BY <1>1, <1>5, <2>1 DEF FormIsOwn, TypeOK
  <1>11. CallsFilled' /\ OwnToken' /\ JoinInv'
    <2>1. ASSUME NEW i \in Slot, call'[i].mounted, NEW r \in Tab, r = call'[i].tab
          PROVE  page'[r] = page[r] /\ form'[r] = form[r]
      BY <1>1, <1>4, <1>5, <2>1 DEF TypeOK
    <2>2. ASSUME NEW r \in Tab, form'[r].free
          PROVE  form'[r] = form[r]
      BY <1>1, <1>2, <1>5, <2>2 DEF TypeOK
    <2> QED BY <1>1, <1>4, <1>5, <2>1, <2>2, ContinuedCalls
  <1> QED BY <1>6, <1>7, <1>8, <1>9, <1>10, <1>11 DEF SessionInv

(* What is typed into the join page is no longer known to be free, and a   *)
(* check that is under way is about another name than the field's.         *)
LEMMA TypeUsernamePreserves ==
  ASSUME SessionInv, NEW t \in Tab, NEW u \in Username, TypeUsername(t, u)
  PROVE  SessionInv'
  <1>1. TypeOK /\ FirstIdle /\ FormIsOwn /\ CallsFilled /\ OwnToken /\ JoinInv
    BY DEF SessionInv
  <1>2. /\ Act /\ page[t] = "join"
        /\ form' = [form EXCEPT ![t].name = u, ![t].free = FALSE]
        /\ overtaken' = (overtaken \/ Waiting(t, "check"))
        /\ UNCHANGED <<page, going, store, blank, storage, call, account, saved, said>>
    BY DEF TypeUsername, Overtaking, history
  <1>3. /\ form' \in [Tab -> Form] /\ form'[t].name = u /\ ~form'[t].free
        /\ \A r \in Tab \ {t} : form'[r] = form[r]
    BY <1>1, <1>2 DEF TypeOK, Form, Someone
  <1>4. TypeOK'
    <2>1. acts' \in 0 .. MaxActs
      BY <1>1, <1>2, ActCounts
    <2>2. overtaken' \in BOOLEAN
      BY <1>1, <1>2 DEF TypeOK, Waiting
    <2> QED BY <1>1, <1>2, <1>3, <2>1, <2>2 DEF TypeOK
  <1>5. FirstIdle' /\ FormIsOwn'
    BY <1>1, <1>2, <1>3 DEF FirstIdle, FormIsOwn
  <1>6. CallsFilled' /\ OwnToken' /\ JoinChecked'
    BY <1>1, <1>2 DEF CallsFilled, Filled, OwnToken, JoinInv, JoinChecked
  <1>7. ASSUME NEW r \in Tab PROVE FreeKnown(r)'
    BY <1>1, <1>2, <1>3 DEF JoinInv, FreeKnown
  <1>8. ASSUME NEW i \in Slot PROVE CheckKnown(call[i])'
    <2>1. CheckKnown(call[i]) /\ Filled(call[i])
      BY <1>1 DEF JoinInv, CallsFilled
    <2>2. CASE call[i].tab = t
      <3>1. call[i].op = "check" => overtaken'
        BY <1>2, <2>2 DEF Waiting
      <3> QED BY <1>2, <1>3, <2>1, <2>2, <3>1 DEF CheckKnown, Filled
    <2>3. CASE call[i].tab # t
      BY <1>2, <1>3, <2>1, <2>3 DEF CheckKnown, Filled
    <2> QED BY <2>2, <2>3
  <1> QED BY <1>2, <1>4, <1>5, <1>6, <1>7, <1>8, SessionsStay DEF SessionInv, JoinInv

(* Editing the mail of the profile page touches no name.                   *)
LEMMA EditEmailPreserves ==
  ASSUME SessionInv, NEW t \in Tab, NEW m \in Email, EditEmail(t, m)
  PROVE  SessionInv'
  <1>1. TypeOK /\ FirstIdle /\ FormIsOwn /\ CallsFilled /\ OwnToken /\ JoinInv
    BY DEF SessionInv
  <1>2. /\ Act /\ page[t] = "profile" /\ form' = [form EXCEPT ![t].mail = m]
        /\ overtaken' = (overtaken \/ Waiting(t, "update"))
        /\ UNCHANGED <<page, going, store, blank, storage, call, account, saved, said>>
    BY DEF EditEmail, Overtaking, history
  <1>3. /\ form' \in [Tab -> Form] /\ form'[t].name = form[t].name /\ form'[t].free = form[t].free
        /\ \A r \in Tab \ {t} : form'[r] = form[r]
    BY <1>1, <1>2 DEF TypeOK, Form, Mail
  <1>4. TypeOK'
    <2>1. acts' \in 0 .. MaxActs
      BY <1>1, <1>2, ActCounts
    <2>2. overtaken' \in BOOLEAN
      BY <1>1, <1>2 DEF TypeOK, Waiting
    <2> QED BY <1>1, <1>2, <1>3, <2>1, <2>2 DEF TypeOK
  <1>5. FirstIdle' /\ FormIsOwn'
    BY <1>1, <1>2, <1>3 DEF FirstIdle, FormIsOwn
  <1>6. CallsFilled' /\ OwnToken' /\ JoinChecked'
    BY <1>1, <1>2 DEF CallsFilled, Filled, OwnToken, JoinInv, JoinChecked
  <1>7. ASSUME NEW r \in Tab PROVE FreeKnown(r)'
    <2>1. FreeKnown(r) /\ said' = said /\ (overtaken => overtaken')
      BY <1>1, <1>2 DEF JoinInv
    <2>2. form'[r].name = form[r].name /\ form'[r].free = form[r].free
      BY <1>3
    <2> QED BY <2>1, <2>2 DEF FreeKnown
  <1>8. ASSUME NEW i \in Slot PROVE CheckKnown(call[i])'
    <2>1. CheckKnown(call[i]) /\ Filled(call[i])
      BY <1>1 DEF JoinInv, CallsFilled
    <2> QED BY <1>2, <1>3, <2>1 DEF CheckKnown, Filled
  <1> QED BY <1>2, <1>4, <1>5, <1>6, <1>7, <1>8, SessionsStay DEF SessionInv, JoinInv

(* A request is sent with the token of the tab.                            *)
LEMMA SendPreserves ==
  ASSUME SessionInv, NEW t \in Tab, NEW u \in Someone, NEW m \in Mail,
         NEW op \in {"login", "check", "create", "update", "password"},
         Send(t, op, u, m), UNCHANGED <<form, overtaken>>, page[t] # "home",
         op \in {"login", "check", "create"} => u \in Username,
         op \in {"create", "update"} => m \in Email,
         op \in {"update", "password"} => store[t].token \in {NoOne, u},
         op = "check" => page[t] = "join" /\ form[t].name = u,
         op = "create" => (~overtaken => u \in said)
  PROVE  SessionInv'
  <1>1. TypeOK /\ FirstIdle /\ FormIsOwn /\ CallsFilled /\ OwnToken /\ JoinInv
    BY DEF SessionInv
  <1> DEFINE c == [NoCall EXCEPT !.tab = t, !.op = op, !.name = u, !.mail = m,
                                 !.token = store[t].token, !.mounted = TRUE]
  <1>2. PICK k \in Slot : call' = [call EXCEPT ![k] = c]
    BY DEF Send
  <1>3. /\ Act
        /\ UNCHANGED <<page, going, store, blank, storage, account, saved, said>>
    BY DEF Send, history
  <1>4. /\ c \in Call /\ c.tab = t /\ c.op = op /\ c.name = u /\ c.mail = m
        /\ c.token = store[t].token /\ c.mounted = TRUE /\ c.answer = "none"
    <2>1. store[t].token \in Someone
      BY <1>1 DEF TypeOK, Session
    <2> QED BY <2>1 DEF NoCall, Call, Mail
  <1> HIDE DEF c
  <1>5. call'[k] = c /\ \A i \in Slot \ {k} : call'[i] = call[i]
    BY <1>1, <1>2 DEF TypeOK
  <1>6. TypeOK'
    <2>1. acts' \in 0 .. MaxActs
      BY <1>1, <1>3, ActCounts
    <2> QED BY <1>1, <1>2, <1>3, <1>4, <2>1 DEF TypeOK
  <1>7. FirstIdle'
    BY <1>1, <1>3, <1>4, <1>5 DEF FirstIdle
  <1>8. FormIsOwn'
    BY <1>1, <1>3 DEF FormIsOwn
  <1>9. CallsFilled' /\ OwnToken' /\ JoinChecked'
    BY <1>1, <1>3, <1>4, <1>5 DEF CallsFilled, Filled, OwnToken, JoinInv, JoinChecked
  <1>10. ASSUME NEW r \in Tab PROVE FreeKnown(r)'
    BY <1>1, <1>3 DEF JoinInv, FreeKnown
  <1>11. ASSUME NEW i \in Slot PROVE CheckKnown(call[i])'
    <2>1. CASE i = k
      BY <1>3, <1>4, <1>5, <2>1 DEF CheckKnown
    <2>2. CASE i # k
      <3>1. CheckKnown(call[i])
        BY <1>1 DEF JoinInv
      <3> QED BY <1>3, <1>5, <2>2, <3>1 DEF CheckKnown
    <2> QED BY <2>1, <2>2
  <1> QED BY <1>3, <1>6, <1>7, <1>8, <1>9, <1>10, <1>11, SessionsStay DEF SessionInv, JoinInv

(* What each button sends carries what its page has checked.               *)
LEMMA SubmitPreserves ==
  ASSUME SessionInv, NEW t \in Tab,
         \/ \E u \in Username : SubmitLogin(t, u)
         \/ \E m \in Email : SubmitJoin(t, m)
         \/ CheckUsername(t) \/ SubmitProfile(t) \/ SubmitPassword(t)
  PROVE  SessionInv'
  <1>1. TypeOK /\ FormIsOwn /\ JoinInv /\ form[t] \in Form /\ store[t] \in Session
    BY DEF SessionInv, TypeOK
  <1>2. form[t].name \in Someone /\ form[t].mail \in Mail /\ NoMail \in Mail
        /\ Username \subseteq Someone /\ Email \subseteq Mail
    BY <1>1 DEF Form, Mail, Someone
  <1>3. page[t] \in {"profile", "changepassword"} => store[t].token \in {NoOne, form[t].name}
    BY <1>1 DEF FormIsOwn
  <1>4. form[t].free => form[t].name \in Username /\ (~overtaken => form[t].name \in said)
    BY <1>1 DEF JoinInv, FreeKnown
  <1>5. ASSUME NEW u \in Username, SubmitLogin(t, u) PROVE SessionInv'
    BY <1>2, <1>5, SendPreserves DEF SubmitLogin
  <1>6. ASSUME NEW m \in Email, SubmitJoin(t, m) PROVE SessionInv'
    BY <1>2, <1>4, <1>6, SendPreserves DEF SubmitJoin
  <1>7. CASE CheckUsername(t)
    <2>1. form[t].name \in Username
      BY <1>2, <1>7 DEF CheckUsername, Someone
    <2> QED BY <1>2, <1>7, <2>1, SendPreserves DEF CheckUsername
  <1>8. CASE SubmitProfile(t)
    <2>1. form[t].mail \in Email
      BY <1>2, <1>8 DEF SubmitProfile, Mail
    <2> QED BY <1>2, <1>3, <1>8, <2>1, SendPreserves DEF SubmitProfile
  <1>9. CASE SubmitPassword(t)
    BY <1>2, <1>3, <1>9, SendPreserves DEF SubmitPassword
  <1> QED BY <1>5, <1>6, <1>7, <1>8, <1>9

-----------------------------------------------------------------------------
(* Chunks, answers and the server.                                         *)

(* A page that has been loaded is set up with the tab's session.           *)
LEMMA ArrivePreserves ==
  ASSUME SessionInv, NEW t \in Tab, Arrive(t)
  PROVE  SessionInv'
  <1> DEFINE p == going[t]
  <1>1. TypeOK /\ TokensNamed
    BY DEF SessionInv
  <1>2. /\ p # "none"
        /\ UNCHANGED <<store, blank, storage, account, acts, saved, said, overtaken>>
    BY DEF Arrive, history
  <1>3. /\ p \in Pages /\ call \in [Slot -> Call] /\ blank \in [Tab -> Mail]
        /\ storage \in Session /\ storage.token = storage.name /\ overtaken \in BOOLEAN
        /\ acts \in 0 .. MaxActs
    BY <1>1, <1>2 DEF TypeOK, TokensNamed
  <1>4. Build[t] # "first"
    BY <1>2, KeptSession
  <1>5. TokensNamed' /\ StorageIsSomeTabs'
    BY <1>2, SessionsStay
  <1>6. CASE Mount(t, p, store[t], call)
    <2>1. Moved(t, p, store[t], call)
      BY <1>1, <1>3, <1>6, KeptSession, MountMoves
    <2> HIDE DEF p
    <2> QED BY <1>2, <1>3, <1>4, <1>5, <2>1, KeptSession, MovedPreserves
  <1>7. CASE going' = [going EXCEPT ![t] = "none"] /\ UNCHANGED <<page, form, call>>
    <2>1. TypeOK' /\ \A r \in Tab : going'[r] \in {going[r], "none"}
      BY <1>1, <1>2, <1>7 DEF TypeOK
    <2>2. \A i \in Slot : Continues(call'[i], call[i])
      BY <1>7 DEF Continues
    <2> QED BY <1>2, <1>5, <1>7, <2>1, <2>2, QuietPreserves
  <1> QED BY <1>6, <1>7 DEF Arrive

(* A login that was accepted, wherever the member is by now.               *)
LEMMA LoginAnswerPreserves ==
  ASSUME SessionInv, NEW k \in Slot, NEW t \in Tab, LoginAnswer(k, t),
         UNCHANGED <<account, acts, saved, said>>
  PROVE  SessionInv'
  <1> DEFINE s == SignedIn(call[k].name, call[k].mail)
  <1>1. TypeOK /\ CallsFilled
    BY DEF SessionInv
  <1>2. /\ call[k].tab = t /\ call[k].op = "login"
        /\ store' = [store EXCEPT ![t] = s] /\ storage' = s
        /\ overtaken' = (overtaken \/ Waiting(t, "update"))
        /\ Push(t, "home", s, Ended(k)) /\ blank' = blank
    BY DEF LoginAnswer, Has, Overtaking
  <1>3. s \in Session /\ s.token = s.name
    <2>1. call[k].name \in Username /\ call[k].mail \in Mail
      BY <1>1, <1>2 DEF CallsFilled, Filled, TypeOK, Call
    <2> QED BY <2>1, Shapes DEF SignedIn
  <1>4. Build[t] # "first"
    BY <1>2, KeptSession
  <1> HIDE DEF s
  <1>5. /\ blank' \in [Tab -> Mail] /\ acts' \in 0 .. MaxActs /\ overtaken' \in BOOLEAN
        /\ "home" \in Pages /\ StorageIsSomeTabs' /\ Ended(k) \in [Slot -> Call]
    BY <1>1, <1>2, EndedCalls DEF TypeOK, Waiting, Pages, StorageIsSomeTabs
  <1>6. Moved(t, "home", s, Ended(k))
    BY <1>1, <1>2, <1>3, <1>5, PushMoves
  <1> QED BY <1>2, <1>3, <1>4, <1>5, <1>6, MovedPreserves

(* Answers that lead to another page and leave the session alone.          *)
LEMMA PageAnswersPreserve ==
  ASSUME SessionInv, NEW k \in Slot, NEW t \in Tab, JoinAnswer(k, t) \/ PasswordAnswer(k, t),
         UNCHANGED <<account, acts, saved, said>>
  PROVE  SessionInv'
  <1>1. TypeOK /\ TokensNamed
    BY DEF SessionInv
  <1>2. PICK p \in {"home", "profile"} :
          /\ call[k].tab = t /\ Push(t, p, store[t], Ended(k))
          /\ UNCHANGED <<store, blank, storage, overtaken>>
    BY DEF JoinAnswer, PasswordAnswer, Has
  <1>3. Build[t] # "first"
    BY <1>2, KeptSession
  <1>4. /\ blank \in [Tab -> Mail] /\ acts \in 0 .. MaxActs /\ overtaken \in BOOLEAN
        /\ p \in Pages /\ Ended(k) \in [Slot -> Call]
        /\ storage \in Session /\ storage.token = storage.name
    BY <1>1, EndedCalls DEF TypeOK, TokensNamed, Pages
  <1>5. StorageIsSomeTabs'
    BY <1>2, SessionsStay
  <1>6. Moved(t, p, store[t], Ended(k))
    BY <1>1, <1>2, <1>4, KeptSession, PushMoves
  <1> QED BY <1>2, <1>3, <1>4, <1>5, <1>6, KeptSession, MovedPreserves

(* A refused token logs out whoever is logged in by now.                   *)
LEMMA UnauthorizedPreserves ==
  ASSUME SessionInv, NEW k \in Slot, NEW t \in Tab, Unauthorized(k, t),
         UNCHANGED <<account, acts, saved, said>>
  PROVE  SessionInv'
  <1> DEFINE s == LoggedOut(blank[t])
  <1>1. TypeOK
    BY DEF SessionInv
  <1>2. call[k].tab = t /\ Logout(t) /\ Push(t, "login", s, Ended(k))
    BY DEF Unauthorized
  <1>3. Build[t] # "first"
    BY <1>2, KeptSession
  <1>4. /\ s \in Session /\ s.token = NoOne /\ s.token = s.name
        /\ store' = [store EXCEPT ![t] = s]
        /\ storage' \in Session /\ storage'.token = storage'.name /\ StorageIsSomeTabs'
        /\ blank' \in [Tab -> Mail] /\ overtaken' \in BOOLEAN
        /\ overtaken => overtaken'
    BY <1>2, LogoutSessions
  <1> HIDE DEF s
  <1>5. acts' \in 0 .. MaxActs /\ "login" \in Pages /\ Ended(k) \in [Slot -> Call]
    BY <1>1, EndedCalls DEF TypeOK, Pages
  <1>6. Moved(t, "login", s, Ended(k))
    BY <1>1, <1>2, <1>4, <1>5, PushMoves
  <1> QED BY <1>3, <1>4, <1>5, <1>6, MovedPreserves

(* The answer of a check is taken for the name that the field holds.       *)
LEMMA CheckAnswerPreserves ==
  ASSUME SessionInv, NEW k \in Slot, NEW t \in Tab, CheckAnswer(k, t),
         UNCHANGED <<account, acts, saved, said>>
  PROVE  SessionInv'
  <1>1. TypeOK /\ FirstIdle /\ FormIsOwn /\ CallsFilled /\ OwnToken /\ JoinInv
    BY DEF SessionInv
  <1>2. /\ call[k].tab = t /\ call[k].op = "check" /\ call' = Ended(k)
        /\ form' = IF call[k].mounted
                   THEN [form EXCEPT ![t].free = call[k].answer = "free"] ELSE form
        /\ UNCHANGED <<page, going, store, blank, storage, overtaken>>
    BY DEF CheckAnswer, Has
  <1>3. /\ form' \in [Tab -> Form] /\ form'[t].name = form[t].name
        /\ \A r \in Tab \ {t} : form'[r] = form[r]
    <2>1. CASE ~call[k].mounted
      BY <1>1, <1>2, <2>1 DEF TypeOK
    <2>2. CASE call[k].mounted
      <3> DEFINE b == call[k].answer = "free"
      <3>1. form' = [form EXCEPT ![t].free = b] /\ b \in BOOLEAN
        BY <1>2, <2>2
      <3> HIDE DEF b
      <3>2. form \in [Tab -> Form]
        BY <1>1 DEF TypeOK
      <3> QED BY <3>1, <3>2 DEF Form
    <2> QED BY <2>1, <2>2
  <1>4. TypeOK'
    BY <1>1, <1>2, <1>3, EndedCalls DEF TypeOK
  <1>5. FormIsOwn'
    BY <1>1, <1>2, <1>3 DEF FormIsOwn
  <1>6. \A i \in Slot : call'[i] = NoCall \/ call'[i] = call[i]
    BY <1>1, <1>2, EndedCalls
  <1>7. FirstIdle'
    BY <1>1, <1>2, <1>6, ClientAssumption DEF FirstIdle, NoCall
  <1>8. CallsFilled' /\ OwnToken' /\ JoinChecked'
    BY <1>1, <1>2, <1>6 DEF CallsFilled, Filled, OwnToken, JoinInv, JoinChecked, NoCall
  <1>9. ASSUME NEW i \in Slot PROVE CheckKnown(call[i])'
    <2>1. CheckKnown(call[i]) /\ Filled(call[i])
      BY <1>1 DEF JoinInv, CallsFilled
    <2>2. CASE call'[i] = NoCall
      BY <2>2 DEF CheckKnown, NoCall
    <2>3. CASE call'[i] = call[i]
      <3>1. call[i].mounted => form'[call[i].tab].name = form[call[i].tab].name
        BY <1>3, <2>1 DEF Filled
      <3> QED BY <1>2, <2>1, <2>3, <3>1 DEF CheckKnown
    <2> QED BY <1>6, <2>2, <2>3
  <1>10. ASSUME NEW r \in Tab PROVE FreeKnown(r)'
    <2>1. FreeKnown(r)
      BY <1>1 DEF JoinInv
    <2>2. CASE r = t /\ call[k].mounted
      <3>1. CheckKnown(call[k])
        BY <1>1 DEF JoinInv
      <3>2. form'[t].free => call[k].answer = "free"
        BY <1>1, <1>2, <2>2 DEF TypeOK, Form
      <3>3. /\ form[t].name \in Username
            /\ ~overtaken => form[t].name = call[k].name
            /\ call[k].answer = "free" => call[k].name \in said
        BY <1>2, <2>2, <3>1 DEF CheckKnown
      <3> QED BY <1>2, <1>3, <2>2, <3>2, <3>3 DEF FreeKnown
    <2>3. CASE ~(r = t /\ call[k].mounted)
      <3>1. form'[r] = form[r]
        BY <1>2, <1>3, <2>3
      <3> QED BY <1>2, <2>1, <3>1 DEF FreeKnown
    <2> QED BY <2>2, <2>3
  <1> QED BY <1>2, <1>4, <1>5, <1>7, <1>8, <1>9, <1>10, SessionsStay DEF SessionInv, JoinInv

(* The profile that is stored is the tab's own session, with another mail. *)
LEMMA ProfileAnswerPreserves ==
  ASSUME SessionInv, NEW k \in Slot, NEW t \in Tab, ProfileAnswer(k, t),
         UNCHANGED <<account, acts, saved, said>>
  PROVE  SessionInv'
  <1> DEFINE m == IF call[k].mounted THEN form[t].mail ELSE call[k].kept
  <1>1. TypeOK /\ TokensNamed
    BY DEF SessionInv
  <1>2. /\ call[k].tab = t /\ ChangeProfile(t, m) /\ call' = Ended(k)
        /\ UNCHANGED <<page, going, form, overtaken>>
    BY DEF ProfileAnswer, Has
  <1>3. m \in Mail
    BY <1>1 DEF TypeOK, Form, Call
  <1> HIDE DEF m
  <1>4. /\ store' = [store EXCEPT ![t].mail = m] /\ storage' = [store[t] EXCEPT !.mail = m]
        /\ blank' \in [Tab -> Mail]
    BY <1>1, <1>2, <1>3 DEF ChangeProfile, WrittenThrough, TypeOK
  <1>5. store[t] \in Session /\ storage' \in Session /\ storage'.token = store[t].token
        /\ storage'.name = store[t].name
    BY <1>1, <1>3, <1>4 DEF TypeOK, Session
  <1>6. store' = [store EXCEPT ![t] = storage']
    BY <1>4
  <1>7. store' \in [Tab -> Session] /\ store'[t] = storage' /\ \A r \in Tab \ {t} : store'[r] = store[r]
    BY <1>1, <1>5, <1>6 DEF TypeOK
  <1>8. call' \in [Slot -> Call] /\ \A i \in Slot : Continues(call'[i], call[i])
    BY <1>1, <1>2, EndedCalls DEF Continues
  <1>9. TypeOK'
    BY <1>1, <1>2, <1>4, <1>5, <1>7, <1>8 DEF TypeOK
  <1>10. TokensNamed'
    BY <1>1, <1>5, <1>7 DEF TokensNamed
  <1>11. StorageIsSomeTabs'
    BY <1>7 DEF StorageIsSomeTabs
  <1>12. \A r \in Tab : Build[r] = "first" => store'[r] = store[r]
    BY <1>2, <1>7, KeptSession
  <1>13. \A r \in Tab : store'[r].token = store[r].token
    BY <1>5, <1>7
  <1> QED BY <1>2, <1>8, <1>9, <1>10, <1>11, <1>12, <1>13, QuietPreserves

(* A request that fails, times out or is lost leaves everything else.      *)
LEMMA EndingsPreserve ==
  ASSUME SessionInv, NEW k \in Slot,
         Lost(k) \/ \E t \in Tab : Failed(k, t) \/ Timeout(k, t),
         UNCHANGED <<account, acts, saved, said>>
  PROVE  SessionInv'
  <1>1. TypeOK /\ call[k] \in Call
    BY DEF SessionInv, TypeOK
  <1>2. UNCHANGED <<page, going, form, store, blank, storage, overtaken>>
    BY DEF Lost, Failed, Timeout
  <1>3. PICK d : call' = [call EXCEPT ![k] = d] /\ d \in Call /\ Continues(d, call[k])
    <2>1. CASE call' = Ended(k)
      BY <2>1, Shapes DEF Ended, Continues
    <2>2. CASE call' = [call EXCEPT ![k] = [@ EXCEPT !.tab = NoTab, !.mounted = FALSE]]
      <3>1. [call[k] EXCEPT !.tab = NoTab, !.mounted = FALSE] \in Call
        BY <1>1 DEF Call
      <3>2. Continues([call[k] EXCEPT !.tab = NoTab, !.mounted = FALSE], call[k])
        BY <1>1 DEF Call, Continues
      <3> QED BY <2>2, <3>1, <3>2
    <2>3. call' = Ended(k) \/ call' = [call EXCEPT ![k] = [@ EXCEPT !.tab = NoTab, !.mounted = FALSE]]
      BY DEF Lost, Failed, Timeout, Ended
    <2> QED BY <2>1, <2>2, <2>3
  <1>4. call' \in [Slot -> Call] /\ \A i \in Slot : Continues(call'[i], call[i])
    BY <1>1, <1>3 DEF TypeOK, Continues
  <1>5. TypeOK'
    BY <1>1, <1>2, <1>4 DEF TypeOK
  <1> QED BY <1>2, <1>4, <1>5, SessionsStay, QuietPreserves

(* The server answers about what it was sent, and calls free what it says. *)
LEMMA ServePreserves ==
  ASSUME SessionInv, NEW k \in Slot, Serve(k)
  PROVE  SessionInv'
  <1> DEFINE c == call[k]
  <1>1. TypeOK /\ CallsFilled /\ c \in Call /\ Filled(c)
    BY DEF SessionInv, TypeOK, CallsFilled
  <1>2. /\ UNCHANGED <<page, going, form, store, blank, storage, acts, overtaken>>
        /\ c.op # "none" /\ c.answer = "none"
    BY DEF Serve
  <1>3. \A u \in Username : account[u] \in Mail /\ saved[u] \in SUBSET Email
    BY <1>1 DEF TypeOK
  <1>4. PICK answer \in {"ok", "free", "unauthorized", "error"}, m \in Mail :
          /\ Answered(k, answer, m)
          /\ c.op \in {"create", "update"} => m = c.mail
          /\ answer = "free" => c.name \in Username /\ said' = said \cup {c.name}
          /\ said' \in {said, said \cup {c.name}} /\ said' \subseteq Username
          /\ account' \in [Username -> Mail] /\ saved' \in [Username -> SUBSET Email]
    <2>1. ASSUME NEW answer \in {"ok", "free"}, NEW m \in Mail, Accepts(c, answer, m),
                 Answered(k, answer, m),
                 account' = IF Writes(c) THEN [account EXCEPT ![c.name] = m] ELSE account,
                 saved' = IF Writes(c) THEN [saved EXCEPT ![c.name] = @ \cup {m}] ELSE saved,
                 said' = IF answer = "free" THEN said \cup {c.name} ELSE said
          PROVE  /\ c.op \in {"create", "update"} => m = c.mail
                 /\ answer = "free" => c.name \in Username /\ said' = said \cup {c.name}
                 /\ said' \in {said, said \cup {c.name}} /\ said' \subseteq Username
                 /\ account' \in [Username -> Mail] /\ saved' \in [Username -> SUBSET Email]
      <3>1. c.op \in {"create", "update"} => m = c.mail
        BY <2>1 DEF Accepts
      <3>2. answer = "free" => c.op = "check"
        BY <1>1, <2>1 DEF Accepts, Call
      <3>3. Writes(c) => m \in Email
        BY <1>1, <3>1 DEF Writes, Filled
      <3>4. account' \in [Username -> Mail]
        BY <1>1, <2>1 DEF TypeOK
      <3>5. saved' \in [Username -> SUBSET Email]
        BY <1>1, <2>1, <3>3 DEF TypeOK
      <3>6. said \subseteq Username /\ (c.op = "check" => c.name \in Username)
        BY <1>1 DEF TypeOK, Filled
      <3> QED BY <2>1, <3>1, <3>2, <3>4, <3>5, <3>6
    <2>2. CASE \E answer \in {"ok", "free"}, m \in Mail :
                 /\ Accepts(c, answer, m)
                 /\ Answered(k, answer, m)
                 /\ account' = IF Writes(c) THEN [account EXCEPT ![c.name] = m] ELSE account
                 /\ saved' = IF Writes(c) THEN [saved EXCEPT ![c.name] = @ \cup {m}] ELSE saved
                 /\ said' = IF answer = "free" THEN said \cup {c.name} ELSE said
      BY <2>1, <2>2
    <2>3. CASE /\ \E answer \in {"unauthorized", "error"} : Answered(k, answer, c.mail)
               /\ UNCHANGED <<account, saved, said>>
      <3>1. c.mail \in Mail
        BY <1>1 DEF Call
      <3> QED BY <1>1, <2>3, <3>1 DEF TypeOK
    <2> QED BY <2>2, <2>3 DEF Serve, history
  <1> DEFINE d == IF c.tab = NoTab THEN NoCall ELSE [c EXCEPT !.answer = answer, !.mail = m]
  <1>5. call' = [call EXCEPT ![k] = d]
    BY <1>4 DEF Answered
  <1>6. d \in Call /\ Continues(d, c)
    <2>1. CASE c.tab = NoTab
      BY <2>1, Shapes DEF Continues
    <2>2. CASE c.tab # NoTab
      <3>1. d = [c EXCEPT !.answer = answer, !.mail = m]
        BY <2>2
      <3> HIDE DEF d
      <3>2. d \in Call
        BY <1>1, <1>4, <3>1 DEF Call
      <3>3. /\ d.op = c.op /\ d.name = c.name /\ d.token = c.token /\ d.mail = m
            /\ d.tab = c.tab /\ d.mounted = c.mounted /\ d.answer = answer
        BY <1>1, <3>1 DEF Call
      <3> HIDE DEF c
      <3> QED BY <1>4, <3>2, <3>3 DEF Continues
    <2> QED BY <2>1, <2>2
  <1> HIDE DEF d
  <1>7. call' \in [Slot -> Call] /\ \A i \in Slot : Continues(call'[i], call[i])
    BY <1>1, <1>5, <1>6 DEF TypeOK, Continues
  <1>8. TypeOK'
    BY <1>1, <1>2, <1>4, <1>7 DEF TypeOK
  <1>9. said \subseteq said'
    BY <1>4
  <1> QED BY <1>2, <1>7, <1>8, <1>9, SessionsStay, QuietPreserves

-----------------------------------------------------------------------------
(* The theorems.                                                           *)

(* What the browser starts with.                                           *)
LEMMA SessionsAtStart == Init => SessionInv
  <1> SUFFICES ASSUME Init PROVE SessionInv
    OBVIOUS
  <1>1. storage \in Session /\ storage.token = storage.name
    BY Shapes, ClientAssumption DEF Init, NoSession, SignedIn, Session, Someone, Mail
  <1>2. \A t \in Tab : Loaded(t) \in Session /\ Loaded(t).token = Loaded(t).name
    BY <1>1, Shapes, NobodysSession DEF Loaded
  <1>3. Setup("home", NoSession) \in Form /\ ~Setup("home", NoSession).free
    BY Shapes DEF Setup
  <1>4. TypeOK
    <2>1. account \in [Username -> Mail] /\ saved \in [Username -> SUBSET Email]
      BY ClientAssumption DEF Init, Mail
    <2>2. store \in [Tab -> Session] /\ form \in [Tab -> Form] /\ call \in [Slot -> Call]
      BY <1>2, <1>3, Shapes DEF Init
    <2>3. acts \in 0 .. MaxActs /\ page \in [Tab -> Pages]
      BY ClientAssumption DEF Init, Pages
    <2> QED BY <1>1, <2>1, <2>2, <2>3 DEF Init, TypeOK, Mail
  <1>5. TokensNamed
    BY <1>1, <1>2 DEF Init, TokensNamed
  <1>6. \A i \in Slot : call[i] = NoCall
    BY DEF Init
  <1>7. FirstIdle /\ FormIsOwn
    BY <1>6, ClientAssumption DEF Init, FirstIdle, FormIsOwn, Loaded, NoCall
  <1>8. CallsFilled /\ OwnToken
    BY <1>6 DEF CallsFilled, Filled, OwnToken, NoCall
  <1>9. StorageIsSomeTabs
    BY ClientAssumption DEF Init, StorageIsSomeTabs, Loaded
  <1>10. JoinInv
    BY <1>3, <1>6 DEF Init, JoinInv, CheckKnown, FreeKnown, JoinChecked, NoCall
  <1> QED BY <1>4, <1>5, <1>7, <1>8, <1>9, <1>10 DEF SessionInv

(* Nothing changes.                                                        *)
LEMMA SessionsRest ==
  ASSUME SessionInv, UNCHANGED vars
  PROVE  SessionInv'
  <1> USE DEF vars
  <1>1. TypeOK' /\ TokensNamed' /\ FirstIdle' /\ FormIsOwn' /\ StorageIsSomeTabs'
    BY DEF SessionInv, TypeOK, TokensNamed, FirstIdle, FormIsOwn, StorageIsSomeTabs
  <1>2. CallsFilled' /\ OwnToken' /\ JoinInv'
    BY DEF SessionInv, CallsFilled, Filled, OwnToken, JoinInv, CheckKnown, FreeKnown, JoinChecked
  <1> QED BY <1>1, <1>2 DEF SessionInv

(* Every step of the client and of its server keeps the sessions in order. *)
LEMMA NextPreserves ==
  ASSUME SessionInv, [Next]_vars
  PROVE  SessionInv'
  <1>1. ASSUME NEW t \in Tab, MemberActs(t) PROVE SessionInv'
    <2>1. ASSUME NEW p \in Pages, Go(t, p) \/ Reload(t, p) PROVE SessionInv'
      BY <2>1, GoPreserves, ReloadPreserves
    <2>2. ASSUME NEW u \in Username, TypeUsername(t, u) PROVE SessionInv'
      BY <2>2, TypeUsernamePreserves
    <2>3. ASSUME NEW m \in Email, EditEmail(t, m) PROVE SessionInv'
      BY <2>3, EditEmailPreserves
    <2>4. CASE LogoutMenuItem(t)
      BY <2>4, LogoutMenuItemPreserves
    <2>5. CASE \/ \E u \in Username : SubmitLogin(t, u)
               \/ \E m \in Email : SubmitJoin(t, m)
               \/ CheckUsername(t) \/ SubmitProfile(t) \/ SubmitPassword(t)
      BY <2>5, SubmitPreserves
    <2> QED BY <1>1, <2>1, <2>2, <2>3, <2>4, <2>5 DEF MemberActs
  <1>2. ASSUME NEW k \in Slot, NEW t \in Tab, Settle(k, t) PROVE SessionInv'
    <2>1. UNCHANGED <<account, acts, saved, said>>
      BY <1>2 DEF Settle, history
    <2>2. CASE LoginAnswer(k, t)
      BY <2>1, <2>2, LoginAnswerPreserves
    <2>3. CASE CheckAnswer(k, t)
      BY <2>1, <2>3, CheckAnswerPreserves
    <2>4. CASE JoinAnswer(k, t) \/ PasswordAnswer(k, t)
      BY <2>1, <2>4, PageAnswersPreserve
    <2>5. CASE ProfileAnswer(k, t)
      BY <2>1, <2>5, ProfileAnswerPreserves
    <2>6. CASE Unauthorized(k, t)
      BY <2>1, <2>6, UnauthorizedPreserves
    <2>7. CASE Failed(k, t) \/ Timeout(k, t)
      BY <2>1, <2>7, EndingsPreserve
    <2> QED BY <1>2, <2>2, <2>3, <2>4, <2>5, <2>6, <2>7 DEF Settle
  <1>3. ASSUME NEW t \in Tab, Arrive(t) PROVE SessionInv'
    BY <1>3, ArrivePreserves
  <1>4. ASSUME NEW k \in Slot, Serve(k) PROVE SessionInv'
    BY <1>4, ServePreserves
  <1>5. ASSUME NEW k \in Slot, Lost(k), UNCHANGED <<account, acts, history>> PROVE SessionInv'
    BY <1>5, EndingsPreserve DEF history
  <1>6. CASE Rest \/ UNCHANGED vars
    BY <1>6, SessionsRest DEF Rest
  <1> QED BY <1>1, <1>2, <1>3, <1>4, <1>5, <1>6 DEF Next

(* What is said of sessions and requests holds in every behaviour.         *)
THEOREM SessionsInOrder == Spec => []SessionInv
  BY SessionsAtStart, NextPreserves, PTL DEF Spec

(* Every variable has the shape the client gives it.                       *)
THEOREM ClientTypes == Spec => []TypeOK
  <1>1. SessionInv => TypeOK
    BY DEF SessionInv
  <1> QED BY <1>1, SessionsInOrder, PTL

(* A request never names one member and carries the token of another: the  *)
(* name is the page's, the token the store's, at two different moments.    *)
THEOREM NobodyElsesToken == Spec => []OwnToken
  <1>1. SessionInv => OwnToken
    BY DEF SessionInv
  <1> QED BY <1>1, SessionsInOrder, PTL

(* A page load restores nothing but a session that some tab still holds.   *)
THEOREM NothingStaleStored == Spec => []StorageIsSomeTabs
  <1>1. SessionInv => StorageIsSomeTabs
    BY DEF SessionInv
  <1> QED BY <1>1, SessionsInOrder, PTL

(* A join names a username that the server has called free, unless the     *)
(* field was edited under a waiting check.                                 *)
THEOREM JoinsChecked == Spec => []JoinChecked
  <1>1. SessionInv => JoinChecked
    BY DEF SessionInv, JoinInv
  <1> QED BY <1>1, SessionsInOrder, PTL
-----------------------------------------------------------------------------
(* What a tab shows of its member.                                         *)

(* Request c goes on as d and may rely on what it could rely on before.    *)
Undisturbed(d, c) ==
  \/ d.op \notin {"login", "update"}
  \/ /\ d.op = c.op /\ d.name = c.name /\ d.token = c.token
     /\ d.mail = c.mail /\ d.answer = c.answer
     /\ d.op = "update" /\ d.tab \in Tab =>
          /\ d.tab = c.tab /\ store'[d.tab].token = store[d.tab].token
          /\ IF d.mounted
             THEN /\ c.mounted /\ page'[d.tab] = page[d.tab]
                  /\ form'[d.tab].mail = form[d.tab].mail
             ELSE d.kept = IF c.mounted THEN form[d.tab].mail ELSE c.kept

SavedGrows == \A u \in Username : saved[u] \subseteq saved'[u]

(* What a request could rely on it still can.                              *)
LEMMA UndisturbedCalls ==
  ASSUME SessionInv, NEW i \in Slot, CallShown(call[i]), Undisturbed(call'[i], call[i]), SavedGrows
  PROVE  CallShown(call[i])'
  <1>1. call[i] \in Call /\ Filled(call[i])
        /\ (call[i].op = "update" => call[i].token \in {NoOne, call[i].name})
    BY DEF SessionInv, TypeOK, CallsFilled, OwnToken
  <1>2. CASE call'[i].op \notin {"login", "update"}
    BY <1>2 DEF CallShown
  <1>3. CASE call'[i].op = "login"
    <2>1. call[i].name \in Username
      BY <1>1, <1>3 DEF Undisturbed, Filled
    <2> QED BY <1>3, <2>1 DEF Undisturbed, CallShown, SavedGrows
  <1>4. CASE call'[i].op = "update" /\ call'[i].tab \notin Tab
    BY <1>4 DEF CallShown
  <1>5. CASE call'[i].op = "update" /\ call'[i].tab \in Tab
    <2>1. PICK r \in Tab : r = call'[i].tab
      BY <1>5
    <2>2. /\ call[i].op = "update" /\ call[i].tab = r
          /\ call'[i].name = call[i].name /\ call'[i].token = call[i].token
          /\ call'[i].mail = call[i].mail /\ call'[i].answer = call[i].answer
          /\ store'[r].token = store[r].token
      BY <1>5, <2>1 DEF Undisturbed
    <2>3. /\ call[i].token = store[r].token
          /\ call[i].answer = "ok" => call[i].token # NoOne /\ call[i].mail \in saved[call[i].name]
          /\ IF call[i].mounted THEN page[r] = "profile" /\ form[r].mail = call[i].mail
                                ELSE call[i].kept = call[i].mail
      BY <2>2 DEF CallShown
    <2>4. call[i].answer = "ok" => call[i].name \in Username
      BY <1>1, <2>2, <2>3 DEF Call, Someone
    <2>5. IF call'[i].mounted THEN page'[r] = "profile" /\ form'[r].mail = call'[i].mail
                              ELSE call'[i].kept = call'[i].mail
      <3>1. IF call'[i].mounted
            THEN call[i].mounted /\ page'[r] = page[r] /\ form'[r].mail = form[r].mail
            ELSE call'[i].kept = IF call[i].mounted THEN form[r].mail ELSE call[i].kept
        BY <1>5, <2>1 DEF Undisturbed
      <3> QED BY <2>2, <2>3, <3>1
    <2>6. call'[i].answer = "ok" => call'[i].token # NoOne /\ call'[i].mail \in saved'[call'[i].name]
      BY <2>2, <2>3, <2>4 DEF SavedGrows
    <2> QED BY <1>5, <2>1, <2>2, <2>3, <2>5, <2>6 DEF CallShown
  <1> QED BY <1>2, <1>3, <1>4, <1>5

(* A step after which every tab and the storage hold what they held.       *)
LEMMA QuietMails ==
  ASSUME SessionInv, MailInv, UNCHANGED <<store, storage, blank>>, overtaken => overtaken', SavedGrows,
         \A u \in Username : account'[u] \in saved'[u] \cup {NoMail},
         ASSUME ~overtaken', NEW i \in Slot PROVE CallShown(call[i])'
  PROVE  MailInv'
  <1>1. SavedGrows /\ storage \in Session /\ \A t \in Tab : store[t] \in Session
    BY DEF SessionInv, TypeOK
  <1>2. Shown(storage) => Shown(storage)'
    BY <1>1 DEF Shown, SavedGrows, Session, Someone
  <1>3. ASSUME NEW t \in Tab PROVE Shown(store[t]) => Shown(store[t])'
    BY <1>1 DEF Shown, SavedGrows, Session, Someone
  <1> QED BY <1>2, <1>3 DEF MailInv

(* A navigation of tab t, with the session s.                              *)
LEMMA MovedMails ==
  ASSUME SessionInv, MailInv, NEW t \in Tab, NEW p \in Pages, NEW s \in Session,
         NEW f \in [Slot -> Call], Moved(t, p, s, f),
         f = call \/ \E k \in Slot : f = Ended(k),
         store' = [store EXCEPT ![t] = s], UNCHANGED <<account, saved>>, overtaken => overtaken',
         ~overtaken' => /\ blank' = blank /\ Shown(s)
                        /\ storage' \in {storage, s, NoSession}
                        /\ s.token = store[t].token \/ ~Waiting(t, "update")
  PROVE  MailInv'
  <1>1. TypeOK /\ CallsFilled
    BY DEF SessionInv
  <1>2. \A u \in Username : account'[u] \in saved'[u] \cup {NoMail}
    BY DEF MailInv
  <1> SUFFICES ASSUME ~overtaken'
               PROVE  /\ Shown(storage)'
                      /\ \A r \in Tab : blank'[r] = NoMail /\ Shown(store[r])'
                      /\ \A i \in Slot : CallShown(call[i])'
    BY <1>2 DEF MailInv
  <1>3. /\ Shown(storage) /\ \A r \in Tab : blank[r] = NoMail /\ Shown(store[r])
        /\ \A i \in Slot : CallShown(call[i])
    BY DEF MailInv
  <1>4. Shown(storage)'
    BY <1>3, NobodysSession DEF Shown, NoSession
  <1>5. ASSUME NEW r \in Tab PROVE blank'[r] = NoMail /\ Shown(store[r])'
    <2>1. store'[r] = IF r = t THEN s ELSE store[r]
      BY <1>1 DEF TypeOK
    <2> QED BY <1>3, <2>1 DEF Shown
  <1>6. ASSUME NEW i \in Slot PROVE CallShown(call[i])'
    <2>1. f[i] = call[i] \/ f[i] = NoCall
      BY <1>1, EndedCalls
    <2>2. /\ call'[i].op = f[i].op /\ call'[i].name = f[i].name
          /\ call'[i].token = f[i].token /\ call'[i].mail = f[i].mail
          /\ call'[i].tab = f[i].tab /\ call'[i].answer = f[i].answer
          /\ call'[i].mounted => f[i].mounted
      BY <1>1, MovedFields
    <2>3. Undisturbed(call'[i], call[i])
      <3>1. CASE f[i] = NoCall
        BY <2>2, <3>1 DEF NoCall, Undisturbed
      <3>2. CASE f[i] = call[i]
        <4> SUFFICES ASSUME call'[i].op = "update", NEW r \in Tab, r = call'[i].tab
                     PROVE  /\ r = call[i].tab /\ store'[r].token = store[r].token
                            /\ IF call'[i].mounted
                               THEN call[i].mounted /\ page'[r] = page[r] /\ form'[r].mail = form[r].mail
                               ELSE call'[i].kept = IF call[i].mounted THEN form[r].mail ELSE call[i].kept
          BY <2>2, <3>2 DEF Undisturbed
        <4>1. r = call[i].tab /\ call[i].op = "update"
          BY <2>2, <3>2
        <4>2. store'[r].token = store[r].token
          <5>1. CASE r # t
            BY <1>1, <5>1 DEF TypeOK
          <5>2. CASE r = t
            <6>1. Waiting(t, "update")
              BY <4>1, <5>2 DEF Waiting
            <6> QED BY <1>1, <5>2, <6>1 DEF TypeOK
          <5> QED BY <5>1, <5>2
        <4>3. CASE call'[i].mounted
          <5>1. page'[r] = page[r] /\ form'[r] = form[r]
            BY <1>1, <4>3, MovedFields
          <5> QED BY <2>2, <3>2, <4>1, <4>2, <4>3, <5>1
        <4>4. CASE ~call'[i].mounted
          <5>1. CASE call' = f
            BY <3>2, <4>1, <4>2, <4>4, <5>1
          <5>2. CASE call' = Unmounted(f, t)
            <6>1. IF f[i].mounted /\ f[i].tab = t THEN call'[i].kept = form[t].mail ELSE call'[i] = f[i]
              <7>1. form \in [Tab -> Form]
                BY <1>1 DEF TypeOK
              <7>2. IF f[i].mounted /\ f[i].tab = t THEN Unmounted(f, t)[i].kept = form[t].mail
                                                   ELSE Unmounted(f, t)[i] = f[i]
                BY <7>1, UnmountedCalls
              <7> QED BY <5>2, <7>2
            <6> QED BY <3>2, <4>1, <4>2, <4>4, <6>1
          <5> QED BY <5>1, <5>2 DEF Moved
        <4> QED BY <4>3, <4>4
      <3> QED BY <2>1, <3>1, <3>2
    <2>4. SavedGrows
      BY DEF SavedGrows
    <2> QED BY <1>3, <2>3, <2>4, UndisturbedCalls
  <1> QED BY <1>4, <1>5, <1>6

(* Links, and the menu's item that logs out.                               *)
LEMMA LinksMails ==
  ASSUME SessionInv, MailInv, NEW t \in Tab,
         LogoutMenuItem(t) \/ \E p \in Pages : Go(t, p)
  PROVE  MailInv'
  <1>1. TypeOK /\ call \in [Slot -> Call] /\ "home" \in Pages
    BY DEF SessionInv, TypeOK, Pages
  <1>2. ~overtaken => \A r \in Tab : blank[r] = NoMail /\ Shown(store[r])
    BY DEF MailInv
  <1>3. ASSUME NEW p \in Pages, Go(t, p) PROVE MailInv'
    <2>1. /\ Push(t, p, store[t], call)
          /\ UNCHANGED <<store, blank, storage, account, saved, overtaken>>
      BY <1>3 DEF Go, history
    <2>2. Moved(t, p, store[t], call)
      BY <1>1, <2>1, KeptSession, PushMoves
    <2> QED BY <1>1, <1>2, <2>1, <2>2, KeptSession, MovedMails
  <1>4. CASE LogoutMenuItem(t)
    <2> DEFINE s == LoggedOut(blank[t])
    <2>1. /\ Push(t, "home", s, call) /\ Logout(t) /\ UNCHANGED <<account, saved>>
      BY <1>4 DEF LogoutMenuItem, history
    <2>2. /\ storage' = NoSession /\ store' = [store EXCEPT ![t] = s] /\ blank' = blank
          /\ overtaken' = (overtaken \/ Waiting(t, "update"))
      BY <2>1 DEF Logout, Overtaking
    <2>3. s \in Session
      BY <2>1, LogoutSessions
    <2>4. Moved(t, "home", s, call)
      BY <1>1, <2>1, <2>3, PushMoves
    <2>5. ~overtaken => Shown(s)
      BY <1>2 DEF Shown, LoggedOut, NoSession
    <2> HIDE DEF s
    <2> QED BY <1>1, <2>1, <2>2, <2>3, <2>4, <2>5, MovedMails
  <1> QED BY <1>3, <1>4

(* A page load finds what the storage shows.                               *)
LEMMA ReloadMails ==
  ASSUME SessionInv, MailInv, NEW t \in Tab, NEW p \in Pages, Reload(t, p)
  PROVE  MailInv'
  <1>1. TypeOK /\ CallsFilled
    BY DEF SessionInv
  <1>2. /\ page' = [page EXCEPT ![t] = p] /\ form' = [form EXCEPT ![t] = Setup(p, Loaded(t))]
        /\ store' = [store EXCEPT ![t] = Loaded(t)] /\ blank' = [blank EXCEPT ![t] = NoMail]
        /\ UNCHANGED <<storage, account, saved, overtaken>>
    BY DEF Reload, history
  <1>3. /\ \A u \in Username : account[u] \in saved[u] \cup {NoMail}
        /\ ~overtaken => /\ Shown(storage) /\ \A r \in Tab : blank[r] = NoMail /\ Shown(store[r])
                         /\ \A i \in Slot : CallShown(call[i])
    BY DEF MailInv
  <1>4. ASSUME ~overtaken, NEW r \in Tab PROVE blank'[r] = NoMail /\ Shown(store[r])'
    <2>1. store'[r] \in {store[r], storage, NoSession} /\ blank'[r] \in {blank[r], NoMail}
      BY <1>1, <1>2 DEF TypeOK, Loaded
    <2> QED BY <1>2, <1>3, <1>4, <2>1 DEF Shown, NoSession
  <1>5. ASSUME ~overtaken, NEW i \in Slot PROVE CallShown(call[i])'
    <2>1. call[i] \in Call /\ NoTab \notin Tab
      BY <1>1, ClientAssumption DEF TypeOK
    <2>2. Undisturbed(call'[i], call[i])
      <3>1. CASE call[i].tab # t
        <4>1. call'[i] = call[i]
          BY <3>1 DEF Reload
        <4>2. \A r \in Tab \ {t} : page'[r] = page[r] /\ form'[r] = form[r] /\ store'[r] = store[r]
          BY <1>1, <1>2 DEF TypeOK
        <4>3. ~call[i].mounted => call[i].kept = IF call[i].mounted THEN form[call[i].tab].mail
                                                 ELSE call[i].kept
          OBVIOUS
        <4> QED BY <3>1, <4>1, <4>2, <4>3 DEF Undisturbed
      <3>2. CASE call[i].tab = t /\ call[i].answer # "none"
        BY <3>2 DEF Reload, Undisturbed, NoCall
      <3>3. CASE call[i].tab = t /\ call[i].answer = "none"
        <4>1. call'[i] = [call[i] EXCEPT !.tab = NoTab, !.mounted = FALSE]
          BY <3>3 DEF Reload
        <4> QED BY <2>1, <4>1 DEF Undisturbed, Call
      <3> QED BY <3>1, <3>2, <3>3
    <2> QED BY <1>2, <1>3, <1>5, <2>2, UndisturbedCalls DEF SavedGrows
  <1>6. ~overtaken => Shown(storage)'
    BY <1>2, <1>3 DEF Shown
  <1> QED BY <1>2, <1>3, <1>4, <1>5, <1>6 DEF MailInv

(* Typing a username touches no mail; editing one overtakes the update     *)
(* that waits.                                                             *)
LEMMA TypingMails ==
  ASSUME SessionInv, MailInv, NEW t \in Tab,
         \/ \E u \in Username : TypeUsername(t, u)
         \/ \E m \in Email : EditEmail(t, m)
  PROVE  MailInv'
  <1>1. TypeOK
    BY DEF SessionInv
  <1>2. /\ UNCHANGED <<page, store, blank, storage, call, account, saved>>
        /\ overtaken => overtaken'
    BY DEF TypeUsername, EditEmail, Overtaking, history
  <1>3. ASSUME ~overtaken', NEW i \in Slot PROVE CallShown(call[i])'
    <2>1. CallShown(call[i]) /\ call'[i] = call[i] /\ SavedGrows
      BY <1>2, <1>3 DEF MailInv, SavedGrows
    <2>2. call[i].op = "update" /\ call[i].tab \in Tab => form'[call[i].tab].mail = form[call[i].tab].mail
      <3>1. CASE \E u \in Username : TypeUsername(t, u)
        <4>1. PICK u \in Username : form' = [form EXCEPT ![t].name = u, ![t].free = FALSE]
          BY <3>1 DEF TypeUsername
        <4> QED BY <1>1, <4>1 DEF TypeOK, Form
      <3>2. CASE \E m \in Email : EditEmail(t, m)
        <4>1. PICK m \in Email : /\ form' = [form EXCEPT ![t].mail = m]
                                 /\ overtaken' = (overtaken \/ Waiting(t, "update"))
          BY <3>2 DEF EditEmail, Overtaking
        <4>2. call[i].op = "update" => call[i].tab # t
          BY <1>3, <4>1 DEF Waiting
        <4> QED BY <1>1, <4>1, <4>2 DEF TypeOK
      <3> QED BY <3>1, <3>2
    <2>3. Undisturbed(call'[i], call[i])
      BY <1>2, <2>1, <2>2 DEF Undisturbed
    <2> QED BY <2>1, <2>3, UndisturbedCalls
  <1>4. SavedGrows /\ \A u \in Username : account'[u] \in saved'[u] \cup {NoMail}
    BY <1>2 DEF SavedGrows, MailInv
  <1> QED BY <1>2, <1>3, <1>4, QuietMails

(* An update is sent with the mail of its form and the token of its tab.   *)
LEMMA SendMails ==
  ASSUME SessionInv, MailInv, NEW t \in Tab, NEW u, NEW m,
         NEW op \in {"login", "check", "create", "update", "password"},
         Send(t, op, u, m), UNCHANGED <<form, overtaken>>,
         op = "update" => page[t] = "profile" /\ m = form[t].mail
  PROVE  MailInv'
  <1> DEFINE c == [NoCall EXCEPT !.tab = t, !.op = op, !.name = u, !.mail = m,
                                 !.token = store[t].token, !.mounted = TRUE]
  <1>1. PICK k \in Slot : call' = [call EXCEPT ![k] = c]
    BY DEF Send
  <1>2. UNCHANGED <<page, form, store, blank, storage, account, saved, overtaken>>
    BY DEF Send, history
  <1>3. /\ c.tab = t /\ c.op = op /\ c.mail = m
        /\ c.token = store[t].token /\ c.mounted = TRUE /\ c.answer = "none"
    BY DEF NoCall
  <1> HIDE DEF c
  <1>4. call'[k] = c /\ \A i \in Slot \ {k} : call'[i] = call[i]
    BY <1>1 DEF SessionInv, TypeOK
  <1>5. ASSUME ~overtaken', NEW i \in Slot PROVE CallShown(call[i])'
    <2>1. CASE i = k
      BY <1>2, <1>3, <1>4, <2>1 DEF CallShown
    <2>2. CASE i # k
      BY <1>2, <1>4, <1>5, <2>2 DEF CallShown, MailInv
    <2> QED BY <2>1, <2>2
  <1>6. SavedGrows /\ \A v \in Username : account'[v] \in saved'[v] \cup {NoMail}
    BY <1>2 DEF SavedGrows, MailInv
  <1>7. UNCHANGED <<store, storage, blank>> /\ (overtaken => overtaken')
    BY <1>2
  <1> QED BY <1>5, <1>6, <1>7, QuietMails

(* Only an update sends a mail that its tab will show.                     *)
LEMMA SubmitMails ==
  ASSUME SessionInv, MailInv, NEW t \in Tab,
         \/ \E u \in Username : SubmitLogin(t, u)
         \/ \E m \in Email : SubmitJoin(t, m)
         \/ CheckUsername(t) \/ SubmitProfile(t) \/ SubmitPassword(t)
  PROVE  MailInv'
  <1>1. CASE \E u \in Username : SubmitLogin(t, u)
    BY <1>1, SendMails DEF SubmitLogin
  <1>2. CASE \E m \in Email : SubmitJoin(t, m)
    BY <1>2, SendMails DEF SubmitJoin
  <1>3. CASE CheckUsername(t)
    BY <1>3, SendMails DEF CheckUsername
  <1>4. CASE SubmitProfile(t)
    BY <1>4, SendMails DEF SubmitProfile
  <1>5. CASE SubmitPassword(t)
    BY <1>5, SendMails DEF SubmitPassword
  <1> QED BY <1>1, <1>2, <1>3, <1>4, <1>5

(* A page that has been loaded, or has not.                                *)
LEMMA ArriveMails ==
  ASSUME SessionInv, MailInv, NEW t \in Tab, Arrive(t)
  PROVE  MailInv'
  <1> DEFINE p == going[t]
  <1>1. TypeOK
    BY DEF SessionInv
  <1>2. p # "none" /\ UNCHANGED <<store, blank, storage, account, saved, overtaken>>
    BY DEF Arrive, history
  <1>3. p \in Pages /\ call \in [Slot -> Call]
    BY <1>1, <1>2 DEF TypeOK
  <1>4. ~overtaken => \A r \in Tab : blank[r] = NoMail /\ Shown(store[r])
    BY DEF MailInv
  <1>5. CASE Mount(t, p, store[t], call)
    <2>1. Moved(t, p, store[t], call)
      BY <1>1, <1>3, <1>5, KeptSession, MountMoves
    <2> HIDE DEF p
    <2> QED BY <1>2, <1>3, <1>4, <2>1, KeptSession, MovedMails
  <1>6. CASE UNCHANGED <<page, form, call>>
    BY <1>2, <1>6 DEF MailInv, Shown, CallShown
  <1> QED BY <1>5, <1>6 DEF Arrive

(* Answers that lead to another page.                                      *)
LEMMA LeadingAnswersMails ==
  ASSUME SessionInv, MailInv, NEW k \in Slot, NEW t \in Tab,
         LoginAnswer(k, t) \/ JoinAnswer(k, t) \/ PasswordAnswer(k, t) \/ Unauthorized(k, t),
         UNCHANGED <<account, acts, saved, said>>
  PROVE  MailInv'
  <1>1. /\ TypeOK /\ CallsFilled /\ Ended(k) \in [Slot -> Call]
        /\ Pages = {"home", "login", "join", "profile", "changepassword"}
    BY EndedCalls DEF SessionInv, Pages
  <1>2. ~overtaken => \A r \in Tab : blank[r] = NoMail /\ Shown(store[r])
    BY DEF MailInv
  <1>3. CASE JoinAnswer(k, t) \/ PasswordAnswer(k, t)
    <2>1. PICK p \in Pages : /\ Push(t, p, store[t], Ended(k))
                             /\ UNCHANGED <<store, blank, storage, overtaken>>
      BY <1>1, <1>3 DEF JoinAnswer, PasswordAnswer
    <2>2. Moved(t, p, store[t], Ended(k))
      BY <1>1, <2>1, KeptSession, PushMoves
    <2> QED BY <1>1, <1>2, <2>1, <2>2, KeptSession, MovedMails
  <1>4. CASE LoginAnswer(k, t)
    <2> DEFINE s == SignedIn(call[k].name, call[k].mail)
    <2>1. /\ call[k].op = "login" /\ call[k].answer = "ok"
          /\ store' = [store EXCEPT ![t] = s] /\ storage' = s
          /\ overtaken' = (overtaken \/ Waiting(t, "update"))
          /\ Push(t, "home", s, Ended(k)) /\ blank' = blank
      BY <1>4 DEF LoginAnswer, Has, Overtaking
    <2>2. call[k].name \in Username /\ call[k].mail \in Mail
      BY <1>1, <2>1 DEF CallsFilled, Filled, TypeOK, Call
    <2>3. s \in Session
      BY <2>2, Shapes
    <2>4. ~overtaken => Shown(s)
      BY <2>1, <2>2, ClientAssumption DEF MailInv, CallShown, Shown, SignedIn
    <2> HIDE DEF s
    <2>5. Moved(t, "home", s, Ended(k))
      BY <1>1, <2>1, <2>3, PushMoves
    <2> QED BY <1>1, <2>1, <2>3, <2>4, <2>5, MovedMails
  <1>5. CASE Unauthorized(k, t)
    <2> DEFINE s == LoggedOut(blank[t])
    <2>1. Push(t, "login", s, Ended(k)) /\ Logout(t)
      BY <1>5 DEF Unauthorized
    <2>2. /\ storage' = NoSession /\ store' = [store EXCEPT ![t] = s] /\ blank' = blank
          /\ overtaken' = (overtaken \/ Waiting(t, "update"))
      BY <2>1 DEF Logout, Overtaking
    <2>3. s \in Session
      BY <2>1, LogoutSessions
    <2>4. ~overtaken => Shown(s)
      BY <1>2 DEF Shown, LoggedOut, NoSession
    <2> HIDE DEF s
    <2>5. Moved(t, "login", s, Ended(k))
      BY <1>1, <2>1, <2>3, PushMoves
    <2> QED BY <1>1, <2>2, <2>3, <2>4, <2>5, MovedMails
  <1> QED BY <1>3, <1>4, <1>5

(* A stored profile is the tab's member with a mail that was saved.        *)
LEMMA ProfileAnswerMails ==
  ASSUME SessionInv, MailInv, NEW k \in Slot, NEW t \in Tab, ProfileAnswer(k, t),
         UNCHANGED <<account, acts, saved, said>>
  PROVE  MailInv'
  <1> DEFINE m == IF call[k].mounted THEN form[t].mail ELSE call[k].kept
  <1>1. TypeOK /\ TokensNamed /\ OwnToken
    BY DEF SessionInv
  <1>2. /\ call[k].tab = t /\ call[k].op = "update" /\ call[k].answer = "ok"
        /\ store' = [store EXCEPT ![t].mail = m] /\ storage' = [store[t] EXCEPT !.mail = m]
        /\ blank' = WrittenThrough(t, m)
        /\ call' = Ended(k) /\ UNCHANGED <<page, form, overtaken>>
    BY DEF ProfileAnswer, ChangeProfile, Has
  <1> SUFFICES ASSUME ~overtaken
               PROVE  /\ Shown(storage)'
                      /\ \A r \in Tab : blank'[r] = NoMail /\ Shown(store[r])'
                      /\ \A i \in Slot : CallShown(call[i])'
    BY <1>2 DEF MailInv
  <1>3. /\ \A r \in Tab : blank[r] = NoMail /\ Shown(store[r])
        /\ \A i \in Slot : CallShown(call[i])
    BY DEF MailInv
  <1>4. /\ call[k].token = store[t].token /\ call[k].token # NoOne
        /\ call[k].mail \in saved[call[k].name] /\ m = call[k].mail
    BY <1>2, <1>3 DEF CallShown
  <1>5. store[t].name = call[k].name /\ store[t].name # NoOne
    BY <1>1, <1>2, <1>4 DEF OwnToken, TokensNamed
  <1> HIDE DEF m
  <1>6. blank' = blank
    <2>1. LoggedOut(blank[t]).name = NoOne
      BY DEF LoggedOut, NoSession
    <2> QED BY <2>1, <1>2, <1>5 DEF WrittenThrough
  <1>7. /\ storage'.name = store[t].name /\ storage'.mail = m
        /\ storage'.token = store[t].token /\ store' = [store EXCEPT ![t] = storage']
    BY <1>1, <1>2 DEF TypeOK, Session
  <1>8. Shown(storage)'
    BY <1>4, <1>5, <1>7 DEF Shown
  <1>9. ASSUME NEW r \in Tab PROVE Shown(store[r])'
    <2>1. store'[r] = IF r = t THEN storage' ELSE store[r]
      BY <1>1, <1>7 DEF TypeOK
    <2> QED BY <1>3, <1>8, <2>1 DEF Shown
  <1>10. ASSUME NEW i \in Slot PROVE CallShown(call[i])'
    <2>1. SavedGrows /\ \A r \in Tab : store'[r].token = store[r].token
      BY <1>1, <1>7 DEF SavedGrows, TypeOK
    <2>2. call'[i] = NoCall \/ call'[i] = call[i]
      BY <1>1, <1>2, EndedCalls
    <2>3. Undisturbed(call'[i], call[i])
      <3>1. CASE call'[i] = NoCall
        BY <3>1 DEF Undisturbed, NoCall
      <3>2. CASE call'[i] = call[i]
        BY <1>2, <2>1, <3>2 DEF Undisturbed
      <3> QED BY <2>2, <3>1, <3>2
    <2> QED BY <1>3, <2>1, <2>3, UndisturbedCalls
  <1> QED BY <1>3, <1>6, <1>8, <1>9, <1>10

(* Answers and endings that change no session and no mail.                 *)
LEMMA EndingsMails ==
  ASSUME SessionInv, MailInv, NEW k \in Slot,
         Lost(k) \/ \E t \in Tab : CheckAnswer(k, t) \/ Failed(k, t) \/ Timeout(k, t),
         UNCHANGED <<account, acts, saved, said>>
  PROVE  MailInv'
  <1>1. TypeOK
    BY DEF SessionInv
  <1>2. UNCHANGED <<page, store, blank, storage, overtaken>>
    BY DEF Lost, Failed, Timeout, CheckAnswer
  <1>3. \A r \in Tab : form'[r].mail = form[r].mail
    BY <1>1 DEF Lost, Failed, Timeout, CheckAnswer, TypeOK, Form
  <1>4. SavedGrows /\ \A u \in Username : account'[u] \in saved'[u] \cup {NoMail}
    BY DEF SavedGrows, MailInv
  <1>5. call' = Ended(k) \/ call' = [call EXCEPT ![k] = [@ EXCEPT !.tab = NoTab, !.mounted = FALSE]]
    BY DEF Lost, Failed, Timeout, CheckAnswer, Ended
  <1>6. ASSUME ~overtaken', NEW i \in Slot PROVE CallShown(call[i])'
    <2>1. CallShown(call[i])
      BY <1>2, <1>6 DEF MailInv
    <2>2. call'[i] = call[i] \/ call'[i] = NoCall \/ call'[i] = [call[i] EXCEPT !.tab = NoTab, !.mounted = FALSE]
      BY <1>1, <1>5 DEF Ended, TypeOK
    <2>3. Undisturbed(call'[i], call[i])
      <3>1. CASE call'[i] = NoCall
        BY <3>1 DEF Undisturbed, NoCall
      <3>2. CASE call'[i] = call[i]
        BY <1>2, <1>3, <3>2 DEF Undisturbed
      <3>3. CASE call'[i] = [call[i] EXCEPT !.tab = NoTab, !.mounted = FALSE]
        <4>1. call[i] \in Call /\ NoTab \notin Tab
          BY <1>1, ClientAssumption DEF TypeOK
        <4> QED BY <3>3, <4>1 DEF Undisturbed, Call
      <3> QED BY <2>2, <3>1, <3>2, <3>3
    <2> QED BY <1>4, <2>1, <2>3, UndisturbedCalls
  <1> QED BY <1>2, <1>4, <1>6, QuietMails

(* The server answers a login with a mail it has, and an update with the   *)
(* one it has just been given.                                             *)
LEMMA ServeMails ==
  ASSUME SessionInv, MailInv, NEW k \in Slot, Serve(k)
  PROVE  MailInv'
  <1> DEFINE c == call[k]
  <1>1. /\ TypeOK /\ c \in Call /\ Filled(c) /\ NoTab \notin Tab
        /\ c.op = "update" => c.token \in {NoOne, c.name}
    BY ClientAssumption DEF SessionInv, TypeOK, CallsFilled, OwnToken
  <1>2. /\ UNCHANGED <<page, form, store, blank, storage, overtaken>>
        /\ c.op # "none" /\ c.answer = "none"
    BY DEF Serve
  <1>3. PICK answer \in {"ok", "free", "unauthorized", "error"}, m \in Mail :
          /\ Answered(k, answer, m)
          /\ SavedGrows /\ \A u \in Username : account'[u] \in saved'[u] \cup {NoMail}
          /\ c.op # "login" => m = c.mail
          /\ c.op = "login" /\ answer = "ok" => m \in saved'[c.name]
          /\ c.op = "update" /\ answer = "ok" => c.token # NoOne /\ m \in saved'[c.name]
    <2>1. \A u \in Username : account[u] \in saved[u] \cup {NoMail}
      BY DEF MailInv
    <2>2. ASSUME NEW answer \in {"ok", "free"}, NEW m \in Mail, Accepts(c, answer, m),
                 Answered(k, answer, m),
                 account' = IF Writes(c) THEN [account EXCEPT ![c.name] = m] ELSE account,
                 saved' = IF Writes(c) THEN [saved EXCEPT ![c.name] = @ \cup {m}] ELSE saved
          PROVE  /\ SavedGrows /\ \A u \in Username : account'[u] \in saved'[u] \cup {NoMail}
                 /\ c.op # "login" => m = c.mail
                 /\ c.op = "login" /\ answer = "ok" => m \in saved'[c.name]
                 /\ c.op = "update" /\ answer = "ok" => c.token # NoOne /\ m \in saved'[c.name]
      <3>1. c.op # "login" => m = c.mail
        BY <2>2 DEF Accepts
      <3>2. SavedGrows
        BY <1>1, <2>2 DEF SavedGrows, TypeOK
      <3>3. \A u \in Username : account'[u] \in saved'[u] \cup {NoMail}
        BY <1>1, <2>1, <2>2 DEF TypeOK
      <3>4. c.op = "login" => c.name \in Username /\ m = account[c.name] /\ m # NoMail /\ saved' = saved
        BY <1>1, <2>2 DEF Accepts, Filled, Writes
      <3>5. c.op = "update" => c.token # NoOne /\ saved' = [saved EXCEPT ![c.name] = @ \cup {m}]
        BY <2>2 DEF Accepts, Writes
      <3>6. c.op = "update" => c.name \in Username
        BY <1>1, <3>5 DEF Call, Someone
      <3>7. c.op = "update" => m \in saved'[c.name]
        BY <1>1, <3>5, <3>6 DEF TypeOK
      <3> QED BY <2>1, <3>1, <3>2, <3>3, <3>4, <3>5, <3>7
    <2>3. CASE \E answer \in {"ok", "free"}, m \in Mail :
                 /\ Accepts(c, answer, m)
                 /\ Answered(k, answer, m)
                 /\ account' = IF Writes(c) THEN [account EXCEPT ![c.name] = m] ELSE account
                 /\ saved' = IF Writes(c) THEN [saved EXCEPT ![c.name] = @ \cup {m}] ELSE saved
      <3>1. PICK answer \in {"ok", "free"}, m \in Mail :
                 /\ Accepts(c, answer, m)
                 /\ Answered(k, answer, m)
                 /\ account' = IF Writes(c) THEN [account EXCEPT ![c.name] = m] ELSE account
                 /\ saved' = IF Writes(c) THEN [saved EXCEPT ![c.name] = @ \cup {m}] ELSE saved
        BY <2>3
      <3> HIDE DEF c
      <3> QED BY <2>2, <3>1
    <2>4. CASE /\ \E answer \in {"unauthorized", "error"} : Answered(k, answer, c.mail)
               /\ UNCHANGED <<account, saved, said>>
      <3>1. c.mail \in Mail
        BY <1>1 DEF Call
      <3> QED BY <2>1, <2>4, <3>1 DEF SavedGrows
    <2> QED BY <2>3, <2>4 DEF Serve, history
  <1>4. ASSUME ~overtaken', NEW i \in Slot PROVE CallShown(call[i])'
    <2>1. CallShown(call[i])
      BY <1>2, <1>4 DEF MailInv
    <2>2. CASE i # k
      <3>1. call'[i] = call[i]
        BY <1>1, <1>3, <2>2 DEF Answered, TypeOK
      <3> QED BY <1>2, <1>3, <2>1, <3>1, UndisturbedCalls DEF Undisturbed
    <2>3. CASE i = k /\ c.tab = NoTab
      <3>1. call'[k] = NoCall
        BY <1>1, <1>3, <2>3 DEF Answered, TypeOK
      <3> QED BY <2>3, <3>1 DEF CallShown, NoCall
    <2>4. CASE i = k /\ c.tab # NoTab
      <3>1. call'[k] = [c EXCEPT !.answer = answer, !.mail = m]
        BY <1>1, <1>3, <2>4 DEF Answered, TypeOK
      <3>2. /\ call'[k].op = c.op /\ call'[k].name = c.name /\ call'[k].token = c.token
            /\ call'[k].mail = m /\ call'[k].tab = c.tab /\ call'[k].mounted = c.mounted
            /\ call'[k].answer = answer /\ call'[k].kept = c.kept
        BY <1>1, <3>1 DEF Call
      <3>3. CallShown(c)
        BY <2>1, <2>4
      <3> HIDE DEF c
      <3> QED BY <1>2, <1>3, <2>4, <3>2, <3>3 DEF CallShown
    <2> QED BY <2>2, <2>3, <2>4
  <1> QED BY <1>2, <1>3, <1>4, QuietMails

(* What the browser starts with.                                           *)
LEMMA MailsAtStart == Init => MailInv
  <1> SUFFICES ASSUME Init PROVE MailInv
    OBVIOUS
  <1>1. \A u \in Username : account[u] \in saved[u] \cup {NoMail}
    BY DEF Init
  <1>2. Shown(NoSession)
    BY DEF Shown, NoSession
  <1>3. Shown(storage)
    BY <1>2, ClientAssumption DEF Init, Shown, SignedIn
  <1>4. \A t \in Tab : blank[t] = NoMail /\ Shown(store[t])
    BY <1>2, <1>3 DEF Init, Loaded
  <1>5. \A i \in Slot : CallShown(call[i])
    BY DEF Init, CallShown, NoCall
  <1> QED BY <1>1, <1>3, <1>4, <1>5 DEF MailInv

(* Every step of the client and of its server keeps what is shown in order *)
(* until a request is overtaken.                                           *)
LEMMA NextKeepsMails ==
  ASSUME SessionInv, MailInv, [Next]_vars
  PROVE  MailInv'
  <1>1. ASSUME NEW t \in Tab, MemberActs(t) PROVE MailInv'
    <2>1. CASE LogoutMenuItem(t) \/ \E p \in Pages : Go(t, p)
      BY <2>1, LinksMails
    <2>2. CASE \E p \in Pages : Reload(t, p)
      BY <2>2, ReloadMails
    <2>3. CASE \/ \E u \in Username : TypeUsername(t, u)
               \/ \E m \in Email : EditEmail(t, m)
      BY <2>3, TypingMails
    <2>4. CASE \/ \E u \in Username : SubmitLogin(t, u)
               \/ \E m \in Email : SubmitJoin(t, m)
               \/ CheckUsername(t) \/ SubmitProfile(t) \/ SubmitPassword(t)
      BY <2>4, SubmitMails
    <2> QED BY <1>1, <2>1, <2>2, <2>3, <2>4 DEF MemberActs
  <1>2. ASSUME NEW k \in Slot, NEW t \in Tab, Settle(k, t) PROVE MailInv'
    <2>1. UNCHANGED <<account, acts, saved, said>>
      BY <1>2 DEF Settle, history
    <2>2. CASE LoginAnswer(k, t) \/ JoinAnswer(k, t) \/ PasswordAnswer(k, t) \/ Unauthorized(k, t)
      BY <2>1, <2>2, LeadingAnswersMails
    <2>3. CASE ProfileAnswer(k, t)
      BY <2>1, <2>3, ProfileAnswerMails
    <2>4. CASE CheckAnswer(k, t) \/ Failed(k, t) \/ Timeout(k, t)
      BY <2>1, <2>4, EndingsMails
    <2> QED BY <1>2, <2>2, <2>3, <2>4 DEF Settle
  <1>3. ASSUME NEW t \in Tab, Arrive(t) PROVE MailInv'
    BY <1>3, ArriveMails
  <1>4. ASSUME NEW k \in Slot, Serve(k) PROVE MailInv'
    BY <1>4, ServeMails
  <1>5. ASSUME NEW k \in Slot, Lost(k), UNCHANGED <<account, acts, history>> PROVE MailInv'
    BY <1>5, EndingsMails DEF history
  <1>6. CASE Rest \/ UNCHANGED vars
    BY <1>6 DEF Rest, vars, MailInv, Shown, CallShown
  <1> QED BY <1>1, <1>2, <1>3, <1>4, <1>5, <1>6 DEF Next

(* A tab shows its member a mail that the server has had of that member,   *)
(* unless a form was edited or a session changed under a waiting update.   *)
THEOREM ShownMailWasSaved == Spec => []MailShownWasSaved
  <1>1. MailInv => MailShownWasSaved
    BY DEF MailInv, MailShownWasSaved, Shown
  <1>2. Spec => []MailInv
    BY MailsAtStart, NextKeepsMails, SessionsInOrder, PTL DEF Spec
  <1> QED BY <1>1, <1>2, PTL

-----------------------------------------------------------------------------
(* The sessions of a browser.                                              *)

(* The member whose token a tab holds, and the logins under way in it.     *)
Held == [t \in Tab |-> store[t].token]
Asks(i, t) == call[i].tab = t /\ call[i].op = "login"
Asking == [t \in Tab |-> { call[i].name : i \in { j \in Slot : call[j].tab = t /\ call[j].op = "login" } }]

(* As far as logins go, request d is what c was.                           *)
Alike(d, c) ==
  \/ d.tab = c.tab /\ d.op = c.op /\ d.name = c.name
  \/ /\ d.tab \notin Tab \/ d.op # "login"
     /\ c.tab \notin Tab \/ c.op # "login"

(* The logins under way in a tab, element by element.                      *)
LEMMA AskingNames ==
  ASSUME NEW t \in Tab
  PROVE  /\ \A u : u \in Asking[t] <=> \E i \in Slot : Asks(i, t) /\ u = call[i].name
         /\ \A u : u \in Asking'[t] <=> \E i \in Slot : Asks(i, t)' /\ u = call'[i].name
  BY DEF Asking, Asks

(* Requests that are alike ask for the same logins.                        *)
LEMMA AskingSame ==
  ASSUME \A i \in Slot : Alike(call'[i], call[i])
  PROVE  Asking' = Asking
  <1>1. ASSUME NEW t \in Tab PROVE Asking'[t] = Asking[t]
    <2>1. \A i \in Slot : (Asks(i, t)' <=> Asks(i, t)) /\ (Asks(i, t) => call'[i].name = call[i].name)
      BY DEF Alike, Asks
    <2>2. \A u : u \in Asking'[t] <=> u \in Asking[t]
      BY <2>1, AskingNames
    <2> QED BY <2>2
  <1>2. Asking = [t \in Tab |-> Asking[t]] /\ Asking' = [t \in Tab |-> Asking'[t]]
    BY DEF Asking
  <1> QED BY <1>1, <1>2

(* A request that ends takes its login along, unless another one asks for  *)
(* the same member.                                                        *)
LEMMA AskingSettled ==
  ASSUME NEW k \in Slot, NEW t \in Tab, call[k].tab = t,
         \A i \in Slot \ {k} : Alike(call'[i], call[i]),
         call'[k].tab \notin Tab \/ call'[k].op # "login"
  PROVE  Asking' \in {Asking, [Asking EXCEPT ![t] = @ \ {call[k].name}]}
  <1> DEFINE n == call[k].name
  <1>1. CASE call[k].op # "login"
    <2>1. \A i \in Slot : Alike(call'[i], call[i])
      BY <1>1 DEF Alike
    <2> QED BY <2>1, AskingSame
  <1>2. CASE call[k].op = "login"
    <2>1. \A i \in Slot \ {k}, r \in Tab :
            (Asks(i, r)' <=> Asks(i, r)) /\ (Asks(i, r) => call'[i].name = call[i].name)
      BY DEF Alike, Asks
    <2>2. \A r \in Tab : ~Asks(k, r)' /\ (Asks(k, r) <=> r = t)
      BY <1>2 DEF Asks
    <2>3. \A r \in Tab \ {t} : \A u : u \in Asking'[r] <=> u \in Asking[r]
      BY <2>1, <2>2, AskingNames
    <2>4. \A u : u # n => (u \in Asking'[t] <=> u \in Asking[t])
      BY <2>1, <2>2, AskingNames
    <2>5. n \in Asking[t]
      BY <2>2, AskingNames
    <2>6. \A r \in Tab \ {t} : Asking'[r] = Asking[r]
      BY <2>3
    <2>7. Asking = [r \in Tab |-> Asking[r]] /\ Asking' = [r \in Tab |-> Asking'[r]]
      BY DEF Asking
    <2>8. CASE n \in Asking'[t]
      <3>1. Asking'[t] = Asking[t]
        BY <2>4, <2>5, <2>8
      <3> QED BY <2>6, <2>7, <3>1
    <2>9. CASE n \notin Asking'[t]
      <3>1. Asking'[t] = Asking[t] \ {call[k].name}
        BY <2>4, <2>9
      <3>2. Asking' = [r \in Tab |-> IF r = t THEN Asking[t] \ {call[k].name} ELSE Asking[r]]
        BY <2>6, <2>7, <3>1
      <3>3. [Asking EXCEPT ![t] = @ \ {call[k].name}]
              = [r \in Tab |-> IF r = t THEN Asking[t] \ {call[k].name} ELSE Asking[r]]
        BY DEF Asking
      <3> QED BY <3>2, <3>3
    <2> QED BY <2>8, <2>9
  <1> QED BY <1>1, <1>2

(* The abstract actions, in terms of what the tabs hold and ask for.       *)
LEMMA AbstractStutter ==
  ASSUME UNCHANGED <<Held, storage.token, Asking>>
  PROVE  UNCHANGED BrowserSessions!sessionVars
  BY DEF BrowserSessions!sessionVars, Held, Asking

(* A login is sent.                                                        *)
LEMMA AbstractAsk ==
  ASSUME NEW t \in Tab, NEW m \in Someone, UNCHANGED <<Held, storage.token>>,
         Asking' = [Asking EXCEPT ![t] = @ \cup {m}]
  PROVE  BrowserSessions!Next
  <1>1. BrowserSessions!Ask(t, m)
    BY DEF BrowserSessions!Ask, Held, Asking
  <1> QED BY <1>1 DEF BrowserSessions!Next, Someone

(* A request ends without a session.                                       *)
LEMMA AbstractGiveUp ==
  ASSUME NEW t \in Tab, NEW m \in Someone, UNCHANGED <<Held, storage.token>>,
         Asking' \in {Asking, [Asking EXCEPT ![t] = @ \ {m}]}
  PROVE  BrowserSessions!Next
  <1>1. BrowserSessions!GiveUp(t, m)
    BY DEF BrowserSessions!GiveUp, BrowserSessions!Settled, Held, Asking
  <1> QED BY <1>1 DEF BrowserSessions!Next, Someone

(* A login that was asked for is accepted.                                 *)
LEMMA AbstractSignIn ==
  ASSUME NEW t \in Tab, NEW m \in Someone, m \in Asking[t],
         Held' = [Held EXCEPT ![t] = m], storage'.token = m,
         Asking' \in {Asking, [Asking EXCEPT ![t] = @ \ {m}]}
  PROVE  BrowserSessions!Next
  <1>1. BrowserSessions!SignIn(t, m)
    BY DEF BrowserSessions!SignIn, BrowserSessions!Settled, Held, Asking
  <1> QED BY <1>1 DEF BrowserSessions!Next, Someone

(* The tab and the storage are cleared together.                           *)
LEMMA AbstractSignOut ==
  ASSUME NEW t \in Tab, NEW m \in Someone,
         Held' = [Held EXCEPT ![t] = NoOne], storage'.token = NoOne,
         Asking' \in {Asking, [Asking EXCEPT ![t] = @ \ {m}]}
  PROVE  BrowserSessions!Next
  <1>1. BrowserSessions!SignOut(t, m)
    BY DEF BrowserSessions!SignOut, BrowserSessions!Settled, Held, Asking
  <1> QED BY <1>1 DEF BrowserSessions!Next, Someone

(* A page load takes what is in the storage.                               *)
LEMMA AbstractResume ==
  ASSUME NEW t \in Tab, Held' = [Held EXCEPT ![t] = storage.token],
         storage'.token = storage.token, Asking' = [Asking EXCEPT ![t] = {}]
  PROVE  BrowserSessions!Next
  <1>1. BrowserSessions!Resume(t)
    BY DEF BrowserSessions!Resume, Held, Asking
  <1> QED BY <1>1 DEF BrowserSessions!Next

(* A tab writes the session it holds to the storage.                       *)
LEMMA AbstractPublish ==
  ASSUME NEW t \in Tab, UNCHANGED <<Held, Asking>>, storage'.token = Held[t]
  PROVE  BrowserSessions!Next
  <1>1. BrowserSessions!Publish(t)
    BY DEF BrowserSessions!Publish, Held, Asking
  <1> QED BY <1>1 DEF BrowserSessions!Next

(* Navigating asks for nothing and holds nothing: what requests ask for is *)
(* what they asked for, but for the one that has ended.                    *)
LEMMA MovedAsks ==
  ASSUME SessionInv, NEW t \in Tab, NEW p \in Pages, NEW s \in Session,
         NEW f \in [Slot -> Call], Moved(t, p, s, f), NEW i \in Slot
  PROVE  Alike(call'[i], f[i])
  <1>1. call'[i].tab = f[i].tab /\ call'[i].op = f[i].op /\ call'[i].name = f[i].name
    BY MovedFields DEF SessionInv
  <1> QED BY <1>1 DEF Alike

(* A new session of a tab, and nothing else that is held.                  *)
LEMMA HeldChanges ==
  ASSUME SessionInv, NEW t \in Tab, NEW s, store' = [store EXCEPT ![t] = s]
  PROVE  Held' = [Held EXCEPT ![t] = s.token]
  BY DEF Held, SessionInv, TypeOK

(* Steps that change no session and no login.                              *)
LEMMA StutteringSteps ==
  ASSUME SessionInv, UNCHANGED <<store, storage>>, \A i \in Slot : Alike(call'[i], call[i])
  PROVE  UNCHANGED BrowserSessions!sessionVars
  BY AskingSame, AbstractStutter DEF Held

(* What the member does asks for a login, logs out, or loads a page.       *)
LEMMA MemberSessions ==
  ASSUME SessionInv, NEW t \in Tab, MemberActs(t)
  PROVE  [BrowserSessions!Next]_(BrowserSessions!sessionVars)
  <1>1. TypeOK /\ FirstIdle /\ call \in [Slot -> Call] /\ "home" \in Pages /\ NoTab \notin Tab
    BY ClientAssumption DEF SessionInv, TypeOK, Pages
  <1>2. ASSUME NEW p \in Pages, Go(t, p) PROVE UNCHANGED BrowserSessions!sessionVars
    <2>1. Push(t, p, store[t], call) /\ UNCHANGED <<store, storage>>
      BY <1>2 DEF Go
    <2>2. Moved(t, p, store[t], call)
      BY <1>1, <2>1, KeptSession, PushMoves
    <2>3. \A i \in Slot : Alike(call'[i], call[i])
      BY <1>1, <2>2, KeptSession, MovedAsks
    <2> QED BY <2>1, <2>3, StutteringSteps
  <1>3. ASSUME NEW p \in Pages, Reload(t, p) PROVE [BrowserSessions!Next]_(BrowserSessions!sessionVars)
    <2>1. store' = [store EXCEPT ![t] = Loaded(t)] /\ storage' = storage
      BY <1>3 DEF Reload
    <2>2. ASSUME NEW i \in Slot
          PROVE  call'[i].tab # t /\ (call[i].tab # t => call'[i] = call[i])
                 /\ (call[i].tab = t => call'[i].tab = NoTab)
      <3>1. call[i] \in Call
        BY <1>1
      <3>2. CASE call[i].tab # t \/ call[i].answer # "none"
        BY <1>1, <1>3, <3>2 DEF Reload, NoCall
      <3>3. CASE call[i].tab = t /\ call[i].answer = "none"
        <4>1. call'[i] = [call[i] EXCEPT !.tab = NoTab, !.mounted = FALSE]
          BY <1>3, <3>3 DEF Reload
        <4> QED BY <1>1, <3>1, <3>3, <4>1 DEF Call
      <3> QED BY <3>2, <3>3
    <2>3. CASE Build[t] = "first"
      <3>1. store' = store /\ \A i \in Slot : call'[i] = call[i]
        BY <1>1, <2>1, <2>2, <2>3 DEF Loaded, FirstIdle, TypeOK
      <3> QED BY <2>1, <3>1, StutteringSteps DEF Alike
    <2>4. CASE Build[t] # "first"
      <3>1. Held' = [Held EXCEPT ![t] = storage.token] /\ storage'.token = storage.token
        BY <2>1, <2>4, HeldChanges DEF Loaded
      <3>2. \A u : u \notin Asking'[t]
        BY <2>2, AskingNames DEF Asks
      <3>3. ASSUME NEW r \in Tab \ {t} PROVE Asking'[r] = Asking[r]
        <4>1. \A i \in Slot : (Asks(i, r)' <=> Asks(i, r)) /\ (Asks(i, r) => call'[i].name = call[i].name)
          BY <1>1, <2>2 DEF Asks
        <4>2. \A u : u \in Asking'[r] <=> u \in Asking[r]
          BY <4>1, AskingNames
        <4> QED BY <4>2
      <3>4. Asking = [r \in Tab |-> Asking[r]] /\ Asking' = [r \in Tab |-> Asking'[r]]
        BY DEF Asking
      <3>5. Asking'[t] = {}
        BY <3>2
      <3>6. Asking' = [Asking EXCEPT ![t] = {}]
        BY <3>3, <3>4, <3>5
      <3> QED BY <3>1, <3>6, AbstractResume
    <2> QED BY <2>3, <2>4
  <1>4. CASE LogoutMenuItem(t)
    <2> DEFINE s == LoggedOut(blank[t])
    <2>1. Push(t, "home", s, call) /\ Logout(t)
      BY <1>4 DEF LogoutMenuItem
    <2>2. storage' = NoSession /\ store' = [store EXCEPT ![t] = s] /\ s \in Session /\ s.token = NoOne
      BY <2>1, LogoutSessions DEF Logout
    <2>3. Moved(t, "home", s, call)
      BY <1>1, <2>1, <2>2, PushMoves
    <2> HIDE DEF s
    <2>4. \A i \in Slot : Alike(call'[i], call[i])
      BY <1>1, <2>2, <2>3, MovedAsks
    <2>5. Held' = [Held EXCEPT ![t] = NoOne] /\ storage'.token = NoOne /\ Asking' = Asking
      BY <2>2, <2>4, AskingSame, HeldChanges, NobodysSession
    <2>6. NoOne \in Someone
      BY DEF Someone
    <2> QED BY <2>5, <2>6, AbstractSignOut
  <1>5. ASSUME NEW u, NEW m, NEW op \in {"login", "check", "create", "update", "password"},
               Send(t, op, u, m), op = "login" => u \in Username
        PROVE  [BrowserSessions!Next]_(BrowserSessions!sessionVars)
    <2> DEFINE c == [NoCall EXCEPT !.tab = t, !.op = op, !.name = u, !.mail = m,
                                   !.token = store[t].token, !.mounted = TRUE]
    <2>1. PICK k \in Slot : call' = [call EXCEPT ![k] = c] /\ call[k] = NoCall
      BY <1>5 DEF Send
    <2>2. c.tab = t /\ c.op = op /\ c.name = u /\ NoCall.op = "none"
      BY DEF NoCall
    <2> HIDE DEF c
    <2>3. call'[k] = c /\ \A i \in Slot \ {k} : call'[i] = call[i]
      BY <1>1, <2>1
    <2>4. UNCHANGED <<store, storage>>
      BY <1>5 DEF Send
    <2>5. CASE op # "login"
      <3>1. \A i \in Slot : Alike(call'[i], call[i])
        BY <2>1, <2>2, <2>3, <2>5 DEF Alike
      <3> QED BY <2>4, <3>1, StutteringSteps
    <2>6. CASE op = "login"
      <3>1. \A i \in Slot \ {k}, r \in Tab :
              (Asks(i, r)' <=> Asks(i, r)) /\ (Asks(i, r) => call'[i].name = call[i].name)
        BY <2>3 DEF Asks
      <3>2. \A r \in Tab : ~Asks(k, r) /\ (Asks(k, r)' <=> r = t)
        BY <2>1, <2>2, <2>3, <2>6 DEF Asks
      <3>3. \A r \in Tab \ {t} : \A v : v \in Asking'[r] <=> v \in Asking[r]
        BY <3>1, <3>2, AskingNames
      <3>4. \A v : v \in Asking'[t] <=> v \in Asking[t] \/ v = u
        BY <2>2, <2>3, <3>1, <3>2, AskingNames
      <3>5. Asking = [r \in Tab |-> Asking[r]] /\ Asking' = [r \in Tab |-> Asking'[r]]
        BY DEF Asking
      <3>6. Asking'[t] = Asking[t] \cup {u} /\ \A r \in Tab \ {t} : Asking'[r] = Asking[r]
        BY <3>3, <3>4
      <3>7. Asking' = [Asking EXCEPT ![t] = @ \cup {u}]
        BY <3>5, <3>6
      <3>8. UNCHANGED <<Held, storage.token>> /\ u \in Someone
        BY <1>5, <2>4, <2>6 DEF Held, Someone
      <3> QED BY <3>7, <3>8, AbstractAsk
    <2> QED BY <2>5, <2>6
  <1>6. CASE \/ \E u \in Username : SubmitLogin(t, u)
             \/ \E m \in Email : SubmitJoin(t, m)
             \/ CheckUsername(t) \/ SubmitProfile(t) \/ SubmitPassword(t)
    BY <1>5, <1>6 DEF SubmitLogin, SubmitJoin, CheckUsername, SubmitProfile, SubmitPassword
  <1>7. CASE \/ \E u \in Username : TypeUsername(t, u)
             \/ \E m \in Email : EditEmail(t, m)
    <2>1. UNCHANGED <<store, storage, call>>
      BY <1>7 DEF TypeUsername, EditEmail
    <2> QED BY <2>1, StutteringSteps DEF Alike
  <1> QED BY <1>2, <1>3, <1>4, <1>6, <1>7 DEF MemberActs

(* What an answer or a timer does to sessions: it signs in the member it   *)
(* was asked to, signs out, publishes what the tab holds, or gives up.     *)
LEMMA SettledSessions ==
  ASSUME SessionInv, NEW k \in Slot, NEW t \in Tab, Settle(k, t)
  PROVE  [BrowserSessions!Next]_(BrowserSessions!sessionVars)
  <1>1. /\ TypeOK /\ call \in [Slot -> Call] /\ Ended(k) \in [Slot -> Call] /\ NoTab \notin Tab
        /\ Pages = {"home", "login", "join", "profile", "changepassword"}
        /\ Ended(k)[k] = NoCall /\ \A i \in Slot \ {k} : Ended(k)[i] = call[i]
    BY EndedCalls, ClientAssumption DEF SessionInv, TypeOK, Pages
  <1>2. call[k].tab = t /\ call[k].name \in Someone /\ NoCall.tab = NoTab /\ NoCall.op = "none"
    BY <1>1 DEF Settle, LoginAnswer, CheckAnswer, JoinAnswer, ProfileAnswer, PasswordAnswer,
                Unauthorized, Failed, Timeout, Has, Call, NoCall
  <1>3. ASSUME NEW p \in Pages, NEW s \in Session, Moved(t, p, s, Ended(k))
        PROVE  Asking' \in {Asking, [Asking EXCEPT ![t] = @ \ {call[k].name}]}
    <2>1. \A i \in Slot : Alike(call'[i], Ended(k)[i])
      BY <1>1, <1>3, MovedAsks
    <2>2. \A i \in Slot \ {k} : Alike(call'[i], call[i])
      BY <1>1, <2>1
    <2>3. call'[k].tab \notin Tab \/ call'[k].op # "login"
      BY <1>1, <1>2, <2>1 DEF Alike
    <2> QED BY <1>2, <2>2, <2>3, AskingSettled
  <1>4. ASSUME call' = Ended(k)
        PROVE  Asking' \in {Asking, [Asking EXCEPT ![t] = @ \ {call[k].name}]}
    <2>1. \A i \in Slot \ {k} : Alike(call'[i], call[i])
      BY <1>1, <1>4 DEF Alike
    <2>2. call'[k].op # "login"
      BY <1>1, <1>2, <1>4
    <2> QED BY <1>2, <2>1, <2>2, AskingSettled
  <1>5. CASE LoginAnswer(k, t)
    <2> DEFINE s == SignedIn(call[k].name, call[k].mail)
    <2>1. /\ call[k].op = "login"
          /\ store' = [store EXCEPT ![t] = s] /\ storage' = s
          /\ Push(t, "home", s, Ended(k))
      BY <1>5 DEF LoginAnswer, Has
    <2>2. s \in Session /\ s.token = call[k].name
      <3>1. call[k].name \in Username /\ call[k].mail \in Mail
        BY <1>1, <2>1 DEF SessionInv, CallsFilled, Filled, Call
      <3> QED BY <3>1, Shapes DEF SignedIn
    <2> HIDE DEF s
    <2>3. Moved(t, "home", s, Ended(k))
      BY <1>1, <2>1, <2>2, PushMoves
    <2>4. Asking' \in {Asking, [Asking EXCEPT ![t] = @ \ {call[k].name}]}
      BY <1>1, <1>3, <2>2, <2>3
    <2>5. call[k].name \in Asking[t]
      BY <1>2, <2>1, AskingNames DEF Asks
    <2>6. Held' = [Held EXCEPT ![t] = call[k].name] /\ storage'.token = call[k].name
      BY <2>1, <2>2, HeldChanges
    <2> QED BY <1>2, <2>4, <2>5, <2>6, AbstractSignIn
  <1>6. CASE Unauthorized(k, t)
    <2> DEFINE s == LoggedOut(blank[t])
    <2>1. Push(t, "login", s, Ended(k)) /\ Logout(t)
      BY <1>6 DEF Unauthorized
    <2>2. storage' = NoSession /\ store' = [store EXCEPT ![t] = s] /\ s \in Session /\ s.token = NoOne
      BY <2>1, LogoutSessions DEF Logout
    <2> HIDE DEF s
    <2>3. Moved(t, "login", s, Ended(k))
      BY <1>1, <2>1, <2>2, PushMoves
    <2>4. Asking' \in {Asking, [Asking EXCEPT ![t] = @ \ {call[k].name}]}
      BY <1>1, <1>3, <2>2, <2>3
    <2>5. Held' = [Held EXCEPT ![t] = NoOne] /\ storage'.token = NoOne
      BY <2>2, HeldChanges, NobodysSession
    <2> QED BY <1>2, <2>4, <2>5, AbstractSignOut
  <1>7. CASE JoinAnswer(k, t) \/ PasswordAnswer(k, t)
    <2>1. PICK p \in Pages : Push(t, p, store[t], Ended(k)) /\ UNCHANGED <<store, storage>>
      BY <1>1, <1>7 DEF JoinAnswer, PasswordAnswer
    <2>2. Moved(t, p, store[t], Ended(k))
      BY <1>1, <2>1, KeptSession, PushMoves
    <2>3. Asking' \in {Asking, [Asking EXCEPT ![t] = @ \ {call[k].name}]}
      BY <1>3, <2>2, KeptSession
    <2>4. UNCHANGED <<Held, storage.token>>
      BY <2>1 DEF Held
    <2> QED BY <1>2, <2>3, <2>4, AbstractGiveUp
  <1>8. CASE CheckAnswer(k, t) \/ Failed(k, t) \/ Timeout(k, t)
    <2>1. UNCHANGED <<store, storage>>
      BY <1>8 DEF CheckAnswer, Failed, Timeout
    <2>2. \A i \in Slot \ {k} : call'[i] = call[i]
      BY <1>1, <1>8 DEF CheckAnswer, Failed, Timeout
    <2>3. call'[k].tab = NoTab
      <3>1. CASE call' = Ended(k)
        BY <1>1, <1>2, <3>1
      <3>2. CASE call' = [call EXCEPT ![k] = [@ EXCEPT !.tab = NoTab, !.mounted = FALSE]]
        <4>1. call'[k] = [call[k] EXCEPT !.tab = NoTab, !.mounted = FALSE] /\ call[k] \in Call
          BY <1>1, <3>2
        <4> QED BY <4>1 DEF Call
      <3>3. call' = Ended(k) \/ call' = [call EXCEPT ![k] = [@ EXCEPT !.tab = NoTab, !.mounted = FALSE]]
        BY <1>8 DEF CheckAnswer, Failed, Timeout, Ended
      <3> QED BY <3>1, <3>2, <3>3
    <2>4. Asking' \in {Asking, [Asking EXCEPT ![t] = @ \ {call[k].name}]}
      <3>1. \A i \in Slot \ {k} : Alike(call'[i], call[i])
        BY <2>2 DEF Alike
      <3> QED BY <1>1, <1>2, <2>3, <3>1, AskingSettled
    <2>5. UNCHANGED <<Held, storage.token>>
      BY <2>1 DEF Held
    <2> QED BY <1>2, <2>4, <2>5, AbstractGiveUp
  <1>9. CASE ProfileAnswer(k, t)
    <2>1. PICK m : /\ store' = [store EXCEPT ![t].mail = m]
                   /\ storage' = [store[t] EXCEPT !.mail = m]
      BY <1>9 DEF ProfileAnswer, ChangeProfile
    <2>2. storage'.token = store[t].token /\ \A r \in Tab : store'[r].token = store[r].token
      BY <1>1, <2>1 DEF TypeOK, Session
    <2>3. Held' = Held /\ storage'.token = Held[t]
      BY <2>2 DEF Held
    <2>4. call' = Ended(k) /\ call[k].op = "update"
      BY <1>9 DEF ProfileAnswer, Has
    <2>5. \A i \in Slot : Alike(call'[i], call[i])
      BY <1>1, <1>2, <2>4 DEF Alike
    <2> QED BY <2>3, <2>5, AskingSame, AbstractPublish
  <1> QED BY <1>5, <1>6, <1>7, <1>8, <1>9 DEF Settle

(* The server and the network touch no session.                            *)
LEMMA ServedSessions ==
  ASSUME SessionInv, NEW k \in Slot, Serve(k) \/ Lost(k)
  PROVE  UNCHANGED BrowserSessions!sessionVars
  <1>1. call \in [Slot -> Call] /\ NoTab \notin Tab /\ call[k] \in Call
    BY ClientAssumption DEF SessionInv, TypeOK
  <1>2. UNCHANGED <<store, storage>>
    BY DEF Serve, Lost
  <1>3. PICK a, m : call' = [call EXCEPT ![k] = IF @.tab = NoTab THEN NoCall
                                                ELSE [@ EXCEPT !.answer = a, !.mail = m]]
    BY DEF Serve, Lost, Answered, Ended
  <1>4. ASSUME NEW i \in Slot PROVE Alike(call'[i], call[i])
    <2>1. CASE i # k
      BY <1>1, <1>3, <2>1 DEF Alike
    <2>2. CASE i = k /\ call[k].tab = NoTab
      BY <1>1, <1>3, <2>2 DEF Alike, NoCall
    <2>3. CASE i = k /\ call[k].tab # NoTab
      <3>1. call'[k] = [call[k] EXCEPT !.answer = a, !.mail = m]
        BY <1>1, <1>3, <2>3
      <3> QED BY <1>1, <2>3, <3>1 DEF Alike, Call
    <2> QED BY <2>1, <2>2, <2>3
  <1> QED BY <1>2, <1>4, StutteringSteps

(* What the tabs start with is what the storage holds, or nothing.         *)
LEMMA SessionsStart == Init => BrowserSessions!Init
  <1> SUFFICES ASSUME Init PROVE BrowserSessions!Init
    OBVIOUS
  <1>1. storage.token \in Someone
    BY DEF Init, NoSession, SignedIn, Someone
  <1>2. \A t \in Tab : Held[t] \in {storage.token, NoOne}
    BY NobodysSession DEF Init, Held, Loaded
  <1>3. ASSUME NEW t \in Tab PROVE Asking[t] = {}
    <2>1. \A i \in Slot : ~Asks(i, t)
      BY DEF Init, Asks, NoCall
    <2> QED BY <2>1, AskingNames
  <1>4. Asking = [t \in Tab |-> {}]
    BY <1>3 DEF Asking
  <1>5. Held \in [Tab -> {storage.token, NoOne}]
    BY <1>2 DEF Held
  <1> QED BY <1>1, <1>4, <1>5 DEF BrowserSessions!Init, Held, Asking, Someone

(* A tab becomes a member's only by a login of that member asked for in    *)
(* that tab, or by a page load while the storage names the member; and no  *)
(* late answer, refusal or profile update makes it anybody else's.         *)
THEOREM BrowserRefinement == Spec => ImplementsBrowserSession
  <1>1. SessionInv /\ [Next]_vars => [BrowserSessions!Next]_(BrowserSessions!sessionVars)
    <2> SUFFICES ASSUME SessionInv, [Next]_vars
                 PROVE  [BrowserSessions!Next]_(BrowserSessions!sessionVars)
      OBVIOUS
    <2>1. ASSUME NEW t \in Tab, MemberActs(t)
          PROVE  [BrowserSessions!Next]_(BrowserSessions!sessionVars)
      BY <2>1, MemberSessions
    <2>2. ASSUME NEW t \in Tab, Arrive(t) PROVE UNCHANGED BrowserSessions!sessionVars
      <3>1. TypeOK /\ UNCHANGED <<store, storage>>
        BY <2>2 DEF SessionInv, Arrive
      <3>2. CASE Mount(t, going[t], store[t], call)
        <4>1. going[t] \in Pages /\ call \in [Slot -> Call]
          BY <2>2, <3>1 DEF Arrive, TypeOK
        <4>2. Moved(t, going[t], store[t], call)
          BY <3>1, <3>2, <4>1, KeptSession, MountMoves
        <4>3. \A i \in Slot : Alike(call'[i], call[i])
          BY <4>1, <4>2, KeptSession, MovedAsks
        <4> QED BY <3>1, <4>3, StutteringSteps
      <3>3. CASE call' = call
        BY <3>1, <3>3, StutteringSteps DEF Alike
      <3> QED BY <2>2, <3>2, <3>3 DEF Arrive
    <2>3. ASSUME NEW k \in Slot, NEW t \in Tab, Settle(k, t)
          PROVE  [BrowserSessions!Next]_(BrowserSessions!sessionVars)
      BY <2>3, SettledSessions
    <2>4. ASSUME NEW k \in Slot, Serve(k) \/ Lost(k) PROVE UNCHANGED BrowserSessions!sessionVars
      BY <2>4, ServedSessions
    <2>5. CASE Rest \/ UNCHANGED vars
      <3>1. UNCHANGED <<store, storage, call>>
        BY <2>5 DEF Rest, vars
      <3> QED BY <3>1, StutteringSteps DEF Alike
    <2> QED BY <2>1, <2>2, <2>3, <2>4, <2>5 DEF Next
  <1> QED BY <1>1, SessionsStart, SessionsInOrder, PTL
       DEF Spec, ImplementsBrowserSession, BrowserSessions!Spec

=============================================================================
