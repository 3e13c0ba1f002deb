------------------------------ MODULE WebClient ------------------------------
(***************************************************************************)
(* The bundled web client (src/main/webapp/resources/assets): tabs of one  *)
(* browser, each with the auth store in memory, a router and one page, and *)
(* the localStorage they share.  Its requests are asynchronous: what is    *)
(* behind an await runs when the answer arrives, whatever the member has   *)
(* done meanwhile.                                                         *)
(*                                                                         *)
(* The server is the one the client was written for, with the answers that *)
(* its code tells apart: it may refuse any request, and what it has done   *)
(* stays done when the answer comes too late.  Passwords, avatars and      *)
(* error texts are left out; a token is the member it was issued to.       *)
(***************************************************************************)
EXTENDS Naturals

CONSTANTS
  Tab,       \* tabs of the browser
  NoTab,     \* no tab waits for the answer
  Build,     \* Build[t]: which of the three bundles tab t has loaded
  Username, NoOne,
  Email, NoMail,
  Account,   \* Account[u]: the e-mail of u at the start, NoMail without account
  Slot,      \* bound: requests under way at a time
  MaxActs    \* bound: what the member does during the run

ASSUME ClientAssumption ==
  /\ NoTab \notin Tab
  /\ Build \in [Tab -> {"first", "previous", "current"}]
  /\ \E t \in Tab : Build[t] # "first"
  /\ NoOne \notin Username
  /\ NoMail \notin Email
  /\ Account \in [Username -> Email \cup {NoMail}]
  /\ MaxActs \in Nat

VARIABLES
  page,      \* page[t]: the page that is mounted
  going,     \* going[t]: the page a pending navigation leads to, or "none"
  form,      \* form[t]: the fields of the mounted page
  store,     \* store[t]: state of the auth store
  blank,     \* blank[t]: e-mail in the user object of a logged-out state
  storage,   \* localStorage "auth"
  call,      \* requests under way
  account,   \* the server's e-mail of each member
  acts,      \* how much the member has done
  saved,     \* history: e-mails the server ever had of each member
  said,      \* history: usernames the server has called free
  overtaken  \* history: a form or session changed under a waiting request

vars == <<page, going, form, store, blank, storage, call, account, acts,
          saved, said, overtaken>>
history == <<saved, said>>

Pages == {"home", "login", "join", "profile", "changepassword"}

(* The first bundle has no page but home, and no store.                    *)
PagesOf(build) == IF build = "first" THEN {"home"} ELSE Pages

Someone == Username \cup {NoOne}
Mail == Email \cup {NoMail}

Session == [token : Someone, name : Someone, mail : Mail]
NoSession == [token |-> NoOne, name |-> NoOne, mail |-> NoMail]
SignedIn(u, m) == [token |-> u, name |-> u, mail |-> m]

(* {...zo}: a shallow copy, so the user object in it is always the same.   *)
LoggedOut(m) == [NoSession EXCEPT !.mail = m]

Form == [name : Someone, mail : Mail, free : BOOLEAN]

(* A request; mounted: the page that sent it is still there, kept: what    *)
(* its e-mail field held when it went.                                     *)
Call == [tab : Tab \cup {NoTab}, op : {"none", "login", "check", "create", "update", "password"},
         name : Someone, mail : Mail, token : Someone, mounted : BOOLEAN, kept : Mail,
         answer : {"none", "ok", "free", "unauthorized", "error"}]

NoCall == [tab |-> NoTab, op |-> "none", name |-> NoOne, mail |-> NoMail, token |-> NoOne,
           mounted |-> FALSE, kept |-> NoMail, answer |-> "none"]

-----------------------------------------------------------------------------
(* Pages and the router.                                                   *)

(* setup() of page p, in a tab whose store holds s.                        *)
Setup(p, s) ==
  [name |-> IF p \in {"profile", "changepassword"} THEN s.name ELSE NoOne,
   mail |-> IF p = "profile" THEN s.mail ELSE NoMail,
   free |-> FALSE]

(* What is behind an await of page t still runs when the page is gone.     *)
Unmounted(f, t) ==
  [i \in Slot |-> IF f[i].tab = t /\ f[i].mounted
                    THEN [f[i] EXCEPT !.mounted = FALSE, !.kept = form[t].mail]
                    ELSE f[i]]

Mount(t, p, s, f) ==
  /\ page' = [page EXCEPT ![t] = p]
  /\ going' = [going EXCEPT ![t] = "none"]
  /\ form' = [form EXCEPT ![t] = Setup(p, s)]
  /\ call' = Unmounted(f, t)

(* router.push: a newer navigation cancels a pending one; the route one is *)
(* on is not mounted again; any page but home may first have to be loaded. *)
Push(t, p, s, f) ==
  \/ /\ p # page[t]
     /\ Mount(t, p, s, f)
  \/ /\ going' = [going EXCEPT ![t] = IF p = page[t] THEN "none" ELSE p]
     /\ p = page[t] \/ p # "home"
     /\ call' = f
     /\ UNCHANGED <<page, form>>

(* Mutant: a navigation that was cancelled meanwhile is carried out.       *)
ArriveCancelled(t) ==
  /\ Mount(t, going[t], store[t], call)
  /\ UNCHANGED <<store, blank, storage, account, acts, history, overtaken>>

(* The chunk of the page has arrived, or has failed to.                    *)
Arrive(t) ==
  /\ going[t] # "none"
  /\ \/ Mount(t, going[t], store[t], call)
     \/ /\ going' = [going EXCEPT ![t] = "none"]
        /\ UNCHANGED <<page, form, call>>
  /\ UNCHANGED <<store, blank, storage, account, acts, history, overtaken>>

Act == acts < MaxActs /\ acts' = acts + 1

(* The member follows a link or goes back.                                 *)
Go(t, p) ==
  /\ Act
  /\ p \in PagesOf(Build[t]) \ {page[t]}
  /\ Push(t, p, store[t], call)
  /\ UNCHANGED <<store, blank, storage, account, history, overtaken>>

-----------------------------------------------------------------------------
(* The auth store.                                                         *)

Waiting(t, op) == \E i \in Slot : call[i].tab = t /\ call[i].op = op

(* A change that a request of t is not prepared for.                       *)
Overtaking(t, op) == overtaken' = (overtaken \/ Waiting(t, op))

(* load(): what a store that is set up finds in localStorage.              *)
Loaded(t) == IF Build[t] = "first" THEN NoSession ELSE storage

(* A page load: memory is new, and nobody waits for answers.               *)
Reload(t, p) ==
  /\ Act
  /\ p \in PagesOf(Build[t])
  /\ store' = [store EXCEPT ![t] = Loaded(t)]
  /\ blank' = [blank EXCEPT ![t] = NoMail]
  /\ page' = [page EXCEPT ![t] = p]
  /\ going' = [going EXCEPT ![t] = "none"]
  /\ form' = [form EXCEPT ![t] = Setup(p, Loaded(t))]
  /\ call' = [i \in Slot |->
       IF call[i].tab # t THEN call[i]
       ELSE IF call[i].answer = "none" THEN [call[i] EXCEPT !.tab = NoTab, !.mounted = FALSE]
       ELSE NoCall]
  /\ UNCHANGED <<storage, account, history, overtaken>>

(* Mutant: the storage is left alone.                                      *)
LogoutInMemory(t) ==
  /\ store' = [store EXCEPT ![t] = LoggedOut(blank[t])]
  /\ UNCHANGED <<storage, blank>>
  /\ Overtaking(t, "update")

Logout(t) ==
  /\ storage' = NoSession
  /\ store' = [store EXCEPT ![t] = LoggedOut(blank[t])]
  /\ Overtaking(t, "update")
  /\ UNCHANGED blank

(* The item of the menu, which is there when somebody is logged in.        *)
LogoutMenuItem(t) ==
  /\ Act
  /\ store[t].name # NoOne
  /\ Logout(t)
  /\ Push(t, "home", LoggedOut(blank[t]), call)
  /\ UNCHANGED <<account, history>>

(* A ref writes through to the object that was put into it, so what a      *)
(* logged-out state is given stays with every later one of the tab.  A     *)
(* logged-out state that was parsed from the storage has an object of its  *)
(* own; it is told by the e-mail with which it was stored.                 *)
WrittenThrough(t, m) ==
  IF store[t] = LoggedOut(blank[t]) THEN [blank EXCEPT ![t] = m] ELSE blank

ChangeProfile(t, m) ==
  /\ store' = [store EXCEPT ![t].mail = m]
  /\ storage' = [store[t] EXCEPT !.mail = m]
  /\ blank' = WrittenThrough(t, m)

-----------------------------------------------------------------------------
(* Sending.                                                                *)

(* The request interceptor reads the token when the request leaves.        *)
Send(t, op, u, m) ==
  /\ Act
  /\ \E i \in Slot :
       /\ call[i] = NoCall
       /\ call' = [call EXCEPT ![i] =
            [NoCall EXCEPT !.tab = t, !.op = op, !.name = u, !.mail = m,
                           !.token = store[t].token, !.mounted = TRUE]]
  /\ UNCHANGED <<page, going, store, blank, storage, account, history>>

(* The button of the login page sends what its fields hold.                *)
SubmitLogin(t, u) ==
  /\ page[t] = "login"
  /\ Send(t, "login", u, NoMail)
  /\ UNCHANGED <<form, overtaken>>

(* Typing another ID asks for another check.                               *)
TypeUsername(t, u) ==
  /\ Act
  /\ page[t] = "join"
  /\ form' = [form EXCEPT ![t].name = u, ![t].free = FALSE]
  /\ Overtaking(t, "check")
  /\ UNCHANGED <<page, going, store, blank, storage, call, account, history>>

CheckUsername(t) ==
  /\ page[t] = "join"
  /\ form[t].name # NoOne
  /\ Send(t, "check", form[t].name, NoMail)
  /\ UNCHANGED <<form, overtaken>>

(* Mutant: the button is not disabled.                                     *)
SubmitJoinUnchecked(t, m) ==
  /\ page[t] = "join"
  /\ form[t].name # NoOne
  /\ Send(t, "create", form[t].name, m)
  /\ UNCHANGED <<form, overtaken>>

SubmitJoin(t, m) ==
  /\ page[t] = "join"
  /\ form[t].free
  /\ Send(t, "create", form[t].name, m)
  /\ UNCHANGED <<form, overtaken>>

EditEmail(t, m) ==
  /\ Act
  /\ page[t] = "profile"
  /\ form' = [form EXCEPT ![t].mail = m]
  /\ Overtaking(t, "update")
  /\ UNCHANGED <<page, going, store, blank, storage, call, account, history>>

SubmitProfile(t) ==
  /\ page[t] = "profile"
  /\ form[t].mail # NoMail
  /\ Send(t, "update", form[t].name, form[t].mail)
  /\ UNCHANGED <<form, overtaken>>

(* The previous bundle's authApi has no changePassword: the call throws    *)
(* before anything is sent.                                                *)
SubmitPassword(t) ==
  /\ page[t] = "changepassword"
  /\ Build[t] = "current"
  /\ Send(t, "password", form[t].name, NoMail)
  /\ UNCHANGED <<form, overtaken>>

-----------------------------------------------------------------------------
(* The server.                                                             *)

(* What the server may answer to c, refusals apart.                        *)
Accepts(c, answer, m) ==
  CASE c.op = "login"    -> account[c.name] # NoMail /\ answer = "ok" /\ m = account[c.name]
    [] c.op = "check"    -> answer = (IF account[c.name] = NoMail THEN "free" ELSE "ok") /\ m = c.mail
    [] c.op = "create"   -> account[c.name] = NoMail /\ answer = "ok" /\ m = c.mail
    [] c.op = "update"   -> c.token # NoOne /\ answer = "ok" /\ m = c.mail
    [] c.op = "password" -> c.token # NoOne /\ answer = "ok" /\ m = c.mail
    [] OTHER -> FALSE

Writes(c) == c.op \in {"create", "update"}

(* A request nobody waits for any more is done all the same.               *)
Answered(i, answer, m) ==
  call' = [call EXCEPT ![i] = IF @.tab = NoTab THEN NoCall
                              ELSE [@ EXCEPT !.answer = answer, !.mail = m]]

Serve(i) ==
  LET c == call[i] IN
  /\ c.op # "none" /\ c.answer = "none"
  /\ \/ \E answer \in {"ok", "free"}, m \in Mail :
          /\ Accepts(c, answer, m)
          /\ Answered(i, answer, m)
          /\ account' = IF Writes(c) THEN [account EXCEPT ![c.name] = m] ELSE account
          /\ saved' = IF Writes(c) THEN [saved EXCEPT ![c.name] = @ \cup {m}] ELSE saved
          /\ said' = IF answer = "free" THEN said \cup {c.name} ELSE said
     \/ /\ \E answer \in {"unauthorized", "error"} : Answered(i, answer, c.mail)
        /\ UNCHANGED <<account, history>>
  /\ UNCHANGED <<page, going, form, store, blank, storage, acts, overtaken>>

-----------------------------------------------------------------------------
(* Answers.                                                                *)

Ended(i) == [call EXCEPT ![i] = NoCall]

(* Slot i has the answer to a request of tab t.                            *)
Has(i, t, op, answer) ==
  call[i].tab = t /\ call[i].op = op /\ call[i].answer = answer

(* Mutant: the answer of a login leaves the page where it is.              *)
LoginStays(i, t) ==
  LET s == SignedIn(call[i].name, call[i].mail) IN
  /\ Has(i, t, "login", "ok")
  /\ store' = [store EXCEPT ![t] = s]
  /\ storage' = s
  /\ Overtaking(t, "update")
  /\ call' = Ended(i)
  /\ UNCHANGED <<page, going, form, blank>>

(* login() of the store, then home, wherever the member is by now.         *)
LoginAnswer(i, t) ==
  LET s == SignedIn(call[i].name, call[i].mail) IN
  /\ Has(i, t, "login", "ok")
  /\ store' = [store EXCEPT ![t] = s]
  /\ storage' = s
  /\ Overtaking(t, "update")
  /\ Push(t, "home", s, Ended(i))
  /\ UNCHANGED blank

(* The answer is about the name that was sent, and is taken for the name   *)
(* that the field holds now.                                               *)
CheckAnswer(i, t) ==
  /\ Has(i, t, "check", "free") \/ Has(i, t, "check", "ok")
  /\ form' = IF call[i].mounted
             THEN [form EXCEPT ![t].free = call[i].answer = "free"] ELSE form
  /\ call' = Ended(i)
  /\ UNCHANGED <<page, going, store, blank, storage, overtaken>>

JoinAnswer(i, t) ==
  /\ Has(i, t, "create", "ok")
  /\ Push(t, "home", store[t], Ended(i))
  /\ UNCHANGED <<store, blank, storage, overtaken>>

(* Mutant: the profile changes whatever the answer is.                     *)
ProfileAnyAnswer(i, t) ==
  /\ Has(i, t, "update", "ok") \/ Has(i, t, "update", "error")
  /\ ChangeProfile(t, IF call[i].mounted THEN form[t].mail ELSE call[i].kept)
  /\ call' = Ended(i)
  /\ UNCHANGED <<page, going, form, overtaken>>

(* The store gets what the field holds now, not what was sent.             *)
ProfileAnswer(i, t) ==
  /\ Has(i, t, "update", "ok")
  /\ ChangeProfile(t, IF call[i].mounted THEN form[t].mail ELSE call[i].kept)
  /\ call' = Ended(i)
  /\ UNCHANGED <<page, going, form, overtaken>>

PasswordAnswer(i, t) ==
  /\ Has(i, t, "password", "ok")
  /\ Push(t, "profile", store[t], Ended(i))
  /\ UNCHANGED <<store, blank, storage, overtaken>>

(* Mutant: the tab signs in as the one whose request was refused.          *)
UnauthorizedRestores(i, t) ==
  /\ call[i].tab = t /\ call[i].answer = "unauthorized"
  /\ store' = [store EXCEPT ![t] = SignedIn(call[i].name, call[i].mail)]
  /\ storage' = NoSession
  /\ Overtaking(t, "update")
  /\ Push(t, "login", store[t], Ended(i))
  /\ UNCHANGED blank

(* The response interceptor: status 401 logs out whoever is logged in now. *)
Unauthorized(i, t) ==
  /\ call[i].tab = t /\ call[i].answer = "unauthorized"
  /\ Logout(t)
  /\ Push(t, "login", LoggedOut(blank[t]), Ended(i))

(* Any other error is shown on the page, or logged.                        *)
Failed(i, t) ==
  /\ call[i].tab = t /\ call[i].answer = "error"
  /\ call' = Ended(i)
  /\ UNCHANGED <<page, going, form, store, blank, storage, overtaken>>

(* Mutant: the timer ends only what has been answered.                     *)
TimeoutAnswered(i, t) ==
  /\ call[i].tab = t /\ call[i].answer # "none"
  /\ call' = Ended(i)
  /\ UNCHANGED <<page, going, form, store, blank, storage, overtaken>>

(* After a second without an answer, or when the network fails, the client *)
(* gives up; the server may have, or may yet get, the request.             *)
Timeout(i, t) ==
  /\ call[i].tab = t
  /\ call' = [call EXCEPT ![i] = IF @.answer = "none"
                                 THEN [@ EXCEPT !.tab = NoTab, !.mounted = FALSE] ELSE NoCall]
  /\ UNCHANGED <<page, going, form, store, blank, storage, overtaken>>

(* A request nobody waits for never reaches the server.                    *)
Lost(i) ==
  /\ call[i].tab = NoTab /\ call[i].op # "none"
  /\ call' = Ended(i)
  /\ UNCHANGED <<page, going, form, store, blank, storage, overtaken>>

Settle(i, t) ==
  /\ \/ LoginAnswer(i, t) \/ CheckAnswer(i, t) \/ JoinAnswer(i, t)
     \/ ProfileAnswer(i, t) \/ PasswordAnswer(i, t)
     \/ Unauthorized(i, t) \/ Failed(i, t) \/ Timeout(i, t)
  /\ UNCHANGED <<account, acts, history>>

-----------------------------------------------------------------------------
Init ==
  /\ storage \in {NoSession} \cup { SignedIn(u, Account[u]) : u \in { v \in Username : Account[v] # NoMail } }
  /\ store = [t \in Tab |-> Loaded(t)]
  /\ blank = [t \in Tab |-> NoMail]
  /\ page = [t \in Tab |-> "home"]
  /\ going = [t \in Tab |-> "none"]
  /\ form = [t \in Tab |-> Setup("home", NoSession)]
  /\ call = [i \in Slot |-> NoCall]
  /\ account = Account
  /\ acts = 0
  /\ saved = [u \in Username |-> {Account[u]} \ {NoMail}]
  /\ said = {}
  /\ overtaken = FALSE

(* The member has had enough, and no request is under way.                 *)
Rest ==
  /\ acts = MaxActs
  /\ \A i \in Slot : call[i] = NoCall
  /\ \A t \in Tab : going[t] = "none"
  /\ UNCHANGED vars

MemberActs(t) ==
  \/ \E p \in Pages : Go(t, p) \/ Reload(t, p)
  \/ LogoutMenuItem(t)
  \/ \E u \in Username : SubmitLogin(t, u) \/ TypeUsername(t, u)
  \/ \E m \in Email : SubmitJoin(t, m) \/ EditEmail(t, m)
  \/ CheckUsername(t) \/ SubmitProfile(t) \/ SubmitPassword(t)

Next ==
  \/ \E t \in Tab : MemberActs(t) \/ Arrive(t)
  \/ \E i \in Slot, t \in Tab : Settle(i, t)
  \/ \E i \in Slot : Serve(i) \/ (Lost(i) /\ UNCHANGED <<account, acts, history>>)
  \/ Rest

Spec == Init /\ [][Next]_vars

(* The browser fires the timer of a request that is not answered.          *)
FairSpec == Spec /\ \A i \in Slot, t \in Tab : WF_vars(Settle(i, t))

-----------------------------------------------------------------------------
(* Properties.                                                             *)

(* Every variable has the shape the client gives it.                       *)
TypeOK ==
  /\ page \in [Tab -> Pages]
  /\ going \in [Tab -> Pages \cup {"none"}]
  /\ form \in [Tab -> Form]
  /\ store \in [Tab -> Session]
  /\ blank \in [Tab -> Mail]
  /\ storage \in Session
  /\ call \in [Slot -> Call]
  /\ account \in [Username -> Mail]
  /\ acts \in 0 .. MaxActs
  /\ saved \in [Username -> SUBSET Email]
  /\ said \subseteq Username
  /\ overtaken \in BOOLEAN

(* A request that names a member never carries another member's token: the *)
(* name is read when the page is set up, the token when the request        *)
(* leaves, and sessions come and go in between by late answers.            *)
OwnToken ==
  \A i \in Slot : call[i].op \in {"update", "password"} =>
                    call[i].token \in {NoOne, call[i].name}

(* What a page load would restore is what some tab holds: no late answer   *)
(* writes a session to localStorage that was ended in its tab.             *)
StorageIsSomeTabs == storage = NoSession \/ \E t \in Tab : store[t] = storage

(* A tab never shows an e-mail that the server did not have of the member  *)
(* it names, and none of anybody when nobody is logged in, as long as no   *)
(* form was edited and no session changed under a waiting update.          *)
MailShownWasSaved ==
  ~overtaken => \A t \in Tab :
    IF store[t].name = NoOne THEN store[t].mail = NoMail
    ELSE store[t].mail \in saved[store[t].name]

(* A join is sent only for a username that the server has called free, as  *)
(* long as the field was not edited under a waiting check.                 *)
JoinChecked ==
  ~overtaken => \A i \in Slot : call[i].op = "create" => call[i].name \in said

(* Tabs and storage implement the abstract sessions of a browser.          *)
BrowserSessions ==
  INSTANCE BrowserSession WITH
    Member  <- Username,
    session <- [t \in Tab |-> store[t].token],
    stored  <- storage.token,
    asking  <- [t \in Tab |-> { call[i].name : i \in { j \in Slot : call[j].tab = t /\ call[j].op = "login" } }]
ImplementsBrowserSession == BrowserSessions!Spec

(* No tab waits for an answer for ever.                                    *)
EveryCallSettles ==
  \A i \in Slot : call[i].tab # NoTab ~> call[i].tab = NoTab

=============================================================================
