------------------------------- MODULE Accounts -------------------------------
(***************************************************************************)
(* Member accounts and the registry of wallets together, with deadlocks,   *)
(* lock-wait timeouts and crashes, and the properties of both.             *)
(***************************************************************************)
EXTENDS WalletRegistry, MemberAccount

CONSTANT Requests   \* what clients may send, besides the lists of OrderRequests

(* What a request brings; the client creates wallets of local currencies   *)
(* only.                                                                   *)
ASSUME RequestAssumption ==
  \A r \in Requests :
    /\ r.op \in {"join", "update", "leave", "create", "order", "remove", "move", "pay"}
    /\ r.username \in Username
    /\ r.op = "create" => r.currency \in Currency
    /\ r.op = "order" => \A w \in DOMAIN r.orders : r.orders[w] \in Int
    /\ r.op \in {"move", "pay"} => r.amount \in Int

(* The run starts from rows that the handlers could have left.             *)
ASSUME OpeningAssumption ==
  /\ \A m, n \in DOMAIN OpeningMember : OpeningMember[m] = OpeningMember[n] => m = n
  /\ \A v, w \in DOMAIN OpeningWallet :
       /\ OpeningWallet[v].owner = OpeningWallet[w].owner
       /\ \/ OpeningWallet[v].currency = OpeningWallet[w].currency
          \/ OpeningWallet[v].order = OpeningWallet[w].order
       => v = w

(* A list for "order" from the client's screen, which moves the wallets    *)
(* that it shows: their display orders in some arrangement.                *)
Arrangements(m) ==
  LET mine == LocalWallets(m)
  IN { f \in [mine -> { wallet[w].order : w \in mine }] : IsInjective(f) }

OrderRequests ==
  UNION { { [op |-> "order", username |-> member[m], orders |-> f] : f \in Arrangements(m) }
          : m \in DOMAIN member }

(* What no screen sends and the server does not refuse: a list of some of  *)
(* the member's wallets that does not arrange all of them, or a payment of *)
(* a negative amount.                                                      *)
Improper(r) ==
  \/ /\ r.op = "order"
     /\ \E m \in MembersOf(r.username) :
          /\ r.orders \notin Arrangements(m)
          /\ DOMAIN r.orders # {} /\ DOMAIN r.orders \subseteq LocalWallets(m)
  \/ r.op = "pay" /\ r.amount < 0

(* The requests that wait for nothing but a free thread; only joining is   *)
(* open to clients without a token.                                        *)
Receive(s, r) ==
  /\ pc[s] = "idle"
  /\ served < MaxRequests
  /\ pc' = [pc EXCEPT ![s] = IF r.op = "join" THEN "join" ELSE "auth"]
  /\ req' = [req EXCEPT ![s] = r]
  /\ reply' = [reply EXCEPT ![s] = "none"]
  /\ served' = served + 1
  /\ raced' = IF \E t \in Session \ {s} : Busy(t) /\ req[t].username = r.username
              THEN raced \cup {r.username} ELSE raced
  /\ improper' = IF Improper(r) THEN improper \cup {r.username} ELSE improper
  /\ UNCHANGED <<tables, lastId, locks, tx, seen, faults>>

Step(s) ==
  \/ Authenticate(s, req[s].op)
  \/ AccountStep(s)
  \/ RegistryStep(s)
  \/ Commit(s)

WaitsFor(s) ==
  CASE pc[s] = "updateRow" -> ScanWaitsFor(s)
    [] pc[s] = "leaveRow" -> LeaveWaitsFor(s)
    [] pc[s] = "createInsert" -> { t \in Session \ {s} : seen[s].id \in gap[t] }
    [] OTHER -> { t \in Session \ {s} : held[t] \cap Needs(s) # {} }

(* s is on a cycle of threads that wait for each other.                    *)
Deadlocked(s) ==
  \E T \in SUBSET Session :
    /\ s \in T
    /\ \A t \in T : WaitsFor(t) \cap T # {} /\ \E a \in T : t \in WaitsFor(a)

DeadlockAbort(s) ==
  /\ Deadlocked(s)
  /\ Refuse(s, "LOCK_FAILURE")

LockWaitTimeout(s) ==
  /\ WaitsFor(s) # {}
  /\ faults < MaxFaults
  /\ faults' = faults + 1
  /\ Released(s)
  /\ pc' = [pc EXCEPT ![s] = "idle"]
  /\ req' = [req EXCEPT ![s] = NoRequest]
  /\ reply' = [reply EXCEPT ![s] = "LOCK_FAILURE"]
  /\ UNCHANGED <<tables, lastId, served, raced, improper>>

(* The server process dies: open transactions are rolled back.             *)
Crash ==
  /\ faults < MaxFaults
  /\ faults' = faults + 1
  /\ \E s \in Session : Busy(s)
  /\ held' = [s \in Session |-> {}]
  /\ gap' = [s \in Session |-> {}]
  /\ tx' = [s \in Session |-> NoWork]
  /\ seen' = [s \in Session |-> NothingSeen]
  /\ pc' = [s \in Session |-> "idle"]
  /\ req' = [s \in Session |-> NoRequest]
  /\ reply' = [s \in Session |-> IF Busy(s) THEN "CONNECTION_LOST" ELSE reply[s]]
  /\ UNCHANGED <<tables, lastId, served, raced, improper>>

(* Every request of the bound has been answered: the run may stop.         *)
Drained ==
  /\ \A s \in Session : ~Busy(s)
  /\ served = MaxRequests
  /\ UNCHANGED vars

Next ==
  \/ \E s \in Session :
       \/ \E r \in Requests \cup OrderRequests : Receive(s, r)
       \/ Step(s)
       \/ DeadlockAbort(s)
       \/ LockWaitTimeout(s)
  \/ Crash
  \/ Drained

Fairness ==
  /\ \A s \in Session : WF_vars(Step(s))
  /\ WF_vars(\E s \in Session : DeadlockAbort(s))

Spec == Init /\ [][Next]_vars
FairSpec == Spec /\ Fairness

-----------------------------------------------------------------------------
(* Properties.                                                             *)

Answers(s, answer) == Busy(s) /\ pc'[s] = "idle" /\ reply'[s] = answer

(* Every variable has the shape the tables and the handlers give it, and   *)
(* every wallet has a member (its foreign key).                            *)
TypeOK ==
  /\ \A m \in DOMAIN member : m \in 1 .. lastId /\ member[m] \in Username
  /\ \A w \in DOMAIN wallet : /\ w \in 1 .. lastId
                              /\ wallet[w] \in WalletRow
                              /\ wallet[w].owner \in DOMAIN member
  /\ \A s \in Session : held[s] \subseteq DOMAIN wallet /\ gap[s] \subseteq 1 .. lastId
  /\ raced \cup improper \subseteq Username

(* Money is never deleted: a wallet disappears only while no statement row *)
(* refers to it and nothing is left in it, whatever happens between the    *)
(* balance check of deleteWallet and its DELETE.  Transactions leave a row *)
(* with every change; GENERAL payments, which change the balance first,    *)
(* only take from it, unless the member pays a negative amount.            *)
MoneyNeverDeleted ==
  [][\A w \in DOMAIN wallet \ DOMAIN wallet' :
       /\ ~wallet[w].used
       /\ wallet[w].balance <= 0 \/ member[wallet[w].owner] \in improper]_vars

(* Joining is whole: a member appears together with one CASH wallet, in    *)
(* spite of crashes (join is one transaction around createWallet).         *)
JoinIsWhole ==
  [][\A m \in DOMAIN member' \ DOMAIN member :
       Cardinality({ w \in WalletsOf(wallet', m) : wallet'[w].cash }) = 1]_vars

(* After deleteWallet the member's wallets are numbered from 1 without     *)
(* gaps, even when wallets are created, ordered or deleted at the same     *)
(* time (reorderDisplayOrder locks what it reads).                         *)
NumberedAfterDelete ==
  [][\A s \in Session :
       Answers(s, "ok") /\ req[s].op = "remove" =>
         LET left == WalletsOf(wallet', seen[s].id)
         IN { wallet'[w].order : w \in left } = 1 .. Cardinality(left)]_vars

(* Wallets of a member are in different places, unless two of the member's *)
(* requests were in service at once or the member sent an improper list:   *)
(* createWallet takes the highest order it has read plus one, deleteWallet *)
(* renumbers, and a list of all wallets permutes (updateWalletOrder        *)
(* accepts partial lists and lists that repeat a place).                   *)
DistinctOrders ==
  \A v, w \in DOMAIN wallet :
    /\ v # w
    /\ wallet[v].owner = wallet[w].owner
    /\ wallet[v].order = wallet[w].order
    => member[wallet[v].owner] \in raced \cup improper

(* A member has one wallet per currency, with the same exception           *)
(* (createWallet's DUPLICATED_LOCAL_CURRENCY_WALLET).                      *)
OneWalletPerCurrency ==
  \A v, w \in DOMAIN wallet :
    /\ v # w
    /\ wallet[v].owner = wallet[w].owner
    /\ wallet[v].currency = wallet[w].currency
    => member[wallet[v].owner] \in raced

(* A username belongs to one member, with the same exception (join's       *)
(* DUPLICATED_USERNAME): two members of a name can never authenticate.     *)
UniqueUsernames ==
  \A m, n \in DOMAIN member : m # n /\ member[m] = member[n] => member[m] \in raced

(* Every request is answered, although reordering and deleting wallets     *)
(* lock several rows, in any order.                                        *)
EveryRequestAnswered == \A s \in Session : Busy(s) ~> ~Busy(s)

(* A member who asks to be deleted, with the right password, is deleted    *)
(* (MemberServiceImplTest.delete deletes a member that has just joined).   *)
MembersCanLeave ==
  [][\A s \in Session :
       ~(Answers(s, "INTERNAL_SERVER_ERROR") /\ pc[s] = "leaveRow")]_vars

=============================================================================
