----------------------------- MODULE AccountStore -----------------------------
(***************************************************************************)
(* The member and wallet tables as rows that come and go, the request      *)
(* threads that work on them, and their InnoDB transactions.  Neither      *)
(* table has a unique key besides its id; wallet.member_id refers to       *)
(* member, and the columns of the transaction table refer to wallet.       *)
(* Ids are random UUIDs: here the next number of a sequence.               *)
(***************************************************************************)
EXTENDS Integers, FiniteSets, Functions

CONSTANTS
  Session, NoRequest,              \* request threads, as in RequestThreads
  Username, Currency,              \* what clients may send
  NoCurrency,                      \* local_currency_id NULL, of CASH wallets
  OpeningMember,                   \* rows of member at the start of the run
  OpeningWallet,                   \* rows of wallet at the start of the run
  MaxRequests, MaxFaults           \* bounds, as in RequestThreads

(* A row of wallet; used: a row of transaction refers to it.               *)
WalletRow == [owner : Nat, currency : Currency \cup {NoCurrency}, cash : BOOLEAN,
              balance : Int, order : Int, used : BOOLEAN]

ASSUME AccountsAssumption ==
  /\ NoCurrency \notin Currency
  /\ IsFiniteSet(DOMAIN OpeningMember \cup DOMAIN OpeningWallet)
  /\ DOMAIN OpeningMember \cup DOMAIN OpeningWallet
       = 1 .. Cardinality(DOMAIN OpeningMember \cup DOMAIN OpeningWallet)
  /\ \A m \in DOMAIN OpeningMember : OpeningMember[m] \in Username
  /\ \A w \in DOMAIN OpeningWallet :
       OpeningWallet[w] \in WalletRow /\ OpeningWallet[w].owner \in DOMAIN OpeningMember
  /\ MaxRequests \in Nat /\ MaxFaults \in Nat

VARIABLES
  member,    \* member: username per id, committed rows
  wallet,    \* wallet: row per id, committed rows
  lastId,    \* the last id given to a row
  held,      \* wallet rows each thread has locked
  gap,       \* members whose wallet rows a thread has range-locked
  tx,        \* uncommitted rows of each thread's open transaction
  seen,      \* the member row, display order and CASH wallet a thread has read
  pc, req, reply, served, faults,  \* as in RequestThreads
  raced,     \* history: usernames that had two requests in service at once
  improper   \* history: usernames that sent what no screen of the client sends

tables == <<member, wallet>>
locks  == <<held, gap>>
vars == <<tables, lastId, locks, tx, seen, pc, req, reply, served, faults, raced, improper>>

NoRows == [i \in {} |-> 0]

NoWork == [member |-> NoRows, wallet |-> NoRows, gone |-> {}]
NothingSeen == [id |-> 0, order |-> 0, cash |-> 0]

(* The first of two tables' rows where both have the id.                   *)
Over(new, old) ==
  [i \in DOMAIN new \cup DOMAIN old |-> IF i \in DOMAIN new THEN new[i] ELSE old[i]]

(* The wallet rows as s would leave them if it committed now.              *)
Rows(s) == Restrict(Over(tx[s].wallet, wallet),
                    (DOMAIN tx[s].wallet \cup DOMAIN wallet) \ tx[s].gone)

MembersOf(u) == { m \in DOMAIN member : member[m] = u }
WalletsOf(f, m) == { w \in DOMAIN f : f[w].owner = m }
HighestOrder(f, m) ==
  LET orders == { f[w].order : w \in WalletsOf(f, m) } \cup {0}
  IN CHOOSE n \in orders : \A k \in orders : k <= n

-----------------------------------------------------------------------------
(* Threads.                                                                *)

Busy(s) == pc[s] # "idle"
At(s, op, label) == pc[s] = label /\ req[s].op = op

Goto(s, label) ==
  /\ pc' = [pc EXCEPT ![s] = label]
  /\ UNCHANGED <<req, reply, served, faults, raced, improper>>

Answer(s, answer) ==
  /\ pc' = [pc EXCEPT ![s] = "idle"]
  /\ req' = [req EXCEPT ![s] = NoRequest]
  /\ reply' = [reply EXCEPT ![s] = answer]
  /\ UNCHANGED <<served, faults, raced, improper>>

Released(s) ==
  /\ held' = [held EXCEPT ![s] = {}]
  /\ gap' = [gap EXCEPT ![s] = {}]
  /\ tx' = [tx EXCEPT ![s] = NoWork]
  /\ seen' = [seen EXCEPT ![s] = NothingSeen]

(* A handler ends without work to commit.                                  *)
Return(s, answer) ==
  /\ Released(s)
  /\ Answer(s, answer)
  /\ UNCHANGED <<tables, lastId>>

(* Mutant: the connection goes back to the pool with its transaction open. *)
RefuseHolding(s, error) ==
  /\ Answer(s, error)
  /\ UNCHANGED <<tables, lastId, locks, tx, seen>>

(* An exception leaves the handler: rolled back, and answered as an error. *)
Refuse(s, error) == Return(s, error)

(* The handler returns: its work becomes visible.                          *)
Commit(s) ==
  /\ pc[s] = "commit"
  /\ member' = Over(tx[s].member, member)
  /\ wallet' = Rows(s)
  /\ Released(s)
  /\ Answer(s, "ok")
  /\ UNCHANGED lastId

(* A SELECT: only what the thread knows changes.                           *)
Note(s, what) ==
  /\ seen' = [seen EXCEPT ![s] = what]
  /\ UNCHANGED <<tables, lastId, locks, tx>>

(* A statement of an open transaction that has the locks it needs.         *)
Work(s, rows, work) ==
  /\ held' = [held EXCEPT ![s] = @ \cup rows]
  /\ tx' = [tx EXCEPT ![s] = work]
  /\ UNCHANGED <<tables, lastId, gap, seen>>

Free(s, w) == \A t \in Session \ {s} : w \notin held[t]
GapFree(s, m) == \A t \in Session \ {s} : m \notin gap[t]

Init ==
  /\ member = OpeningMember
  /\ wallet = OpeningWallet
  /\ lastId = Cardinality(DOMAIN OpeningMember \cup DOMAIN OpeningWallet)
  /\ held = [s \in Session |-> {}]
  /\ gap = [s \in Session |-> {}]
  /\ tx = [s \in Session |-> NoWork]
  /\ seen = [s \in Session |-> NothingSeen]
  /\ pc = [s \in Session |-> "idle"]
  /\ req = [s \in Session |-> NoRequest]
  /\ reply = [s \in Session |-> "none"]
  /\ served = 0
  /\ faults = 0
  /\ raced = {}
  /\ improper = {}

=============================================================================
