----------------------------- MODULE WalletStore -----------------------------
(***************************************************************************)
(* The MySQL tables behind the wallets, and the InnoDB transactions that   *)
(* request threads run against them (REPEATABLE READ, the default: nothing *)
(* in the repository sets another level or uses FOR UPDATE).               *)
(*                                                                         *)
(* A transaction reads from the snapshot of its first SELECT, except rows  *)
(* it has itself updated; an UPDATE works on the current committed row     *)
(* under an exclusive row lock that is kept until commit or rollback.      *)
(* The transaction table is kept as what its readers compute from it: per  *)
(* owner wallet the signed sum of its rows, the after column of its latest *)
(* row and the CHARGE/INCOME sum per month of the year.                    *)
(***************************************************************************)
EXTENDS Effects, FiniteSets

CONSTANTS
  Session,     \* request threads, each with its own connection
  NoSession,   \* the holder of a free row lock
  NoRequest,   \* the request of an idle thread
  Maximum,     \* Maximum[w]: monthly charge limit of the wallet's currency
  Badge,       \* NORMAL badges, one per region that has one
  NoBadge,     \* stands for a region without a badge
  BadgeOf,     \* BadgeOf[w]: badge of the region of the wallet's currency
  Bronze, Silver, Gold,   \* bronze_criteria, silver_criteria, gold_criteria
  MaxTime      \* bound: months that pass during the run

Grade == {"BRONZE", "SILVER", "GOLD"}

MonthsPerYear == 12
Month == 0 .. MonthsPerYear - 1
Time  == 0 .. MaxTime
MonthOf(t) == t % MonthsPerYear

(* The threads and their connections come from bounded pools.              *)
ASSUME PoolAssumption == IsFiniteSet(Session)

ASSUME StoreAssumption ==
  /\ NoSession \notin Session
  /\ NoRequest \notin Requests
  /\ Maximum \in [Wallet -> Nat]
  /\ NoBadge \notin Badge
  /\ BadgeOf \in [Wallet -> Badge \cup {NoBadge}]
  /\ Bronze \in Nat /\ Silver \in Nat /\ Gold \in Nat
  /\ 0 < Bronze /\ Bronze < Silver /\ Silver < Gold
  /\ MaxTime \in Nat

VARIABLES
  balance,         \* wallet.balance, committed
  totalPayment,    \* wallet.total_payment, committed
  posted,          \* signed sum of the committed rows a wallet owns
  lastAfter,       \* after_balance of the latest committed row it owns
  charged,         \* sum of its CHARGE/INCOME rows per month of the year
  merchantPosted,  \* sum of the committed rows without owner (merchant side)
  badges,          \* member_badge: rows per member, badge and grade
  lock,            \* holder of the exclusive lock on each wallet row
  tx,              \* uncommitted work of each thread's open transaction
  seen,            \* what a thread has read: its snapshot or earlier reads
  now,             \* months since the start of the run
  principal,       \* history: principal charged per wallet and month
  paid,            \* history: merchant amounts of the settled payments
  unposted         \* history: cash debited whose row is not inserted

committedVars == <<balance, totalPayment, posted, lastAfter, charged,
                   merchantPosted, badges, principal, paid, unposted>>
storeVars == <<committedVars, lock, tx, seen, now>>

-----------------------------------------------------------------------------
(* One transaction's uncommitted work.                                     *)

NoWork == [delta |-> Nothing, posts |-> Nothing, after |-> Nothing,
           merchant |-> 0, total |-> 0, charge |-> 0, at |-> 0, award |-> "none"]

WorkType ==
  [delta : [Wallet -> Int], posts : [Wallet -> Int], after : [Wallet -> Int],
   merchant : Int, total : Int, charge : Int, at : Time, award : Grade \cup {"none"}]

(* UPDATE wallet SET balance = balance + x: relative, so on the current row *)
Updated(t, w, x) == [t EXCEPT !.delta = Plus(t.delta, Leg(w, x))]

(* Mutant: the row's after column repeats its before column.               *)
InsertedStale(t, w, x, before) ==
  [t EXCEPT !.posts = Plus(t.posts, Leg(w, x)), !.after = [t.after EXCEPT ![w] = before]]

(* INSERT INTO transaction, a row owned by w; before and after come from   *)
(* the value object the code read earlier.                                 *)
Inserted(t, w, x, before) ==
  [t EXCEPT !.posts = Plus(t.posts, Leg(w, x)), !.after = [t.after EXCEPT ![w] = before + x]]

(* INSERT INTO transaction, the merchant's row: no owner, no balances.     *)
InsertedMerchant(t, x) == [t EXCEPT !.merchant = @ + x]

-----------------------------------------------------------------------------
(* Snapshots and locks.                                                    *)

NothingSeen == [balance |-> Nothing, total |-> 0, charged |-> [m \in Month |-> 0],
                held |-> [g \in Grade |-> 0]]

SeenType == [balance : [Wallet -> Int], total : Int, charged : [Month -> Int],
             held : [Grade -> Nat]]

HeldBy(r) == IF BadgeOf[r.from] = NoBadge THEN [g \in Grade |-> 0]
             ELSE badges[r.user][BadgeOf[r.from]]

(* The part of the committed state that request r reads.                   *)
Snapshot(r) == [balance |-> balance, total |-> totalPayment[r.from],
                charged |-> charged[r.to], held |-> HeldBy(r)]

(* A plain SELECT of w inside the transaction of s.                        *)
View(s, w) == IF lock[w] = s THEN balance[w] + tx[s].delta[w] ELSE seen[s].balance[w]

Free(s, w) == lock[w] \in {NoSession, s}
Lock(s, w) == /\ Free(s, w)
              /\ lock' = [lock EXCEPT ![w] = s]

Unlocked(s) == [w \in Wallet |-> IF lock[w] = s THEN NoSession ELSE lock[w]]

(* COMMIT: the work of s becomes visible and its locks are released.       *)
CommitWork(s, r) ==
  LET t == tx[s] IN
  /\ balance' = Plus(balance, t.delta)
  /\ posted' = Plus(posted, t.posts)
  /\ lastAfter' = [w \in Wallet |-> IF lock[w] = s THEN t.after[w] ELSE lastAfter[w]]
  /\ totalPayment' = [totalPayment EXCEPT ![r.from] = @ + t.total]
  /\ charged' = [charged EXCEPT ![r.to][MonthOf(t.at)] = @ + t.charge]
  /\ principal' = IF r.op # "CHARGE" THEN principal
                  ELSE [principal EXCEPT ![r.to][t.at] = @ + r.amount]
  /\ merchantPosted' = merchantPosted + t.merchant
  /\ paid' = paid + r.total
  /\ badges' = IF t.award = "none" THEN badges
               ELSE [badges EXCEPT ![r.user][BadgeOf[r.from]][t.award] = @ + 1]
  /\ lock' = Unlocked(s)
  /\ tx' = [tx EXCEPT ![s] = NoWork]
  /\ seen' = [seen EXCEPT ![s] = NothingSeen]
  /\ UNCHANGED <<unposted, now>>

(* ROLLBACK: locks released, nothing else remains.                         *)
RollbackWork(s) ==
  /\ lock' = Unlocked(s)
  /\ tx' = [tx EXCEPT ![s] = NoWork]
  /\ seen' = [seen EXCEPT ![s] = NothingSeen]
  /\ UNCHANGED <<committedVars, now>>

StoreInit ==
  /\ balance = Opening
  /\ posted = Nothing
  /\ lastAfter = Opening
  /\ totalPayment = Nothing
  /\ charged = [w \in Wallet |-> [m \in Month |-> 0]]
  /\ merchantPosted = 0
  /\ badges = [u \in User |-> [b \in Badge |-> [g \in Grade |-> 0]]]
  /\ lock = [w \in Wallet |-> NoSession]
  /\ tx = [s \in Session |-> NoWork]
  /\ seen = [s \in Session |-> NothingSeen]
  /\ now = 0
  /\ principal = [w \in Wallet |-> [t \in Time |-> 0]]
  /\ paid = 0
  /\ unposted = Nothing

StoreTypeOK ==
  /\ balance \in [Wallet -> Int]
  /\ totalPayment \in [Wallet -> Int]
  /\ posted \in [Wallet -> Int]
  /\ lastAfter \in [Wallet -> Int]
  /\ charged \in [Wallet -> [Month -> Int]]
  /\ merchantPosted \in Int
  /\ badges \in [User -> [Badge -> [Grade -> Nat]]]
  /\ lock \in [Wallet -> Session \cup {NoSession}]
  /\ tx \in [Session -> WorkType]
  /\ seen \in [Session -> SeenType]
  /\ now \in Time
  /\ principal \in [Wallet -> [Time -> Int]]
  /\ paid \in Int
  /\ unposted \in [Wallet -> Int]

=============================================================================
