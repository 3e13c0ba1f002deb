---------------------------- MODULE WalletRegistry ----------------------------
(***************************************************************************)
(* WalletServiceImpl: creating, ordering and deleting wallets.             *)
(* createWallet has no transaction of its own, so each of its statements   *)
(* commits by itself; the other two are one transaction each.  Transfers   *)
(* and payments are here what they do to one wallet row: those that run in *)
(* a transaction update its balance and insert a row that refers to it     *)
(* together, a GENERAL payment does so statement by statement.             *)
(***************************************************************************)
EXTENDS AccountStore

(* Mutant: the currency is not looked up.                                  *)
CreateFindNothing(s) ==
  /\ pc[s] = "create"
  /\ Note(s, seen[s])
  /\ Goto(s, "createMax")

(* A currency that is NULL equals none, so a second CASH wallet is not     *)
(* found; the lookup of one row fails when there are two.                  *)
CreateFind(s) ==
  LET same == { w \in WalletsOf(wallet, seen[s].id) :
                  wallet[w].currency = req[s].currency /\ req[s].currency # NoCurrency }
  IN
  /\ pc[s] = "create"
  /\ \/ /\ Cardinality(same) = 1
        /\ Refuse(s, "DUPLICATED_LOCAL_CURRENCY_WALLET")
     \/ /\ Cardinality(same) > 1
        /\ Refuse(s, "INTERNAL_SERVER_ERROR")
     \/ /\ same = {}
        /\ Note(s, seen[s])
        /\ Goto(s, "createMax")

(* Mutant: the new wallet takes the place of the last one.                 *)
OrderNotIncremented(s) == HighestOrder(wallet, seen[s].id)

NewOrder(s) == IF req[s].currency = NoCurrency THEN 1
               ELSE HighestOrder(wallet, seen[s].id) + 1

CreateMax(s) ==
  /\ pc[s] = "createMax"
  /\ Note(s, [seen[s] EXCEPT !.order = NewOrder(s)])
  /\ Goto(s, "createInsert")

NewWallet(s) ==
  [owner |-> seen[s].id, currency |-> req[s].currency,
   cash |-> req[s].currency = NoCurrency, balance |-> 0,
   order |-> seen[s].order, used |-> FALSE]

(* The INSERT waits for a range lock on the member's wallets, and fails on *)
(* the foreign key when the member has left.                               *)
CreateInsert(s) ==
  /\ pc[s] = "createInsert"
  /\ GapFree(s, seen[s].id)
  /\ \/ /\ seen[s].id \notin DOMAIN member
        /\ Refuse(s, "INTERNAL_SERVER_ERROR")
     \/ /\ seen[s].id \in DOMAIN member
        /\ lastId' = lastId + 1
        /\ wallet' = Over([i \in {lastId + 1} |-> NewWallet(s)], wallet)
        /\ Released(s)
        /\ Answer(s, "ok")
        /\ UNCHANGED member

-----------------------------------------------------------------------------
(* updateWalletOrder.                                                      *)

LocalWallets(m) == { w \in WalletsOf(wallet, m) : ~wallet[w].cash }

(* An empty list passes the check and makes a statement that does not parse. *)
OrderCheck(s) ==
  LET listed == DOMAIN req[s].orders IN
  /\ pc[s] = "order"
  /\ \/ /\ ~(listed \subseteq LocalWallets(seen[s].id))
        /\ Refuse(s, "UNAUTHORIZED_WALLET_ACCESS")
     \/ /\ listed = {}
        /\ Refuse(s, "INTERNAL_SERVER_ERROR")
     \/ /\ listed # {} /\ listed \subseteq LocalWallets(seen[s].id)
        /\ Note(s, seen[s])
        /\ Goto(s, "orderWrite")

(* The rows that the next statement of s locks.                            *)
Needs(s) ==
  CASE pc[s] = "orderWrite" -> DOMAIN req[s].orders \cap DOMAIN wallet
    [] pc[s] \in {"removeRow", "moveWrite"} -> {req[s].wallet} \cap DOMAIN wallet
    [] pc[s] \in {"payDebit", "payRow"} -> {seen[s].cash} \cap DOMAIN wallet
    [] pc[s] = "renumber" -> WalletsOf(wallet, seen[s].id)
    [] OTHER -> {}

(* A statement on several rows locks them one after the other.             *)
LockRow(s) ==
  \E w \in Needs(s) \ held[s] :
    /\ Needs(s) \ held[s] # {w}
    /\ Free(s, w)
    /\ Work(s, {w}, tx[s])
    /\ UNCHANGED <<pc, req, reply, served, faults, raced, improper>>

Granted(s) == \A w \in Needs(s) : Free(s, w)

(* The statement has its last lock and runs.                               *)
LastLock(s) == Granted(s) /\ Cardinality(Needs(s) \ held[s]) <= 1

Reordered(f, orders) ==
  [w \in DOMAIN f |-> [f[w] EXCEPT !.order = IF w \in DOMAIN orders THEN orders[w] ELSE @]]

OrderWrite(s) ==
  /\ pc[s] = "orderWrite"
  /\ LastLock(s)
  /\ Work(s, Needs(s), [tx[s] EXCEPT
       !.wallet = Reordered(Restrict(wallet, Needs(s)), req[s].orders)])
  /\ Goto(s, "commit")

-----------------------------------------------------------------------------
(* deleteWallet.                                                           *)

(* Mutant: the balance is not checked.                                     *)
RemoveUnchecked(s) ==
  /\ pc[s] = "remove"
  /\ req[s].wallet \in DOMAIN wallet
  /\ Note(s, seen[s])
  /\ Goto(s, "removeRow")

RemoveCheck(s) ==
  LET w == req[s].wallet
      verdict == IF w \notin DOMAIN wallet THEN "WALLET_NOT_FOUND"
                 ELSE IF wallet[w].owner # seen[s].id THEN "UNAUTHORIZED_WALLET_ACCESS"
                 ELSE IF wallet[w].balance # 0 THEN "CAN_NOT_DELETE_WALLET_BALANCE_NOT_EMPTY"
                 ELSE "ok"
  IN
  /\ pc[s] = "remove"
  /\ \/ verdict # "ok" /\ Refuse(s, verdict)
     \/ verdict = "ok" /\ Note(s, seen[s]) /\ Goto(s, "removeRow")

(* The DELETE works on the current row: rows of transaction that refer to  *)
(* it make it fail, and a row that is gone makes it do nothing.            *)
RemoveRow(s) ==
  LET w == req[s].wallet IN
  /\ pc[s] = "removeRow"
  /\ Granted(s)
  /\ \/ /\ w \in DOMAIN wallet /\ wallet[w].used
        /\ Refuse(s, "INTERNAL_SERVER_ERROR")
     \/ /\ w \in DOMAIN wallet => ~wallet[w].used
        /\ Work(s, Needs(s), [tx[s] EXCEPT !.gone = {w}])
        /\ Goto(s, "renumber")

(* Mutant: the other wallets keep their numbers.                           *)
RenumberSkipped(s) ==
  /\ pc[s] = "renumber"
  /\ Work(s, {}, tx[s])
  /\ Goto(s, "commit")

(* ROW_NUMBER() OVER (ORDER BY display_order): any numbering that respects *)
(* the order.  The subquery locks the rows it reads and their range.       *)
Renumber(s) ==
  LET left == WalletsOf(Rows(s), seen[s].id) IN
  /\ pc[s] = "renumber"
  /\ LastLock(s)
  /\ \E f \in Bijection(left, 1 .. Cardinality(left)) :
       /\ \A v, w \in left : wallet[v].order < wallet[w].order => f[v] < f[w]
       /\ tx' = [tx EXCEPT ![s].wallet = Reordered(Restrict(wallet, left), f)]
  /\ held' = [held EXCEPT ![s] = @ \cup Needs(s)]
  /\ gap' = [gap EXCEPT ![s] = {seen[s].id}]
  /\ Goto(s, "commit")
  /\ UNCHANGED <<tables, lastId, seen>>

-----------------------------------------------------------------------------
(* A transfer or a payment that runs in a transaction, seen from one of    *)
(* its wallet rows.                                                        *)

(* The wallet is the member's, and its balance covers a debit: the checks  *)
(* of a charge, of which a client may turn off the second (logged, the     *)
(* DTO's transactionLogging); the other processors make both.              *)
MoveCheck(s) ==
  LET w == req[s].wallet IN
  /\ pc[s] = "move"
  /\ \/ /\ w \notin WalletsOf(wallet, seen[s].id)
        /\ Refuse(s, "UNAUTHORIZED_WALLET_ACCESS")
     \/ /\ w \in WalletsOf(wallet, seen[s].id)
        /\ req[s].logged /\ wallet[w].balance + req[s].amount < 0
        /\ Refuse(s, "WALLET_BALANCE_NOT_ENOUGH")
     \/ /\ w \in WalletsOf(wallet, seen[s].id)
        /\ req[s].logged => wallet[w].balance + req[s].amount >= 0
        /\ Note(s, seen[s])
        /\ Goto(s, "moveWrite")

(* The UPDATE of a row that is gone changes nothing; the INSERT of the     *)
(* statement row then fails on its foreign key.                            *)
MoveWrite(s) ==
  LET w == req[s].wallet IN
  /\ pc[s] = "moveWrite"
  /\ Granted(s)
  /\ \/ /\ w \notin DOMAIN wallet
        /\ Refuse(s, "INTERNAL_SERVER_ERROR")
     \/ /\ w \in DOMAIN wallet
        /\ Work(s, {w}, [tx[s] EXCEPT !.wallet = [i \in {w} |->
             [wallet[w] EXCEPT !.balance = @ + req[s].amount, !.used = TRUE]]])
        /\ Goto(s, "commit")

-----------------------------------------------------------------------------
(* A GENERAL payment, which has no transaction: every statement commits.   *)

(* The checks of the context, on the local wallet that the payment names.  *)
PayContext(s) ==
  LET w == req[s].wallet
      verdict == IF w \notin DOMAIN wallet THEN "WALLET_NOT_FOUND"
                 ELSE IF wallet[w].cash THEN "LOCAL_CURRENCY_NOT_FOUND"
                 ELSE IF wallet[w].owner # seen[s].id THEN "UNAUTHORIZED_WALLET_ACCESS"
                 ELSE IF wallet[w].balance < req[s].amount THEN "WALLET_BALANCE_NOT_ENOUGH"
                 ELSE "ok"
  IN
  /\ pc[s] = "pay"
  /\ \/ verdict # "ok" /\ Refuse(s, verdict)
     \/ verdict = "ok" /\ Note(s, seen[s]) /\ Goto(s, "payCash")

(* processGeneral looks for the CASH wallet and compares its balance.      *)
PayCash(s) ==
  LET found == { w \in WalletsOf(wallet, seen[s].id) : wallet[w].cash } IN
  /\ pc[s] = "payCash"
  /\ \/ found = {} /\ Refuse(s, "WALLET_NOT_FOUND")
     \/ Cardinality(found) > 1 /\ Refuse(s, "INTERNAL_SERVER_ERROR")
     \/ \E w \in found :
          /\ found = {w}
          /\ \/ /\ wallet[w].balance < req[s].amount
                /\ Refuse(s, "WALLET_BALANCE_NOT_ENOUGH")
             \/ /\ wallet[w].balance >= req[s].amount
                /\ Note(s, [seen[s] EXCEPT !.cash = w])
                /\ Goto(s, "payDebit")

(* The UPDATE of a row that is gone changes nothing, and nobody asks.      *)
PayDebit(s) ==
  LET w == seen[s].cash IN
  /\ pc[s] = "payDebit"
  /\ Granted(s)
  /\ wallet' = IF w \in DOMAIN wallet THEN [wallet EXCEPT ![w].balance = @ - req[s].amount]
               ELSE wallet
  /\ Goto(s, "payRow")
  /\ UNCHANGED <<member, lastId, locks, tx, seen>>

(* The member's row, whose foreign key fails when the wallet has been      *)
(* deleted since.  After it the merchant's row, which refers to the same   *)
(* wallet, can no longer fail, and changes nothing here.                   *)
PayRow(s) ==
  LET w == seen[s].cash IN
  /\ pc[s] = "payRow"
  /\ Granted(s)
  /\ \/ /\ w \notin DOMAIN wallet
        /\ Refuse(s, "INTERNAL_SERVER_ERROR")
     \/ /\ w \in DOMAIN wallet
        /\ wallet' = [wallet EXCEPT ![w].used = TRUE]
        /\ Released(s)
        /\ Answer(s, "ok")
        /\ UNCHANGED <<member, lastId>>

RegistryStep(s) ==
  \/ CreateFind(s) \/ CreateMax(s) \/ CreateInsert(s)
  \/ OrderCheck(s) \/ LockRow(s) \/ OrderWrite(s)
  \/ RemoveCheck(s) \/ RemoveRow(s) \/ Renumber(s)
  \/ MoveCheck(s) \/ MoveWrite(s)
  \/ PayContext(s) \/ PayCash(s) \/ PayDebit(s) \/ PayRow(s)

=============================================================================
