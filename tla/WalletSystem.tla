---------------------------- MODULE WalletSystem ----------------------------
(***************************************************************************)
(* The whole wallet backend: request threads running transfers and         *)
(* payments side by side on one database, with deadlocks, lock-wait        *)
(* timeouts, crashes and the passing of months.                            *)
(***************************************************************************)
EXTENDS Transfers, Payments

Step(s) == TransferStep(s) \/ PaymentStep(s) \/ Commit(s)

-----------------------------------------------------------------------------
(* Waiting for row locks.                                                  *)

(* The wallet row that the next statement of s locks, if it locks one.     *)
NextRow(s) ==
  LET r == req[s] IN
  CASE pc[s] = "chargeDebit"  -> {ChargeSource(r)}
    [] pc[s] = "chargeCredit" -> {r.to}
    [] pc[s] = "refundCredit" -> {RefundTarget(r)}
    [] pc[s] \in {"refundDebit", "localPay", "mixedLocal"} -> {r.from}
    [] pc[s] \in {"generalDebit", "generalPost", "generalMerchant", "mixedMain"}
         -> {CashOf[r.user]}
    [] OTHER -> {}

WaitsFor(s) == { lock[w] : w \in NextRow(s) } \ {s, NoSession}

(* s is on a cycle of the waits-for graph (a thread waits for at most one). *)
Deadlocked(s) ==
  \E T \in SUBSET Session : s \in T /\ T = UNION { WaitsFor(t) : t \in T }

(* Mutant: the handler is started again, as often as it is a victim.       *)
DeadlockRetry(s) ==
  /\ Deadlocked(s)
  /\ RollbackWork(s)
  /\ Goto(s, Entry(req[s]))

(* InnoDB finds the cycle and rolls back one of its transactions.          *)
DeadlockAbort(s) ==
  /\ Deadlocked(s)
  /\ Refuse(s, "LOCK_FAILURE")

(* innodb_lock_wait_timeout: the waiting statement fails.                  *)
LockWaitTimeout(s) ==
  /\ WaitsFor(s) # {}
  /\ faults < MaxFaults
  /\ RollbackWork(s)
  /\ pc' = [pc EXCEPT ![s] = "idle"]
  /\ req' = [req EXCEPT ![s] = NoRequest]
  /\ reply' = [reply EXCEPT ![s] = "LOCK_FAILURE"]
  /\ faults' = faults + 1
  /\ UNCHANGED served

(* The server process dies and restarts: open transactions are rolled back,*)
(* what was committed stays, clients in service get no answer.             *)
Crash ==
  /\ faults < MaxFaults
  /\ \E s \in Session : pc[s] # "idle"
  /\ lock' = [w \in Wallet |-> NoSession]
  /\ tx' = [s \in Session |-> NoWork]
  /\ seen' = [s \in Session |-> NothingSeen]
  /\ pc' = [s \in Session |-> "idle"]
  /\ req' = [s \in Session |-> NoRequest]
  /\ reply' = [s \in Session |-> IF pc[s] = "idle" THEN reply[s] ELSE "CONNECTION_LOST"]
  /\ faults' = faults + 1
  /\ UNCHANGED <<committedVars, now, served>>

(* A month passes.                                                         *)
Tick ==
  /\ now < MaxTime
  /\ now' = now + 1
  /\ UNCHANGED <<committedVars, lock, tx, seen, threadVars>>

AllIdle == \A s \in Session : pc[s] = "idle"

(* Every request of the bound has been answered: the run may stop.         *)
Drained ==
  /\ AllIdle
  /\ served = MaxRequests
  /\ UNCHANGED vars

-----------------------------------------------------------------------------
Init == StoreInit /\ ThreadInit

Next ==
  \/ \E s \in Session :
       \/ \E r \in Requests : Receive(s, r)
       \/ Step(s)
       \/ DeadlockAbort(s)
       \/ LockWaitTimeout(s)
  \/ Crash
  \/ Tick
  \/ Drained

(* A thread keeps running its handler, and InnoDB resolves deadlocks.      *)
Fairness ==
  /\ \A s \in Session : WF_vars(Step(s))
  /\ WF_vars(\E s \in Session : DeadlockAbort(s))

Spec == Init /\ [][Next]_vars
FairSpec == Spec /\ Fairness

-----------------------------------------------------------------------------
(* Properties.                                                             *)

(* Every variable has the shape the tables and the handlers give it.       *)
TypeOK == StoreTypeOK /\ ThreadTypeOK

(* The books balance at every moment and under every interleaving, abort   *)
(* and crash: a wallet's balance is its opening balance plus the rows      *)
(* posted to it, less the cash that GENERAL payments took without a row.   *)
(* It would break if an update were lost, or a row inserted without its    *)
(* update, anywhere in the processors and strategies.                      *)
BooksBalance == \A w \in Wallet : balance[w] = Opening[w] + posted[w] - unposted[w]

(* Cash without a row is always the cash of GENERAL payments that are      *)
(* between their debit and their row, unless a fault interrupted one       *)
(* (PaymentProcessor.processGeneral has no transaction).                   *)
NothingLostWithoutFault ==
  faults = 0 => \A u \in User :
    unposted[CashOf[u]] # 0 =>
      \E s \in Session : pc[s] = "generalPost" /\ req[s].user = u

(* An uncommitted change of a row is made under its lock, and a thread     *)
(* holds locks only inside the transaction of a request.                   *)
InTransaction == {"chargeDebit", "chargeCredit", "refundCredit", "convertCharge",
                  "localFinish", "mixedMain", "commit"}
LockDiscipline ==
  /\ \A s \in Session, w \in Wallet : tx[s].delta[w] # 0 => lock[w] = s
  /\ \A w \in Wallet : lock[w] # NoSession => pc[lock[w]] \in InTransaction

(* The change a transaction has made and not yet inserted a row for: the   *)
(* first leg of a charge, of a refund and of a LocalStrategy payment.      *)
Owed(s) ==
  CASE pc[s] = "chargeCredit" -> Leg(ChargeSource(req[s]), -ChargeBase(req[s]))
    [] pc[s] \in {"refundCredit", "localFinish"} -> Leg(req[s].from, -req[s].amount)
    [] OTHER -> Nothing

(* What makes BooksBalance inductive: a transaction's rows account for its *)
(* updates up to the leg it still owes, and outside transactions a thread  *)
(* has no uncommitted work.                                                *)
RowsMatch(s) ==
  /\ pc[s] # "idle" => req[s] \in Requests
  /\ pc[s] \in {"localPay", "localFinish"} => req[s].amount = req[s].total
  /\ pc[s] \notin InTransaction => tx[s] = NoWork
  /\ tx[s].delta = Plus(tx[s].posts, Owed(s))

RowsMatchUpdates == \A s \in Session : RowsMatch(s)

IInv == TypeOK /\ BooksBalance /\ LockDiscipline /\ RowsMatchUpdates

(* A request is answered ok exactly when its whole effect is committed, and *)
(* an error answer leaves every balance and statement as it was (transfers *)
(* and local-currency payments; @Transactional on their processors).       *)
AllOrNothing ==
  [][\A s \in Session :
       pc[s] # "idle" /\ pc'[s] = "idle" /\ req[s].op # "GENERAL" =>
         IF reply'[s] = "ok"
           THEN /\ balance' = Plus(balance, Effect(req[s]))
                /\ posted' = Plus(posted, Effect(req[s]))
           ELSE UNCHANGED <<balance, posted, totalPayment, badges, charged>>]_vars

(* The detailed system implements the abstract bank: its tellers are the   *)
(* request threads, and what a teller has to post is the GENERAL payment   *)
(* of a thread between the debit and its row.                              *)
AbstractBank ==
  INSTANCE Bank WITH
    Teller   <- Session,
    balance  <- balance,
    posted   <- posted,
    unposted <- unposted,
    pending  <- [s \in Session |-> IF pc[s] = "generalPost" THEN req[s] ELSE NoRequest]
ImplementsBank == AbstractBank!Spec

(* Every request is eventually answered: lock waits end, because deadlocks *)
(* are broken and every other holder commits or rolls back.                *)
EveryRequestAnswered == \A s \in Session : pc[s] # "idle" ~> pc[s] = "idle"

(* No balance is negative.  The processors check the balance they read     *)
(* before the transaction's first lock; the UPDATE statements check none.  *)
NoOverdraft == \A w \in Wallet : balance[w] >= 0

(* A member never holds the same badge in the same grade twice.            *)
NoDuplicateBadge ==
  \A u \in User, b \in Badge, g \in Grade : badges[u][b][g] <= 1

(* At rest and without faults the merchant side of the transaction table   *)
(* adds up to what the members paid.                                       *)
MerchantsPaidInFull == AllIdle /\ faults = 0 => merchantPosted = paid

(* What a handler answers to the request of a thread in this step.         *)
Answers(s, answer) == pc[s] # "idle" /\ pc'[s] = "idle" /\ reply'[s] = answer

(* A GENERAL payment, which PaymentDTO says is made with the cash wallet,  *)
(* is refused for lack of money only when the cash wallet lacks it.        *)
GeneralNeedsOnlyCash ==
  [][\A s \in Session :
       Answers(s, "WALLET_BALANCE_NOT_ENOUGH") /\ req[s].op = "GENERAL" =>
         balance[CashOf[req[s].user]] < req[s].total]_vars

(* A charge is refused for the monthly maximum only when the charges of    *)
(* the current month leave no room for it (ErrorCode says "monthly").      *)
CapCountsThisMonth ==
  [][\A s \in Session :
       Answers(s, "LOCAL_WALLET_EXCEEDS_MONTHLY_MAX") /\ req[s].op = "CHARGE" =>
         principal[req[s].to][now] + req[s].amount > Maximum[req[s].to]]_vars

=============================================================================
