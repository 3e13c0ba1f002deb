------------------------------ MODULE Transfers ------------------------------
(***************************************************************************)
(* Charge, refund and conversion: RechargeProcessor, RefundProcessor and   *)
(* ConvertProcessor under TransactionServiceImpl.handleTransfer, which is  *)
(* one transaction per request.  Plain SELECTs of a transaction all read   *)
(* its first snapshot, so each group of reads is one step; every UPDATE is *)
(* a step of its own, because it may wait for a row lock.                  *)
(* transactionLogging is the client's (TransferDTO asks for true, and a    *)
(* client that leaves it out sends false); the conversion calls both       *)
(* processors with false.                                                  *)
(***************************************************************************)
EXTENDS RequestThreads

(* RechargeProcessor's checks, in its order; logged is transactionLogging. *)
ChargeVerdict(user, from, to, base, cash, monthTotal, logged) ==
  IF Owner[from] # user \/ Owner[to] # user \/ to \notin Local
    THEN "UNAUTHORIZED_WALLET_ACCESS"
  ELSE IF base > Maximum[to] - RefundValue(monthTotal, Rate(to))
    THEN "LOCAL_WALLET_EXCEEDS_MONTHLY_MAX"
  ELSE IF logged /\ cash < base
    THEN "WALLET_BALANCE_NOT_ENOUGH"
  ELSE "ok"

(* Mutant: a refund that forgets the balance check.                        *)
RefundVerdictUnchecked(user, from, to, amount, have) ==
  IF from \notin Local \/ Owner[from] # user \/ to # CashOf[user]
    THEN "UNAUTHORIZED_WALLET_ACCESS" ELSE "ok"

(* RefundProcessor's checks, in its order.                                 *)
RefundVerdict(user, from, to, amount, have) ==
  IF from \notin Local \/ Owner[from] # user \/ to # CashOf[user]
    THEN "UNAUTHORIZED_WALLET_ACCESS"
  ELSE IF amount > have
    THEN "WALLET_BALANCE_NOT_ENOUGH"
  ELSE "ok"

(* Which wallets and amounts the two processors work on when they run for  *)
(* the request itself and when a conversion calls them.                    *)
ChargeSource(r) == IF r.op = "CONVERT" THEN CashOf[Owner[r.from]] ELSE r.from
ChargeBase(r)   == IF r.op = "CONVERT" THEN ConvertBase(r) ELSE r.amount
RefundTarget(r) == IF r.op = "CONVERT" THEN CashOf[Owner[r.from]] ELSE r.to

(* Refuse with the verdict, or read on and go to label.                    *)
Decide(s, verdict, view, label) ==
  \/ /\ verdict # "ok"
     /\ Refuse(s, verdict)
  \/ /\ verdict = "ok"
     /\ Read(s, view)
     /\ Goto(s, label)

Charge(s) ==
  LET r == req[s] IN
  /\ pc[s] = "charge"
  /\ Decide(s, ChargeVerdict(r.user, r.from, r.to, r.amount, balance[r.from],
                             charged[r.to][MonthOf(now)], r.logged),
            Snapshot(r), "chargeDebit")

ChargeDebit(s) ==
  LET from == ChargeSource(req[s]) IN
  /\ pc[s] = "chargeDebit"
  /\ Write(s, from, Updated(tx[s], from, -ChargeBase(req[s])))
  /\ Goto(s, "chargeCredit")

(* Mutant: the month's total takes the rows of the wallet as sender.       *)
MonthlyAmountSent(base, credit) == 0

(* What a charge adds to the month's total of the local wallet: its INCOME *)
(* row, which has the credited amount with the bonus.                      *)
MonthlyAmount(base, credit) == credit

(* The two rows of a charge; only rows of type CHARGE count in the month.  *)
ChargeRows(s, t) ==
  LET r      == req[s]
      base   == ChargeBase(r)
      credit == Credited(base, Rate(r.to))
      from   == ChargeSource(r)
      rows   == Inserted(Inserted(t, from, -base, seen[s].balance[from]),
                         r.to, credit, seen[s].balance[r.to])
  IN IF r.op = "CHARGE" THEN [rows EXCEPT !.charge = MonthlyAmount(base, credit),
                                              !.at = now]
     ELSE rows

(* Mutant: the wallet is credited without the bonus that its row shows.    *)
ChargeCreditAtPar(s) ==
  LET to == req[s].to IN
  /\ pc[s] = "chargeCredit"
  /\ Write(s, to, ChargeRows(s, Updated(tx[s], to, ChargeBase(req[s]))))
  /\ Goto(s, "commit")

ChargeCredit(s) ==
  LET to == req[s].to IN
  /\ pc[s] = "chargeCredit"
  /\ Write(s, to, ChargeRows(s, Updated(tx[s], to, Credited(ChargeBase(req[s]), Rate(to)))))
  /\ Goto(s, "commit")

Refund(s) ==
  LET r == req[s] IN
  /\ pc[s] = "refund"
  /\ Decide(s, RefundVerdict(r.user, r.from, r.to, r.amount, balance[r.from]),
            Snapshot(r), "refundDebit")

(* A conversion starts with its refund; a CASH wallet has no currency.     *)
ConvertVerdict(r) ==
  IF r.from \in Cash THEN "LOCAL_CURRENCY_NOT_FOUND"
  ELSE RefundVerdict(r.user, r.from, RefundTarget(r), r.amount, balance[r.from])

Convert(s) ==
  /\ pc[s] = "convert"
  /\ Decide(s, ConvertVerdict(req[s]), Snapshot(req[s]), "refundDebit")

RefundDebit(s) ==
  LET r == req[s] IN
  /\ pc[s] = "refundDebit"
  /\ Write(s, r.from, Updated(tx[s], r.from, -r.amount))
  /\ Goto(s, "refundCredit")

RefundRows(s, t) ==
  LET r    == req[s]
      cash == RefundTarget(r)
  IN Inserted(Inserted(t, cash, RefundValue(r.amount, Rate(r.from)), seen[s].balance[cash]),
              r.from, -r.amount, seen[s].balance[r.from])

(* Mutant: the cash wallet is credited the amount and not its value.       *)
RefundCreditAtPar(s) ==
  LET r    == req[s]
      cash == RefundTarget(r)
  IN
  /\ pc[s] = "refundCredit"
  /\ Write(s, cash, RefundRows(s, Updated(tx[s], cash, r.amount)))
  /\ Goto(s, IF r.op = "CONVERT" THEN "convertCharge" ELSE "commit")

RefundCredit(s) ==
  LET r    == req[s]
      cash == RefundTarget(r)
  IN
  /\ pc[s] = "refundCredit"
  /\ Write(s, cash, RefundRows(s, Updated(tx[s], cash, RefundValue(r.amount, Rate(r.from)))))
  /\ Goto(s, IF r.op = "CONVERT" THEN "convertCharge" ELSE "commit")

(* The charge half of a conversion reads again: rows it has updated are    *)
(* current, the others still come from the snapshot of the refund half.    *)
ConvertCharge(s) ==
  LET r    == req[s]
      cash == ChargeSource(r)
  IN
  /\ pc[s] = "convertCharge"
  /\ Decide(s, ChargeVerdict(r.user, cash, r.to, ConvertBase(r), View(s, cash),
                             seen[s].charged[MonthOf(now)], FALSE),
            [seen[s] EXCEPT !.balance = [w \in Wallet |-> View(s, w)]],
            "chargeDebit")

TransferStep(s) ==
  \/ Charge(s) \/ ChargeDebit(s) \/ ChargeCredit(s)
  \/ Refund(s) \/ RefundDebit(s) \/ RefundCredit(s)
  \/ Convert(s) \/ ConvertCharge(s)

=============================================================================
