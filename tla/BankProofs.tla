----------------------------- MODULE BankProofs -----------------------------
(***************************************************************************)
(* The wallet backend implements the abstract bank, for every set of       *)
(* members, wallets, threads and requests and for every bound.  What the   *)
(* inductive invariant of WalletSystemProofs does not say, and the bank    *)
(* needs, is which rows a thread has inserted at each of its labels, and   *)
(* what it has checked by then about the owners of the wallets.            *)
(***************************************************************************)
EXTENDS WalletSystemProofs

(* The labels that the handler of an operation passes through.             *)
LabelsOf(op) ==
  CASE op = "CHARGE"  -> {"charge", "chargeDebit", "chargeCredit", "commit"}
    [] op = "REFUND"  -> {"refund", "refundDebit", "refundCredit", "commit"}
    [] op = "CONVERT" -> {"convert", "refundDebit", "refundCredit", "convertCharge",
                          "chargeDebit", "chargeCredit", "commit"}
    [] op = "GENERAL" -> {"pay", "general", "generalDebit", "generalPost", "generalMerchant"}
    [] OTHER          -> {"pay", "localPay", "localFinish", "mixed", "mixedLocal",
                          "mixedMain", "commit"}

Entries == {"charge", "refund", "convert", "pay"}

(* What a handler at label l has checked of the owners and the kinds of    *)
(* r's wallets.                                                            *)
Permitted(r, l) ==
  /\ Owner[r.from] = r.user
  /\ r.op \in {"REFUND", "CONVERT"} => r.from \in Local
  /\ r.op = "REFUND" => r.to = CashOf[r.user]
  /\ \/ r.op = "CHARGE"
     \/ r.op = "CONVERT" /\ l \in {"chargeDebit", "chargeCredit", "commit"}
     => Owner[r.to] = r.user /\ r.to \in Local

(* The sum of the rows that a handler at label l has inserted for r.       *)
RowsDone(r, l) ==
  CASE l = "commit" -> Effect(r)
    [] r.op = "CONVERT" /\ l \in {"convertCharge", "chargeDebit", "chargeCredit"}
         -> RefundEffect(r.from, CashOf[r.user], r.amount)
    [] l = "mixedMain" -> Leg(r.from, -r.amount)
    [] OTHER -> Nothing

(* A thread is on the way of its request, and has done what its label says. *)
OnItsWay(s) ==
  pc[s] # "idle" =>
    /\ pc[s] \in LabelsOf(req[s].op)
    /\ pc[s] \notin Entries => Permitted(req[s], pc[s])
    /\ tx[s].posts = RowsDone(req[s], pc[s])

BankInv == \A s \in Session : OnItsWay(s)

-----------------------------------------------------------------------------
(* Kinds of steps.                                                         *)

(* What other threads do does not matter to a thread.                      *)
LEMMA OthersOnTheirWay ==
  ASSUME IInv, BankInv, NEW s \in Session, NEW t \in Session, t # s, NEW l, NEW q, NEW work,
         pc' = [pc EXCEPT ![s] = l], req' = [req EXCEPT ![s] = q],
         tx' = [tx EXCEPT ![s] = work]
  PROVE  OnItsWay(t)'
  <1>1. pc'[t] = pc[t] /\ req'[t] = req[t] /\ tx'[t] = tx[t]
    BY DEF IInv, TypeOK, StoreTypeOK, ThreadTypeOK
  <1>2. OnItsWay(t)
    BY DEF BankInv
  <1> QED BY <1>1, <1>2 DEF OnItsWay

(* An answer leaves the thread idle.                                       *)
LEMMA AnswerOnTheWay ==
  ASSUME IInv, BankInv, NEW s \in Session, NEW work,
         pc' = [pc EXCEPT ![s] = "idle"], req' = [req EXCEPT ![s] = NoRequest],
         tx' = [tx EXCEPT ![s] = work]
  PROVE  BankInv'
  <1> SUFFICES ASSUME NEW t \in Session PROVE OnItsWay(t)'
    BY DEF BankInv
  <1>1. CASE t = s
    BY <1>1 DEF OnItsWay, IInv, TypeOK, ThreadTypeOK
  <1>2. CASE t # s
    BY <1>2, OthersOnTheirWay
  <1> QED BY <1>1, <1>2

(* A statement takes the thread on to label l with work in its transaction. *)
LEMMA GotoOnTheWay ==
  ASSUME IInv, BankInv, NEW s \in Session, NEW l \in Labels, NEW work,
         Goto(s, l), tx' = [tx EXCEPT ![s] = work],
         l \in LabelsOf(req[s].op), l \notin Entries, Permitted(req[s], l),
         work.posts = RowsDone(req[s], l)
  PROVE  BankInv'
  <1> SUFFICES ASSUME NEW t \in Session PROVE OnItsWay(t)'
    BY DEF BankInv
  <1>1. pc' = [pc EXCEPT ![s] = l] /\ req' = [req EXCEPT ![s] = req[s]]
    BY DEF Goto, IInv, TypeOK, ThreadTypeOK
  <1>2. CASE t = s
    <2>1. pc'[s] = l /\ req'[s] = req[s] /\ tx'[s] = work
      BY <1>1 DEF IInv, TypeOK, StoreTypeOK, ThreadTypeOK
    <2> QED BY <1>2, <2>1 DEF OnItsWay
  <1>3. CASE t # s
    BY <1>1, <1>3, OthersOnTheirWay
  <1> QED BY <1>2, <1>3

(* Reads insert no rows.                                                   *)
LEMMA ReadOnTheWay ==
  ASSUME IInv, BankInv, NEW s \in Session, NEW l \in Labels, NEW view,
         Read(s, view), Goto(s, l), pc[s] # "idle",
         l \in LabelsOf(req[s].op), l \notin Entries, Permitted(req[s], l),
         RowsDone(req[s], l) = RowsDone(req[s], pc[s])
  PROVE  BankInv'
  <1>1. tx' = [tx EXCEPT ![s] = tx[s]]
    BY DEF Read, IInv, TypeOK, StoreTypeOK
  <1>2. tx[s].posts = RowsDone(req[s], l)
    BY DEF BankInv, OnItsWay
  <1> QED BY <1>1, <1>2, GotoOnTheWay

(* A refusal, whatever its reason.                                         *)
LEMMA RefuseOnTheWay ==
  ASSUME IInv, BankInv, NEW s \in Session, NEW e, Refuse(s, e)
  PROVE  BankInv'
  BY AnswerOnTheWay DEF Refuse, RollbackWork, Answer

-----------------------------------------------------------------------------
(* The steps of the transfers.                                             *)

(* Sums of changes may be taken in any order and grouping.                 *)
LEMMA PlusSums ==
  ASSUME NEW f \in [Wallet -> Int], NEW g \in [Wallet -> Int], NEW h \in [Wallet -> Int]
  PROVE  /\ Plus(Nothing, f) = f
         /\ Plus(Plus(Nothing, f), g) = Plus(g, f)
         /\ Plus(Plus(Nothing, f), g) = Plus(f, g)
         /\ Plus(Plus(f, g), h) = Plus(f, Plus(g, h))
  BY DEF Plus, Nothing

(* The checks of a transfer and the reads that follow them.                *)
LEMMA TransferReadsOnTheWay ==
  ASSUME IInv, BankInv, NEW s \in Session,
         Charge(s) \/ Refund(s) \/ Convert(s) \/ ConvertCharge(s)
  PROVE  BankInv'
  <1> DEFINE r == req[s]
  <1>1. /\ pc[s] \in {"charge", "refund", "convert", "convertCharge"}
        /\ pc[s] \in LabelsOf(r.op)
        /\ pc[s] = "convertCharge" => Permitted(r, pc[s])
    BY DEF Charge, Refund, Convert, ConvertCharge, BankInv, OnItsWay, Entries
  <1>2. /\ r \in Requests /\ r.op \in TransferOps \cup PaymentOps
        /\ r.user \in User /\ r.from \in Wallet /\ Owner[CashOf[Owner[r.from]]] = Owner[r.from]
    <2>1. r \in Requests
      BY <1>1, Serving
    <2>2. r.op \in TransferOps \cup PaymentOps /\ r.user \in User /\ r.from \in Wallet
      BY <2>1, RequestFields
    <2> QED BY <2>1, <2>2, WalletsAssumption
  <1>3. "chargeDebit" \in Labels /\ "refundDebit" \in Labels
    BY DEF Labels, TransferLabels
  <1>4. ASSUME NEW verdict, NEW view, NEW l \in {"chargeDebit", "refundDebit"},
               Decide(s, verdict, view, l),
               verdict = "ok" => /\ l \in LabelsOf(r.op)
                                 /\ Permitted(r, l)
                                 /\ RowsDone(r, l) = RowsDone(r, pc[s])
        PROVE  BankInv'
    <2>1. CASE Refuse(s, verdict)
      BY <2>1, RefuseOnTheWay
    <2>2. CASE verdict = "ok" /\ Read(s, view) /\ Goto(s, l)
      <3>1. pc[s] # "idle" /\ l \notin Entries /\ l \in Labels
        BY <1>1, <1>3, <1>4 DEF Entries
      <3> QED BY <1>4, <2>2, <3>1, ReadOnTheWay
    <2> QED BY <1>4, <2>1, <2>2 DEF Decide
  <1>5. CASE Charge(s)
    <2> DEFINE verdict == ChargeVerdict(r.user, r.from, r.to, r.amount, balance[r.from],
                                        charged[r.to][MonthOf(now)], r.logged)
    <2>1. Decide(s, verdict, Snapshot(r), "chargeDebit") /\ pc[s] = "charge"
      BY <1>5 DEF Charge
    <2>2. r.op = "CHARGE"
      BY <1>1, <1>2, <2>1 DEF LabelsOf, TransferOps, PaymentOps, LocalOps
    <2>3. "chargeDebit" \in LabelsOf(r.op)
          /\ RowsDone(r, "chargeDebit") = RowsDone(r, pc[s])
      BY <2>1, <2>2 DEF LabelsOf, RowsDone
    <2>4. verdict = "ok" => Permitted(r, "chargeDebit")
      BY <2>2 DEF ChargeVerdict, Permitted
    <2> HIDE DEF verdict, r
    <2> QED BY <2>1, <2>3, <2>4, <1>4
  <1>6. CASE Refund(s)
    <2> DEFINE verdict == RefundVerdict(r.user, r.from, r.to, r.amount, balance[r.from])
    <2>1. Decide(s, verdict, Snapshot(r), "refundDebit") /\ pc[s] = "refund"
      BY <1>6 DEF Refund
    <2>2. r.op = "REFUND"
      BY <1>1, <1>2, <2>1 DEF LabelsOf, TransferOps, PaymentOps, LocalOps
    <2>3. "refundDebit" \in LabelsOf(r.op)
          /\ RowsDone(r, "refundDebit") = RowsDone(r, pc[s])
      BY <2>1, <2>2 DEF LabelsOf, RowsDone
    <2>4. verdict = "ok" => Permitted(r, "refundDebit")
      BY <2>2 DEF RefundVerdict, Permitted
    <2> HIDE DEF verdict, r
    <2> QED BY <2>1, <2>3, <2>4, <1>4
  <1>7. CASE Convert(s)
    <2> DEFINE verdict == ConvertVerdict(r)
    <2>1. Decide(s, verdict, Snapshot(r), "refundDebit") /\ pc[s] = "convert"
      BY <1>7 DEF Convert
    <2>2. r.op = "CONVERT"
      BY <1>1, <1>2, <2>1 DEF LabelsOf, TransferOps, PaymentOps, LocalOps
    <2>3. "refundDebit" \in LabelsOf(r.op)
          /\ RowsDone(r, "refundDebit") = RowsDone(r, pc[s])
      BY <2>1, <2>2 DEF LabelsOf, RowsDone
    <2>4. verdict = "ok" => Permitted(r, "refundDebit")
      BY <2>2 DEF ConvertVerdict, RefundVerdict, Permitted
    <2> HIDE DEF verdict, r
    <2> QED BY <2>1, <2>3, <2>4, <1>4
  <1>8. CASE ConvertCharge(s)
    <2> DEFINE cash == ChargeSource(r)
               verdict == ChargeVerdict(r.user, cash, r.to, ConvertBase(r), View(s, cash),
                                        seen[s].charged[MonthOf(now)], FALSE)
               view == [seen[s] EXCEPT !.balance = [w \in Wallet |-> View(s, w)]]
    <2>1. Decide(s, verdict, view, "chargeDebit") /\ pc[s] = "convertCharge"
      BY <1>8 DEF ConvertCharge
    <2>2. r.op = "CONVERT"
      BY <1>1, <1>2, <2>1 DEF LabelsOf, TransferOps, PaymentOps, LocalOps
    <2>3. "chargeDebit" \in LabelsOf(r.op)
          /\ RowsDone(r, "chargeDebit") = RowsDone(r, pc[s])
      BY <2>1, <2>2 DEF LabelsOf, RowsDone
    <2>4. verdict = "ok" => Permitted(r, "chargeDebit")
      BY <1>1, <2>1, <2>2 DEF ChargeVerdict, Permitted
    <2> HIDE DEF verdict, view, r, cash
    <2> QED BY <2>1, <2>3, <2>4, <1>4
  <1> QED BY <1>5, <1>6, <1>7, <1>8

(* The first leg of a charge or a refund: the row comes with the second.   *)
LEMMA FirstLegOnTheWay ==
  ASSUME IInv, BankInv, NEW s \in Session, ChargeDebit(s) \/ RefundDebit(s)
  PROVE  BankInv'
  <1> DEFINE r == req[s]
  <1>1. /\ pc[s] \in {"chargeDebit", "refundDebit"}
        /\ pc[s] \in LabelsOf(r.op) /\ Permitted(r, pc[s])
        /\ tx[s].posts = RowsDone(r, pc[s])
    BY DEF ChargeDebit, RefundDebit, BankInv, OnItsWay, Entries
  <1>2. /\ r \in Requests /\ tx[s] \in WorkType /\ r.op \in TransferOps \cup PaymentOps
        /\ ChargeSource(r) \in Wallet /\ r.from \in Wallet
        /\ -ChargeBase(r) \in Int /\ -r.amount \in Int
    <2>1. r \in Requests /\ tx[s] \in WorkType
      BY <1>1, Serving
    <2>2. ChargeBase(r) \in Int /\ r.amount \in Int
      BY <2>1, RequestFields
    <2> QED BY <2>1, <2>2, RequestFields
  <1>3. ASSUME NEW w \in Wallet, NEW x \in Int, NEW l \in {"chargeCredit", "refundCredit"},
               Write(s, w, Updated(tx[s], w, x)), Goto(s, l),
               l \in LabelsOf(r.op), Permitted(r, l), RowsDone(r, l) = RowsDone(r, pc[s])
        PROVE  BankInv'
    <2>1. Updated(tx[s], w, x).posts = RowsDone(r, l)
      BY <1>1, <1>2, <1>3, UpdatedType
    <2>2. l \in Labels /\ l \notin Entries
      BY <1>3 DEF Labels, TransferLabels, Entries
    <2>3. tx' = [tx EXCEPT ![s] = Updated(tx[s], w, x)]
      BY <1>3 DEF Write
    <2> QED BY <1>3, <2>1, <2>2, <2>3, GotoOnTheWay
  <1>4. CASE ChargeDebit(s)
    <2>1. /\ pc[s] = "chargeDebit"
          /\ Write(s, ChargeSource(r), Updated(tx[s], ChargeSource(r), -ChargeBase(r)))
          /\ Goto(s, "chargeCredit")
      BY <1>4 DEF ChargeDebit
    <2>2. r.op \in {"CHARGE", "CONVERT"}
      BY <1>1, <1>2, <2>1 DEF LabelsOf, TransferOps, PaymentOps, LocalOps
    <2>3. /\ "chargeCredit" \in LabelsOf(r.op) /\ Permitted(r, "chargeCredit")
          /\ RowsDone(r, "chargeCredit") = RowsDone(r, pc[s])
      BY <1>1, <2>1, <2>2 DEF LabelsOf, Permitted, RowsDone
    <2> HIDE DEF r
    <2> QED BY <1>2, <1>3, <2>1, <2>3
  <1>5. CASE RefundDebit(s)
    <2>1. /\ pc[s] = "refundDebit"
          /\ Write(s, r.from, Updated(tx[s], r.from, -r.amount)) /\ Goto(s, "refundCredit")
      BY <1>5 DEF RefundDebit
    <2>2. r.op \in {"REFUND", "CONVERT"}
      BY <1>1, <1>2, <2>1 DEF LabelsOf, TransferOps, PaymentOps, LocalOps
    <2>3. /\ "refundCredit" \in LabelsOf(r.op) /\ Permitted(r, "refundCredit")
          /\ RowsDone(r, "refundCredit") = RowsDone(r, pc[s])
      BY <1>1, <2>1, <2>2 DEF LabelsOf, Permitted, RowsDone
    <2> HIDE DEF r
    <2> QED BY <1>2, <1>3, <2>1, <2>3
  <1> QED BY <1>4, <1>5

(* The second leg of a charge: the rows are then those of the whole        *)
(* request, after the rows of the refund half in a conversion.             *)
LEMMA ChargeCreditOnTheWay ==
  ASSUME IInv, BankInv, NEW s \in Session, ChargeCredit(s)
  PROVE  BankInv'
  <1> DEFINE r == req[s]
             t == tx[s]
             from == ChargeSource(r)
             base == ChargeBase(r)
             credit == Credited(base, Rate(r.to))
             up == Updated(t, r.to, credit)
             row1 == Inserted(up, from, -base, seen[s].balance[from])
             row2 == Inserted(row1, r.to, credit, seen[s].balance[r.to])
             work == ChargeRows(s, up)
             g == Leg(from, -base)
             h == Leg(r.to, credit)
             value == RefundValue(r.amount, Rate(r.from))
             refund == Plus(Leg(r.from, -r.amount), Leg(CashOf[r.user], value))
  <1>1. /\ pc[s] = "chargeCredit" /\ pc[s] \in LabelsOf(r.op) /\ Permitted(r, pc[s])
        /\ t.posts = RowsDone(r, pc[s])
    BY DEF ChargeCredit, BankInv, OnItsWay, Entries
  <1>2. /\ r \in Requests /\ t \in WorkType /\ t.posts \in [Wallet -> Int]
        /\ seen[s].balance \in [Wallet -> Int]
    BY <1>1, Serving
  <1>3. /\ from \in Wallet /\ r.to \in Wallet /\ base \in Int /\ credit \in Int
        /\ -base \in Int /\ credit \in Int /\ r.op \in TransferOps \cup PaymentOps
        /\ r.from \in Wallet /\ CashOf[r.user] \in Wallet
        /\ -r.amount \in Int /\ value \in Int
    <2>1. r.amount \in Int /\ value \in Int
      BY <1>2, RequestFields
    <2> QED BY <1>2, <2>1, RequestFields
  <1>4. seen[s].balance[from] \in Int /\ seen[s].balance[r.to] \in Int
    BY <1>2, <1>3
  <1>5. r.op \in {"CHARGE", "CONVERT"}
    BY <1>1, <1>3 DEF LabelsOf, TransferOps, PaymentOps, LocalOps
  <1>6. Permitted(r, "commit") /\ "commit" \in LabelsOf(r.op)
    BY <1>1, <1>5 DEF Permitted, LabelsOf
  <1>7. Write(s, r.to, work) /\ Goto(s, "commit")
    BY DEF ChargeCredit
  <1>8. work = IF r.op = "CHARGE" THEN [row2 EXCEPT !.charge = credit, !.at = now] ELSE row2
    BY DEF ChargeRows, MonthlyAmount
  <1>9. t.posts = IF r.op = "CHARGE" THEN Nothing ELSE refund
    BY <1>1, <1>5 DEF RowsDone, RefundEffect
  <1>10. Effect(r) = IF r.op = "CHARGE" THEN Plus(g, h) ELSE Plus(refund, Plus(g, h))
    BY <1>1, <1>5 DEF Effect, ChargeEffect, RefundEffect, ChargeSource, ChargeBase, Permitted
  <1> HIDE DEF t, from, base, credit, up, row1, row2, work, g, h, value, refund
  <1>11. up \in WorkType /\ up.posts = t.posts
    BY <1>2, <1>3, UpdatedType DEF up
  <1>12. row1 \in WorkType /\ row1.posts = Plus(t.posts, g)
    BY <1>3, <1>4, <1>11, InsertedType DEF row1, g
  <1>13. row2 \in WorkType /\ row2.posts = Plus(Plus(t.posts, g), h)
    BY <1>3, <1>4, <1>12, InsertedType DEF row2, h
  <1>14. work.posts = Plus(Plus(t.posts, g), h)
    BY <1>8, <1>13 DEF WorkType
  <1>15. g \in [Wallet -> Int] /\ h \in [Wallet -> Int] /\ refund \in [Wallet -> Int]
    BY <1>3, LegPlus DEF g, h, refund
  <1>16. work.posts = Effect(r)
    BY <1>5, <1>9, <1>10, <1>14, <1>15, PlusSums
  <1>17. work.posts = RowsDone(r, "commit")
    BY <1>16 DEF RowsDone
  <1>18. tx' = [tx EXCEPT ![s] = work] /\ "commit" \in Labels /\ "commit" \notin Entries
    BY <1>7 DEF Write, Labels, Entries
  <1> QED BY <1>6, <1>7, <1>17, <1>18, GotoOnTheWay

(* The second leg of a refund: the rows are those of a whole refund.       *)
LEMMA RefundCreditOnTheWay ==
  ASSUME IInv, BankInv, NEW s \in Session, RefundCredit(s)
  PROVE  BankInv'
  <1> DEFINE r == req[s]
             t == tx[s]
             cash == RefundTarget(r)
             value == RefundValue(r.amount, Rate(r.from))
             up == Updated(t, cash, value)
             row1 == Inserted(up, cash, value, seen[s].balance[cash])
             work == Inserted(row1, r.from, -r.amount, seen[s].balance[r.from])
             l == IF r.op = "CONVERT" THEN "convertCharge" ELSE "commit"
             g == Leg(r.from, -r.amount)
             h == Leg(cash, value)
  <1>1. /\ pc[s] = "refundCredit" /\ pc[s] \in LabelsOf(r.op) /\ Permitted(r, pc[s])
        /\ t.posts = RowsDone(r, pc[s])
    BY DEF RefundCredit, BankInv, OnItsWay, Entries
  <1>2. /\ r \in Requests /\ t \in WorkType /\ seen[s].balance \in [Wallet -> Int]
    BY <1>1, Serving
  <1>3. /\ cash \in Wallet /\ r.from \in Wallet /\ value \in Int
        /\ -r.amount \in Int /\ r.op \in TransferOps \cup PaymentOps
    <2>1. r.amount \in Int /\ value \in Int
      BY <1>2, RequestFields
    <2> QED BY <1>2, <2>1, RequestFields
  <1>4. seen[s].balance[cash] \in Int /\ seen[s].balance[r.from] \in Int
    BY <1>2, <1>3
  <1>5. r.op \in {"REFUND", "CONVERT"}
    BY <1>1, <1>3 DEF LabelsOf, TransferOps, PaymentOps, LocalOps
  <1>6. Permitted(r, l) /\ l \in LabelsOf(r.op)
    BY <1>1, <1>5 DEF Permitted, LabelsOf
  <1>7. Write(s, cash, work) /\ Goto(s, l)
    BY DEF RefundCredit, RefundRows
  <1>8. t.posts = Nothing
    BY <1>1 DEF RowsDone
  <1>9. RowsDone(r, l) = Plus(g, h)
    <2>1. cash = IF r.op = "CONVERT" THEN CashOf[r.user] ELSE r.to
      BY <1>1, <1>5 DEF RefundTarget, Permitted
    <2> QED BY <1>5, <2>1 DEF RowsDone, Effect, RefundEffect
  <1>10. l \in Labels /\ l \notin Entries
    BY DEF Labels, TransferLabels, Entries
  <1> HIDE DEF t, cash, value, up, row1, work, l, g, h
  <1>11. up \in WorkType /\ up.posts = t.posts
    BY <1>2, <1>3, UpdatedType DEF up
  <1>12. row1 \in WorkType /\ row1.posts = Plus(t.posts, h)
    BY <1>3, <1>4, <1>11, InsertedType DEF row1, h
  <1>13. work.posts = Plus(Plus(t.posts, h), g)
    BY <1>3, <1>4, <1>12, InsertedType DEF work, g
  <1>14. g \in [Wallet -> Int] /\ h \in [Wallet -> Int]
    BY <1>3, LegPlus DEF g, h
  <1>15. work.posts = RowsDone(r, l)
    BY <1>8, <1>9, <1>13, <1>14, PlusSums
  <1>16. tx' = [tx EXCEPT ![s] = work]
    BY <1>7 DEF Write
  <1> QED BY <1>6, <1>7, <1>10, <1>15, <1>16, GotoOnTheWay

(* Every step of the three transfer processors.                            *)
LEMMA TransferOnTheWay ==
  ASSUME IInv, BankInv, NEW s \in Session, TransferStep(s)
  PROVE  BankInv'
  BY TransferReadsOnTheWay, FirstLegOnTheWay, ChargeCreditOnTheWay, RefundCreditOnTheWay
     DEF TransferStep

-----------------------------------------------------------------------------
(* The steps of the payments.                                              *)

(* The PIN, the context, and the reads of the two kinds of payment that    *)
(* read again.                                                             *)
LEMMA PaymentReadsOnTheWay ==
  ASSUME IInv, BankInv, NEW s \in Session,
         PinRejected(s) \/ PaymentContext(s) \/ General(s) \/ Mixed(s)
  PROVE  BankInv'
  <1> DEFINE r == req[s]
  <1>1. /\ pc[s] \in {"pay", "general", "mixed"}
        /\ pc[s] \in LabelsOf(r.op)
        /\ pc[s] # "pay" => Permitted(r, pc[s])
    BY DEF PinRejected, PaymentContext, General, Mixed, BankInv, OnItsWay, Entries
  <1>2. r \in Requests /\ r.op \in TransferOps \cup PaymentOps
    <2>1. r \in Requests
      BY <1>1, Serving
    <2> QED BY <2>1, RequestFields
  <1>3. r.op \in PaymentOps
    BY <1>1, <1>2 DEF LabelsOf, TransferOps, PaymentOps, LocalOps
  <1>4. ASSUME NEW view, NEW l \in {"general", "localPay", "mixed", "generalDebit", "mixedLocal"},
               Read(s, view), Goto(s, l), l \in LabelsOf(r.op), Permitted(r, l)
        PROVE  BankInv'
    <2>1. RowsDone(r, l) = RowsDone(r, pc[s])
      BY <1>1, <1>4 DEF RowsDone
    <2>2. l \in Labels /\ l \notin Entries /\ pc[s] # "idle"
      BY <1>1, <1>4 DEF Labels, PaymentLabels, Entries
    <2> QED BY <1>4, <2>1, <2>2, ReadOnTheWay
  <1>5. CASE PinRejected(s)
    BY <1>5, RefuseOnTheWay DEF PinRejected
  <1>6. CASE PaymentContext(s)
    <2>1. CASE Refuse(s, PaymentVerdict(r))
      BY <2>1, RefuseOnTheWay
    <2>2. CASE PaymentVerdict(r) = "ok" /\ Read(s, Snapshot(r)) /\ Goto(s, Route(r))
      <3>1. Owner[r.from] = r.user
        BY <2>2 DEF PaymentVerdict
      <3>2. /\ Route(r) \in {"general", "localPay", "mixed"}
            /\ Route(r) \in LabelsOf(r.op) /\ Permitted(r, Route(r))
        BY <1>3, <3>1 DEF Route, LabelsOf, Permitted, PaymentOps, LocalOps
      <3> QED BY <1>4, <2>2, <3>2
    <2> QED BY <1>6, <2>1, <2>2 DEF PaymentContext
  <1>7. CASE General(s)
    <2>1. CASE Refuse(s, "WALLET_BALANCE_NOT_ENOUGH")
      BY <2>1, RefuseOnTheWay
    <2>2. CASE Read(s, Snapshot(r)) /\ Goto(s, "generalDebit")
      <3>1. pc[s] = "general"
        BY <1>7 DEF General
      <3>2. "generalDebit" \in LabelsOf(r.op) /\ Permitted(r, "generalDebit")
        BY <1>1, <1>3, <3>1 DEF LabelsOf, Permitted, PaymentOps, LocalOps
      <3> QED BY <1>4, <2>2, <3>2
    <2> QED BY <1>7, <2>1, <2>2 DEF General
  <1>8. CASE Mixed(s)
    <2>1. CASE Refuse(s, "WALLET_BALANCE_NOT_ENOUGH")
      BY <2>1, RefuseOnTheWay
    <2>2. CASE Read(s, Snapshot(r)) /\ Goto(s, "mixedLocal")
      <3>1. pc[s] = "mixed"
        BY <1>8 DEF Mixed
      <3>2. "mixedLocal" \in LabelsOf(r.op) /\ Permitted(r, "mixedLocal")
        BY <1>1, <1>3, <3>1 DEF LabelsOf, Permitted, PaymentOps, LocalOps
      <3> QED BY <1>4, <2>2, <3>2
    <2> QED BY <1>8, <2>1, <2>2 DEF Mixed
  <1> QED BY <1>5, <1>6, <1>7, <1>8

(* A GENERAL payment has no transaction, so it never has rows to commit.   *)
LEMMA GeneralOnTheWay ==
  ASSUME IInv, BankInv, NEW s \in Session, GeneralDebit(s) \/ GeneralPost(s) \/ GeneralMerchant(s)
  PROVE  BankInv'
  <1> DEFINE r == req[s]
  <1>1. /\ pc[s] \in {"generalDebit", "generalPost", "generalMerchant"}
        /\ pc[s] \in LabelsOf(r.op) /\ Permitted(r, pc[s])
        /\ tx[s].posts = RowsDone(r, pc[s])
        /\ tx' = [tx EXCEPT ![s] = tx[s]]
    BY DEF GeneralDebit, GeneralPost, GeneralMerchant, BankInv, OnItsWay, Entries,
           IInv, TypeOK, StoreTypeOK
  <1>2. r \in Requests /\ r.op \in TransferOps \cup PaymentOps
    <2>1. r \in Requests
      BY <1>1, Serving
    <2> QED BY <2>1, RequestFields
  <1>3. r.op = "GENERAL"
    BY <1>1, <1>2 DEF LabelsOf, TransferOps, PaymentOps, LocalOps
  <1>4. ASSUME NEW l \in {"generalPost", "generalMerchant"}, Goto(s, l)
        PROVE  BankInv'
    <2>1. l \in LabelsOf(r.op) /\ Permitted(r, l) /\ tx[s].posts = RowsDone(r, l)
      BY <1>1, <1>3 DEF LabelsOf, Permitted, RowsDone
    <2>2. l \in Labels /\ l \notin Entries
      BY DEF Labels, PaymentLabels, Entries
    <2> QED BY <1>1, <1>4, <2>1, <2>2, GotoOnTheWay
  <1>5. CASE GeneralDebit(s)
    BY <1>4, <1>5 DEF GeneralDebit
  <1>6. CASE GeneralPost(s)
    BY <1>4, <1>6 DEF GeneralPost
  <1>7. CASE GeneralMerchant(s)
    BY <1>1, <1>7, AnswerOnTheWay DEF GeneralMerchant, Answer
  <1> QED BY <1>5, <1>6, <1>7

(* LocalStrategy updates and owes the row.                                 *)
LEMMA LocalPayOnTheWay ==
  ASSUME IInv, BankInv, NEW s \in Session, LocalPay(s)
  PROVE  BankInv'
  <1> DEFINE r == req[s]
             up == Updated(tx[s], r.from, -r.amount)
             work == [up EXCEPT !.total = r.amount]
  <1>1. /\ pc[s] = "localPay" /\ pc[s] \in LabelsOf(r.op) /\ Permitted(r, pc[s])
        /\ tx[s].posts = RowsDone(r, pc[s])
        /\ Write(s, r.from, work) /\ Goto(s, "localFinish")
    BY DEF LocalPay, BankInv, OnItsWay, Entries
  <1>2. /\ tx[s] \in WorkType /\ r.from \in Wallet /\ -r.amount \in Int
        /\ r.op \in TransferOps \cup PaymentOps
    <2>1. r \in Requests /\ tx[s] \in WorkType
      BY <1>1, Serving
    <2>2. r.amount \in Int
      BY <2>1, RequestFields
    <2> QED BY <2>1, <2>2, RequestFields
  <1>3. r.op = "LOCAL_CURRENCY"
    BY <1>1, <1>2 DEF LabelsOf, TransferOps, PaymentOps, LocalOps
  <1>4. "localFinish" \in LabelsOf(r.op) /\ Permitted(r, "localFinish")
    BY <1>1, <1>3 DEF LabelsOf, Permitted
  <1>5. RowsDone(r, "localFinish") = RowsDone(r, pc[s])
    BY <1>1, <1>3 DEF RowsDone
  <1>6. "localFinish" \in Labels /\ "localFinish" \notin Entries /\ tx' = [tx EXCEPT ![s] = work]
    BY <1>1 DEF Labels, PaymentLabels, Entries, Write
  <1> HIDE DEF r, up
  <1>7. up \in WorkType /\ up.posts = tx[s].posts
    BY <1>2, UpdatedType DEF up
  <1>8. work.posts = up.posts
    BY <1>7 DEF WorkType
  <1>9. work.posts = RowsDone(r, "localFinish")
    BY <1>1, <1>5, <1>7, <1>8
  <1> HIDE DEF work
  <1> QED BY <1>1, <1>4, <1>6, <1>9, GotoOnTheWay DEF r

(* LocalStrategy's row: it is merchantAmount where the update was          *)
(* inputAmount, and the two are equal here.                                *)
LEMMA LocalFinishOnTheWay ==
  ASSUME IInv, BankInv, NEW s \in Session, LocalFinish(s)
  PROVE  BankInv'
  <1> DEFINE r == req[s]
             tier == Reached(s)
             held == HeldUnderLock(s)
             row == Inserted(tx[s], r.from, -r.total, seen[s].balance[r.from])
             rows == InsertedMerchant(row, r.total)
             work == [rows EXCEPT !.award = Award(tier, held)]
             g == Leg(r.from, -r.amount)
             h == Leg(CashOf[r.user], r.amount - r.total)
  <1>1. /\ pc[s] = "localFinish" /\ pc[s] \in LabelsOf(r.op) /\ Permitted(r, pc[s])
        /\ tx[s].posts = RowsDone(r, pc[s])
    BY DEF LocalFinish, BankInv, OnItsWay, Entries
  <1>2. CASE Refuse(s, "INTERNAL_SERVER_ERROR")
    BY <1>2, RefuseOnTheWay
  <1>3. CASE tx' = [tx EXCEPT ![s] = work] /\ Goto(s, "commit")
    <2>1. /\ tx[s] \in WorkType /\ seen[s].balance \in [Wallet -> Int] /\ r \in Requests
      BY <1>1, Serving
    <2>2. /\ r.from \in Wallet /\ CashOf[r.user] \in Wallet
          /\ r.total \in Int /\ -r.total \in Int
          /\ r.amount \in Int /\ -r.amount \in Int
          /\ r.op \in TransferOps \cup PaymentOps
      <3>1. r.amount \in Int /\ r.total \in Int
        BY <2>1, RequestFields
      <3> QED BY <2>1, <3>1, RequestFields
    <2>3. r.op = "LOCAL_CURRENCY" /\ r.amount = r.total
      BY <1>1, <2>2 DEF LabelsOf, TransferOps, PaymentOps, LocalOps,
                        IInv, RowsMatchUpdates, RowsMatch
    <2>4. "commit" \in LabelsOf(r.op) /\ Permitted(r, "commit")
      BY <1>1, <2>3 DEF LabelsOf, Permitted
    <2>5. tx[s].posts = Nothing /\ RowsDone(r, "commit") = Plus(g, h)
      BY <1>1, <2>3 DEF RowsDone, Effect
    <2>6. h = Nothing
      BY <2>2, <2>3 DEF Leg, Nothing
    <2>7. seen[s].balance[r.from] \in Int
      BY <2>1, <2>2
    <2> HIDE DEF r, tier, held, row, rows
    <2>8. row \in WorkType /\ row.posts = Plus(tx[s].posts, g)
      BY <2>1, <2>2, <2>3, <2>7, InsertedType DEF row
    <2>9. rows \in WorkType /\ rows.posts = row.posts
      BY <2>2, <2>8 DEF rows, InsertedMerchant, WorkType
    <2>10. work.posts = rows.posts
      BY <2>9 DEF WorkType
    <2>11. g \in [Wallet -> Int]
      BY <2>2, LegPlus
    <2> HIDE DEF work, g, h
    <2>12. work.posts = RowsDone(r, "commit")
      BY <2>5, <2>6, <2>8, <2>9, <2>10, <2>11, PlusNothing, PlusSums
    <2>13. "commit" \in Labels /\ "commit" \notin Entries
      BY DEF Labels, Entries
    <2> QED BY <1>3, <2>4, <2>12, <2>13, GotoOnTheWay DEF r
  <1> QED BY <1>2, <1>3 DEF LocalFinish

(* LocalMixedStrategy on the local wallet: the leg and its row in one step. *)
LEMMA MixedLocalOnTheWay ==
  ASSUME IInv, BankInv, NEW s \in Session, MixedLocal(s)
  PROVE  BankInv'
  <1> DEFINE r == req[s]
             tier == Reached(s)
             held == seen[s].held
             up == Updated(tx[s], r.from, -r.amount)
             row == Inserted(up, r.from, -r.amount, seen[s].balance[r.from])
             rows == InsertedMerchant(row, r.amount)
             work == [rows EXCEPT !.total = r.amount, !.award = Award(tier, held)]
             g == Leg(r.from, -r.amount)
  <1>1. /\ pc[s] = "mixedLocal" /\ pc[s] \in LabelsOf(r.op) /\ Permitted(r, pc[s])
        /\ tx[s].posts = RowsDone(r, pc[s])
    BY DEF MixedLocal, BankInv, OnItsWay, Entries
  <1>2. CASE \E e \in Errors : Refuse(s, e)
    BY <1>2, RefuseOnTheWay
  <1>3. CASE Write(s, r.from, work) /\ Goto(s, "mixedMain")
    <2>1. /\ tx[s] \in WorkType /\ seen[s].balance \in [Wallet -> Int] /\ r \in Requests
      BY <1>1, Serving
    <2>2. /\ r.from \in Wallet /\ r.amount \in Int /\ -r.amount \in Int
          /\ r.op \in TransferOps \cup PaymentOps
      <3>1. r.amount \in Int
        BY <2>1, RequestFields
      <3> QED BY <2>1, <3>1, RequestFields
    <2>3. r.op = "LOCAL_CURRENCY"
      BY <1>1, <2>2 DEF LabelsOf, TransferOps, PaymentOps, LocalOps
    <2>4. "mixedMain" \in LabelsOf(r.op) /\ Permitted(r, "mixedMain")
      BY <1>1, <2>3 DEF LabelsOf, Permitted
    <2>5. tx[s].posts = Nothing /\ RowsDone(r, "mixedMain") = g
      BY <1>1, <2>3 DEF RowsDone
    <2>6. seen[s].balance[r.from] \in Int
      BY <2>1, <2>2
    <2> HIDE DEF r, tier, held, up, row, rows
    <2>7. up \in WorkType /\ up.posts = tx[s].posts
      BY <2>1, <2>2, UpdatedType DEF up
    <2>8. row \in WorkType /\ row.posts = Plus(up.posts, g)
      BY <2>2, <2>6, <2>7, InsertedType DEF row
    <2>9. rows \in WorkType /\ rows.posts = row.posts
      BY <2>2, <2>8 DEF rows, InsertedMerchant, WorkType
    <2>10. work.posts = rows.posts
      BY <2>9 DEF WorkType
    <2>11. g \in [Wallet -> Int]
      BY <2>2, LegPlus
    <2> HIDE DEF work, g
    <2>12. work.posts = RowsDone(r, "mixedMain")
      BY <2>5, <2>7, <2>8, <2>9, <2>10, <2>11, PlusSums
    <2>13. "mixedMain" \in Labels /\ "mixedMain" \notin Entries /\ tx' = [tx EXCEPT ![s] = work]
      BY <1>3 DEF Labels, PaymentLabels, Entries, Write
    <2> QED BY <1>3, <2>4, <2>12, <2>13, GotoOnTheWay DEF r
  <1> QED BY <1>2, <1>3 DEF MixedLocal, Errors

(* The rest of the price and its row.                                      *)
LEMMA MixedMainOnTheWay ==
  ASSUME IInv, BankInv, NEW s \in Session, MixedMain(s)
  PROVE  BankInv'
  <1> DEFINE r == req[s]
             c == CashOf[r.user]
             left == r.total - r.amount
             up == Updated(tx[s], c, -left)
             row == Inserted(up, c, -left, seen[s].balance[c])
             work == InsertedMerchant(row, r.amount)
             g == Leg(r.from, -r.amount)
             h == Leg(c, -left)
  <1>1. /\ pc[s] = "mixedMain" /\ pc[s] \in LabelsOf(r.op) /\ Permitted(r, pc[s])
        /\ tx[s].posts = RowsDone(r, pc[s])
        /\ Write(s, c, work) /\ Goto(s, "commit")
    BY DEF MixedMain, BankInv, OnItsWay, Entries
  <1>2. /\ tx[s] \in WorkType /\ seen[s].balance \in [Wallet -> Int] /\ r \in Requests
    BY <1>1, Serving
  <1>3. /\ r.from \in Wallet /\ c \in Wallet /\ r.amount \in Int
        /\ -r.amount \in Int /\ -left \in Int /\ -left = r.amount - r.total
        /\ r.op \in TransferOps \cup PaymentOps
    <2>1. r.amount \in Int /\ r.total \in Int
      BY <1>2, RequestFields
    <2> QED BY <1>2, <2>1, RequestFields
  <1>4. r.op = "LOCAL_CURRENCY"
    BY <1>1, <1>3 DEF LabelsOf, TransferOps, PaymentOps, LocalOps
  <1>5. "commit" \in LabelsOf(r.op) /\ Permitted(r, "commit")
    BY <1>1, <1>4 DEF LabelsOf, Permitted
  <1>6. tx[s].posts = g /\ RowsDone(r, "commit") = Plus(g, h)
    BY <1>1, <1>3, <1>4 DEF RowsDone, Effect
  <1>7. seen[s].balance[c] \in Int
    BY <1>2, <1>3
  <1> HIDE DEF r, c, left, up, row, work
  <1>8. up \in WorkType /\ up.posts = tx[s].posts
    BY <1>2, <1>3, UpdatedType DEF up
  <1>9. row \in WorkType /\ row.posts = Plus(up.posts, h)
    BY <1>3, <1>7, <1>8, InsertedType DEF row
  <1>10. work.posts = row.posts
    BY <1>3, <1>9 DEF work, InsertedMerchant, WorkType
  <1> HIDE DEF g, h
  <1>11. work.posts = RowsDone(r, "commit")
    BY <1>6, <1>8, <1>9, <1>10
  <1>12. "commit" \in Labels /\ "commit" \notin Entries /\ tx' = [tx EXCEPT ![s] = work]
    BY <1>1 DEF Labels, Entries, Write
  <1> QED BY <1>1, <1>5, <1>11, <1>12, GotoOnTheWay DEF r

(* Every step of the payments.                                             *)
LEMMA PaymentOnTheWay ==
  ASSUME IInv, BankInv, NEW s \in Session, PaymentStep(s)
  PROVE  BankInv'
  BY PaymentReadsOnTheWay, GeneralOnTheWay, LocalPayOnTheWay, LocalFinishOnTheWay,
     MixedLocalOnTheWay, MixedMainOnTheWay DEF PaymentStep

-----------------------------------------------------------------------------
(* Arrivals, commits, faults and time.                                     *)

(* A request starts without rows: an idle thread has no open transaction.  *)
LEMMA ReceiveOnTheWay ==
  ASSUME IInv, BankInv, NEW s \in Session, NEW r \in Requests, Receive(s, r)
  PROVE  BankInv'
  <1>1. /\ pc[s] = "idle" /\ pc' = [pc EXCEPT ![s] = Entry(r)]
        /\ req' = [req EXCEPT ![s] = r] /\ tx' = tx
    BY DEF Receive, storeVars
  <1>2. tx' = [tx EXCEPT ![s] = tx[s]]
    BY <1>1 DEF IInv, TypeOK, StoreTypeOK
  <1> SUFFICES ASSUME NEW t \in Session PROVE OnItsWay(t)'
    BY DEF BankInv
  <1>3. CASE t = s
    <2>1. pc'[s] = Entry(r) /\ req'[s] = r /\ tx'[s] = tx[s]
      BY <1>1 DEF IInv, TypeOK, ThreadTypeOK
    <2>2. tx[s].posts = Nothing
      <3>1. RowsMatch(s) /\ pc[s] \notin InTransaction
        BY <1>1 DEF IInv, RowsMatchUpdates, InTransaction
      <3> QED BY <3>1 DEF RowsMatch, NoWork
    <2>3. r.op \in TransferOps \cup PaymentOps
      BY RequestFields
    <2>4. Entry(r) \in LabelsOf(r.op) /\ Entry(r) \in Entries
      BY <2>3 DEF Entry, LabelsOf, Entries, TransferOps, PaymentOps, LocalOps
    <2>5. RowsDone(r, Entry(r)) = Nothing
      BY <2>4 DEF RowsDone, Entries
    <2> QED BY <1>3, <2>1, <2>2, <2>4, <2>5 DEF OnItsWay
  <1>4. CASE t # s
    BY <1>1, <1>2, <1>4, OthersOnTheirWay
  <1> QED BY <1>3, <1>4

(* A crash leaves every thread idle.                                       *)
LEMMA CrashOnTheWay ==
  ASSUME Crash
  PROVE  BankInv'
  BY DEF Crash, BankInv, OnItsWay

(* Steps that touch neither threads nor transactions.                      *)
LEMMA StillOnTheWay ==
  ASSUME BankInv, UNCHANGED <<pc, req, tx>>
  PROVE  BankInv'
  BY DEF BankInv, OnItsWay

(* Every step keeps threads on their way.                                  *)
LEMMA NextOnTheWay ==
  ASSUME IInv, BankInv, [Next]_vars
  PROVE  BankInv'
  <1>1. ASSUME NEW s \in Session, NEW r \in Requests, Receive(s, r) PROVE BankInv'
    BY <1>1, ReceiveOnTheWay
  <1>2. ASSUME NEW s \in Session, TransferStep(s) PROVE BankInv'
    BY <1>2, TransferOnTheWay
  <1>3. ASSUME NEW s \in Session, PaymentStep(s) PROVE BankInv'
    BY <1>3, PaymentOnTheWay
  <1>4. ASSUME NEW s \in Session, Commit(s) PROVE BankInv'
    BY <1>4, AnswerOnTheWay DEF Commit, CommitWork, Answer
  <1>5. ASSUME NEW s \in Session, DeadlockAbort(s) PROVE BankInv'
    BY <1>5, RefuseOnTheWay DEF DeadlockAbort
  <1>6. ASSUME NEW s \in Session, LockWaitTimeout(s) PROVE BankInv'
    BY <1>6, AnswerOnTheWay DEF LockWaitTimeout, RollbackWork
  <1>7. CASE Crash
    BY <1>7, CrashOnTheWay
  <1>8. CASE Tick \/ Drained \/ UNCHANGED vars
    BY <1>8, StillOnTheWay DEF Tick, Drained, vars, storeVars, threadVars
  <1> QED BY <1>1, <1>2, <1>3, <1>4, <1>5, <1>6, <1>7, <1>8 DEF Next, Step

(* Every running thread is on the way of its request, always.              *)
THEOREM AlwaysOnTheWay == Spec => [](IInv /\ BankInv)
  <1>1. Init => IInv /\ BankInv
    BY InitIInv DEF Init, ThreadInit, BankInv, OnItsWay
  <1>2. IInv /\ BankInv /\ [Next]_vars => (IInv /\ BankInv)'
    BY NextIInv, NextOnTheWay
  <1> QED BY <1>1, <1>2, PTL DEF Spec
-----------------------------------------------------------------------------
(* What a step amounts to for the bank.                                    *)

(* The bank computes with the same definitions: its constants are the      *)
(* system's own.                                                           *)
LEMMA BankEffect ==
  ASSUME NEW r
  PROVE  AbstractBank!Effect(r) = Effect(r)
  BY DEF AbstractBank!Effect, AbstractBank!ChargeEffect, AbstractBank!RefundEffect,
         AbstractBank!ConvertBase, AbstractBank!RefundValue, AbstractBank!Credited,
         AbstractBank!Bonus, AbstractBank!RoundHalfUp, AbstractBank!Rate,
         AbstractBank!Leg, AbstractBank!Plus,
         Effect, ChargeEffect, RefundEffect, ConvertBase, RefundValue, Credited,
         Bonus, RoundHalfUp, Rate, Leg, Plus

(* So do its sums.                                                        *)
LEMMA BankSums ==
  /\ AbstractBank!Nothing = Nothing
  /\ \A f, g : AbstractBank!Plus(f, g) = Plus(f, g)
  BY DEF AbstractBank!Nothing, AbstractBank!Plus, Nothing, Plus

(* The effect of a request is a change of whole amounts.                   *)
LEMMA EffectType ==
  ASSUME NEW r \in Requests
  PROVE  Effect(r) \in [Wallet -> Int]
  <1>1. /\ r.user \in User /\ r.from \in Wallet /\ r.to \in Wallet
        /\ r.amount \in Int /\ r.total \in Int /\ CashOf[r.user] \in Wallet
    BY RequestFields
  <1> DEFINE c == CashOf[r.user]
             value == RefundValue(r.amount, Rate(r.from))
  <1>2. Pct[r.from] \in Nat /\ Rate(r.from) \in Nat /\ Rate(r.to) \in Nat
    BY <1>1, RateType, WalletsAssumption
  <1>3. ConvertBase(r) \in Int /\ value \in Int
    BY <1>1, <1>2, AmountTypes DEF ConvertBase
  <1>4. ASSUME NEW f \in Wallet, NEW base \in Int
        PROVE  ChargeEffect(f, r.to, base) \in [Wallet -> Int]
    <2>1. Credited(base, Rate(r.to)) \in Int /\ -base \in Int
      BY <1>2, AmountTypes
    <2> QED BY <1>1, <2>1, LegPlus DEF ChargeEffect
  <1>5. ASSUME NEW w \in Wallet
        PROVE  RefundEffect(r.from, w, r.amount) \in [Wallet -> Int]
    <2>1. value \in Int /\ -r.amount \in Int
      BY <1>1, <1>3
    <2> QED BY <1>1, <2>1, LegPlus DEF RefundEffect
  <1>6. Leg(c, -r.total) \in [Wallet -> Int]
        /\ Plus(Leg(r.from, -r.amount), Leg(c, r.amount - r.total)) \in [Wallet -> Int]
    <2>1. -r.total \in Int /\ -r.amount \in Int /\ r.amount - r.total \in Int
      BY <1>1
    <2> QED BY <1>1, <2>1, LegPlus
  <1>7. /\ ChargeEffect(r.from, r.to, r.amount) \in [Wallet -> Int]
        /\ ChargeEffect(c, r.to, ConvertBase(r)) \in [Wallet -> Int]
        /\ RefundEffect(r.from, r.to, r.amount) \in [Wallet -> Int]
        /\ RefundEffect(r.from, c, r.amount) \in [Wallet -> Int]
    BY <1>1, <1>3, <1>4, <1>5
  <1>8. Plus(RefundEffect(r.from, c, r.amount), ChargeEffect(c, r.to, ConvertBase(r)))
          \in [Wallet -> Int]
    BY <1>7, LegPlus
  <1> QED BY <1>6, <1>7, <1>8 DEF Effect

(* Legs on the wallets of a set change no other wallet.                    *)
LEMMA LegsWithin ==
  ASSUME NEW v \in Wallet, NEW a \in Wallet, NEW b \in Wallet, v # a, v # b,
         NEW x \in Int, NEW y \in Int
  PROVE  Leg(a, x)[v] = 0 /\ Plus(Leg(a, x), Leg(b, y))[v] = 0
  BY DEF Leg, Plus

(* The owner checks that a handler has made when it settles are those that *)
(* the bank asks for: a request touches wallets of its own member only.    *)
LEMMA RequestAuthorized ==
  ASSUME NEW r \in Requests, NEW l, Permitted(r, l), r.op = "CONVERT" => l = "commit"
  PROVE  AbstractBank!Authorized(r)
  <1>1. /\ r.op \in TransferOps \cup PaymentOps
        /\ r.user \in User /\ r.from \in Wallet /\ r.to \in Wallet
        /\ r.amount \in Int /\ r.total \in Int /\ CashOf[r.user] \in Wallet
    BY RequestFields
  <1> DEFINE c == CashOf[r.user]
             value == RefundValue(r.amount, Rate(r.from))
  <1>2. Pct[r.from] \in Nat /\ Rate(r.from) \in Nat /\ Rate(r.to) \in Nat
    BY <1>1, RateType, WalletsAssumption
  <1>3. /\ value \in Int /\ -r.amount \in Int /\ -r.total \in Int
        /\ r.amount - r.total \in Int /\ -ConvertBase(r) \in Int
        /\ Credited(r.amount, Rate(r.to)) \in Int
        /\ Credited(ConvertBase(r), Rate(r.to)) \in Int
    <2>1. ConvertBase(r) \in Int
      BY <1>1, <1>2, AmountTypes DEF ConvertBase
    <2>2. value \in Int
      BY <1>1, <1>2, AmountTypes
    <2>3. Credited(r.amount, Rate(r.to)) \in Int
      BY <1>1, <1>2, AmountTypes
    <2>4. Credited(ConvertBase(r), Rate(r.to)) \in Int
      BY <1>2, <2>1, AmountTypes
    <2> QED BY <1>1, <2>1, <2>2, <2>3, <2>4
  <1>4. Owner[c] = r.user /\ Owner[r.from] = r.user
    BY <1>1, WalletsAssumption DEF Permitted
  <1> SUFFICES ASSUME NEW w \in Wallet, Owner[w] # r.user PROVE Effect(r)[w] = 0
    BY BankEffect DEF AbstractBank!Authorized
  <1>5. w # c /\ w # r.from
    BY <1>4
  <1>6. CASE r.op = "CHARGE"
    <2>1. w # r.to
      BY <1>6 DEF Permitted
    <2>2. ChargeEffect(r.from, r.to, r.amount)[w] = 0
      BY <1>1, <1>3, <1>5, <2>1, LegsWithin DEF ChargeEffect
    <2> QED BY <1>6, <2>2 DEF Effect
  <1>7. CASE r.op = "REFUND"
    <2>1. w # r.to
      BY <1>5, <1>7 DEF Permitted
    <2>2. RefundEffect(r.from, r.to, r.amount)[w] = 0
      BY <1>1, <1>3, <1>5, <2>1, LegsWithin DEF RefundEffect
    <2> QED BY <1>7, <2>2 DEF Effect
  <1>8. CASE r.op = "CONVERT"
    <2>1. w # r.to
      BY <1>8 DEF Permitted
    <2>2. RefundEffect(r.from, c, r.amount)[w] = 0
      BY <1>1, <1>3, <1>5, LegsWithin DEF RefundEffect
    <2>3. ChargeEffect(c, r.to, ConvertBase(r))[w] = 0
      BY <1>1, <1>3, <1>5, <2>1, LegsWithin DEF ChargeEffect
    <2>4. Effect(r)[w] = RefundEffect(r.from, c, r.amount)[w]
                         + ChargeEffect(c, r.to, ConvertBase(r))[w]
      BY <1>8 DEF Effect, Plus
    <2> QED BY <2>2, <2>3, <2>4
  <1>9. CASE r.op = "GENERAL"
    BY <1>1, <1>3, <1>5, <1>9, LegsWithin DEF Effect
  <1>10. CASE r.op = "LOCAL_CURRENCY"
    <2>1. Plus(Leg(r.from, -r.amount), Leg(c, r.amount - r.total))[w] = 0
      BY <1>1, <1>3, <1>5, LegsWithin
    <2> QED BY <1>10, <2>1 DEF Effect
  <1> QED BY <1>1, <1>6, <1>7, <1>8, <1>9, <1>10 DEF TransferOps, PaymentOps, LocalOps

(* The kinds of steps that the bank takes.                                 *)
LEMMA BankSteps ==
  /\ \A r \in Requests : AbstractBank!Settle(r) => AbstractBank!Next
  /\ \A r \in Requests, t \in Session :
       AbstractBank!Take(t, r) \/ AbstractBank!Post(t, r) => AbstractBank!Next
  /\ \A T \in SUBSET Session : AbstractBank!Lose(T) => AbstractBank!Next
  BY DEF AbstractBank!Next

(* A step that leaves the books alone, and starts no GENERAL debit, at     *)
(* most loses tellers.                                                     *)
LEMMA QuietStep ==
  ASSUME UNCHANGED <<balance, posted, unposted>>,
         \A t \in Session : pc'[t] = "generalPost" => pc[t] = "generalPost" /\ req'[t] = req[t]
  PROVE  AbstractBank!Next
  <1>1. PICK T \in SUBSET Session :
          T = { t \in Session : pc[t] = "generalPost" /\ pc'[t] # "generalPost" }
    OBVIOUS
  <1> DEFINE pending == [t \in Session |-> IF pc[t] = "generalPost" THEN req[t] ELSE NoRequest]
  <1>2. ASSUME NEW t \in Session
        PROVE  pending'[t] = IF t \in T THEN NoRequest ELSE pending[t]
    BY <1>1
  <1>3. pending' = [t \in Session |-> IF t \in T THEN NoRequest ELSE pending[t]]
    BY <1>2
  <1>4. AbstractBank!Lose(T)
    BY <1>3 DEF AbstractBank!Lose
  <1> QED BY <1>4, BankSteps

(* A statement that goes to another label than the row of a GENERAL debit. *)
LEMMA QuietGoto ==
  ASSUME IInv, NEW s \in Session, NEW l, l # "generalPost",
         pc' = [pc EXCEPT ![s] = l], req' = [req EXCEPT ![s] = req'[s]],
         UNCHANGED <<balance, posted, unposted>>
  PROVE  AbstractBank!Next
  <1>1. ASSUME NEW t \in Session, pc'[t] = "generalPost"
        PROVE  pc[t] = "generalPost" /\ req'[t] = req[t]
    <2>1. t # s
      BY <1>1 DEF IInv, TypeOK, ThreadTypeOK
    <2> QED BY <1>1, <2>1 DEF IInv, TypeOK, ThreadTypeOK
  <1> QED BY <1>1, QuietStep

(* Refusals and reads.                                                     *)
LEMMA QuietAnswers ==
  ASSUME IInv, NEW s \in Session,
         \/ \E e : Refuse(s, e)
         \/ \E view, l : l # "generalPost" /\ Read(s, view) /\ Goto(s, l)
         \/ \E w, work, l : l # "generalPost" /\ Write(s, w, work) /\ Goto(s, l)
  PROVE  AbstractBank!Next
  <1>1. CASE \E e : Refuse(s, e)
    <2>1. /\ pc' = [pc EXCEPT ![s] = "idle"] /\ req' = [req EXCEPT ![s] = NoRequest]
          /\ UNCHANGED <<balance, posted, unposted>>
      BY <1>1 DEF Refuse, RollbackWork, Answer, committedVars
    <2>2. req' = [req EXCEPT ![s] = req'[s]]
      BY <2>1 DEF IInv, TypeOK, ThreadTypeOK
    <2> QED BY <2>1, <2>2, QuietGoto
  <1>2. ASSUME NEW l, l # "generalPost", Goto(s, l), UNCHANGED committedVars
        PROVE  AbstractBank!Next
    <2>1. /\ pc' = [pc EXCEPT ![s] = l] /\ req' = [req EXCEPT ![s] = req'[s]]
          /\ UNCHANGED <<balance, posted, unposted>>
      BY <1>2 DEF Goto, committedVars, IInv, TypeOK, ThreadTypeOK
    <2> QED BY <1>2, <2>1, QuietGoto
  <1> QED BY <1>1, <1>2 DEF Read, Write

(* The steps of the transfers are quiet: they work in the transaction.     *)
LEMMA TransferQuiet ==
  ASSUME IInv, NEW s \in Session, TransferStep(s)
  PROVE  AbstractBank!Next
  <1>1. ASSUME NEW verdict, NEW view, NEW l, l # "generalPost", Decide(s, verdict, view, l)
        PROVE  AbstractBank!Next
    BY <1>1, QuietAnswers DEF Decide
  <1>2. CASE Charge(s) \/ Refund(s) \/ Convert(s) \/ ConvertCharge(s)
    <2>1. "chargeDebit" # "generalPost" /\ "refundDebit" # "generalPost"
      OBVIOUS
    <2> QED BY <1>1, <1>2, <2>1 DEF Charge, Refund, Convert, ConvertCharge
  <1>3. CASE ChargeDebit(s) \/ ChargeCredit(s) \/ RefundDebit(s) \/ RefundCredit(s)
    <2>1. ASSUME NEW w, NEW work, NEW l, l # "generalPost", Write(s, w, work), Goto(s, l)
          PROVE  AbstractBank!Next
      BY <2>1, QuietAnswers
    <2> QED BY <1>3, <2>1 DEF ChargeDebit, ChargeCredit, RefundDebit, RefundCredit
  <1> QED BY <1>2, <1>3 DEF TransferStep

(* So are those of the local-currency payments, and of a GENERAL payment   *)
(* before its debit and after its row.                                     *)
LEMMA PaymentQuiet ==
  ASSUME IInv, NEW s \in Session, PaymentStep(s), ~GeneralDebit(s), ~GeneralPost(s)
  PROVE  AbstractBank!Next
  <1>1. CASE PinRejected(s)
    BY <1>1, QuietAnswers DEF PinRejected
  <1>2. CASE PaymentContext(s) \/ General(s) \/ Mixed(s)
    <2>1. Route(req[s]) # "generalPost"
      BY DEF Route
    <2>2. ASSUME NEW view, NEW l, l # "generalPost", Read(s, view), Goto(s, l)
          PROVE  AbstractBank!Next
      BY <2>2, QuietAnswers
    <2>3. ASSUME NEW e, Refuse(s, e) PROVE AbstractBank!Next
      BY <2>3, QuietAnswers
    <2> QED BY <1>2, <2>1, <2>2, <2>3 DEF PaymentContext, General, Mixed
  <1>3. CASE GeneralMerchant(s)
    <2>1. /\ pc' = [pc EXCEPT ![s] = "idle"] /\ req' = [req EXCEPT ![s] = NoRequest]
          /\ UNCHANGED <<balance, posted, unposted>>
      BY <1>3 DEF GeneralMerchant, Answer
    <2>2. req' = [req EXCEPT ![s] = req'[s]]
      BY <2>1 DEF IInv, TypeOK, ThreadTypeOK
    <2> QED BY <2>1, <2>2, QuietGoto
  <1>4. CASE LocalPay(s) \/ MixedLocal(s) \/ MixedMain(s)
    <2>1. ASSUME NEW w, NEW work, NEW l, l # "generalPost", Write(s, w, work), Goto(s, l)
          PROVE  AbstractBank!Next
      BY <2>1, QuietAnswers
    <2>2. ASSUME NEW e, Refuse(s, e) PROVE AbstractBank!Next
      BY <2>2, QuietAnswers
    <2> QED BY <1>4, <2>1, <2>2 DEF LocalPay, MixedLocal, MixedMain
  <1>5. CASE LocalFinish(s)
    <2>1. CASE \E e : Refuse(s, e)
      BY <2>1, QuietAnswers
    <2>2. CASE Goto(s, "commit") /\ UNCHANGED committedVars
      <3>1. /\ pc' = [pc EXCEPT ![s] = "commit"] /\ req' = [req EXCEPT ![s] = req'[s]]
            /\ UNCHANGED <<balance, posted, unposted>>
        BY <2>2 DEF Goto, committedVars, IInv, TypeOK, ThreadTypeOK
      <3> QED BY <3>1, QuietGoto
    <2> QED BY <1>5, <2>1, <2>2 DEF LocalFinish
  <1> QED BY <1>1, <1>2, <1>3, <1>4, <1>5 DEF PaymentStep

-----------------------------------------------------------------------------
(* The steps that keep the books.                                          *)

(* COMMIT settles the request: what the transaction changed is what it     *)
(* posted, and that is the request's whole effect.                         *)
LEMMA CommitEffect ==
  ASSUME IInv, BankInv, NEW s \in Session, Commit(s)
  PROVE  /\ req[s] \in Requests /\ req[s].op # "GENERAL" /\ Permitted(req[s], "commit")
         /\ balance' = Plus(balance, Effect(req[s]))
         /\ posted' = Plus(posted, Effect(req[s]))
         /\ unposted' = unposted
         /\ pc' = [pc EXCEPT ![s] = "idle"] /\ req' = [req EXCEPT ![s] = NoRequest]
         /\ reply' = [reply EXCEPT ![s] = "ok"]
  <1> DEFINE r == req[s]
  <1>1. /\ pc[s] = "commit" /\ CommitWork(s, r) /\ Answer(s, "ok")
    BY DEF Commit
  <1>2. /\ pc[s] \in LabelsOf(r.op) /\ Permitted(r, "commit")
        /\ tx[s].posts = RowsDone(r, "commit")
    BY <1>1 DEF BankInv, OnItsWay, Entries
  <1>3. r \in Requests /\ tx[s].delta = Plus(tx[s].posts, Owed(s))
        /\ tx[s].posts \in [Wallet -> Int]
    BY <1>1, Serving
  <1>4. tx[s].posts = Effect(r)
    BY <1>2 DEF RowsDone
  <1>5. Owed(s) = Nothing
    BY <1>1 DEF Owed
  <1>6. tx[s].delta = Effect(r)
    BY <1>3, <1>4, <1>5, PlusNothing
  <1>7. r.op # "GENERAL"
    BY <1>1, <1>2 DEF LabelsOf
  <1> QED BY <1>1, <1>2, <1>3, <1>4, <1>6, <1>7 DEF CommitWork, Answer

(* So a commit is a settlement of the bank.                                *)
LEMMA CommitSettles ==
  ASSUME IInv, BankInv, NEW s \in Session, Commit(s)
  PROVE  AbstractBank!Next
  <1> DEFINE r == req[s]
  <1>1. /\ r \in Requests /\ r.op # "GENERAL"
        /\ balance' = Plus(balance, Effect(r))
        /\ posted' = Plus(posted, Effect(r))
        /\ unposted' = unposted
        /\ pc' = [pc EXCEPT ![s] = "idle"] /\ req' = [req EXCEPT ![s] = NoRequest]
    BY CommitEffect
  <1>2. AbstractBank!Authorized(r)
    BY <1>1, CommitEffect, RequestAuthorized
  <1>3. pc[s] = "commit"
    BY DEF Commit
  <1>4. ASSUME NEW t \in Session
        PROVE  (IF pc'[t] = "generalPost" THEN req'[t] ELSE NoRequest)
               = (IF pc[t] = "generalPost" THEN req[t] ELSE NoRequest)
    BY <1>1, <1>3 DEF IInv, TypeOK, ThreadTypeOK
  <1> HIDE DEF r
  <1>5. AbstractBank!Settle(r)
    BY <1>1, <1>2, <1>4, BankEffect, BankSums DEF AbstractBank!Settle
  <1> QED BY <1>1, <1>5, BankSteps

(* Taking from one wallet of a function is the sum with a leg.             *)
LEMMA LegLess ==
  ASSUME NEW f \in [Wallet -> Int], NEW c \in Wallet, NEW x \in Int,
         NEW g, g = [f EXCEPT ![c] = @ - x]
  PROVE  g = Plus(f, Leg(c, -x))
  <1>1. ASSUME NEW w \in Wallet
        PROVE  g[w] = f[w] + Leg(c, -x)[w]
    <2>1. f[w] \in Int
      OBVIOUS
    <2>2. CASE w = c
      BY <2>1, <2>2 DEF Leg, AbstractBank!Minus
    <2>3. CASE w # c
      BY <2>1, <2>3 DEF Leg, AbstractBank!Minus
    <2> QED BY <2>2, <2>3
  <1>2. g = [w \in Wallet |-> g[w]]
    OBVIOUS
  <1> QED BY <1>1, <1>2 DEF Plus

(* Adding to it is the sum with the leg that the bank turns around.        *)
LEMMA LegMore ==
  ASSUME NEW f \in [Wallet -> Int], NEW c \in Wallet, NEW x \in Int,
         NEW g, g = [f EXCEPT ![c] = @ + x]
  PROVE  g = Plus(f, AbstractBank!Minus(Leg(c, -x)))
  <1>1. ASSUME NEW w \in Wallet
        PROVE  g[w] = f[w] + AbstractBank!Minus(Leg(c, -x))[w]
    <2>1. f[w] \in Int
      OBVIOUS
    <2>2. CASE w = c
      BY <2>1, <2>2 DEF Leg, AbstractBank!Minus
    <2>3. CASE w # c
      BY <2>1, <2>3 DEF Leg, AbstractBank!Minus
    <2> QED BY <2>2, <2>3
  <1>2. g = [w \in Wallet |-> g[w]]
    OBVIOUS
  <1> QED BY <1>1, <1>2 DEF Plus

(* The autocommitted debit of a GENERAL payment: its thread becomes a      *)
(* teller that has cash to post.                                           *)
LEMMA GeneralDebitTakes ==
  ASSUME IInv, BankInv, NEW s \in Session, GeneralDebit(s)
  PROVE  AbstractBank!Next
  <1>0. PICK r \in Requests : r = req[s]
    BY Serving DEF GeneralDebit
  <1> DEFINE c == CashOf[r.user]
             x == r.total
  <1>1. /\ pc[s] = "generalDebit" /\ Goto(s, "generalPost")
        /\ balance' = [balance EXCEPT ![c] = @ - x]
        /\ unposted' = [unposted EXCEPT ![c] = @ + x]
        /\ posted' = posted
    BY <1>0 DEF GeneralDebit
  <1>3. r.op \in TransferOps \cup PaymentOps /\ c \in Wallet /\ x \in Int
    BY RequestFields
  <1>4. r.op = "GENERAL" /\ Permitted(r, "generalDebit")
    BY <1>0, <1>1, <1>3 DEF BankInv, OnItsWay, Entries, LabelsOf, TransferOps, PaymentOps, LocalOps
  <1>5. Effect(r) = Leg(c, -x)
    BY <1>4 DEF Effect
  <1>6. AbstractBank!Authorized(r)
    BY <1>4, RequestAuthorized
  <1> DEFINE pending == [t \in Session |-> IF pc[t] = "generalPost" THEN req[t] ELSE NoRequest]
  <1>7. pending[s] = NoRequest
    BY <1>1
  <1>8. pending' = [pending EXCEPT ![s] = r]
    <2>1. ASSUME NEW t \in Session
          PROVE  (IF pc'[t] = "generalPost" THEN req'[t] ELSE NoRequest)
                 = IF t = s THEN r ELSE IF pc[t] = "generalPost" THEN req[t] ELSE NoRequest
      BY <1>0, <1>1 DEF Goto, IInv, TypeOK, ThreadTypeOK
    <2> QED BY <2>1
  <1>9. balance \in [Wallet -> Int] /\ unposted \in [Wallet -> Int]
    BY DEF IInv, TypeOK, StoreTypeOK
  <1> HIDE DEF c, x
  <1>10. /\ balance' = AbstractBank!Plus(balance, AbstractBank!Effect(r))
         /\ unposted' = AbstractBank!Plus(unposted, AbstractBank!Minus(AbstractBank!Effect(r)))
    <2>1. AbstractBank!Effect(r) = Leg(c, -x)
      BY <1>5, BankEffect
    <2>2. /\ balance' = Plus(balance, Leg(c, -x))
          /\ unposted' = Plus(unposted, AbstractBank!Minus(Leg(c, -x)))
      <3>1. balance' = Plus(balance, Leg(c, -x))
        BY <1>1, <1>3, <1>9, LegLess
      <3>2. unposted' = Plus(unposted, AbstractBank!Minus(Leg(c, -x)))
        BY <1>1, <1>3, <1>9, LegMore
      <3> QED BY <3>1, <3>2
    <2> QED BY <2>1, <2>2, BankSums
  <1>11. AbstractBank!Take(s, r)
    BY <1>1, <1>4, <1>6, <1>7, <1>8, <1>10 DEF AbstractBank!Take
  <1> QED BY <1>11, BankSteps

(* Its row: the teller posts what it took.                                 *)
LEMMA GeneralPostPosts ==
  ASSUME IInv, BankInv, NEW s \in Session, GeneralPost(s)
  PROVE  AbstractBank!Next
  <1>0. PICK r \in Requests : r = req[s]
    BY Serving DEF GeneralPost
  <1> DEFINE c == CashOf[r.user]
             x == r.total
  <1>1. /\ pc[s] = "generalPost" /\ Goto(s, "generalMerchant")
        /\ posted' = [posted EXCEPT ![c] = @ - x]
        /\ unposted' = [unposted EXCEPT ![c] = @ - x]
        /\ balance' = balance
    BY <1>0 DEF GeneralPost
  <1>3. r.op \in TransferOps \cup PaymentOps /\ c \in Wallet /\ x \in Int
    BY RequestFields
  <1>4. r.op = "GENERAL"
    BY <1>0, <1>1, <1>3 DEF BankInv, OnItsWay, Entries, LabelsOf, TransferOps, PaymentOps, LocalOps
  <1>5. Effect(r) = Leg(c, -x)
    BY <1>4 DEF Effect
  <1> DEFINE pending == [t \in Session |-> IF pc[t] = "generalPost" THEN req[t] ELSE NoRequest]
  <1>6. pending[s] = r
    BY <1>0, <1>1
  <1>7. pending' = [pending EXCEPT ![s] = NoRequest]
    <2>1. ASSUME NEW t \in Session
          PROVE  (IF pc'[t] = "generalPost" THEN req'[t] ELSE NoRequest)
                 = IF t = s THEN NoRequest
                   ELSE IF pc[t] = "generalPost" THEN req[t] ELSE NoRequest
      BY <1>0, <1>1 DEF Goto, IInv, TypeOK, ThreadTypeOK
    <2> QED BY <2>1
  <1>8. posted \in [Wallet -> Int] /\ unposted \in [Wallet -> Int]
    BY DEF IInv, TypeOK, StoreTypeOK
  <1> HIDE DEF c, x
  <1>9. /\ posted' = AbstractBank!Plus(posted, AbstractBank!Effect(r))
        /\ unposted' = AbstractBank!Plus(unposted, AbstractBank!Effect(r))
    <2>1. AbstractBank!Effect(r) = Leg(c, -x)
      BY <1>5, BankEffect
    <2>2. /\ posted' = Plus(posted, Leg(c, -x))
          /\ unposted' = Plus(unposted, Leg(c, -x))
      <3>1. posted' = Plus(posted, Leg(c, -x))
        BY <1>1, <1>3, <1>8, LegLess
      <3>2. unposted' = Plus(unposted, Leg(c, -x))
        BY <1>1, <1>3, <1>8, LegLess
      <3> QED BY <3>1, <3>2
    <2> QED BY <2>1, <2>2, BankSums
  <1>10. AbstractBank!Post(s, r)
    BY <1>1, <1>6, <1>7, <1>9 DEF AbstractBank!Post
  <1> QED BY <1>10, BankSteps

-----------------------------------------------------------------------------
(* The refinement.                                                         *)

(* The database starts as the bank does, with no teller at work.           *)
LEMMA InitBank ==
  ASSUME Init
  PROVE  AbstractBank!Init
  <1>1. [s \in Session |-> IF pc[s] = "generalPost" THEN req[s] ELSE NoRequest]
          = [s \in Session |-> NoRequest]
    BY DEF Init, ThreadInit
  <1> QED BY <1>1, BankSums DEF Init, StoreInit, AbstractBank!Init

(* Every step is a step of the bank, or leaves the bank as it is.          *)
LEMMA NextBank ==
  ASSUME IInv, BankInv, [Next]_vars
  PROVE  [AbstractBank!Next]_(AbstractBank!bankVars)
  <1>1. ASSUME NEW s \in Session, NEW r \in Requests, Receive(s, r) PROVE AbstractBank!Next
    <2>1. /\ pc[s] = "idle" /\ pc' = [pc EXCEPT ![s] = Entry(r)]
          /\ req' = [req EXCEPT ![s] = r] /\ UNCHANGED <<balance, posted, unposted>>
      BY <1>1 DEF Receive, storeVars, committedVars
    <2>2. Entry(r) # "generalPost"
      BY DEF Entry
    <2>3. req' = [req EXCEPT ![s] = req'[s]]
      BY <2>1 DEF IInv, TypeOK, ThreadTypeOK
    <2> QED BY <2>1, <2>2, <2>3, QuietGoto
  <1>2. ASSUME NEW s \in Session, TransferStep(s) PROVE AbstractBank!Next
    BY <1>2, TransferQuiet
  <1>3. ASSUME NEW s \in Session, PaymentStep(s) PROVE AbstractBank!Next
    BY <1>3, PaymentQuiet, GeneralDebitTakes, GeneralPostPosts
  <1>4. ASSUME NEW s \in Session, Commit(s) PROVE AbstractBank!Next
    BY <1>4, CommitSettles
  <1>5. ASSUME NEW s \in Session, DeadlockAbort(s) PROVE AbstractBank!Next
    BY <1>5, QuietAnswers DEF DeadlockAbort
  <1>6. ASSUME NEW s \in Session, LockWaitTimeout(s) PROVE AbstractBank!Next
    <2>1. /\ pc' = [pc EXCEPT ![s] = "idle"] /\ req' = [req EXCEPT ![s] = NoRequest]
          /\ UNCHANGED <<balance, posted, unposted>>
      BY <1>6 DEF LockWaitTimeout, RollbackWork, committedVars
    <2>2. req' = [req EXCEPT ![s] = req'[s]]
      BY <2>1 DEF IInv, TypeOK, ThreadTypeOK
    <2> QED BY <2>1, <2>2, QuietGoto
  <1>7. CASE Crash
    <2>1. /\ pc' = [s \in Session |-> "idle"] /\ UNCHANGED <<balance, posted, unposted>>
      BY <1>7 DEF Crash, committedVars
    <2> QED BY <2>1, QuietStep
  <1>8. CASE Tick \/ Drained \/ UNCHANGED vars
    <2>1. UNCHANGED <<pc, req, balance, posted, unposted>>
      BY <1>8 DEF Tick, Drained, vars, storeVars, threadVars, committedVars
    <2> QED BY <2>1, QuietStep
  <1> QED BY <1>1, <1>2, <1>3, <1>4, <1>5, <1>6, <1>7, <1>8 DEF Next, Step

(* However transfers, payments, deadlocks, timeouts and crashes interleave *)
(* over TransactionServiceImpl's processors and PaymentProcessor's         *)
(* strategies, the balances and statements are those of the abstract bank: *)
(* whole effects of authorized requests, settled in one step, and GENERAL  *)
(* payments taken by a teller that posts them once or is lost.             *)
THEOREM BankRefinement == Spec => ImplementsBank
  <1>1. Init => AbstractBank!Init
    BY InitBank
  <1>2. IInv /\ BankInv /\ [Next]_vars => [AbstractBank!Next]_(AbstractBank!bankVars)
    BY NextBank
  <1> QED BY <1>1, <1>2, AlwaysOnTheWay, PTL DEF Spec, ImplementsBank, AbstractBank!Spec

-----------------------------------------------------------------------------
(* What an answer means.                                                   *)

(* The answer of one thread, and what it says of the tables.               *)
Honest(s) ==
  pc[s] # "idle" /\ pc'[s] = "idle" /\ req[s].op # "GENERAL" =>
    IF reply'[s] = "ok"
      THEN /\ balance' = Plus(balance, Effect(req[s]))
           /\ posted' = Plus(posted, Effect(req[s]))
      ELSE UNCHANGED <<balance, posted, totalPayment, badges, charged>>

(* An error answer given while the tables stay is honest.                  *)
LEMMA HonestRefusal ==
  ASSUME IInv, UNCHANGED committedVars, NEW s \in Session, reply'[s] # "ok"
  PROVE  Honest(s)
  BY DEF Honest, committedVars

(* A thread whose label stays, or that goes on serving, answers nothing.   *)
LEMMA HonestSilence ==
  ASSUME NEW s \in Session, pc'[s] # "idle" \/ pc'[s] = pc[s]
  PROVE  Honest(s)
  BY DEF Honest

(* Refusals have a reason, which is never "ok".                            *)
LEMMA RefusalHonest ==
  ASSUME IInv, NEW s \in Session, NEW t \in Session, NEW e, e # "ok", Refuse(s, e)
  PROVE  Honest(t)
  <1>1. CASE t = s
    BY <1>1, HonestRefusal DEF Refuse, RollbackWork, Answer, IInv, TypeOK, ThreadTypeOK
  <1>2. CASE t # s
    BY <1>2, HonestSilence DEF Refuse, Answer, IInv, TypeOK, ThreadTypeOK
  <1> QED BY <1>1, <1>2

(* Statements that go on answer nothing.                                   *)
LEMMA GotoHonest ==
  ASSUME IInv, NEW s \in Session, NEW t \in Session, NEW l, l # "idle", Goto(s, l)
  PROVE  Honest(t)
  BY HonestSilence DEF Goto, IInv, TypeOK, ThreadTypeOK

(* The handlers' steps.                                                    *)
LEMMA StepHonest ==
  ASSUME IInv, BankInv, NEW s \in Session, NEW t \in Session, Step(s)
  PROVE  Honest(t)
  <1>1. ASSUME NEW verdict, NEW view, NEW l, l # "idle", Decide(s, verdict, view, l)
        PROVE  Honest(t)
    BY <1>1, RefusalHonest, GotoHonest DEF Decide
  <1>2. CASE Charge(s) \/ Refund(s) \/ Convert(s) \/ ConvertCharge(s)
    <2>1. "chargeDebit" # "idle" /\ "refundDebit" # "idle"
      OBVIOUS
    <2> QED BY <1>1, <1>2, <2>1 DEF Charge, Refund, Convert, ConvertCharge
  <1>3. CASE \/ ChargeDebit(s) \/ ChargeCredit(s) \/ RefundDebit(s) \/ RefundCredit(s)
             \/ GeneralDebit(s) \/ GeneralPost(s) \/ LocalPay(s) \/ MixedMain(s)
    <2>1. ASSUME NEW l, l # "idle", Goto(s, l) PROVE Honest(t)
      BY <2>1, GotoHonest
    <2> QED BY <1>3, <2>1 DEF ChargeDebit, ChargeCredit, RefundDebit, RefundCredit,
                              GeneralDebit, GeneralPost, LocalPay, MixedMain
  <1>4. CASE \/ PinRejected(s) \/ PaymentContext(s) \/ General(s) \/ Mixed(s)
             \/ LocalFinish(s) \/ MixedLocal(s)
    <2>1. ASSUME NEW l, l # "idle", Goto(s, l) PROVE Honest(t)
      BY <2>1, GotoHonest
    <2>2. ASSUME NEW e, e # "ok", Refuse(s, e) PROVE Honest(t)
      BY <2>2, RefusalHonest
    <2>3. Route(req[s]) # "idle"
      BY DEF Route
    <2> QED BY <1>4, <2>1, <2>2, <2>3 DEF PinRejected, PaymentContext, General, Mixed,
                                          LocalFinish, MixedLocal
  <1>5. CASE GeneralMerchant(s)
    <2>1. pc[s] = "generalMerchant" /\ Answer(s, "ok")
      BY <1>5 DEF GeneralMerchant
    <2>2. req[s].op = "GENERAL"
      <3>1. req[s] \in Requests
        BY <2>1, Serving
      <3>2. req[s].op \in TransferOps \cup PaymentOps
        BY <3>1, RequestFields
      <3> QED BY <2>1, <3>2 DEF BankInv, OnItsWay, Entries, LabelsOf, TransferOps,
                                PaymentOps, LocalOps
    <2>3. CASE t = s
      BY <2>2, <2>3 DEF Honest
    <2>4. CASE t # s
      BY <2>1, <2>4, HonestSilence DEF Answer, IInv, TypeOK, ThreadTypeOK
    <2> QED BY <2>3, <2>4
  <1>6. CASE Commit(s)
    <2>1. /\ balance' = Plus(balance, Effect(req[s])) /\ posted' = Plus(posted, Effect(req[s]))
          /\ pc' = [pc EXCEPT ![s] = "idle"] /\ reply' = [reply EXCEPT ![s] = "ok"]
      BY <1>6, CommitEffect
    <2>2. CASE t = s
      BY <2>1, <2>2 DEF Honest, IInv, TypeOK, ThreadTypeOK
    <2>3. CASE t # s
      BY <2>1, <2>3, HonestSilence DEF IInv, TypeOK, ThreadTypeOK
    <2> QED BY <2>2, <2>3
  <1> QED BY <1>2, <1>3, <1>4, <1>5, <1>6 DEF Step, TransferStep, PaymentStep

(* Every step answers honestly.                                            *)
LEMMA NextHonest ==
  ASSUME IInv, BankInv, [Next]_vars, NEW t \in Session
  PROVE  Honest(t)
  <1>1. ASSUME NEW s \in Session, NEW r \in Requests, Receive(s, r) PROVE Honest(t)
    <2>1. Entry(r) # "idle"
      BY DEF Entry
    <2> QED BY <1>1, <2>1, HonestSilence DEF Receive, IInv, TypeOK, ThreadTypeOK
  <1>2. ASSUME NEW s \in Session, Step(s) PROVE Honest(t)
    BY <1>2, StepHonest
  <1>3. ASSUME NEW s \in Session, DeadlockAbort(s) PROVE Honest(t)
    BY <1>3, RefusalHonest DEF DeadlockAbort
  <1>4. ASSUME NEW s \in Session, LockWaitTimeout(s) PROVE Honest(t)
    <2>1. /\ pc' = [pc EXCEPT ![s] = "idle"] /\ reply' = [reply EXCEPT ![s] = "LOCK_FAILURE"]
          /\ UNCHANGED committedVars
      BY <1>4 DEF LockWaitTimeout, RollbackWork
    <2>2. CASE t = s
      BY <2>1, <2>2, HonestRefusal DEF IInv, TypeOK, ThreadTypeOK
    <2>3. CASE t # s
      BY <2>1, <2>3, HonestSilence DEF IInv, TypeOK, ThreadTypeOK
    <2> QED BY <2>2, <2>3
  <1>5. CASE Crash
    <2>1. UNCHANGED committedVars
          /\ reply'[t] = IF pc[t] = "idle" THEN reply[t] ELSE "CONNECTION_LOST"
      BY <1>5 DEF Crash
    <2>2. CASE pc[t] = "idle"
      BY <2>2 DEF Honest
    <2>3. CASE pc[t] # "idle"
      BY <2>1, <2>3, HonestRefusal
    <2> QED BY <2>2, <2>3
  <1>6. CASE Tick \/ Drained \/ UNCHANGED vars
    BY <1>6, HonestSilence DEF Tick, Drained, vars, threadVars
  <1> QED BY <1>1, <1>2, <1>3, <1>4, <1>5, <1>6 DEF Next

(* A transfer or local-currency payment that is answered ok has had its    *)
(* whole effect on balances and statements, and one that is refused, is a  *)
(* deadlock victim, times out or loses its server has had none: the        *)
(* promise of @Transactional on the processors and strategies.             *)
THEOREM AnswersAreHonest == Spec => AllOrNothing
  <1>1. IInv /\ BankInv /\ [Next]_vars
          => [\A s \in Session :
                pc[s] # "idle" /\ pc'[s] = "idle" /\ req[s].op # "GENERAL" =>
                  IF reply'[s] = "ok"
                    THEN /\ balance' = Plus(balance, Effect(req[s]))
                         /\ posted' = Plus(posted, Effect(req[s]))
                    ELSE UNCHANGED <<balance, posted, totalPayment, badges, charged>>]_vars
    BY NextHonest DEF Honest
  <1> QED BY <1>1, AlwaysOnTheWay, PTL DEF Spec, AllOrNothing

=============================================================================
