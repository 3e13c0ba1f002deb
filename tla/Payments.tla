------------------------------ MODULE Payments ------------------------------
(***************************************************************************)
(* Payments: PaymentProcessor and its strategies.  The processor runs      *)
(* outside any transaction: its reads, and every statement of a GENERAL    *)
(* payment, commit one by one.  LocalStrategy and LocalMixedStrategy each  *)
(* run in a transaction that begins after the processor's checks.          *)
(***************************************************************************)
EXTENDS RequestThreads

(* PaymentProcessor's checks of the context, in its order.  The balance is *)
(* that of the local wallet, whatever the payment is made with.            *)
PaymentVerdict(r) ==
  IF r.from \in Cash THEN "LOCAL_CURRENCY_NOT_FOUND"
  ELSE IF Owner[r.from] # r.user THEN "UNAUTHORIZED_WALLET_ACCESS"
  ELSE IF balance[r.from] < r.total THEN "WALLET_BALANCE_NOT_ENOUGH"
  ELSE IF r.op # "GENERAL" /\ r.amount > r.total
    THEN "INPUT_AMOUNT_EXCEEDS_MERCHANT_AMOUNT"
  ELSE "ok"

(* processGeneral, or the first strategy that supports the payment.        *)
Route(r) == IF r.op = "GENERAL" THEN "general"
            ELSE IF r.amount = r.total THEN "localPay" ELSE "mixed"

(* The PIN is checked first; its outcome is the member's input.            *)
PinRejected(s) ==
  /\ pc[s] = "pay"
  /\ Refuse(s, "INVALID_PAYMENT_PASSWORD")

(* getPaymentContext: one autocommitted read, kept for the whole payment.  *)
PaymentContext(s) ==
  LET r       == req[s]
      verdict == PaymentVerdict(r)
  IN
  /\ pc[s] = "pay"
  /\ \/ /\ verdict # "ok"
        /\ Refuse(s, verdict)
     \/ /\ verdict = "ok"
        /\ Read(s, Snapshot(r))
        /\ Goto(s, Route(r))

-----------------------------------------------------------------------------
(* GENERAL payments: four statements, each its own transaction.            *)

General(s) ==
  LET r == req[s] IN
  /\ pc[s] = "general"
  /\ \/ /\ balance[CashOf[r.user]] < r.total
        /\ Refuse(s, "WALLET_BALANCE_NOT_ENOUGH")
     \/ /\ balance[CashOf[r.user]] >= r.total
        /\ Read(s, Snapshot(r))
        /\ Goto(s, "generalDebit")

GeneralDebit(s) ==
  LET r == req[s]
      c == CashOf[r.user]
  IN
  /\ pc[s] = "generalDebit"
  /\ lock[c] = NoSession
  /\ balance' = [balance EXCEPT ![c] = @ - r.total]
  /\ unposted' = [unposted EXCEPT ![c] = @ + r.total]
  /\ paid' = paid + r.total
  /\ Goto(s, "generalPost")
  /\ UNCHANGED <<totalPayment, posted, lastAfter, charged, merchantPosted, badges,
                 principal, lock, tx, seen, now>>

(* Mutant: the member's row is forgotten.                                  *)
GeneralPostSkipped(s) ==
  /\ pc[s] = "generalPost"
  /\ Goto(s, "generalMerchant")
  /\ UNCHANGED storeVars

(* The member's row.  The foreign keys of the row take a shared lock on    *)
(* the wallet row, so the insert waits for an exclusive holder.            *)
GeneralPost(s) ==
  LET r == req[s]
      c == CashOf[r.user]
  IN
  /\ pc[s] = "generalPost"
  /\ lock[c] = NoSession
  /\ posted' = [posted EXCEPT ![c] = @ - r.total]
  /\ unposted' = [unposted EXCEPT ![c] = @ - r.total]
  /\ lastAfter' = [lastAfter EXCEPT ![c] = seen[s].balance[c] - r.total]
  /\ Goto(s, "generalMerchant")
  /\ UNCHANGED <<balance, totalPayment, charged, merchantPosted, badges,
                 principal, paid, lock, tx, seen, now>>

(* Mutant: the merchant's row is forgotten.                                *)
GeneralMerchantSkipped(s) ==
  /\ pc[s] = "generalMerchant"
  /\ seen' = [seen EXCEPT ![s] = NothingSeen]
  /\ Answer(s, "ok")
  /\ UNCHANGED <<committedVars, lock, tx, now>>

(* The merchant's row, which also refers to the cash wallet.               *)
GeneralMerchant(s) ==
  LET r == req[s] IN
  /\ pc[s] = "generalMerchant"
  /\ lock[CashOf[r.user]] = NoSession
  /\ merchantPosted' = merchantPosted + r.total
  /\ seen' = [seen EXCEPT ![s] = NothingSeen]
  /\ Answer(s, "ok")
  /\ UNCHANGED <<balance, totalPayment, posted, lastAfter, charged, badges,
                 principal, paid, unposted, lock, tx, now>>

-----------------------------------------------------------------------------
(* Badges.                                                                 *)

(* The one grade a cumulated payment is tested for: the highest reached.   *)
Tier(total) == CASE total >= Gold -> "GOLD"
                 [] total >= Silver /\ total < Gold -> "SILVER"
                 [] total >= Bronze /\ total < Silver -> "BRONZE"
                 [] OTHER -> "none"

(* Mutant: the payment in hand is not counted.                             *)
ReachedBefore(s) == Tier(seen[s].total)

(* The tier that the payment of s reaches: the total_payment read with the *)
(* context, or by LocalMixedStrategy, plus the amount paid from the wallet.*)
Reached(s) == Tier(seen[s].total + req[s].amount)

(* The lookup of the region's badge fails when there is none; the lookup   *)
(* of the member's badge fails when it finds more than one row.            *)
BadgeLookupFails(r, tier, held) ==
  /\ tier # "none"
  /\ BadgeOf[r.from] = NoBadge \/ held[tier] > 1

(* Mutant: the member's badge is not looked up.                            *)
AwardAgain(tier, held) == tier

Award(tier, held) == IF tier # "none" /\ held[tier] = 0 THEN tier ELSE "none"

-----------------------------------------------------------------------------
(* LocalStrategy: payAndAccumulate first (it checks no balance), then the  *)
(* badge reads, in a snapshot taken under the row lock, then the rows.     *)

LocalPay(s) ==
  LET r == req[s] IN
  /\ pc[s] = "localPay"
  /\ Write(s, r.from, [Updated(tx[s], r.from, -r.amount) EXCEPT !.total = r.amount])
  /\ Goto(s, "localFinish")

(* Mutant: the badges are those read with the context.                     *)
HeldAtContext(s) == seen[s].held

(* The member's badges when LocalStrategy looks: its transaction's first   *)
(* SELECT comes after its UPDATE, so it sees every badge that an earlier   *)
(* holder of the row lock has been given.                                  *)
HeldUnderLock(s) == HeldBy(req[s])

LocalFinish(s) ==
  LET r    == req[s]
      tier == Reached(s)
      held == HeldUnderLock(s)
      t    == Inserted(tx[s], r.from, -r.total, seen[s].balance[r.from])
  IN
  /\ pc[s] = "localFinish"
  /\ \/ /\ BadgeLookupFails(r, tier, held)
        /\ Refuse(s, "INTERNAL_SERVER_ERROR")
     \/ /\ ~BadgeLookupFails(r, tier, held)
        /\ tx' = [tx EXCEPT ![s] = [InsertedMerchant(t, r.total) EXCEPT
                                      !.award = Award(tier, held)]]
        /\ Goto(s, "commit")
        /\ UNCHANGED <<committedVars, lock, seen, now>>

-----------------------------------------------------------------------------
(* LocalMixedStrategy: everything is read before the first write; the rest *)
(* of the price is taken from the cash wallet.                             *)

Mixed(s) ==
  LET r == req[s] IN
  /\ pc[s] = "mixed"
  /\ \/ /\ r.amount > balance[r.from]
        /\ Refuse(s, "WALLET_BALANCE_NOT_ENOUGH")
     \/ /\ r.amount <= balance[r.from]
        /\ Read(s, Snapshot(r))
        /\ Goto(s, "mixedLocal")

MixedLocal(s) ==
  LET r    == req[s]
      tier == Reached(s)
      held == seen[s].held
      t    == Inserted(Updated(tx[s], r.from, -r.amount), r.from, -r.amount,
                       seen[s].balance[r.from])
      left == r.total - r.amount
  IN
  /\ pc[s] = "mixedLocal"
  /\ \/ /\ Free(s, r.from)
        /\ BadgeLookupFails(r, tier, held)
        /\ Refuse(s, "INTERNAL_SERVER_ERROR")
     \/ /\ Free(s, r.from)
        /\ ~BadgeLookupFails(r, tier, held)
        /\ seen[s].balance[CashOf[r.user]] < left
        /\ Refuse(s, "WALLET_BALANCE_NOT_ENOUGH")
     \/ /\ ~BadgeLookupFails(r, tier, held)
        /\ seen[s].balance[CashOf[r.user]] >= left
        /\ Write(s, r.from, [InsertedMerchant(t, r.amount) EXCEPT
                               !.total = r.amount, !.award = Award(tier, held)])
        /\ Goto(s, "mixedMain")

(* Mutant: the cash wallet's row repeats inputAmount too.                  *)
MixedMainRepeating(s) ==
  LET r == req[s]
      c == CashOf[r.user]
      t == Inserted(Updated(tx[s], c, r.amount - r.total), c, -r.amount, seen[s].balance[c])
  IN
  /\ pc[s] = "mixedMain"
  /\ Write(s, c, InsertedMerchant(t, r.amount))
  /\ Goto(s, "commit")

(* The second merchant row repeats inputAmount, as the first one.          *)
MixedMain(s) ==
  LET r    == req[s]
      c    == CashOf[r.user]
      left == r.total - r.amount
      t    == Inserted(Updated(tx[s], c, -left), c, -left, seen[s].balance[c])
  IN
  /\ pc[s] = "mixedMain"
  /\ Write(s, c, InsertedMerchant(t, r.amount))
  /\ Goto(s, "commit")

PaymentStep(s) ==
  \/ PinRejected(s) \/ PaymentContext(s)
  \/ General(s) \/ GeneralDebit(s) \/ GeneralPost(s) \/ GeneralMerchant(s)
  \/ LocalPay(s) \/ LocalFinish(s)
  \/ Mixed(s) \/ MixedLocal(s) \/ MixedMain(s)

=============================================================================
