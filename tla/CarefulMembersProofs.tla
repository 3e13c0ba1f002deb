------------------------- MODULE CarefulMembersProofs -------------------------
(***************************************************************************)
(* What the checks of the processors and strategies are worth, for every   *)
(* set of members, wallets, threads and requests, under every interleaving *)
(* and fault.  The five proofs turn on one fact: as long as no two         *)
(* requests have met on a wallet, whoever uses it is alone with it (and    *)
(* so is, with its badge, whoever may earn it), so what the handler has    *)
(* read is still so when it writes.                                        *)
(***************************************************************************)
EXTENDS CarefulMembers, PaymentProofs

-----------------------------------------------------------------------------
(* Lapses.                                                                 *)

(* What a wallet goes through now has been noted.                          *)
LapseInv == \A w \in Wallet : LapsesNow(w) \subseteq lapses[w]

(* Lapses are noted as they happen.                                        *)
LEMMA NextLapses ==
  ASSUME LapseInv, [HNext]_historyVars
  PROVE  LapseInv' /\ \A w \in Wallet : lapses[w] \subseteq lapses'[w]
  <1>1. CASE HNext
    <2>1. \A w \in Wallet : lapses'[w] = lapses[w] \cup LapsesNow(w)'
      BY <1>1 DEF HNext
    <2> QED BY <2>1 DEF LapseInv
  <1>2. CASE UNCHANGED historyVars
    <2>1. lapses' = lapses /\ pc' = pc /\ req' = req
      BY <1>2 DEF historyVars, vars, threadVars
    <2>2. \A w \in Wallet : LapsesNow(w)' = LapsesNow(w)
      BY <2>1 DEF LapsesNow, InService, Uses, Earns
    <2> QED BY <2>1, <2>2 DEF LapseInv
  <1> QED BY <1>1, <1>2

(* At the start nobody is in service.                                      *)
LEMMA InitLapses ==
  ASSUME HInit
  PROVE  LapseInv
  <1>1. \A s \in Session : pc[s] = "idle"
    BY DEF HInit, Init, ThreadInit
  <1> QED BY <1>1 DEF LapseInv, LapsesNow, InService, Earns

(* History variables restrict nothing: what holds of every behaviour of    *)
(* the system holds of these.                                              *)
LEMMA HistoryImplements == HSpec => Spec
  <1>1. HInit => Init
    BY DEF HInit
  <1>2. [HNext]_historyVars => [Next]_vars
    BY DEF HNext, historyVars
  <1> QED BY <1>1, <1>2, PTL DEF HSpec, Spec

(* What holds of every history, beside the lapses.                         *)
THEOREM LapsesAreNoted == HSpec => [](IInv /\ BankInv /\ LapseInv)
  <1>1. HInit => LapseInv
    BY InitLapses
  <1>2. LapseInv /\ [HNext]_historyVars => LapseInv'
    BY NextLapses
  <1> QED BY <1>1, <1>2, HistoryImplements, AlwaysOnTheWay, PTL DEF HSpec

(* Whoever uses a wallet on which no requests have met is alone with it.   *)
LEMMA Alone ==
  ASSUME LapseInv, NEW w \in Wallet, "overlap" \notin lapses[w],
         NEW s \in InService(w), NEW t \in InService(w)
  PROVE  s = t
  BY DEF LapseInv, LapsesNow, Lapse

(* A request in service on a wallet that has seen no negative amount.      *)
LEMMA NotNegative ==
  ASSUME IInv, LapseInv, NEW w \in Wallet, "negative" \notin lapses[w], NEW s \in InService(w)
  PROVE  req[s].amount \in Nat /\ req[s].total \in Nat
  <1>1. s \in Session /\ pc[s] # "idle"
    BY DEF InService
  <1>2. req[s].amount \in Int /\ req[s].total \in Int
    BY <1>1, Serving, RequestFields
  <1>3. ~(req[s].amount < 0) /\ ~(req[s].total < 0)
    BY DEF LapseInv, LapsesNow, Lapse
  <1> QED BY <1>2, <1>3

(* A charge out of a wallet that has seen no charge without check.         *)
LEMMA NotUnlogged ==
  ASSUME IInv, LapseInv, NEW w \in Wallet, "unlogged" \notin lapses[w], NEW s \in InService(w),
         req[s].op = "CHARGE", req[s].from = w
  PROVE  req[s].logged
  BY DEF LapseInv, LapsesNow, Lapse

-----------------------------------------------------------------------------
(* Who changes a wallet.                                                   *)

(* The amounts of a leg.                                                   *)
LEMMA LegAt ==
  ASSUME NEW v \in Wallet, NEW x, NEW w \in Wallet
  PROVE  Leg(v, x)[w] = IF w = v THEN x ELSE 0
  BY DEF Leg

(* What each kind of request does to the balance of w.                     *)
LEMMA EffectAt ==
  ASSUME NEW r \in Requests, NEW w \in Wallet
  PROVE  /\ r.op = "CHARGE" => Effect(r)[w] =
              (IF w = r.from THEN -r.amount ELSE 0)
              + (IF w = r.to THEN Credited(r.amount, Rate(r.to)) ELSE 0)
         /\ r.op = "REFUND" => Effect(r)[w] =
              (IF w = r.from THEN -r.amount ELSE 0)
              + (IF w = r.to THEN RefundValue(r.amount, Rate(r.from)) ELSE 0)
         /\ r.op = "CONVERT" => Effect(r)[w] =
              ((IF w = r.from THEN -r.amount ELSE 0)
               + (IF w = CashOf[r.user] THEN RefundValue(r.amount, Rate(r.from)) ELSE 0))
              + ((IF w = CashOf[r.user] THEN -ConvertBase(r) ELSE 0)
                 + (IF w = r.to THEN Credited(ConvertBase(r), Rate(r.to)) ELSE 0))
         /\ r.op = "GENERAL" => Effect(r)[w] = IF w = CashOf[r.user] THEN -r.total ELSE 0
         /\ r.op \in LocalOps => Effect(r)[w] =
              (IF w = r.from THEN -r.amount ELSE 0)
              + (IF w = CashOf[r.user] THEN r.amount - r.total ELSE 0)
  BY RequestFields DEF Effect, ChargeEffect, RefundEffect, Plus, Leg, LocalOps

(* A request that has passed its owner checks changes only what it uses.   *)
LEMMA EffectUses ==
  ASSUME NEW r \in Requests, Permitted(r, "commit"), NEW w \in Wallet, Effect(r)[w] # 0
  PROVE  w \in Uses(r)
  <1> DEFINE c == CashOf[r.user]
  <1>1. /\ r.op \in TransferOps \cup PaymentOps /\ Owner[r.from] = r.user /\ Owner[c] = r.user
        /\ r.amount \in Int /\ r.total \in Int
        /\ r.op = "REFUND" => r.to = c
        /\ r.op \in {"CHARGE", "CONVERT"} => Owner[r.to] = r.user
    BY RequestFields, WalletsAssumption DEF Permitted
  <1>2. CASE r.op = "CHARGE"
    <2>1. w = r.from \/ w = r.to
      BY <1>2, EffectAt
    <2> QED BY <1>1, <1>2, <2>1 DEF Uses, TransferOps
  <1>3. CASE r.op = "REFUND"
    <2>1. w = r.from \/ w = r.to
      BY <1>3, EffectAt
    <2> QED BY <1>1, <1>3, <2>1 DEF Uses, TransferOps
  <1>4. CASE r.op = "CONVERT"
    <2>1. w = r.from \/ w = r.to \/ w = c
      BY <1>4, EffectAt
    <2> QED BY <1>1, <1>4, <2>1 DEF Uses, TransferOps
  <1>5. CASE r.op = "GENERAL"
    <2>1. w = c
      BY <1>5, EffectAt
    <2> QED BY <1>1, <1>5, <2>1 DEF Uses
  <1>6. CASE r.op \in LocalOps
    <2>1. w = r.from \/ (w = c /\ r.amount # r.total)
      BY <1>1, <1>6, EffectAt
    <2> QED BY <1>1, <1>6, <2>1 DEF Uses, LocalOps
  <1> QED BY <1>1, <1>2, <1>3, <1>4, <1>5, <1>6 DEF TransferOps, PaymentOps

(* Balances change when a transaction commits, and at the debit of a       *)
(* GENERAL payment, each time by the effect of the request.                *)
LEMMA BalanceMoves ==
  ASSUME IInv, BankInv, NEW s \in Session, Acts(s)
  PROVE  \/ balance' = balance
         \/ /\ Commit(s) \/ GeneralDebit(s)
            /\ pc[s] \in {"commit", "generalDebit"} /\ req[s] \in Requests
            /\ Permitted(req[s], "commit") /\ balance' = Plus(balance, Effect(req[s]))
  <1>1. CASE Commit(s)
    BY <1>1, CommitEffect DEF Commit
  <1>2. CASE GeneralDebit(s)
    <2> DEFINE r == req[s]
               c == CashOf[r.user]
    <2>1. pc[s] = "generalDebit" /\ r \in Requests /\ OnItsWay(s)
      BY <1>2, Serving DEF GeneralDebit, BankInv
    <2>2. r.op = "GENERAL" /\ Permitted(r, "generalDebit")
      BY <2>1, RequestFields DEF OnItsWay, LabelsOf, Entries, TransferOps, PaymentOps, LocalOps
    <2>3. Permitted(r, "commit")
      BY <2>2 DEF Permitted
    <2>4. balance' = [balance EXCEPT ![c] = @ - r.total]
      BY <1>2 DEF GeneralDebit
    <2>5. balance' = Plus(balance, Leg(c, -r.total))
      <3>1. balance \in [Wallet -> Int] /\ c \in Wallet /\ r.total \in Int
        BY <2>1, RequestFields DEF IInv, TypeOK, StoreTypeOK
      <3> QED BY <2>4, <3>1, LegLess
    <2>6. Effect(r) = Leg(c, -r.total)
      BY <2>2 DEF Effect
    <2> QED BY <1>2, <2>1, <2>3, <2>5, <2>6
  <1>3. CASE ~Commit(s) /\ ~GeneralDebit(s)
    BY <1>3 DEF Acts, Step, DeadlockAbort, Receive, LockWaitTimeout, Refuse, RollbackWork,
                storeVars, committedVars, TransferStep, PaymentStep, Charge, ChargeDebit,
                ChargeCredit, Refund, RefundDebit, RefundCredit, Convert, ConvertCharge, Decide,
                Read, Write, PinRejected, PaymentContext, General, GeneralPost, GeneralMerchant,
                LocalPay, LocalFinish, Mixed, MixedLocal, MixedMain
  <1> QED BY <1>1, <1>2, <1>3

(* The balance of a wallet is changed only by a thread that uses it.       *)
LEMMA BalanceOfOthers ==
  ASSUME IInv, BankInv, NEW s \in Session, Acts(s), NEW w \in Wallet, s \notin InService(w)
  PROVE  balance'[w] = balance[w]
  <1>1. CASE balance' = balance
    BY <1>1
  <1>2. CASE /\ pc[s] \in {"commit", "generalDebit"} /\ req[s] \in Requests
             /\ Permitted(req[s], "commit") /\ balance' = Plus(balance, Effect(req[s]))
    <2>1. w \notin Uses(req[s])
      BY <1>2 DEF InService
    <2>2. Effect(req[s])[w] = 0
      BY <1>2, <2>1, EffectUses
    <2>3. balance'[w] = balance[w] + 0 /\ balance[w] \in Int
      BY <1>2, <2>2 DEF Plus, IInv, TypeOK, StoreTypeOK
    <2> QED BY <2>3
  <1> QED BY <1>1, <1>2, BalanceMoves

(* A thread that takes up a wallet has just received a request for it.     *)
LEMMA TakenUp ==
  ASSUME IInv, NEW s \in Session, Acts(s), NEW w \in Wallet, s \notin InService(w),
         s \in InService(w)'
  PROVE  /\ pc'[s] \in Entries
         /\ \E r \in Requests : Receive(s, r)
  <1>1. CASE \E r \in Requests : Receive(s, r)
    <2>1. pc'[s] \in {"charge", "refund", "convert", "pay"}
      BY <1>1 DEF Receive, Entry, IInv, TypeOK, ThreadTypeOK
    <2> QED BY <1>1, <2>1 DEF Entries
  <1>2. CASE (\E e : Refuse(s, e)) \/ LockWaitTimeout(s) \/ Commit(s) \/ GeneralMerchant(s)
    <2>1. pc'[s] = "idle"
      BY <1>2 DEF Refuse, Answer, LockWaitTimeout, Commit, GeneralMerchant, IInv, TypeOK,
                  ThreadTypeOK
    <2> QED BY <2>1 DEF InService
  <1>3. CASE \E l : Goto(s, l) /\ pc[s] # "idle"
    BY <1>3 DEF Goto, InService
  <1> QED BY <1>1, <1>2, <1>3
          DEF Acts, Step, DeadlockAbort, TransferStep, PaymentStep, Charge, ChargeDebit,
              ChargeCredit, Refund, RefundDebit, RefundCredit, Convert, ConvertCharge, Decide,
              PinRejected, PaymentContext, General, GeneralDebit, GeneralPost, LocalPay,
              LocalFinish, Mixed, MixedLocal, MixedMain

(* A thread stays in service of the wallets it uses until it answers.      *)
LEMMA StillInService ==
  ASSUME IInv, NEW s \in Session, NEW t \in Session, t # s, Acts(s), NEW w \in Wallet,
         t \in InService(w)'
  PROVE  t \in InService(w)
  BY OthersLeftAlone DEF LeftAlone, InService

-----------------------------------------------------------------------------
(* No overdraft.                                                           *)

Careless == {"overlap", "unlogged", "negative"}

CoveredLabels == {"chargeDebit", "chargeCredit", "refundDebit", "refundCredit",
                  "convertCharge", "localPay", "localFinish", "mixedMain", "commit",
                  "generalDebit"}

(* What the handler's checks so far say of the balance of w as it is: that *)
(* what the request is going to do to it is covered.                       *)
Checked(s, w) ==
  /\ pc[s] \in CoveredLabels => balance[w] + Effect(req[s])[w] >= 0
  /\ pc[s] \in {"mixed", "mixedLocal"} =>
       /\ req[s].amount <= req[s].total
       /\ w = req[s].from => req[s].total <= balance[w]
  /\ pc[s] = "mixedLocal" => seen[s].balance[w] = balance[w]

CoverAt(w) == balance[w] >= 0 /\ \A s \in InService(w) : Checked(s, w)
CoverInv == \A w \in Wallet : lapses[w] \cap Careless = {} => CoverAt(w)

(* A local amount is never worth more cash than its number of units.       *)
LEMMA RefundAtMost ==
  ASSUME NEW a \in Nat, NEW p \in Nat
  PROVE  RefundValue(a, p) <= a
  <1> DEFINE n == 100 * a
             d == 100 + p
             q == RoundHalfUp(n, d)
             x == p * a
  <1>1. n \in Nat /\ d \in Nat /\ d > 0 /\ x \in Nat
    OBVIOUS
  <1>2. q \in Int /\ 2 * (d * q) <= 2 * n + d
    BY <1>1, RoundNearest
  <1>3. d * a = n + x
    OBVIOUS
  <1> SUFFICES ASSUME q > a PROVE FALSE
    BY <1>2 DEF RefundValue
  <1> HIDE DEF q
  <1>4. PICK k \in Nat : q = a + 1 + k
    <2>1. q - a - 1 \in Nat /\ q = a + 1 + (q - a - 1)
      BY <1>2
    <2> QED BY <2>1
  <1>5. d * q = d * a + d + d * k
    BY <1>1, <1>4
  <1>6. d * k \in Nat
    BY <1>1
  <1> HIDE DEF n, d, x
  <1> QED BY <1>1, <1>2, <1>3, <1>5, <1>6

(* Amounts that are not negative stay so in every formula.                 *)
LEMMA NatAmounts ==
  ASSUME NEW a \in Nat, NEW p \in Nat
  PROVE  RefundValue(a, p) \in Nat /\ Credited(a, p) \in Nat
  <1>1. ASSUME NEW n \in Nat, NEW d \in Nat, d > 0
        PROVE  RoundHalfUp(n, d) \in Nat
    <2> DEFINE q == RoundHalfUp(n, d)
    <2>1. q \in Int /\ 2 * n + d < 2 * (d * q) + 2 * d
      BY <1>1, RoundNearest
    <2> HIDE DEF q
    <2> SUFFICES ASSUME q < 0 PROVE FALSE
      BY <2>1 DEF q
    <2>2. PICK k \in Nat : q = -1 - k
      <3>1. -1 - q \in Nat /\ q = -1 - (-1 - q)
        BY <2>1
      <3> QED BY <3>1
    <2>3. d * q = -d - d * k /\ d * k \in Nat
      BY <1>1, <2>2
    <2> QED BY <1>1, <2>1, <2>3
  <1>2. 100 * a \in Nat /\ 100 + p \in Nat /\ 100 + p > 0 /\ a * p \in Nat
    OBVIOUS
  <1>3. RoundHalfUp(100 * a, 100 + p) \in Nat /\ RoundHalfUp(a * p, 100) \in Nat
    BY <1>1, <1>2
  <1> QED BY <1>3 DEF RefundValue, Credited, Bonus

(* A conversion charges at most what its refund has credited.              *)
LEMMA ConvertWithinRefund ==
  ASSUME NEW r \in Requests, r.amount \in Nat
  PROVE  /\ ConvertBase(r) \in Nat /\ RefundValue(r.amount, Rate(r.from)) \in Nat
         /\ ConvertBase(r) <= RefundValue(r.amount, Rate(r.from))
  <1> DEFINE a == r.amount
             p == Pct[r.from]
  <1>1. a \in Nat /\ p \in Nat /\ r.from \in Wallet
    BY RequestFields, WalletsAssumption
  <1>2. RefundValue(a, p) \in Nat /\ RefundValue(a, 0) \in Nat
    BY <1>1, NatAmounts
  <1>3. CASE Incentive[r.from]
    BY <1>2, <1>3 DEF ConvertBase, Rate
  <1>4. CASE ~Incentive[r.from]
    <2>1. Rate(r.from) = 0
      BY <1>4 DEF Rate
    <2>2. RefundValue(a, 0) = a
      <3>1. 100 * a \in Nat /\ 2 * (100 * a) <= 2 * (100 * a) + 100
            /\ 2 * (100 * a) + 100 < 2 * (100 * a) + 2 * 100
        BY <1>1
      <3>2. RoundHalfUp(100 * a, 100) = a
        BY <1>1, <3>1, RoundUnique
      <3> QED BY <3>2 DEF RefundValue
    <2>3. RefundValue(a, p) <= a
      BY <1>1, RefundAtMost
    <2> QED BY <1>2, <2>1, <2>2, <2>3 DEF ConvertBase
  <1> QED BY <1>3, <1>4

(* The first checks of a charge, a refund and a conversion cover it.       *)
LEMMA TransferCovered ==
  ASSUME IInv, BankInv, NEW s \in Session, NEW r \in Requests, r = req[s],
         NEW w \in Wallet, balance[w] >= 0, r.amount \in Nat,
         r.op = "CHARGE" /\ w = r.from => r.logged,
         \/ /\ pc[s] = "charge"
            /\ ChargeVerdict(r.user, r.from, r.to, r.amount, balance[r.from],
                             charged[r.to][MonthOf(now)], r.logged) = "ok"
         \/ /\ pc[s] = "refund"
            /\ RefundVerdict(r.user, r.from, r.to, r.amount, balance[r.from]) = "ok"
         \/ /\ pc[s] = "convert"
            /\ ConvertVerdict(r) = "ok"
  PROVE  balance[w] + Effect(r)[w] >= 0
  <1>1. pc[s] \in LabelsOf(r.op)
    BY DEF BankInv, OnItsWay
  <1>2. /\ r.op \in TransferOps \cup PaymentOps
        /\ r.from \in Wallet /\ r.to \in Wallet /\ r.user \in User
        /\ Rate(r.to) \in Nat /\ Rate(r.from) \in Nat
    BY RequestFields, RateType
  <1>3. balance[w] \in Int /\ balance[r.from] \in Int
    BY <1>2 DEF IInv, TypeOK, StoreTypeOK
  <1>4. ConvertBase(r) \in Nat /\ RefundValue(r.amount, Rate(r.from)) \in Nat
        /\ ConvertBase(r) <= RefundValue(r.amount, Rate(r.from))
    BY ConvertWithinRefund
  <1>5. Credited(r.amount, Rate(r.to)) \in Nat /\ Credited(ConvertBase(r), Rate(r.to)) \in Nat
    BY <1>2, <1>4, NatAmounts
  <1>6. CASE pc[s] = "charge"
    <2>1. r.op = "CHARGE"
      BY <1>1, <1>2, <1>6 DEF LabelsOf, TransferOps, PaymentOps, LocalOps
    <2>2. r.logged => ~(balance[r.from] < r.amount)
      BY <1>6 DEF ChargeVerdict
    <2>3. w = r.from => r.amount <= balance[w]
      BY <1>3, <2>1, <2>2
    <2> DEFINE x == Credited(r.amount, Rate(r.to))
               e == Effect(r)[w]
    <2>4. e = (IF w = r.from THEN -r.amount ELSE 0) + (IF w = r.to THEN x ELSE 0)
      BY <2>1, EffectAt
    <2>5. x \in Nat
      BY <1>5
    <2> HIDE DEF x, e
    <2>6. balance[w] + e >= 0
      BY <1>3, <2>3, <2>4, <2>5
    <2> QED BY <2>6 DEF e
  <1>7. CASE pc[s] = "refund"
    <2>1. r.op = "REFUND"
      BY <1>1, <1>2, <1>7 DEF LabelsOf, TransferOps, PaymentOps, LocalOps
    <2>2. ~(r.amount > balance[r.from])
      BY <1>7 DEF RefundVerdict
    <2> DEFINE x == RefundValue(r.amount, Rate(r.from))
               e == Effect(r)[w]
    <2>3. w = r.from => r.amount <= balance[w]
      BY <1>3, <2>2
    <2>4. e = (IF w = r.from THEN -r.amount ELSE 0) + (IF w = r.to THEN x ELSE 0)
      BY <2>1, EffectAt
    <2>5. x \in Nat
      BY <1>4
    <2> HIDE DEF x, e
    <2>6. balance[w] + e >= 0
      BY <1>3, <2>3, <2>4, <2>5
    <2> QED BY <2>6 DEF e
  <1>8. CASE pc[s] = "convert"
    <2>1. r.op = "CONVERT"
      BY <1>1, <1>2, <1>8 DEF LabelsOf, TransferOps, PaymentOps, LocalOps
    <2>2. ~(r.amount > balance[r.from])
      BY <1>8 DEF ConvertVerdict, RefundVerdict
    <2> DEFINE c == CashOf[r.user]
               v == RefundValue(r.amount, Rate(r.from))
               y == ConvertBase(r)
               z == Credited(ConvertBase(r), Rate(r.to))
               e == Effect(r)[w]
    <2>3. w = r.from => r.amount <= balance[w]
      BY <1>3, <2>2
    <2>4. e = ((IF w = r.from THEN -r.amount ELSE 0) + (IF w = c THEN v ELSE 0))
              + ((IF w = c THEN -y ELSE 0) + (IF w = r.to THEN z ELSE 0))
      BY <2>1, EffectAt
    <2>5. v \in Nat /\ y \in Nat /\ z \in Nat /\ y <= v
      BY <1>4, <1>5
    <2> HIDE DEF c, v, y, z, e
    <2>6. balance[w] + e >= 0
      BY <1>3, <2>3, <2>4, <2>5
    <2> QED BY <2>6 DEF e
  <1> QED BY <1>6, <1>7, <1>8

(* Answers leave nothing to check.                                         *)
LEMMA CheckedAnew ==
  ASSUME NEW s \in Session, NEW w \in Wallet, pc'[s] \in Entries \cup {"idle"}
  PROVE  Checked(s, w)'
  BY DEF Checked, CoveredLabels, Entries

(* A request that is covered stays covered while its statements follow.    *)
LEMMA CheckedGoes ==
  ASSUME IInv, NEW s \in Session, NEW w \in Wallet, NEW l, Goto(s, l), balance' = balance,
         l \in CoveredLabels \/ l \in {"general", "generalPost", "generalMerchant"},
         l \in CoveredLabels => balance[w] + Effect(req[s])[w] >= 0
  PROVE  Checked(s, w)'
  <1>1. pc'[s] = l /\ req'[s] = req[s]
    BY DEF Goto, IInv, TypeOK, ThreadTypeOK
  <1>2. l \notin {"mixed", "mixedLocal"}
    BY DEF CoveredLabels
  <1> QED BY <1>1, <1>2 DEF Checked

(* The steps of a transfer.                                                *)
LEMMA TransferChecked ==
  ASSUME IInv, BankInv, LapseInv, NEW w \in Wallet, lapses[w] \cap Careless = {},
         CoverAt(w), NEW s \in InService(w), TransferStep(s)
  PROVE  Checked(s, w)'
  <1>0. PICK r \in Requests : r = req[s]
    BY Serving DEF InService
  <1>1. /\ s \in Session /\ balance[w] >= 0 /\ Checked(s, w)
        /\ r.amount \in Nat /\ (r.op = "CHARGE" /\ w = r.from => r.logged)
    BY <1>0, NotNegative, NotUnlogged DEF CoverAt, InService, Careless
  <1>2. ASSUME NEW verdict, NEW view, NEW l \in {"chargeDebit", "refundDebit"},
               Decide(s, verdict, view, l),
               verdict = "ok" => balance[w] + Effect(r)[w] >= 0
        PROVE  Checked(s, w)'
    <2>1. CASE Refuse(s, verdict)
      BY <1>1, <2>1, CheckedAnew DEF Refuse, Answer, IInv, TypeOK, ThreadTypeOK
    <2>2. CASE verdict = "ok" /\ Read(s, view) /\ Goto(s, l)
      <3>1. balance' = balance
        BY <2>2 DEF Read, committedVars
      <3>2. l \in CoveredLabels
        BY DEF CoveredLabels
      <3> QED BY <1>0, <1>1, <1>2, <2>2, <3>1, <3>2, CheckedGoes
    <2> QED BY <1>2, <2>1, <2>2 DEF Decide
  <1>3. CASE Charge(s)
    <2> DEFINE verdict == ChargeVerdict(r.user, r.from, r.to, r.amount, balance[r.from],
                                        charged[r.to][MonthOf(now)], r.logged)
    <2>1. pc[s] = "charge" /\ Decide(s, verdict, Snapshot(r), "chargeDebit")
      BY <1>0, <1>3 DEF Charge
    <2>2. verdict = "ok" => balance[w] + Effect(r)[w] >= 0
      BY <1>0, <1>1, <2>1, TransferCovered
    <2> HIDE DEF verdict
    <2> QED BY <1>2, <2>1, <2>2
  <1>4. CASE Refund(s)
    <2> DEFINE verdict == RefundVerdict(r.user, r.from, r.to, r.amount, balance[r.from])
    <2>1. pc[s] = "refund" /\ Decide(s, verdict, Snapshot(r), "refundDebit")
      BY <1>0, <1>4 DEF Refund
    <2>2. verdict = "ok" => balance[w] + Effect(r)[w] >= 0
      BY <1>0, <1>1, <2>1, TransferCovered
    <2> HIDE DEF verdict
    <2> QED BY <1>2, <2>1, <2>2
  <1>5. CASE Convert(s)
    <2>1. pc[s] = "convert" /\ Decide(s, ConvertVerdict(r), Snapshot(r), "refundDebit")
      BY <1>0, <1>5 DEF Convert
    <2>2. ConvertVerdict(r) = "ok" => balance[w] + Effect(r)[w] >= 0
      BY <1>0, <1>1, <2>1, TransferCovered
    <2> QED BY <1>2, <2>1, <2>2
  <1>6. CASE ConvertCharge(s)
    <2>1. balance[w] + Effect(r)[w] >= 0
      BY <1>0, <1>1, <1>6 DEF ConvertCharge, Checked, CoveredLabels
    <2>2. \E verdict, view : Decide(s, verdict, view, "chargeDebit")
      BY <1>6 DEF ConvertCharge
    <2> QED BY <1>2, <2>1, <2>2
  <1>7. CASE ChargeDebit(s) \/ ChargeCredit(s) \/ RefundDebit(s) \/ RefundCredit(s)
    <2>1. balance[w] + Effect(r)[w] >= 0
      BY <1>0, <1>1, <1>7 DEF ChargeDebit, ChargeCredit, RefundDebit, RefundCredit, Checked,
                              CoveredLabels
    <2>2. balance' = balance
      BY <1>7 DEF ChargeDebit, ChargeCredit, RefundDebit, RefundCredit, Write, committedVars
    <2>3. PICK l \in {"chargeCredit", "commit", "refundCredit", "convertCharge"} : Goto(s, l)
      BY <1>7 DEF ChargeDebit, ChargeCredit, RefundDebit, RefundCredit
    <2> QED BY <1>0, <1>1, <2>1, <2>2, <2>3, CheckedGoes DEF CoveredLabels
  <1> QED BY <1>3, <1>4, <1>5, <1>6, <1>7 DEF TransferStep

(* The context check of a payment, with the strategy it leads to.          *)
LEMMA ContextChecked ==
  ASSUME IInv, BankInv, LapseInv, NEW w \in Wallet, lapses[w] \cap Careless = {},
         CoverAt(w), NEW s \in InService(w), PaymentContext(s)
  PROVE  Checked(s, w)'
  <1>0. PICK r \in Requests : r = req[s]
    BY Serving DEF InService
  <1>1. /\ s \in Session /\ pc[s] = "pay" /\ r.op \in PaymentOps
        /\ balance[w] >= 0 /\ balance[w] \in Int
        /\ r.amount \in Nat /\ r.total \in Nat /\ r.from \in Wallet
    <2>1. s \in Session /\ pc[s] = "pay" /\ pc[s] \in LabelsOf(r.op)
      BY <1>0 DEF PaymentContext, BankInv, OnItsWay, InService
    <2>2. r.op \in PaymentOps
      BY <2>1, RequestFields DEF LabelsOf, PaymentOps, LocalOps, TransferOps
    <2>3. balance[w] >= 0 /\ balance[w] \in Int
      BY DEF IInv, TypeOK, StoreTypeOK, CoverAt
    <2> QED BY <1>0, <2>1, <2>2, <2>3, RequestFields, NotNegative DEF Careless
  <1>2. CASE \E e : Refuse(s, e)
    BY <1>1, <1>2, CheckedAnew DEF Refuse, Answer, IInv, TypeOK, ThreadTypeOK
  <1>3. CASE PaymentVerdict(r) = "ok" /\ Read(s, Snapshot(r)) /\ Goto(s, Route(r))
    <2>1. balance' = balance /\ pc'[s] = Route(r) /\ req'[s] = r
      BY <1>0, <1>1, <1>3 DEF Read, committedVars, Goto, IInv, TypeOK, ThreadTypeOK
    <2>2. w = r.from => r.total <= balance[w]
      <3>1. ~(balance[r.from] < r.total)
        BY <1>3 DEF PaymentVerdict
      <3> QED BY <1>1, <3>1
    <2>3. CASE r.op = "GENERAL"
      <3>1. Route(r) = "general"
        BY <2>3 DEF Route
      <3> QED BY <2>1, <3>1 DEF Checked, CoveredLabels
    <2>4. CASE r.op # "GENERAL" /\ r.amount = r.total
      <3>1. pc'[s] = "localPay" /\ r.op \in LocalOps
        BY <1>1, <2>1, <2>4 DEF Route, PaymentOps
      <3> DEFINE e == Effect(r)[w]
      <3>2. e = (IF w = r.from THEN -r.amount ELSE 0)
                + (IF w = CashOf[r.user] THEN r.amount - r.total ELSE 0)
        BY <3>1, EffectAt
      <3> HIDE DEF e
      <3>3. balance[w] + e >= 0
        BY <1>1, <2>2, <2>4, <3>2
      <3> QED BY <2>1, <3>1, <3>3 DEF Checked, e
    <2>5. CASE r.op # "GENERAL" /\ r.amount # r.total
      <3>1. pc'[s] = "mixed" /\ ~(r.amount > r.total)
        BY <1>3, <2>1, <2>5 DEF Route, PaymentVerdict
      <3> QED BY <1>1, <2>1, <2>2, <3>1 DEF Checked, CoveredLabels
    <2> QED BY <2>3, <2>4, <2>5
  <1> QED BY <1>0, <1>2, <1>3 DEF PaymentContext

(* LocalMixedStrategy: its own checks cover both of its wallets.           *)
LEMMA MixedChecked ==
  ASSUME IInv, BankInv, LapseInv, NEW w \in Wallet, lapses[w] \cap Careless = {},
         CoverAt(w), NEW s \in InService(w), Mixed(s) \/ MixedLocal(s) \/ MixedMain(s)
  PROVE  Checked(s, w)'
  <1>0. PICK r \in Requests : r = req[s]
    BY Serving DEF InService
  <1>1. /\ s \in Session /\ r.op \in LocalOps
        /\ balance[w] >= 0 /\ balance[w] \in Int /\ Checked(s, w)
        /\ r.amount \in Nat /\ r.total \in Nat /\ r.from \in Wallet /\ CashOf[r.user] \in Wallet
    <2>1. s \in Session /\ pc[s] \in {"mixed", "mixedLocal", "mixedMain"}
          /\ pc[s] \in LabelsOf(r.op)
      BY <1>0 DEF Mixed, MixedLocal, MixedMain, BankInv, OnItsWay, InService
    <2>2. r.op \in LocalOps
      BY <2>1, RequestFields DEF LabelsOf, PaymentOps, LocalOps, TransferOps
    <2>3. balance[w] >= 0 /\ balance[w] \in Int /\ Checked(s, w)
      BY DEF IInv, TypeOK, StoreTypeOK, CoverAt
    <2> QED BY <1>0, <2>1, <2>2, <2>3, RequestFields, NotNegative DEF Careless
  <1>2. CASE \E e : Refuse(s, e)
    BY <1>1, <1>2, CheckedAnew DEF Refuse, Answer, IInv, TypeOK, ThreadTypeOK
  <1>3. CASE Mixed(s) /\ ~(\E e : Refuse(s, e))
    <2>1. /\ pc[s] = "mixed" /\ pc'[s] = "mixedLocal" /\ req'[s] = r /\ balance' = balance
          /\ seen' = [seen EXCEPT ![s] = Snapshot(r)]
      BY <1>0, <1>1, <1>3 DEF Mixed, Goto, Read, committedVars, IInv, TypeOK, ThreadTypeOK
    <2>2. seen'[s] = Snapshot(r)
      BY <1>1, <2>1 DEF IInv, TypeOK, StoreTypeOK
    <2>3. seen'[s].balance = balance
      BY <2>2 DEF Snapshot
    <2> QED BY <1>0, <1>1, <2>1, <2>3 DEF Checked, CoveredLabels
  <1>4. CASE MixedLocal(s) /\ ~(\E e : Refuse(s, e))
    <2>1. /\ pc[s] = "mixedLocal" /\ balance' = balance
          /\ seen[s].balance[CashOf[r.user]] >= r.total - r.amount
          /\ Goto(s, "mixedMain")
      BY <1>0, <1>4 DEF MixedLocal, Write, committedVars
    <2>2. /\ r.amount <= r.total /\ (w = r.from => r.total <= balance[w])
          /\ (w = CashOf[r.user] => balance[w] >= r.total - r.amount)
      BY <1>0, <1>1, <2>1 DEF Checked
    <2> DEFINE e == Effect(r)[w]
    <2>3. e = (IF w = r.from THEN -r.amount ELSE 0)
              + (IF w = CashOf[r.user] THEN r.amount - r.total ELSE 0)
      BY <1>1, EffectAt
    <2> HIDE DEF e
    <2>4. balance[w] + e >= 0
      BY <1>1, <2>2, <2>3
    <2> QED BY <1>0, <1>1, <2>1, <2>4, CheckedGoes DEF e, CoveredLabels
  <1>5. CASE MixedMain(s)
    <2>1. pc[s] = "mixedMain" /\ balance' = balance /\ Goto(s, "commit")
      BY <1>5 DEF MixedMain, Write, committedVars
    <2>2. balance[w] + Effect(r)[w] >= 0
      BY <1>0, <1>1, <2>1 DEF Checked, CoveredLabels
    <2> QED BY <1>0, <1>1, <2>1, <2>2, CheckedGoes DEF CoveredLabels
  <1> QED BY <1>3, <1>4, <1>5, <1>2

(* The other steps of a payment.                                           *)
LEMMA PaymentChecked ==
  ASSUME IInv, BankInv, LapseInv, NEW w \in Wallet, lapses[w] \cap Careless = {},
         CoverAt(w), NEW s \in InService(w), PaymentStep(s)
  PROVE  balance'[w] >= 0 /\ Checked(s, w)'
  <1>0. PICK r \in Requests : r = req[s]
    BY Serving DEF InService
  <1>1. /\ s \in Session /\ balance[w] >= 0 /\ balance[w] \in Int /\ Checked(s, w)
        /\ r.total \in Nat /\ r.amount \in Nat /\ CashOf[r.user] \in Wallet
    BY <1>0, NotNegative, RequestFields DEF CoverAt, InService, Careless, IInv, TypeOK, StoreTypeOK
  <1>2. CASE PaymentContext(s)
    <2>1. balance' = balance
      BY <1>2 DEF PaymentContext, Refuse, RollbackWork, Read, committedVars
    <2> QED BY <1>1, <1>2, <2>1, ContextChecked
  <1>3. CASE Mixed(s) \/ MixedLocal(s) \/ MixedMain(s)
    <2>1. balance' = balance
      BY <1>3 DEF Mixed, MixedLocal, MixedMain, Refuse, RollbackWork, Read, Write, committedVars
    <2> QED BY <1>1, <1>3, <2>1, MixedChecked
  <1>4. CASE (\E e : Refuse(s, e)) \/ GeneralMerchant(s)
    <2>1. balance' = balance /\ pc'[s] = "idle"
      BY <1>1, <1>4 DEF Refuse, Answer, RollbackWork, GeneralMerchant, committedVars, IInv, TypeOK,
                        ThreadTypeOK
    <2> QED BY <1>1, <2>1, CheckedAnew
  <1>5. CASE General(s) /\ ~(\E e : Refuse(s, e))
    <2>1. /\ pc[s] = "general" /\ balance' = balance /\ Goto(s, "generalDebit")
          /\ balance[CashOf[r.user]] >= r.total
      BY <1>0, <1>5 DEF General, Read, committedVars
    <2>2. r.op = "GENERAL"
      BY <1>0, <1>1, <2>1, RequestFields DEF BankInv, OnItsWay, LabelsOf, TransferOps, PaymentOps, LocalOps
    <2> DEFINE e == Effect(r)[w]
    <2>3. e = IF w = CashOf[r.user] THEN -r.total ELSE 0
      BY <2>2, EffectAt
    <2> HIDE DEF e
    <2>4. balance[w] + e >= 0
      BY <1>1, <2>1, <2>3
    <2> QED BY <1>0, <1>1, <2>1, <2>4, CheckedGoes DEF e, CoveredLabels
  <1>6. CASE GeneralDebit(s)
    <2>1. pc[s] = "generalDebit" /\ pc'[s] = "generalPost"
      BY <1>1, <1>6 DEF GeneralDebit, Goto, IInv, TypeOK, ThreadTypeOK
    <2>2. balance' = balance \/ balance' = Plus(balance, Effect(r))
      BY <1>0, <1>1, <1>6, BalanceMoves DEF Acts, Step, PaymentStep
    <2>3. balance'[w] = balance[w] \/ balance'[w] = balance[w] + Effect(r)[w]
      BY <2>2 DEF Plus
    <2>4. balance[w] + Effect(r)[w] >= 0
      BY <1>0, <1>1, <2>1 DEF Checked, CoveredLabels
    <2>5. balance'[w] >= 0
      BY <1>1, <2>3, <2>4
    <2> QED BY <2>1, <2>5 DEF Checked, CoveredLabels
  <1>7. CASE GeneralPost(s)
    <2>1. balance' = balance /\ pc'[s] = "generalMerchant"
      BY <1>1, <1>7 DEF GeneralPost, Goto, IInv, TypeOK, ThreadTypeOK
    <2> QED BY <1>1, <2>1 DEF Checked, CoveredLabels
  <1>8. CASE (LocalPay(s) \/ LocalFinish(s)) /\ ~(\E e : Refuse(s, e))
    <2>1. balance' = balance /\ pc[s] \in {"localPay", "localFinish"}
      BY <1>8 DEF LocalPay, LocalFinish, Write, committedVars
    <2>2. PICK l \in {"localFinish", "commit"} : Goto(s, l)
      BY <1>8 DEF LocalPay, LocalFinish
    <2>3. balance[w] + Effect(r)[w] >= 0
      BY <1>0, <1>1, <2>1 DEF Checked, CoveredLabels
    <2> QED BY <1>0, <1>1, <2>1, <2>2, <2>3, CheckedGoes DEF CoveredLabels
  <1> QED BY <1>2, <1>3, <1>4, <1>5, <1>6, <1>7, <1>8 DEF PaymentStep, PinRejected

(* A step of the thread that uses a wallet.                                *)
LEMMA OwnCovered ==
  ASSUME IInv, BankInv, LapseInv, NEW w \in Wallet, lapses[w] \cap Careless = {},
         CoverAt(w), NEW s \in InService(w), Acts(s)
  PROVE  balance'[w] >= 0 /\ Checked(s, w)'
  <1>1. /\ s \in Session /\ pc[s] # "idle" /\ balance[w] >= 0 /\ balance[w] \in Int
        /\ Checked(s, w)
    BY DEF InService, CoverAt, IInv, TypeOK, StoreTypeOK
  <1>2. CASE TransferStep(s)
    <2>1. ~Commit(s) /\ ~GeneralDebit(s)
      BY <1>2 DEF TransferStep, Charge, ChargeDebit, ChargeCredit, Refund, RefundDebit,
                  RefundCredit, Convert, ConvertCharge, Commit, GeneralDebit
    <2>2. balance' = balance
      BY <1>1, <2>1, BalanceMoves
    <2> QED BY <1>1, <1>2, <2>2, TransferChecked
  <1>3. CASE PaymentStep(s)
    BY <1>3, PaymentChecked
  <1>4. CASE Commit(s)
    <2>1. pc[s] = "commit" /\ pc'[s] = "idle" /\ balance' = Plus(balance, Effect(req[s]))
      BY <1>1, <1>4, CommitEffect DEF Commit, IInv, TypeOK, ThreadTypeOK
    <2>2. balance'[w] = balance[w] + Effect(req[s])[w]
      BY <2>1 DEF Plus
    <2>3. balance[w] + Effect(req[s])[w] >= 0
      BY <1>1, <2>1 DEF Checked, CoveredLabels
    <2> QED BY <1>1, <2>1, <2>2, <2>3, CheckedAnew
  <1>5. CASE (\E e : Refuse(s, e)) \/ LockWaitTimeout(s)
    <2>1. balance' = balance /\ pc'[s] = "idle"
      BY <1>1, <1>5 DEF Refuse, Answer, LockWaitTimeout, RollbackWork, committedVars, IInv, TypeOK,
                        ThreadTypeOK
    <2> QED BY <1>1, <2>1, CheckedAnew
  <1>6. ~(\E r \in Requests : Receive(s, r))
    BY <1>1 DEF Receive
  <1> QED BY <1>2, <1>3, <1>4, <1>5, <1>6 DEF Acts, Step, DeadlockAbort

(* A step of any thread, seen from a wallet without lapses.                *)
LEMMA ActsCovered ==
  ASSUME IInv, BankInv, LapseInv, NEW w \in Wallet, lapses[w] \cap Careless = {},
         CoverAt(w), NEW s \in Session, Acts(s)
  PROVE  CoverAt(w)'
  <1>1. CASE s \in InService(w)
    <2>1. balance'[w] >= 0 /\ Checked(s, w)'
      BY <1>1, OwnCovered
    <2>2. ASSUME NEW t \in InService(w)' PROVE t = s
      <3>1. t \in Session
        BY DEF InService
      <3> QED BY <1>1, <3>1, StillInService, Alone DEF Careless
    <2> QED BY <2>1, <2>2 DEF CoverAt
  <1>2. CASE s \notin InService(w)
    <2>1. balance'[w] = balance[w]
      BY <1>2, BalanceOfOthers
    <2>2. ASSUME NEW t \in InService(w)', t # s PROVE Checked(t, w)'
      <3>1. t \in Session /\ t \in InService(w)
        BY <2>2, StillInService DEF InService
      <3>2. pc'[t] = pc[t] /\ req'[t] = req[t] /\ seen'[t] = seen[t]
        BY <2>2, <3>1, OthersLeftAlone DEF LeftAlone
      <3>3. Checked(t, w)
        BY <3>1 DEF CoverAt
      <3> QED BY <2>1, <3>2, <3>3 DEF Checked
    <2>3. ASSUME s \in InService(w)' PROVE Checked(s, w)'
      BY <1>2, <2>3, TakenUp, CheckedAnew
    <2> QED BY <2>1, <2>2, <2>3 DEF CoverAt
  <1> QED BY <1>1, <1>2

(* Every step keeps wallets without lapses covered.                        *)
LEMMA NextCovered ==
  ASSUME IInv, BankInv, LapseInv, CoverInv, [HNext]_historyVars
  PROVE  CoverInv'
  <1> SUFFICES ASSUME NEW w \in Wallet, lapses'[w] \cap Careless = {}
               PROVE  CoverAt(w)'
    BY DEF CoverInv
  <1>1. lapses[w] \cap Careless = {}
    BY NextLapses
  <1>2. CoverAt(w)
    BY <1>1 DEF CoverInv
  <1>3. [Next]_vars
    BY DEF HNext, historyVars
  <1>4. ASSUME NEW s \in Session, Acts(s) PROVE CoverAt(w)'
    BY <1>1, <1>2, <1>4, ActsCovered
  <1>5. CASE Crash
    <2>1. balance' = balance /\ \A s \in Session : pc'[s] = "idle"
      BY <1>5 DEF Crash, committedVars
    <2> QED BY <1>2, <2>1 DEF CoverAt, InService
  <1>6. CASE Tick \/ Drained \/ UNCHANGED vars
    <2>1. UNCHANGED <<balance, pc, req, seen>>
      BY <1>6 DEF Tick, Drained, vars, storeVars, committedVars, threadVars
    <2> QED BY <1>2, <2>1 DEF CoverAt, InService, Checked, Uses
  <1> QED BY <1>3, <1>4, <1>5, <1>6 DEF Next, Acts

(* No wallet is opened overdrawn.                                          *)
LEMMA InitCovered ==
  ASSUME HInit
  PROVE  CoverInv
  <1>1. balance = Opening /\ \A s \in Session : pc[s] = "idle"
    BY DEF HInit, Init, StoreInit, ThreadInit
  <1>2. \A w \in Wallet : Opening[w] >= 0
    BY WalletsAssumption
  <1> QED BY <1>1, <1>2 DEF CoverInv, CoverAt, InService

(* The checks of the processors suffice for every wallet on which no two   *)
(* requests met, no charge went without transactionLogging and no negative *)
(* amount was sent, whatever happened elsewhere at the same time.          *)
THEOREM NoOverdraftUnlessCareless == HSpec => []CoveredUnlessCareless
  <1>1. HInit => CoverInv
    BY InitCovered
  <1>2. IInv /\ BankInv /\ LapseInv /\ CoverInv /\ [HNext]_historyVars => CoverInv'
    BY NextCovered
  <1>3. IInv /\ CoverInv => CoveredUnlessCareless
    BY DEF CoverInv, CoverAt, CoveredUnlessCareless, Careless, IInv, TypeOK, StoreTypeOK
  <1> QED BY <1>1, <1>2, <1>3, LapsesAreNoted, PTL DEF HSpec

-----------------------------------------------------------------------------
(* What a local-currency payment does to total and badges.                 *)

(* s has updated the member's total and goes on to its commit.             *)
PaidFromLocal(s) == pc[s] \in {"mixedMain", "commit"} /\ req[s].op \in LocalOps

(* s works for total and badges, on values it has read.                    *)
Paying(s) == pc[s] \in {"localPay", "localFinish", "mixedLocal"} \/ PaidFromLocal(s)

(* What a transaction adds to the total of its local wallet, and that it   *)
(* awards a badge only after that.                                         *)
WorkOf(s) ==
  /\ tx[s].total = IF pc[s] = "localFinish" \/ PaidFromLocal(s) THEN req[s].amount ELSE 0
  /\ tx[s].award # "none" => PaidFromLocal(s)

WorkInv == \A s \in Session : WorkOf(s)

(* The strategy begins: total and badges are read.                         *)
LooksUp(s) ==
  /\ pc'[s] \in {"localPay", "mixedLocal"} /\ req'[s] = req[s]
  /\ seen'[s] = Snapshot(req[s])

(* payAndAccumulate of LocalStrategy.                                      *)
Accumulates(s) ==
  /\ pc[s] = "localPay" /\ pc'[s] = "localFinish" /\ req'[s] = req[s]
  /\ seen'[s] = seen[s]

(* The badge of the tier is looked up, and awarded unless it is held.      *)
Awards(s) ==
  /\ PaidFromLocal(s)' /\ req'[s] = req[s]
  /\ \E held :
       /\ \/ pc[s] = "localFinish" /\ held = HeldBy(req[s])
          \/ pc[s] = "mixedLocal" /\ held = seen[s].held
       /\ ~BadgeLookupFails(req[s], Reached(s), held)
       /\ tx'[s].award = Award(Reached(s), held)

(* LocalMixedStrategy takes the rest from the cash wallet.                 *)
TakesRest(s) ==
  /\ pc[s] = "mixedMain" /\ pc'[s] = "commit" /\ req'[s] = req[s]
  /\ tx'[s].award = tx[s].award

PayingStep(s) ==
  WorkOf(s)' /\ (~Paying(s)' \/ LooksUp(s) \/ Accumulates(s) \/ Awards(s) \/ TakesRest(s))

(* The merchant's row touches neither total nor award.                     *)
LEMMA MerchantRowKeeps ==
  ASSUME NEW t \in WorkType, NEW n \in Int
  PROVE  /\ InsertedMerchant(t, n) \in WorkType
         /\ InsertedMerchant(t, n).total = t.total /\ InsertedMerchant(t, n).award = t.award
  BY DEF InsertedMerchant, WorkType

(* Without a transaction there is nothing to count or to award.            *)
LEMMA NotPayingAnew ==
  ASSUME IInv, NEW s \in Session,
         \/ \E e : Refuse(s, e)
         \/ \E r \in Requests : Receive(s, r)
         \/ LockWaitTimeout(s)
         \/ Commit(s)
  PROVE  PayingStep(s)
  <1>1. pc'[s] \in {"idle", "charge", "refund", "convert", "pay"} /\ tx'[s] = NoWork
    <2>1. CASE \E r \in Requests : Receive(s, r)
      <3>1. tx[s] = NoWork
        BY <2>1 DEF Receive, InTransaction, IInv, RowsMatchUpdates, RowsMatch
      <3> QED BY <2>1, <3>1 DEF Receive, storeVars, Entry, IInv, TypeOK, ThreadTypeOK
    <2>2. CASE (\E e : Refuse(s, e)) \/ LockWaitTimeout(s)
      BY <2>2 DEF Refuse, Answer, LockWaitTimeout, RollbackWork, IInv, TypeOK, StoreTypeOK,
                  ThreadTypeOK
    <2>3. CASE Commit(s)
      BY <2>3 DEF Commit, CommitWork, Answer, IInv, TypeOK, StoreTypeOK, ThreadTypeOK
    <2> QED BY <2>1, <2>2, <2>3
  <1> QED BY <1>1 DEF PayingStep, WorkOf, Paying, PaidFromLocal, NoWork

(* Transfers count and award nothing.                                      *)
LEMMA TransferNotPaying ==
  ASSUME IInv, BankInv, WorkInv, NEW s \in Session, TransferStep(s)
  PROVE  PayingStep(s)
  <1>1. CASE \E e : Refuse(s, e)
    BY <1>1, NotPayingAnew
  <1>2. CASE MovesMoney(s)
    <2>1. PICK l \in TransferNext, work \in WorkType :
            Goto(s, l) /\ tx' = [tx EXCEPT ![s] = work] /\ Keeps(tx[s], work)
      BY <1>2 DEF MovesMoney
    <2>2. pc'[s] = l /\ req'[s] = req[s] /\ tx'[s] = work
      BY <2>1 DEF Goto, IInv, TypeOK, StoreTypeOK, ThreadTypeOK
    <2>3. pc[s] \in TransferLabels
      BY DEF TransferStep, Charge, ChargeDebit, ChargeCredit, Refund, RefundDebit,
             RefundCredit, Convert, ConvertCharge, TransferLabels
    <2>4. req[s].op \notin LocalOps
      <3>1. pc[s] \in LabelsOf(req[s].op)
        BY <2>3 DEF BankInv, OnItsWay, TransferLabels
      <3> SUFFICES ASSUME req[s].op = "LOCAL_CURRENCY" PROVE FALSE
        BY DEF LocalOps
      <3> QED BY <2>3, <3>1 DEF LabelsOf, TransferLabels
    <2>5. tx[s].total = 0 /\ tx[s].award = "none"
      BY <2>3, <2>4 DEF WorkInv, WorkOf, PaidFromLocal, TransferLabels
    <2>6. l \notin {"localPay", "localFinish", "mixedLocal"}
      BY <2>1 DEF TransferNext
    <2> QED BY <2>1, <2>2, <2>4, <2>5, <2>6 DEF Keeps, PayingStep, WorkOf, Paying, PaidFromLocal
  <1> QED BY <1>1, <1>2, TransferKeeps

(* The PIN, the context, the statements of GENERAL payments and the reads  *)
(* of LocalMixedStrategy.                                                  *)
LEMMA ReadsPaying ==
  ASSUME IInv, BankInv, WorkInv, NEW s \in Session,
         \/ PinRejected(s) \/ PaymentContext(s) \/ General(s) \/ GeneralDebit(s)
         \/ GeneralPost(s) \/ GeneralMerchant(s) \/ Mixed(s)
  PROVE  PayingStep(s)
  <1>0. PICK r \in Requests : r = req[s]
    BY Serving DEF PinRejected, PaymentContext, General, GeneralDebit, GeneralPost,
                   GeneralMerchant, Mixed
  <1>1. WorkOf(s) /\ pc[s] # "localFinish" /\ ~PaidFromLocal(s)
    BY DEF WorkInv, PinRejected, PaymentContext, General, GeneralDebit, GeneralPost,
           GeneralMerchant, Mixed, PaidFromLocal
  <1>2. tx[s].total = 0 /\ tx[s].award = "none"
    BY <1>1 DEF WorkOf
  <1>3. CASE \E e : Refuse(s, e)
    BY <1>3, NotPayingAnew
  <1>4. CASE /\ Read(s, Snapshot(r))
             /\ \E l \in {"general", "localPay", "mixed", "generalDebit", "mixedLocal"} : Goto(s, l)
    <2>1. tx' = tx
      BY <1>4 DEF Read
    <2>2. /\ pc'[s] \in {"general", "localPay", "mixed", "generalDebit", "mixedLocal"}
          /\ req'[s] = r /\ seen'[s] = Snapshot(r)
      BY <1>0, <1>4 DEF Read, Goto, IInv, TypeOK, StoreTypeOK, ThreadTypeOK
    <2> QED BY <1>0, <1>2, <2>1, <2>2 DEF PayingStep, WorkOf, Paying, PaidFromLocal, LooksUp
  <1>5. CASE GeneralDebit(s) \/ GeneralPost(s) \/ GeneralMerchant(s)
    <2>1. tx' = tx
      BY <1>5 DEF GeneralDebit, GeneralPost, GeneralMerchant
    <2>2. pc'[s] \in {"generalPost", "generalMerchant", "idle"}
      BY <1>5 DEF GeneralDebit, GeneralPost, GeneralMerchant, Goto, Answer, IInv, TypeOK,
                  ThreadTypeOK
    <2> QED BY <1>2, <2>1, <2>2 DEF PayingStep, WorkOf, Paying, PaidFromLocal
  <1>6. Route(r) \in {"general", "localPay", "mixed"}
    BY DEF Route
  <1>7. CASE PinRejected(s)
    BY <1>3, <1>7 DEF PinRejected
  <1>8. CASE PaymentContext(s)
    BY <1>0, <1>3, <1>4, <1>6, <1>8 DEF PaymentContext
  <1>9. CASE General(s)
    BY <1>0, <1>3, <1>4, <1>9 DEF General
  <1>10. CASE Mixed(s)
    BY <1>0, <1>3, <1>4, <1>10 DEF Mixed
  <1> QED BY <1>5, <1>7, <1>8, <1>9, <1>10

(* LocalStrategy.                                                          *)
LEMMA LocalPaying ==
  ASSUME IInv, BankInv, WorkInv, NEW s \in Session, LocalPay(s) \/ LocalFinish(s)
  PROVE  PayingStep(s)
  <1>0. PICK r \in Requests : r = req[s]
    BY Serving DEF LocalPay, LocalFinish
  <1> DEFINE t == tx[s]
  <1>1. /\ t \in WorkType /\ seen[s].balance \in [Wallet -> Int]
        /\ r.from \in Wallet /\ r.amount \in Int /\ r.total \in Int
        /\ -r.amount \in Int /\ -r.total \in Int /\ WorkOf(s)
    BY <1>0, RequestFields DEF IInv, TypeOK, StoreTypeOK, SeenType, WorkInv
  <1>2. r.op \in LocalOps
    <2>1. pc[s] \in LabelsOf(r.op) /\ pc[s] \in {"localPay", "localFinish"}
      BY <1>0 DEF BankInv, OnItsWay, LocalPay, LocalFinish
    <2> QED BY <2>1, RequestFields DEF LabelsOf, TransferOps, PaymentOps, LocalOps
  <1>3. CASE \E e : Refuse(s, e)
    BY <1>3, NotPayingAnew
  <1>4. CASE LocalPay(s)
    <2> DEFINE up == Updated(t, r.from, -r.amount)
               work == [up EXCEPT !.total = r.amount]
    <2>1. pc[s] = "localPay" /\ Goto(s, "localFinish") /\ tx' = [tx EXCEPT ![s] = work]
          /\ seen' = seen
      BY <1>0, <1>4 DEF LocalPay, Write
    <2>2. up \in WorkType /\ up.award = t.award
      BY <1>1, UpdatedKeeps
    <2>3. t.award = "none"
      BY <1>1, <2>1 DEF WorkOf, PaidFromLocal
    <2> HIDE DEF up
    <2>4. work.total = r.amount /\ work.award = "none"
      BY <2>2, <2>3 DEF WorkType
    <2> HIDE DEF work
    <2>5. pc'[s] = "localFinish" /\ req'[s] = r /\ tx'[s] = work /\ seen'[s] = seen[s]
      BY <1>0, <2>1 DEF Goto, IInv, TypeOK, StoreTypeOK, ThreadTypeOK
    <2> QED BY <1>0, <2>1, <2>4, <2>5 DEF PayingStep, WorkOf, Accumulates
  <1>5. CASE LocalFinish(s) /\ ~(\E e : Refuse(s, e))
    <2> DEFINE tier == Reached(s)
               held == HeldBy(r)
               row == Inserted(t, r.from, -r.total, seen[s].balance[r.from])
               rows == InsertedMerchant(row, r.total)
               work == [rows EXCEPT !.award = Award(tier, held)]
    <2>1. /\ pc[s] = "localFinish" /\ Goto(s, "commit") /\ tx' = [tx EXCEPT ![s] = work]
          /\ ~BadgeLookupFails(r, tier, held)
      BY <1>0, <1>5 DEF LocalFinish, HeldUnderLock
    <2>2. rows \in WorkType /\ rows.total = t.total
      <3>1. seen[s].balance[r.from] \in Int
        BY <1>1
      <3>2. row \in WorkType /\ row.total = t.total
        BY <1>1, <3>1, InsertedKeeps
      <3> HIDE DEF row
      <3> QED BY <1>1, <3>2, MerchantRowKeeps
    <2>3. t.total = r.amount
      BY <1>0, <1>1, <2>1 DEF WorkOf
    <2> HIDE DEF rows, tier, held
    <2>4. work.total = r.amount /\ work.award = Award(tier, held)
      BY <2>2, <2>3 DEF WorkType
    <2> HIDE DEF work
    <2>5. pc'[s] = "commit" /\ req'[s] = r /\ tx'[s] = work
      BY <1>0, <2>1 DEF Goto, IInv, TypeOK, StoreTypeOK, ThreadTypeOK
    <2>6. PaidFromLocal(s)'
      BY <1>2, <2>5 DEF PaidFromLocal
    <2>7. Awards(s)
      BY <1>0, <2>1, <2>4, <2>5, <2>6 DEF Awards, tier, held
    <2> QED BY <2>4, <2>5, <2>6, <2>7 DEF PayingStep, WorkOf
  <1> QED BY <1>3, <1>4, <1>5

(* LocalMixedStrategy.                                                     *)
LEMMA MixedPaying ==
  ASSUME IInv, BankInv, WorkInv, NEW s \in Session, MixedLocal(s) \/ MixedMain(s)
  PROVE  PayingStep(s)
  <1>0. PICK r \in Requests : r = req[s]
    BY Serving DEF MixedLocal, MixedMain
  <1> DEFINE t == tx[s]
             c == CashOf[r.user]
  <1>1. /\ t \in WorkType /\ seen[s].balance \in [Wallet -> Int]
        /\ r.from \in Wallet /\ c \in Wallet /\ r.amount \in Int /\ r.total \in Int
        /\ -r.amount \in Int /\ -(r.total - r.amount) \in Int /\ WorkOf(s)
    BY <1>0, RequestFields DEF IInv, TypeOK, StoreTypeOK, SeenType, WorkInv
  <1>2. r.op \in LocalOps
    <2>1. pc[s] \in LabelsOf(r.op) /\ pc[s] \in {"mixedLocal", "mixedMain"}
      BY <1>0 DEF BankInv, OnItsWay, MixedLocal, MixedMain
    <2> QED BY <2>1, RequestFields DEF LabelsOf, TransferOps, PaymentOps, LocalOps
  <1>3. CASE \E e : Refuse(s, e)
    BY <1>3, NotPayingAnew
  <1>4. CASE MixedLocal(s) /\ ~(\E e : Refuse(s, e))
    <2> DEFINE tier == Reached(s)
               held == seen[s].held
               up == Updated(t, r.from, -r.amount)
               row == Inserted(up, r.from, -r.amount, seen[s].balance[r.from])
               rows == InsertedMerchant(row, r.amount)
               work == [rows EXCEPT !.total = r.amount, !.award = Award(tier, held)]
    <2>1. /\ pc[s] = "mixedLocal" /\ Goto(s, "mixedMain") /\ tx' = [tx EXCEPT ![s] = work]
          /\ ~BadgeLookupFails(r, tier, held)
      BY <1>0, <1>4 DEF MixedLocal, Write
    <2>2. rows \in WorkType
      <3>1. seen[s].balance[r.from] \in Int
        BY <1>1
      <3>2. up \in WorkType
        BY <1>1, UpdatedKeeps
      <3> HIDE DEF up
      <3>3. row \in WorkType
        BY <1>1, <3>1, <3>2, InsertedKeeps
      <3> HIDE DEF row
      <3> QED BY <1>1, <3>3, MerchantRowKeeps
    <2> HIDE DEF rows, tier, held
    <2>3. work.total = r.amount /\ work.award = Award(tier, held)
      BY <2>2 DEF WorkType
    <2> HIDE DEF work
    <2>4. pc'[s] = "mixedMain" /\ req'[s] = r /\ tx'[s] = work
      BY <1>0, <2>1 DEF Goto, IInv, TypeOK, StoreTypeOK, ThreadTypeOK
    <2>5. PaidFromLocal(s)'
      BY <1>2, <2>4 DEF PaidFromLocal
    <2>6. Awards(s)
      BY <1>0, <2>1, <2>3, <2>4, <2>5 DEF Awards, tier, held
    <2> QED BY <2>3, <2>4, <2>5, <2>6 DEF PayingStep, WorkOf
  <1>5. CASE MixedMain(s)
    <2> DEFINE left == r.total - r.amount
               up == Updated(t, c, -left)
               row == Inserted(up, c, -left, seen[s].balance[c])
               work == InsertedMerchant(row, r.amount)
    <2>1. pc[s] = "mixedMain" /\ Goto(s, "commit") /\ tx' = [tx EXCEPT ![s] = work]
      BY <1>0, <1>5 DEF MixedMain, Write
    <2>2. work.total = t.total /\ work.award = t.award
      <3>1. seen[s].balance[c] \in Int /\ -left \in Int
        BY <1>1
      <3> HIDE DEF left, c
      <3>2. up \in WorkType /\ up.total = t.total /\ up.award = t.award
        BY <1>1, <3>1, UpdatedKeeps
      <3> HIDE DEF up
      <3>3. row \in WorkType /\ row.total = t.total /\ row.award = t.award
        BY <1>1, <3>1, <3>2, InsertedKeeps
      <3> HIDE DEF row
      <3> QED BY <1>1, <3>3, MerchantRowKeeps
    <2> HIDE DEF work
    <2>3. pc'[s] = "commit" /\ req'[s] = r /\ tx'[s] = work
      BY <1>0, <2>1 DEF Goto, IInv, TypeOK, StoreTypeOK, ThreadTypeOK
    <2>4. PaidFromLocal(s)' /\ PaidFromLocal(s)
      BY <1>0, <1>2, <2>1, <2>3 DEF PaidFromLocal
    <2> QED BY <1>0, <1>1, <2>1, <2>2, <2>3, <2>4 DEF PayingStep, WorkOf, TakesRest
  <1> QED BY <1>3, <1>4, <1>5

(* Every step of a thread.                                                 *)
LEMMA ActsPaying ==
  ASSUME IInv, BankInv, WorkInv, NEW s \in Session, Acts(s)
  PROVE  PayingStep(s)
  BY NotPayingAnew, TransferNotPaying, ReadsPaying, LocalPaying, MixedPaying
     DEF Acts, Step, DeadlockAbort, PaymentStep

(* Every step keeps the work of all threads so.                            *)
LEMMA NextWork ==
  ASSUME IInv, BankInv, WorkInv, [HNext]_historyVars
  PROVE  WorkInv'
  <1>1. [Next]_vars
    BY DEF HNext, historyVars
  <1>2. ASSUME NEW s \in Session, Acts(s) PROVE WorkInv'
    <2>1. ASSUME NEW t \in Session, t # s PROVE WorkOf(t)'
      <3>1. pc'[t] = pc[t] /\ req'[t] = req[t] /\ tx'[t] = tx[t]
        BY <1>2, <2>1, OthersLeftAlone DEF LeftAlone
      <3> QED BY <3>1 DEF WorkInv, WorkOf, PaidFromLocal
    <2>2. WorkOf(s)'
      BY <1>2, ActsPaying DEF PayingStep
    <2> QED BY <2>1, <2>2 DEF WorkInv
  <1>3. CASE Crash
    <2>1. \A s \in Session : pc'[s] = "idle" /\ tx'[s] = NoWork
      BY <1>3 DEF Crash
    <2> QED BY <2>1 DEF WorkInv, WorkOf, PaidFromLocal, NoWork
  <1>4. CASE Tick \/ Drained \/ UNCHANGED vars
    <2>1. UNCHANGED <<pc, req, tx>>
      BY <1>4 DEF Tick, Drained, vars, storeVars, threadVars
    <2> QED BY <2>1 DEF WorkInv, WorkOf, PaidFromLocal
  <1> QED BY <1>1, <1>2, <1>3, <1>4 DEF Next, Acts

(* Nothing is at work at the start.                                        *)
LEMMA InitWork ==
  ASSUME HInit
  PROVE  WorkInv
  <1>1. \A s \in Session : pc[s] = "idle" /\ tx[s] = NoWork
    BY DEF HInit, Init, StoreInit, ThreadInit
  <1> QED BY <1>1 DEF WorkInv, WorkOf, PaidFromLocal, NoWork
-----------------------------------------------------------------------------
(* Totals and badges of one wallet.                                        *)

(* The owner of w holds the badge of its region in grade g.                *)
Holds(w, g) == BadgeOf[w] # NoBadge /\ badges[Owner[w]][BadgeOf[w]][g] > 0

(* What a payment from w knows: the total as it is, and for the tier that  *)
(* the total is going to reach, that the badge is held or to be awarded.   *)
TierKnown(s, w) ==
  LET r == req[s]
      tier == Tier(totalPayment[w] + r.amount)
  IN
  r.from = w =>
    /\ pc[s] \in {"localPay", "localFinish", "mixedLocal"} => seen[s].total = totalPayment[w]
    /\ pc[s] = "mixedLocal" => \A g \in Grade : seen[s].held[g] > 0 => Holds(w, g)
    /\ PaidFromLocal(s) /\ tier # "none" =>
         BadgeOf[w] # NoBadge /\ (tx[s].award = tier \/ Holds(w, tier))

TierAt(w) ==
  /\ BadgeOf[w] # NoBadge /\ Tier(totalPayment[w]) # "none" => Holds(w, Tier(totalPayment[w]))
  /\ \A s \in InService(w) : TierKnown(s, w)

TierInv == \A w \in Wallet : "overlap" \notin lapses[w] => TierAt(w)

(* A total reaches one of the grades or none.                              *)
LEMMA TierType ==
  ASSUME NEW total \in Int
  PROVE  Tier(total) \in Grade \cup {"none"}
  BY StoreAssumption DEF Tier, Grade

(* Badges are for keeps.                                                   *)
LEMMA BadgesKept ==
  ASSUME IInv, BankInv, WorkInv, NEW s \in Session, Acts(s)
  PROVE  /\ \A u \in User, b \in Badge, g \in Grade : badges'[u][b][g] >= badges[u][b][g]
         /\ \/ badges' = badges
            \/ /\ Commit(s) /\ tx[s].award \in Grade /\ PaidFromLocal(s)
               /\ Permitted(req[s], "commit")
               /\ badges' = [badges EXCEPT ![req[s].user][BadgeOf[req[s].from]][tx[s].award] = @ + 1]
  <1>1. \A u \in User, b \in Badge, g \in Grade : badges[u][b][g] \in Nat
    BY DEF IInv, TypeOK, StoreTypeOK
  <1>2. CASE badges' = badges
    BY <1>1, <1>2
  <1>3. CASE /\ Commit(s) /\ tx[s].award # "none"
             /\ badges' = [badges EXCEPT ![req[s].user][BadgeOf[req[s].from]][tx[s].award] = @ + 1]
    <2> DEFINE u == req[s].user
               b == BadgeOf[req[s].from]
               g == tx[s].award
    <2>1. req[s] \in Requests /\ g \in Grade /\ PaidFromLocal(s) /\ Permitted(req[s], "commit")
      <3>1. tx[s] \in WorkType /\ WorkOf(s)
        BY DEF IInv, TypeOK, StoreTypeOK, WorkInv
      <3> QED BY <1>3, <3>1, CommitEffect DEF WorkOf, WorkType
    <2>2. u \in User /\ b \in Badge \cup {NoBadge}
      BY <2>1, RequestFields, StoreAssumption
    <2> HIDE DEF u, b, g
    <2>3. badges' = [badges EXCEPT ![u][b][g] = @ + 1]
      BY <1>3 DEF u, b, g
    <2>4. CASE b \in Badge
      <3>1. \A v \in User, c \in Badge, h \in Grade :
              badges'[v][c][h] = badges[v][c][h] + IF v = u /\ c = b /\ h = g THEN 1 ELSE 0
        BY <2>1, <2>2, <2>3, <2>4, BadgeCells DEF g
      <3>2. \A v \in User, c \in Badge, h \in Grade : badges'[v][c][h] >= badges[v][c][h]
        BY <1>1, <3>1
      <3>3. tx[s].award \in Grade
        BY <2>1 DEF g
      <3> QED BY <1>3, <2>1, <3>2, <3>3
    <2>5. CASE b \notin Badge
      <3>1. \A v \in User : DOMAIN badges[v] = Badge
        BY DEF IInv, TypeOK, StoreTypeOK
      <3>2. badges' = badges
        <4>1. [badges[u] EXCEPT ![b] = [badges[u][b] EXCEPT ![g] = badges[u][b][g] + 1]] = badges[u]
          BY <2>2, <2>5, <3>1 DEF IInv, TypeOK, StoreTypeOK
        <4>2. badges' = [badges EXCEPT ![u] =
                [badges[u] EXCEPT ![b] = [badges[u][b] EXCEPT ![g] = badges[u][b][g] + 1]]]
          BY <2>3
        <4> QED BY <2>2, <4>1, <4>2 DEF IInv, TypeOK, StoreTypeOK
      <3> QED BY <1>2, <3>2
    <2> QED BY <2>2, <2>4, <2>5
  <1> QED BY <1>2, <1>3, BadgesChange

(* Who holds a badge goes on holding it.                                   *)
LEMMA HoldsStays ==
  ASSUME IInv, BankInv, WorkInv, NEW s \in Session, Acts(s), NEW w \in Wallet, NEW g \in Grade,
         Holds(w, g)
  PROVE  Holds(w, g)'
  <1>1. Owner[w] \in User /\ BadgeOf[w] \in Badge
    BY WalletsAssumption, StoreAssumption DEF Holds
  <1>2. badges'[Owner[w]][BadgeOf[w]][g] >= badges[Owner[w]][BadgeOf[w]][g]
    BY <1>1, BadgesKept
  <1>3. badges[Owner[w]][BadgeOf[w]][g] \in Nat /\ badges'[Owner[w]][BadgeOf[w]][g] \in Int
    <2>1. badges[Owner[w]][BadgeOf[w]][g] \in Nat
      BY <1>1 DEF IInv, TypeOK, StoreTypeOK
    <2>2. CASE badges' = badges
      BY <2>1, <2>2
    <2>3. CASE badges' # badges
      <3>1. IInv'
        BY NextIInv DEF Acts, Next
      <3> QED BY <1>1, <2>1, <3>1 DEF IInv, TypeOK, StoreTypeOK
    <2> QED BY <2>2, <2>3
  <1> QED BY <1>2, <1>3 DEF Holds

(* The total of a wallet changes by the payments from it, at their commit. *)
LEMMA TotalMoves ==
  ASSUME IInv, BankInv, WorkInv, NEW s \in Session, Acts(s), NEW w \in Wallet
  PROVE  \/ totalPayment'[w] = totalPayment[w]
         \/ /\ Commit(s) /\ PaidFromLocal(s) /\ req[s].from = w /\ s \in InService(w)
            /\ totalPayment'[w] = totalPayment[w] + req[s].amount
  <1>1. CASE Commit(s)
    <2> DEFINE r == req[s]
    <2>1. r \in Requests /\ Permitted(r, "commit") /\ pc[s] = "commit" /\ WorkOf(s)
          /\ totalPayment' = [totalPayment EXCEPT ![r.from] = @ + tx[s].total]
      BY <1>1, CommitEffect DEF Commit, CommitWork, WorkInv
    <2>2. totalPayment \in [Wallet -> Int] /\ r.from \in Wallet
      BY <2>1, RequestFields DEF IInv, TypeOK, StoreTypeOK
    <2>3. CASE w # r.from
      BY <2>1, <2>2, <2>3
    <2>4. CASE w = r.from /\ ~PaidFromLocal(s)
      <3>1. tx[s].total = 0
        BY <2>1, <2>4 DEF WorkOf
      <3> QED BY <2>1, <2>2, <2>4, <3>1
    <2>5. CASE w = r.from /\ PaidFromLocal(s)
      <3>1. totalPayment'[w] = totalPayment[w] + r.amount
        BY <2>1, <2>2, <2>5 DEF WorkOf
      <3>2. s \in InService(w)
        BY <2>1, <2>5 DEF InService, Uses, Permitted, PaidFromLocal, LocalOps
      <3> QED BY <1>1, <2>5, <3>1, <3>2
    <2> QED BY <2>3, <2>4, <2>5
  <1>2. CASE ~Commit(s)
    BY <1>2 DEF Acts, Step, DeadlockAbort, Receive, LockWaitTimeout, Refuse, RollbackWork,
                storeVars, committedVars, TransferStep, PaymentStep, Charge, ChargeDebit,
                ChargeCredit, Refund, RefundDebit, RefundCredit, Convert, ConvertCharge, Decide,
                Read, Write, PinRejected, PaymentContext, General, GeneralDebit, GeneralPost,
                GeneralMerchant, LocalPay, LocalFinish, Mixed, MixedLocal, MixedMain
  <1> QED BY <1>1, <1>2

(* A step before the commit, of the thread that uses the wallet.           *)
LEMMA TierKnownNext ==
  ASSUME IInv, BankInv, WorkInv, NEW w \in Wallet, NEW s \in InService(w), TierKnown(s, w),
         Acts(s), totalPayment'[w] = totalPayment[w]
  PROVE  TierKnown(s, w)'
  <1>0. PICK r \in Requests : r = req[s]
    BY Serving DEF InService
  <1>1. s \in Session /\ pc[s] # "idle" /\ seen[s] \in SeenType /\ w \in Uses(r)
        /\ r.amount \in Int /\ totalPayment[w] \in Int
    BY <1>0, RequestFields DEF InService, IInv, TypeOK, StoreTypeOK
  <1> SUFFICES ASSUME req'[s].from = w, r.from = w, Paying(s)' PROVE TierKnown(s, w)'
    <2>1. PayingStep(s)
      BY <1>1, ActsPaying
    <2>2. CASE ~Paying(s)'
      BY <2>2 DEF Paying, TierKnown
    <2>3. CASE req'[s] = r
      BY <2>2, <2>3 DEF TierKnown
    <2> QED BY <1>0, <2>1, <2>2, <2>3 DEF PayingStep, LooksUp, Accumulates, Awards, TakesRest
  <1>2. PayingStep(s)
    BY <1>1, ActsPaying
  <1>3. r.user = Owner[w]
    BY <1>1 DEF Uses
  <1>4. \A g \in Grade : Holds(w, g) => Holds(w, g)'
    BY <1>1, HoldsStays
  <1> DEFINE tier == Tier(totalPayment[w] + r.amount)
  <1>5. tier \in Grade \cup {"none"}
    BY <1>1, TierType
  <1>6. CASE LooksUp(s)
    <2>1. pc'[s] \in {"localPay", "mixedLocal"} /\ seen'[s].total = totalPayment[w]
          /\ seen'[s].held = HeldBy(r)
      BY <1>0, <1>6 DEF LooksUp, Snapshot
    <2>2. ASSUME NEW g \in Grade, HeldBy(r)[g] > 0 PROVE Holds(w, g)
      BY <1>3, <2>2 DEF HeldBy, Holds
    <2> QED BY <1>4, <2>1, <2>2 DEF TierKnown, PaidFromLocal
  <1>7. CASE Accumulates(s)
    <2>1. seen[s].total = totalPayment[w]
      BY <1>0, <1>7 DEF Accumulates, TierKnown
    <2> QED BY <1>7, <2>1 DEF Accumulates, TierKnown, PaidFromLocal
  <1>8. CASE Awards(s)
    <2>1. PICK held :
            /\ \/ pc[s] = "localFinish" /\ held = HeldBy(r)
               \/ pc[s] = "mixedLocal" /\ held = seen[s].held
            /\ ~BadgeLookupFails(r, Reached(s), held)
            /\ tx'[s].award = Award(Reached(s), held)
      BY <1>0, <1>8 DEF Awards
    <2>2. seen[s].total = totalPayment[w]
      BY <1>0, <2>1 DEF TierKnown
    <2>3. Reached(s) = tier
      BY <1>0, <2>2 DEF Reached
    <2>4. pc'[s] \in {"mixedMain", "commit"} /\ req'[s] = r
      BY <1>0, <1>8 DEF Awards, PaidFromLocal
    <2>5. ASSUME tier # "none" PROVE BadgeOf[w] # NoBadge /\ (tx'[s].award = tier \/ Holds(w, tier)')
      <3>1. BadgeOf[w] # NoBadge /\ tier \in Grade
        BY <1>5, <2>1, <2>3, <2>5 DEF BadgeLookupFails
      <3>2. CASE held[tier] = 0
        BY <2>1, <2>3, <2>5, <3>1, <3>2 DEF Award
      <3>3. CASE held[tier] # 0
        <4>1. held[tier] > 0
          <5>1. held[tier] \in Nat
            BY <1>0, <1>1, <2>1, <3>1, RequestFields, StoreAssumption
               DEF HeldBy, SeenType, IInv, TypeOK, StoreTypeOK
          <5> QED BY <3>3, <5>1
        <4>2. Holds(w, tier)
          BY <1>0, <1>3, <2>1, <3>1, <4>1 DEF TierKnown, HeldBy, Holds
        <4> QED BY <1>4, <3>1, <4>2
      <3> QED BY <3>1, <3>2, <3>3
    <2> QED BY <2>4, <2>5 DEF TierKnown
  <1>9. CASE TakesRest(s)
    <2>1. PaidFromLocal(s)' /\ req'[s] = r /\ tx'[s].award = tx[s].award
          /\ pc'[s] = "commit" /\ pc[s] = "mixedMain"
      BY <1>0, <1>9 DEF TakesRest, Paying
    <2>2. PaidFromLocal(s)
      BY <1>0, <2>1 DEF PaidFromLocal
    <2>3. tier # "none" => BadgeOf[w] # NoBadge /\ (tx[s].award = tier \/ Holds(w, tier))
      BY <1>0, <2>2 DEF TierKnown
    <2> QED BY <1>4, <1>5, <2>1, <2>3 DEF TierKnown
  <1> QED BY <1>2, <1>6, <1>7, <1>8, <1>9 DEF PayingStep

(* A step of any thread, seen from a wallet on which no requests met.      *)
LEMMA ActsTier ==
  ASSUME IInv, BankInv, LapseInv, WorkInv, NEW w \in Wallet, "overlap" \notin lapses[w],
         TierAt(w), NEW s \in Session, Acts(s)
  PROVE  TierAt(w)'
  <1>0. totalPayment[w] \in Int /\ Tier(totalPayment[w]) \in Grade \cup {"none"}
    BY TierType DEF IInv, TypeOK, StoreTypeOK
  <1>1. \A g \in Grade : Holds(w, g) => Holds(w, g)'
    BY HoldsStays
  <1>2. CASE totalPayment'[w] = totalPayment[w]
    <2>1. BadgeOf[w] # NoBadge /\ Tier(totalPayment'[w]) # "none" => Holds(w, Tier(totalPayment[w]))'
      BY <1>0, <1>1, <1>2 DEF TierAt
    <2>2. ASSUME NEW t \in InService(w)', t # s PROVE TierKnown(t, w)'
      <3>1. t \in Session /\ t \in InService(w)
        BY <2>2, StillInService DEF InService
      <3>2. pc'[t] = pc[t] /\ req'[t] = req[t] /\ seen'[t] = seen[t] /\ tx'[t] = tx[t]
        BY <2>2, <3>1, OthersLeftAlone DEF LeftAlone
      <3>3. TierKnown(t, w)
        BY <3>1 DEF TierAt
      <3>4. req[t].amount \in Int
        BY <3>1, Serving, RequestFields DEF InService
      <3>5. Tier(totalPayment[w] + req[t].amount) \in Grade \cup {"none"}
        BY <1>0, <3>4, TierType
      <3> QED BY <1>1, <1>2, <3>2, <3>3, <3>5 DEF TierKnown, PaidFromLocal
    <2>3. ASSUME s \in InService(w)' PROVE TierKnown(s, w)'
      <3>1. CASE s \in InService(w)
        BY <1>2, <3>1, TierKnownNext DEF TierAt
      <3>2. CASE s \notin InService(w)
        <4>1. pc'[s] \in Entries
          BY <2>3, <3>2, TakenUp
        <4> QED BY <4>1 DEF TierKnown, Entries, PaidFromLocal
      <3> QED BY <3>1, <3>2
    <2> QED BY <1>2, <2>1, <2>2, <2>3 DEF TierAt
  <1>3. CASE /\ Commit(s) /\ PaidFromLocal(s) /\ req[s].from = w /\ s \in InService(w)
             /\ totalPayment'[w] = totalPayment[w] + req[s].amount
    <2> DEFINE tier == Tier(totalPayment[w] + req[s].amount)
    <2>1. tier \in Grade \cup {"none"} /\ req[s] \in Requests /\ req[s].user \in User
          /\ req[s].user = Owner[w]
      <3>1. req[s] \in Requests
        BY <1>3, CommitEffect
      <3>2. req[s].amount \in Int
        BY <3>1, RequestFields
      <3>3. totalPayment[w] + req[s].amount \in Int
        BY <1>0, <3>2
      <3> QED BY <1>3, <3>1, <3>3, TierType, RequestFields DEF InService, Uses
    <2>2. TierKnown(s, w)
      BY <1>3 DEF TierAt
    <2>3. ASSUME BadgeOf[w] # NoBadge, NEW g \in Grade, g = tier PROVE Holds(w, g)'
      <3>0. tier # "none"
        BY <2>3 DEF Grade
      <3> HIDE DEF tier
      <3>5. tx[s].award = g \/ Holds(w, g)
        BY <1>3, <2>2, <2>3, <3>0 DEF TierKnown, tier
      <3>2. CASE tx[s].award = g
        <4>1. PICK u \in User, b \in Badge : u = Owner[w] /\ b = BadgeOf[w]
          BY <2>1, <2>3, StoreAssumption
        <4>2. badges' = [badges EXCEPT ![u][b][g] = @ + 1]
          BY <1>3, <2>1, <3>0, <2>3, <3>2, <4>1 DEF Commit, CommitWork
        <4>3. \A v \in User, c \in Badge, h \in Grade :
                badges'[v][c][h] = badges[v][c][h] + IF v = u /\ c = b /\ h = g THEN 1 ELSE 0
          BY <4>2, BadgeCells
        <4>4. badges[u][b][g] \in Nat
          BY DEF IInv, TypeOK, StoreTypeOK
        <4>5. badges'[u][b][g] > 0
          BY <4>3, <4>4
        <4> QED BY <2>3, <4>1, <4>5 DEF Holds
      <3> QED BY <1>1, <3>2, <3>5
    <2>4. InService(w)' = {}
      <3>1. pc'[s] = "idle" /\ s \in Session
        BY <1>3 DEF Commit, Answer, IInv, TypeOK, ThreadTypeOK
      <3>2. ASSUME NEW t \in InService(w)' PROVE FALSE
        <4>1. t \in Session /\ t # s
          BY <3>1 DEF InService
        <4> QED BY <1>3, <4>1, StillInService, Alone
      <3> QED BY <3>2
    <2>5. Tier(totalPayment'[w]) = tier
      BY <1>3
    <2> HIDE DEF tier
    <2>6. BadgeOf[w] # NoBadge /\ Tier(totalPayment'[w]) # "none" =>
            Holds(w, Tier(totalPayment[w]))'
      BY <2>1, <2>3, <2>5
    <2> QED BY <2>4, <2>6 DEF TierAt
  <1> QED BY <1>2, <1>3, TotalMoves

(* Every step keeps the badges of wallets on which no requests met.        *)
LEMMA NextTier ==
  ASSUME IInv, BankInv, LapseInv, WorkInv, TierInv, [HNext]_historyVars
  PROVE  TierInv'
  <1> SUFFICES ASSUME NEW w \in Wallet, "overlap" \notin lapses'[w]
               PROVE  TierAt(w)'
    BY DEF TierInv
  <1>1. "overlap" \notin lapses[w]
    BY NextLapses
  <1>2. TierAt(w)
    BY <1>1 DEF TierInv
  <1>3. [Next]_vars
    BY DEF HNext, historyVars
  <1>4. ASSUME NEW s \in Session, Acts(s) PROVE TierAt(w)'
    BY <1>1, <1>2, <1>4, ActsTier
  <1>5. CASE Crash
    <2>1. totalPayment' = totalPayment /\ badges' = badges /\ \A s \in Session : pc'[s] = "idle"
      BY <1>5 DEF Crash, committedVars
    <2> QED BY <1>2, <2>1 DEF TierAt, Holds, InService
  <1>6. CASE Tick \/ Drained \/ UNCHANGED vars
    <2>1. UNCHANGED <<totalPayment, badges, pc, req, seen, tx>>
      BY <1>6 DEF Tick, Drained, vars, storeVars, committedVars, threadVars
    <2> QED BY <1>2, <2>1 DEF TierAt, Holds, InService, TierKnown, PaidFromLocal, Uses
  <1> QED BY <1>3, <1>4, <1>5, <1>6 DEF Next, Acts

(* Nobody has paid anything at the start.                                  *)
LEMMA InitTier ==
  ASSUME HInit
  PROVE  TierInv
  <1>1. \A w \in Wallet : totalPayment[w] = 0
    BY DEF HInit, Init, StoreInit, Nothing
  <1>2. Tier(0) = "none"
    BY StoreAssumption DEF Tier
  <1>3. \A s \in Session : pc[s] = "idle"
    BY DEF HInit, Init, ThreadInit
  <1> QED BY <1>1, <1>2, <1>3 DEF TierInv, TierAt, InService

(* Totals, badges and what has been noted, in every history.               *)
LEMMA WorkIsKnown == HSpec => []WorkInv
  <1> QED BY InitWork, NextWork, LapsesAreNoted, PTL DEF HSpec

(* A member whose payments from a wallet reached a tier holds its badge,   *)
(* by either strategy and whatever else is going on, as long as no two     *)
(* requests met on the wallet: the total that decides the tier is read     *)
(* before the payment's lock.                                              *)
THEOREM BadgesFollowTotals == HSpec => []BadgeForTotalUnlessCareless
  <1>1. HInit => TierInv
    BY InitTier
  <1>2. IInv /\ BankInv /\ LapseInv /\ WorkInv /\ TierInv /\ [HNext]_historyVars => TierInv'
    BY NextTier
  <1>3. TierInv => BadgeForTotalUnlessCareless
    BY DEF TierInv, TierAt, Holds, BadgeForTotalUnlessCareless, Local
  <1> QED BY <1>1, <1>2, <1>3, LapsesAreNoted, WorkIsKnown, PTL DEF HSpec

-----------------------------------------------------------------------------
(* One badge.                                                              *)

(* What a payment for the badge of w knows of it: how often the member     *)
(* holds it, and that the grade to be awarded is not held.                 *)
NewKnown(s, w) ==
  LET held == badges[Owner[w]][BadgeOf[w]] IN
  /\ pc[s] = "mixedLocal" => \A g \in Grade : seen[s].held[g] = held[g]
  /\ tx[s].award # "none" => held[tx[s].award] = 0

OnceAt(w) ==
  /\ \A g \in Grade : badges[Owner[w]][BadgeOf[w]][g] <= 1
  /\ \A s \in Session : Earns(s, w) => NewKnown(s, w)

OnceInv == \A w \in Wallet : BadgeOf[w] # NoBadge /\ "payments" \notin lapses[w] => OnceAt(w)

(* A badge is only given to by a thread that may earn it.                  *)
LEMMA BadgeOfOthers ==
  ASSUME IInv, BankInv, WorkInv, NEW s \in Session, Acts(s), NEW w \in Wallet,
         BadgeOf[w] # NoBadge, ~(Commit(s) /\ tx[s].award # "none" /\ Earns(s, w)), NEW g \in Grade
  PROVE  badges'[Owner[w]][BadgeOf[w]][g] = badges[Owner[w]][BadgeOf[w]][g]
  <1>1. Owner[w] \in User /\ BadgeOf[w] \in Badge
    BY WalletsAssumption, StoreAssumption
  <1>2. badges[Owner[w]][BadgeOf[w]][g] \in Nat
    BY <1>1 DEF IInv, TypeOK, StoreTypeOK
  <1>3. CASE badges' = badges
    BY <1>3
  <1>4. CASE /\ badges' # badges
             /\ Commit(s) /\ tx[s].award \in Grade /\ PaidFromLocal(s)
             /\ Permitted(req[s], "commit")
             /\ badges' = [badges EXCEPT ![req[s].user][BadgeOf[req[s].from]][tx[s].award] = @ + 1]
    <2> DEFINE u == req[s].user
               b == BadgeOf[req[s].from]
               a == tx[s].award
    <2>1. ~(u = Owner[w] /\ b = BadgeOf[w])
      <3>1. a # "none"
        BY <1>4 DEF Grade
      <3>2. pc[s] # "idle" /\ req[s].op \in LocalOps
        BY <1>4 DEF PaidFromLocal
      <3> QED BY <1>4, <3>1, <3>2 DEF Earns
    <2>2. u \in User /\ a \in Grade /\ req[s] \in Requests
      <3>1. req[s] \in Requests
        BY <1>4, CommitEffect
      <3> QED BY <1>4, <3>1, RequestFields
    <2>3. badges' = [badges EXCEPT ![u][b][a] = @ + 1]
      BY <1>4
    <2> HIDE DEF u, b, a
    <2>4. badges'[Owner[w]] = IF Owner[w] = u THEN [badges[u] EXCEPT ![b] =
                                 [badges[u][b] EXCEPT ![a] = badges[u][b][a] + 1]]
                              ELSE badges[Owner[w]]
      BY <1>1, <2>2, <2>3 DEF IInv, TypeOK, StoreTypeOK
    <2>5. badges'[Owner[w]][BadgeOf[w]] = badges[Owner[w]][BadgeOf[w]]
      <3>1. badges[Owner[w]] \in [Badge -> [Grade -> Nat]]
        BY <1>1 DEF IInv, TypeOK, StoreTypeOK
      <3> QED BY <1>1, <2>1, <2>4, <3>1
    <2> QED BY <2>5
  <1> QED BY <1>3, <1>4, BadgesKept

(* A step of a thread that may earn the badge of w.                        *)
LEMMA EarnsNext ==
  ASSUME IInv, BankInv, WorkInv, NEW w \in Wallet, BadgeOf[w] # NoBadge,
         NEW s \in Session, Earns(s, w) => NewKnown(s, w), Acts(s), ~Commit(s), Earns(s, w)'
  PROVE  NewKnown(s, w)'
  <1>1. \A g \in Grade : badges'[Owner[w]][BadgeOf[w]][g] = badges[Owner[w]][BadgeOf[w]][g]
    BY BadgeOfOthers
  <1>2. PayingStep(s)
    BY ActsPaying
  <1>3. Owner[w] \in User /\ BadgeOf[w] \in Badge
    BY WalletsAssumption, StoreAssumption
  <1>4. tx'[s].award \in Grade \cup {"none"} /\ seen[s] \in SeenType
    <2>1. IInv'
      BY NextIInv DEF Acts, Next
    <2>2. tx'[s] \in WorkType
      BY <2>1 DEF IInv, TypeOK, StoreTypeOK
    <2>3. seen[s] \in SeenType
      BY DEF IInv, TypeOK, StoreTypeOK
    <2> QED BY <2>2, <2>3 DEF WorkType
  <1>5. CASE ~Paying(s)'
    <2>1. tx'[s].award = "none" /\ pc'[s] # "mixedLocal"
      BY <1>2, <1>5 DEF PayingStep, WorkOf, Paying
    <2> QED BY <2>1 DEF NewKnown
  <1>6. CASE LooksUp(s)
    <2>1. tx'[s].award = "none"
      BY <1>2, <1>6 DEF PayingStep, LooksUp, WorkOf, PaidFromLocal
    <2>2. req[s].user = Owner[w] /\ BadgeOf[req[s].from] = BadgeOf[w]
      BY <1>6 DEF LooksUp, Earns
    <2>3. seen'[s].held = badges[Owner[w]][BadgeOf[w]]
      BY <1>6, <2>2 DEF LooksUp, Snapshot, HeldBy
    <2> QED BY <1>1, <2>1, <2>3 DEF NewKnown
  <1>7. CASE Accumulates(s)
    <2>1. tx'[s].award = "none" /\ pc'[s] # "mixedLocal"
      BY <1>2, <1>7 DEF PayingStep, Accumulates, WorkOf, PaidFromLocal
    <2> QED BY <2>1 DEF NewKnown
  <1>8. CASE Awards(s)
    <2>1. PICK held :
            /\ \/ pc[s] = "localFinish" /\ held = HeldBy(req[s])
               \/ pc[s] = "mixedLocal" /\ held = seen[s].held
            /\ tx'[s].award = Award(Reached(s), held)
      BY <1>8 DEF Awards
    <2>2. pc'[s] # "mixedLocal" /\ Earns(s, w)
      BY <1>8, <2>1 DEF Awards, PaidFromLocal, Earns
    <2>3. NewKnown(s, w) /\ req[s].user = Owner[w] /\ BadgeOf[req[s].from] = BadgeOf[w]
      BY <2>2 DEF Earns
    <2>4. \A g \in Grade : held[g] = badges[Owner[w]][BadgeOf[w]][g]
      BY <2>1, <2>3 DEF NewKnown, HeldBy
    <2>5. ASSUME tx'[s].award # "none" PROVE badges[Owner[w]][BadgeOf[w]][tx'[s].award] = 0
      <3>1. held[tx'[s].award] = 0
        BY <2>1, <2>5 DEF Award
      <3> QED BY <1>4, <2>4, <2>5, <3>1
    <2> QED BY <1>1, <1>4, <2>2, <2>5 DEF NewKnown
  <1>9. CASE TakesRest(s)
    <2>1. pc'[s] # "mixedLocal" /\ Earns(s, w) /\ tx'[s].award = tx[s].award
      BY <1>9 DEF TakesRest, Earns
    <2> QED BY <1>1, <1>4, <2>1 DEF NewKnown
  <1> QED BY <1>2, <1>5, <1>6, <1>7, <1>8, <1>9 DEF PayingStep

(* A step of any thread, seen from a badge for which no payments met.      *)
LEMMA ActsOnce ==
  ASSUME IInv, BankInv, LapseInv, WorkInv, NEW w \in Wallet, BadgeOf[w] # NoBadge,
         "payments" \notin lapses[w], OnceAt(w), NEW s \in Session, Acts(s)
  PROVE  OnceAt(w)'
  <1>1. Owner[w] \in User /\ BadgeOf[w] \in Badge
    BY WalletsAssumption, StoreAssumption
  <1>2. CASE Commit(s) /\ tx[s].award # "none" /\ Earns(s, w)
    <2>0. tx[s].award \in Grade
      <3>1. tx[s] \in WorkType
        BY DEF IInv, TypeOK, StoreTypeOK
      <3> QED BY <1>2, <3>1 DEF WorkType
    <2>1. PICK u \in User, b \in Badge, a \in Grade :
            u = Owner[w] /\ b = BadgeOf[w] /\ a = tx[s].award
      BY <1>1, <2>0
    <2>2. badges' = [badges EXCEPT ![u][b][a] = @ + 1]
      BY <1>2, <2>1 DEF Commit, CommitWork, Earns
    <2>3. \A v \in User, c \in Badge, h \in Grade :
            badges'[v][c][h] = badges[v][c][h] + IF v = u /\ c = b /\ h = a THEN 1 ELSE 0
      BY <2>2, BadgeCells
    <2>4. ASSUME NEW g \in Grade PROVE badges'[u][b][g] <= 1
      <3>1. badges[u][b][g] <= 1 /\ badges[u][b][g] \in Nat /\ badges[u][b][a] = 0
        BY <1>2, <2>1 DEF OnceAt, NewKnown, IInv, TypeOK, StoreTypeOK
      <3> QED BY <2>3, <3>1
    <2>5. ASSUME NEW t \in Session PROVE ~Earns(t, w)'
      <3>1. CASE t = s
        BY <1>2, <3>1 DEF Commit, Answer, Earns, IInv, TypeOK, ThreadTypeOK
      <3>2. CASE t # s
        <4>1. pc'[t] = pc[t] /\ req'[t] = req[t]
          BY <3>2, OthersLeftAlone DEF LeftAlone
        <4>2. ~Earns(t, w)
          BY <1>2, <3>2 DEF LapseInv, LapsesNow, Lapse
        <4> QED BY <4>1, <4>2 DEF Earns
      <3> QED BY <3>1, <3>2
    <2> QED BY <2>1, <2>4, <2>5 DEF OnceAt
  <1>3. CASE ~(Commit(s) /\ tx[s].award # "none" /\ Earns(s, w))
    <2>1. \A g \in Grade : badges'[Owner[w]][BadgeOf[w]][g] = badges[Owner[w]][BadgeOf[w]][g]
      BY <1>3, BadgeOfOthers
    <2>2. ASSUME NEW t \in Session, t # s, Earns(t, w)' PROVE NewKnown(t, w)'
      <3>1. pc'[t] = pc[t] /\ req'[t] = req[t] /\ tx'[t] = tx[t] /\ seen'[t] = seen[t]
        BY <2>2, OthersLeftAlone DEF LeftAlone
      <3>2. NewKnown(t, w)
        BY <2>2, <3>1 DEF Earns, OnceAt
      <3>3. tx[t].award \in Grade \cup {"none"}
        <4>1. tx[t] \in WorkType
          BY DEF IInv, TypeOK, StoreTypeOK
        <4> QED BY <4>1 DEF WorkType
      <3> QED BY <2>1, <3>1, <3>2, <3>3 DEF NewKnown
    <2>3. ASSUME Earns(s, w)' PROVE NewKnown(s, w)'
      <3>1. ~Commit(s)
        BY <2>3 DEF Commit, Answer, Earns, IInv, TypeOK, ThreadTypeOK
      <3> QED BY <2>3, <3>1, EarnsNext DEF OnceAt
    <2> QED BY <2>1, <2>2, <2>3 DEF OnceAt
  <1> QED BY <1>2, <1>3

(* Every step keeps the badges single for which no payments met.           *)
LEMMA NextOnce ==
  ASSUME IInv, BankInv, LapseInv, WorkInv, OnceInv, [HNext]_historyVars
  PROVE  OnceInv'
  <1> SUFFICES ASSUME NEW w \in Wallet, BadgeOf[w] # NoBadge, "payments" \notin lapses'[w]
               PROVE  OnceAt(w)'
    BY DEF OnceInv
  <1>1. "payments" \notin lapses[w]
    BY NextLapses
  <1>2. OnceAt(w)
    BY <1>1 DEF OnceInv
  <1>3. [Next]_vars
    BY DEF HNext, historyVars
  <1>4. ASSUME NEW s \in Session, Acts(s) PROVE OnceAt(w)'
    BY <1>1, <1>2, <1>4, ActsOnce
  <1>5. CASE Crash
    <2>1. badges' = badges /\ \A s \in Session : pc'[s] = "idle"
      BY <1>5 DEF Crash, committedVars
    <2> QED BY <1>2, <2>1 DEF OnceAt, Earns
  <1>6. CASE Tick \/ Drained \/ UNCHANGED vars
    <2>1. UNCHANGED <<badges, pc, req, seen, tx>>
      BY <1>6 DEF Tick, Drained, vars, storeVars, committedVars, threadVars
    <2> QED BY <1>2, <2>1 DEF OnceAt, Earns, NewKnown
  <1> QED BY <1>3, <1>4, <1>5, <1>6 DEF Next, Acts

(* Nobody holds a badge at the start.                                      *)
LEMMA InitOnce ==
  ASSUME HInit
  PROVE  OnceInv
  <1>1. badges = [u \in User |-> [b \in Badge |-> [g \in Grade |-> 0]]]
    BY DEF HInit, Init, StoreInit
  <1>2. \A s \in Session : pc[s] = "idle"
    BY DEF HInit, Init, ThreadInit
  <1>3. ASSUME NEW w \in Wallet, BadgeOf[w] # NoBadge PROVE OnceAt(w)
    <2>1. Owner[w] \in User /\ BadgeOf[w] \in Badge
      BY <1>3, WalletsAssumption, StoreAssumption
    <2> QED BY <1>1, <1>2, <2>1 DEF OnceAt, Earns
  <1> QED BY <1>3 DEF OnceInv

(* No badge is awarded twice unless two payments that may earn it are in   *)
(* service at once, from one wallet or from two of the badge's currencies  *)
(* and by either strategy, whatever else the member does meanwhile.        *)
THEOREM BadgesAwardedOnceUnlessCareless == HSpec => []BadgeOnceUnlessCareless
  <1>1. HInit => OnceInv
    BY InitOnce
  <1>2. IInv /\ BankInv /\ LapseInv /\ WorkInv /\ OnceInv /\ [HNext]_historyVars => OnceInv'
    BY NextOnce
  <1>3. OnceInv => BadgeOnceUnlessCareless
    BY DEF OnceInv, OnceAt, BadgeOnceUnlessCareless
  <1> QED BY <1>1, <1>2, <1>3, LapsesAreNoted, WorkIsKnown, PTL DEF HSpec
-----------------------------------------------------------------------------
(* Locks are for the wallets a request uses.                               *)

(* s locks nothing else, and takes cash for a local payment only when its  *)
(* two amounts differ.                                                     *)
LocksOf(s) ==
  /\ pc[s] \in MixedLabels => req[s].amount # req[s].total
  /\ \A w \in Wallet : lock[w] = s => w \in Uses(req[s])

LockInv == \A s \in Session : LocksOf(s)

(* Outside transactions a thread holds no locks and has no work.           *)
LEMMA Unworked ==
  ASSUME IInv, NEW s \in Session, pc[s] \notin InTransaction
  PROVE  tx[s] = NoWork /\ \A w \in Wallet : lock[w] # s
  BY StoreAssumption DEF IInv, LockDiscipline, RowsMatchUpdates, RowsMatch

(* A thread that goes on with its request and its locks.                   *)
LEMMA GoesWithLocks ==
  ASSUME IInv, NEW s \in Session, LocksOf(s), NEW l, Goto(s, l), l \notin MixedLabels \/ pc[s] \in MixedLabels,
         \A w \in Wallet : lock'[w] = s => lock[w] = s \/ w \in Uses(req[s])
  PROVE  LocksOf(s)'
  <1>1. pc'[s] = l /\ req'[s] = req[s]
    BY DEF Goto, IInv, TypeOK, ThreadTypeOK
  <1> QED BY <1>1 DEF LocksOf, Uses

(* A thread without locks that is not in LocalMixedStrategy.               *)
LEMMA LocksNothing ==
  ASSUME IInv, NEW s \in Session, pc'[s] \notin MixedLabels, \A w \in Wallet : lock'[w] # s
  PROVE  LocksOf(s)'
  BY DEF LocksOf

(* Refusals, answers and receipts leave the thread without locks.          *)
LEMMA AnswersWithoutLocks ==
  ASSUME IInv, NEW s \in Session,
         \/ \E e : Refuse(s, e)
         \/ \E r \in Requests : Receive(s, r)
         \/ LockWaitTimeout(s) \/ Commit(s) \/ GeneralMerchant(s)
  PROVE  LocksOf(s)'
  <1>1. CASE (\E e : Refuse(s, e)) \/ LockWaitTimeout(s) \/ Commit(s)
    <2>1. pc'[s] = "idle" /\ lock' = Unlocked(s)
      BY <1>1 DEF Refuse, RollbackWork, LockWaitTimeout, Commit, CommitWork, Answer, IInv, TypeOK,
                  ThreadTypeOK
    <2> QED BY <2>1, LocksNothing, StoreAssumption DEF Unlocked, MixedLabels
  <1>2. CASE \E r \in Requests : Receive(s, r)
    <2>1. pc'[s] \in {"charge", "refund", "convert", "pay"} /\ pc[s] = "idle" /\ lock' = lock
      BY <1>2 DEF Receive, Entry, storeVars, IInv, TypeOK, ThreadTypeOK
    <2> QED BY <2>1, LocksNothing, Unworked DEF InTransaction, MixedLabels
  <1>3. CASE GeneralMerchant(s)
    <2>1. pc'[s] = "idle" /\ pc[s] = "generalMerchant" /\ lock' = lock
      BY <1>3 DEF GeneralMerchant, Answer, IInv, TypeOK, ThreadTypeOK
    <2> QED BY <2>1, LocksNothing, Unworked DEF InTransaction, MixedLabels
  <1> QED BY <1>1, <1>2, <1>3

(* Transfers lock their two or three wallets.                              *)
LEMMA TransferLocks ==
  ASSUME IInv, BankInv, NEW s \in Session, LocksOf(s), TransferStep(s)
  PROVE  LocksOf(s)'
  <1>0. PICK r \in Requests : r = req[s]
    BY Serving DEF TransferStep, Charge, ChargeDebit, ChargeCredit, Refund, RefundDebit,
                   RefundCredit, Convert, ConvertCharge
  <1>1. CASE \E e : Refuse(s, e)
    BY <1>1, AnswersWithoutLocks
  <1>2. CASE \E view, l : Read(s, view) /\ Goto(s, l) /\ l \in {"chargeDebit", "refundDebit"}
    <2>1. lock' = lock
      BY <1>2 DEF Read
    <2> QED BY <1>2, <2>1, GoesWithLocks DEF MixedLabels
  <1>3. ASSUME NEW w \in Uses(r), NEW work, NEW l \in {"chargeCredit", "refundCredit", "convertCharge", "commit"},
               Write(s, w, work), Goto(s, l)
        PROVE  LocksOf(s)'
    <2>1. \A v \in Wallet : lock'[v] = s => lock[v] = s \/ v = w
      BY <1>3 DEF Write, Lock, IInv, TypeOK, StoreTypeOK
    <2> QED BY <1>0, <1>3, <2>1, GoesWithLocks DEF MixedLabels
  <1>4. CASE ChargeDebit(s) \/ ChargeCredit(s) \/ RefundDebit(s) \/ RefundCredit(s)
    <2>1. /\ pc[s] \in {"chargeDebit", "chargeCredit", "refundDebit", "refundCredit"}
          /\ pc[s] \in LabelsOf(r.op) /\ Permitted(r, pc[s])
      BY <1>0, <1>4 DEF ChargeDebit, ChargeCredit, RefundDebit, RefundCredit, BankInv, OnItsWay,
                        Entries
    <2>2. /\ r.op \in TransferOps /\ r.op # "GENERAL" /\ r.from \in Wallet /\ r.to \in Wallet
          /\ CashOf[r.user] \in Wallet /\ Owner[r.from] = r.user /\ Owner[CashOf[r.user]] = r.user
      BY <2>1, RequestFields, WalletsAssumption
         DEF LabelsOf, TransferOps, PaymentOps, LocalOps, Permitted
    <2>3. CASE ChargeDebit(s) \/ ChargeCredit(s)
      <3>1. ChargeSource(r) \in Uses(r) /\ r.to \in Uses(r)
        <4>1. pc[s] \in {"chargeDebit", "chargeCredit"} /\ r.op \in {"CHARGE", "CONVERT"}
          BY <2>1, <2>2, <2>3 DEF ChargeDebit, ChargeCredit, LabelsOf, TransferOps
        <4>2. Owner[r.to] = r.user
          BY <2>1, <4>1 DEF Permitted
        <4> QED BY <2>2, <4>1, <4>2 DEF ChargeSource, Uses, TransferOps
      <3> QED BY <1>0, <1>3, <2>3, <3>1 DEF ChargeDebit, ChargeCredit
    <2>4. CASE RefundDebit(s) \/ RefundCredit(s)
      <3>1. r.from \in Uses(r) /\ RefundTarget(r) \in Uses(r)
        <4>1. r.op \in {"REFUND", "CONVERT"}
          BY <2>1, <2>2, <2>4 DEF RefundDebit, RefundCredit, LabelsOf, TransferOps
        <4>2. r.op = "REFUND" => r.to = CashOf[r.user]
          BY <2>1 DEF Permitted
        <4> QED BY <2>2, <4>1, <4>2 DEF RefundTarget, Uses, TransferOps
      <3> QED BY <1>0, <1>3, <2>4, <3>1 DEF RefundDebit, RefundCredit
    <2> QED BY <1>4, <2>3, <2>4
  <1>5. CASE (Charge(s) \/ Refund(s) \/ Convert(s) \/ ConvertCharge(s)) /\ ~(\E e : Refuse(s, e))
    BY <1>2, <1>5 DEF Charge, Refund, Convert, ConvertCharge, Decide
  <1> QED BY <1>1, <1>4, <1>5 DEF TransferStep

(* Payments lock the local wallet and, unless it pays all, the cash wallet. *)
LEMMA PaymentLocks ==
  ASSUME IInv, BankInv, NEW s \in Session, LocksOf(s), PaymentStep(s)
  PROVE  LocksOf(s)'
  <1>0. PICK r \in Requests : r = req[s]
    BY Serving DEF PaymentStep, PinRejected, PaymentContext, General, GeneralDebit, GeneralPost,
                   GeneralMerchant, LocalPay, LocalFinish, Mixed, MixedLocal, MixedMain
  <1>1. CASE (\E e : Refuse(s, e)) \/ GeneralMerchant(s)
    BY <1>1, AnswersWithoutLocks
  <1>2. ASSUME NEW l, Goto(s, l), l \notin MixedLabels \/ pc[s] \in MixedLabels, lock' = lock
        PROVE  LocksOf(s)'
    BY <1>2, GoesWithLocks
  <1>3. CASE PaymentContext(s) /\ ~(\E e : Refuse(s, e))
    <2>1. Read(s, Snapshot(r)) /\ Goto(s, Route(r)) /\ pc[s] = "pay"
      BY <1>0, <1>3 DEF PaymentContext
    <2>2. lock' = lock /\ pc'[s] = Route(r) /\ req'[s] = r /\ \A w \in Wallet : lock[w] # s
      <3>1. \A w \in Wallet : lock[w] # s
        BY <2>1, Unworked DEF InTransaction
      <3> QED BY <1>0, <2>1, <3>1 DEF Read, Goto, IInv, TypeOK, ThreadTypeOK
    <2>3. Route(r) \in MixedLabels => r.amount # r.total
      BY DEF Route, MixedLabels
    <2> QED BY <2>2, <2>3 DEF LocksOf
  <1>4. CASE (General(s) \/ Mixed(s)) /\ ~(\E e : Refuse(s, e))
    <2>1. PICK l : Goto(s, l) /\ lock' = lock /\ (l \notin MixedLabels \/ pc[s] \in MixedLabels)
      BY <1>4 DEF General, Mixed, Read, MixedLabels
    <2> QED BY <1>2, <2>1
  <1>5. CASE GeneralDebit(s) \/ GeneralPost(s)
    <2>1. PICK l \in {"generalPost", "generalMerchant"} : Goto(s, l) /\ lock' = lock
      BY <1>5 DEF GeneralDebit, GeneralPost
    <2> QED BY <1>2, <2>1 DEF MixedLabels
  <1>6. ASSUME pc[s] \in {"localPay", "localFinish", "mixedLocal", "mixedMain"}
        PROVE  r.op \in LocalOps /\ r.from \in Uses(r) /\ CashOf[r.user] \in Wallet
               /\ Owner[CashOf[r.user]] = r.user
    <2>1. pc[s] \in LabelsOf(r.op) /\ Permitted(r, pc[s])
      BY <1>0, <1>6 DEF BankInv, OnItsWay, Entries
    <2>2. r.op \in LocalOps /\ r.from \in Wallet /\ CashOf[r.user] \in Wallet
          /\ Owner[CashOf[r.user]] = r.user
      BY <1>6, <2>1, RequestFields, WalletsAssumption DEF LabelsOf, TransferOps, PaymentOps, LocalOps
    <2> QED BY <2>1, <2>2 DEF Permitted, Uses, LocalOps
  <1>7. ASSUME NEW w \in Uses(r), NEW work, NEW l \in {"localFinish", "mixedMain", "commit"},
               Write(s, w, work), Goto(s, l), l \notin MixedLabels \/ pc[s] \in MixedLabels
        PROVE  LocksOf(s)'
    <2>1. \A v \in Wallet : lock'[v] = s => lock[v] = s \/ v = w
      BY <1>7 DEF Write, Lock, IInv, TypeOK, StoreTypeOK
    <2> QED BY <1>0, <1>7, <2>1, GoesWithLocks
  <1>8. CASE LocalPay(s)
    <2>1. pc[s] = "localPay" /\ Goto(s, "localFinish") /\ \E work : Write(s, r.from, work)
      BY <1>0, <1>8 DEF LocalPay
    <2> QED BY <1>6, <1>7, <2>1 DEF MixedLabels
  <1>9. CASE LocalFinish(s) /\ ~(\E e : Refuse(s, e))
    <2>1. Goto(s, "commit") /\ lock' = lock
      BY <1>9 DEF LocalFinish
    <2> QED BY <1>2, <2>1 DEF MixedLabels
  <1>10. CASE MixedLocal(s) /\ ~(\E e : Refuse(s, e))
    <2>1. pc[s] = "mixedLocal" /\ Goto(s, "mixedMain") /\ \E work : Write(s, r.from, work)
      BY <1>0, <1>10 DEF MixedLocal
    <2> QED BY <1>6, <1>7, <2>1 DEF MixedLabels
  <1>11. CASE MixedMain(s)
    <2>1. pc[s] = "mixedMain" /\ Goto(s, "commit") /\ \E work : Write(s, CashOf[r.user], work)
      BY <1>0, <1>11 DEF MixedMain
    <2>2. CashOf[r.user] \in Uses(r)
      <3>1. r.amount # r.total
        BY <1>0, <2>1 DEF LocksOf, MixedLabels
      <3> QED BY <1>6, <2>1, <3>1 DEF Uses
    <2> QED BY <1>7, <2>1, <2>2 DEF MixedLabels
  <1> QED BY <1>1, <1>3, <1>4, <1>5, <1>8, <1>9, <1>10, <1>11 DEF PaymentStep, PinRejected

(* A thread takes locks for itself alone.                                  *)
LEMMA LocksItself ==
  ASSUME IInv, NEW s \in Session, Acts(s), NEW t \in Session, t # s, NEW w \in Wallet,
         lock'[w] = t
  PROVE  lock[w] = t
  BY StoreAssumption
     DEF Acts, Step, DeadlockAbort, Receive, LockWaitTimeout, Refuse, RollbackWork, Commit,
         CommitWork, Unlocked, storeVars, TransferStep, PaymentStep, Charge, ChargeDebit,
         ChargeCredit, Refund, RefundDebit, RefundCredit, Convert, ConvertCharge, Decide,
         Read, Write, Lock, PinRejected, PaymentContext, General, GeneralDebit, GeneralPost,
         GeneralMerchant, LocalPay, LocalFinish, Mixed, MixedLocal, MixedMain,
         IInv, TypeOK, StoreTypeOK

(* Every step keeps the locks to the wallets that are used.                *)
LEMMA NextLocks ==
  ASSUME IInv, BankInv, LockInv, [HNext]_historyVars
  PROVE  LockInv'
  <1>1. [Next]_vars
    BY DEF HNext, historyVars
  <1>2. ASSUME NEW s \in Session, Acts(s) PROVE LockInv'
    <2>1. ASSUME NEW t \in Session, t # s PROVE LocksOf(t)'
      <3>1. pc'[t] = pc[t] /\ req'[t] = req[t]
        BY <1>2, <2>1, OthersLeftAlone DEF LeftAlone
      <3>2. \A w \in Wallet : lock'[w] = t => lock[w] = t
        BY <1>2, <2>1, LocksItself
      <3> QED BY <3>1, <3>2 DEF LockInv, LocksOf
    <2>2. LocksOf(s)'
      <3>1. LocksOf(s)
        BY DEF LockInv
      <3> QED BY <1>2, <3>1, AnswersWithoutLocks, TransferLocks, PaymentLocks
              DEF Acts, Step, DeadlockAbort
    <2> QED BY <2>1, <2>2 DEF LockInv
  <1>3. CASE Crash
    <2>1. (\A s \in Session : pc'[s] = "idle") /\ \A w \in Wallet : lock'[w] = NoSession
      BY <1>3 DEF Crash
    <2> QED BY <2>1, StoreAssumption DEF LockInv, LocksOf, MixedLabels
  <1>4. CASE Tick \/ Drained \/ UNCHANGED vars
    <2>1. UNCHANGED <<pc, req, lock>>
      BY <1>4 DEF Tick, Drained, vars, storeVars, threadVars
    <2> QED BY <2>1 DEF LockInv, LocksOf, Uses
  <1> QED BY <1>1, <1>2, <1>3, <1>4 DEF Next, Acts

(* Nothing is locked at the start.                                         *)
LEMMA InitLocks ==
  ASSUME HInit
  PROVE  LockInv
  <1>1. (\A s \in Session : pc[s] = "idle") /\ \A w \in Wallet : lock[w] = NoSession
    BY DEF HInit, Init, StoreInit, ThreadInit
  <1> QED BY <1>1, StoreAssumption DEF LockInv, LocksOf, MixedLabels

(* In every history the locks are for the wallets the requests use.        *)
LEMMA LocksAreUsed == HSpec => []LockInv
  <1> QED BY InitLocks, NextLocks, LapsesAreNoted, PTL DEF HSpec
-----------------------------------------------------------------------------
(* The after column of the statement of one wallet.                        *)

Misstating == {"overlap", "itself"}

(* The wallet whose row is still to be inserted after its update.          *)
OwedRow(s) ==
  { w \in Wallet : \/ pc[s] = "chargeCredit" /\ w = ChargeSource(req[s])
                   \/ pc[s] \in {"refundCredit", "localFinish"} /\ w = req[s].from }

ReadLabels == {"chargeDebit", "chargeCredit", "refundDebit", "refundCredit", "localPay",
               "localFinish", "mixedLocal", "generalDebit"}

(* What the handler has read of v is its balance, or differs from it by    *)
(* what the handler has done since.                                        *)
ReadsHold(s, v) ==
  /\ pc[s] \in ReadLabels =>
       seen[s].balance[v] + Owed(s)[v] = balance[v] + tx[s].delta[v]
  /\ pc[s] = "mixedMain" /\ v # req[s].from => seen[s].balance[v] = balance[v] + tx[s].delta[v]
  /\ pc[s] = "convertCharge" /\ lock[v] # s => seen[s].balance[v] = balance[v]
  /\ pc[s] = "generalPost" /\ v = CashOf[req[s].user] =>
       seen[s].balance[v] = balance[v] + req[s].total

(* A wallet that the transaction has updated has a row that shows it.      *)
RowsShow(s, v) ==
  lock[v] = s => v \in OwedRow(s) \/ tx[s].after[v] = balance[v] + tx[s].delta[v]

(* The two wallets of a transfer or payment are different ones.            *)
LegsApart(s) ==
  /\ pc[s] \in {"refundDebit", "refundCredit", "mixed", "mixedLocal", "mixedMain"} =>
       req[s].from \notin Cash
  /\ pc[s] \in {"chargeDebit", "chargeCredit"} => req[s].to # ChargeSource(req[s])

(* The latest committed row shows the balance, up to a row that is due.    *)
LastRow(s, v) ==
  lastAfter[v] = balance[v] + IF pc[s] = "generalPost" /\ v = CashOf[req[s].user]
                              THEN req[s].total ELSE 0

Stated(s, v) == ReadsHold(s, v) /\ RowsShow(s, v) /\ LegsApart(s) /\ LastRow(s, v)

StatedAt(v) ==
  /\ InService(v) = {} => lastAfter[v] = balance[v]
  /\ \A s \in InService(v) : Stated(s, v)

StatedInv ==
  faults = 0 => \A v \in Wallet : lapses[v] \cap Misstating = {} => StatedAt(v)

(* A handler that has not read and not written yet.                        *)
LEMMA StatedAnew ==
  ASSUME IInv, NEW s \in Session, NEW v \in Wallet, pc[s] # "generalPost",
         lastAfter[v] = balance[v] \/ LastRow(s, v),
         balance'[v] = balance[v], lastAfter'[v] = lastAfter[v],
         pc'[s] \in {"idle", "charge", "refund", "convert", "pay", "generalMerchant"},
         \A w \in Wallet : lock'[w] # s
  PROVE  Stated(s, v)'
  <1>1. lastAfter[v] = balance[v] + 0
    BY DEF LastRow, IInv, TypeOK, StoreTypeOK
  <1> QED BY <1>1 DEF Stated, ReadsHold, RowsShow, LegsApart, LastRow, ReadLabels

(* A refusal, which releases what the thread holds.                        *)
LEMMA RefuseStated ==
  ASSUME IInv, NEW s \in Session, NEW v \in Wallet, Stated(s, v), pc[s] # "generalPost",
         NEW e, Refuse(s, e)
  PROVE  Stated(s, v)'
  <1>1. UNCHANGED <<balance, lastAfter>> /\ pc'[s] = "idle"
    BY DEF Refuse, RollbackWork, Answer, committedVars, IInv, TypeOK, ThreadTypeOK
  <1>2. \A w \in Wallet : lock'[w] # s
    BY StoreAssumption DEF Refuse, RollbackWork, Unlocked
  <1> QED BY <1>1, <1>2, StatedAnew DEF Stated

(* The first snapshot of a handler shows the balance as it is.             *)
LEMMA ReadStated ==
  ASSUME IInv, NEW s \in Session, NEW v \in Wallet, Stated(s, v), pc[s] \notin InTransaction,
         pc[s] # "generalPost", NEW r, r = req[s], Read(s, Snapshot(r)),
         NEW l \in {"chargeDebit", "refundDebit", "general", "localPay", "mixed",
                    "generalDebit", "mixedLocal"},
         Goto(s, l), LegsApart(s)'
  PROVE  Stated(s, v)'
  <1>1. /\ pc'[s] = l /\ req'[s] = r /\ seen'[s].balance = balance
        /\ UNCHANGED <<balance, lastAfter, lock, tx>>
    BY DEF Read, Snapshot, Goto, committedVars, IInv, TypeOK, StoreTypeOK, ThreadTypeOK
  <1>2. tx[s] = NoWork /\ \A w \in Wallet : lock[w] # s
    BY Unworked
  <1>3. tx[s].delta[v] = 0 /\ balance[v] \in Int
    BY <1>2 DEF NoWork, Nothing, IInv, TypeOK, StoreTypeOK
  <1>4. Owed(s)' = Nothing
    BY <1>1 DEF Owed
  <1>5. ReadsHold(s, v)'
    BY <1>1, <1>3, <1>4 DEF ReadsHold, Nothing
  <1>6. RowsShow(s, v)'
    BY <1>1, <1>2 DEF RowsShow
  <1>7. LastRow(s, v)'
    BY <1>1 DEF Stated, LastRow
  <1> QED BY <1>5, <1>6, <1>7 DEF Stated

(* What an UPDATE and a member's row do to the after columns.              *)
LEMMA AfterColumns ==
  /\ \A t \in WorkType, w \in Wallet, x \in Int : Updated(t, w, x).after = t.after
  /\ \A t \in WorkType, w \in Wallet, x \in Int, before \in Int :
       Inserted(t, w, x, before).after = [t.after EXCEPT ![w] = before + x]
  BY DEF Updated, Inserted, WorkType

(* A first leg: its row is owed.                                           *)
LEMMA DebitStated ==
  ASSUME IInv, NEW s \in Session, NEW v \in Wallet, Stated(s, v),
         pc[s] \in {"chargeDebit", "refundDebit", "localPay"},
         NEW w \in Wallet, NEW x \in Int, NEW work, Write(s, w, work),
         work.delta = Plus(tx[s].delta, Leg(w, x)), work.after = tx[s].after,
         NEW l \in {"chargeCredit", "refundCredit", "localFinish"}, Goto(s, l),
         Owed(s)' = Leg(w, x), OwedRow(s)' = {w}, LegsApart(s)'
  PROVE  Stated(s, v)'
  <1>1. /\ pc'[s] = l /\ req'[s] = req[s] /\ tx'[s] = work /\ seen' = seen
        /\ UNCHANGED <<balance, lastAfter>> /\ lock' = [lock EXCEPT ![w] = s]
    BY DEF Write, Lock, Goto, committedVars, IInv, TypeOK, StoreTypeOK, ThreadTypeOK
  <1>2. /\ seen[s].balance \in [Wallet -> Int] /\ tx[s].delta \in [Wallet -> Int]
        /\ balance \in [Wallet -> Int] /\ lock \in [Wallet -> Session \cup {NoSession}]
    <2>1. pc[s] # "idle"
      OBVIOUS
    <2> QED BY <2>1, Serving DEF IInv, TypeOK, StoreTypeOK
  <1>3. Owed(s) = Nothing /\ OwedRow(s) = {}
    BY DEF Owed, OwedRow
  <1>4. seen[s].balance[v] + Leg(w, x)[v] = balance[v] + work.delta[v]
    <2>1. seen[s].balance[v] + 0 = balance[v] + tx[s].delta[v]
      BY <1>3 DEF Stated, ReadsHold, ReadLabels, Nothing
    <2>2. work.delta[v] = tx[s].delta[v] + Leg(w, x)[v] /\ Leg(w, x)[v] \in Int
      BY DEF Plus, Leg
    <2>3. seen[s].balance[v] \in Int /\ tx[s].delta[v] \in Int /\ balance[v] \in Int
      BY <1>2
    <2> QED BY <2>1, <2>2, <2>3
  <1>5. ReadsHold(s, v)'
    BY <1>1, <1>4 DEF ReadsHold
  <1>6. ASSUME lock'[v] = s, v # w
        PROVE  work.after[v] = balance[v] + work.delta[v]
    <2>1. lock[v] = s
      BY <1>1, <1>2, <1>6
    <2>2. tx[s].after[v] = balance[v] + tx[s].delta[v]
      BY <1>3, <2>1 DEF Stated, RowsShow
    <2>3. work.delta[v] = tx[s].delta[v]
      BY <1>2, <1>6, LegElsewhere
    <2> QED BY <2>2, <2>3
  <1>7. RowsShow(s, v)'
    BY <1>1, <1>6 DEF RowsShow
  <1>8. LastRow(s, v)'
    BY <1>1 DEF Stated, LastRow
  <1> QED BY <1>5, <1>7, <1>8 DEF Stated

(* The second leg, with both rows.                                         *)
LEMMA RowsStated ==
  ASSUME IInv, NEW s \in Session, NEW v \in Wallet, Stated(s, v),
         pc[s] \in {"chargeCredit", "refundCredit"},
         NEW a \in Wallet, NEW w \in Wallet, a # w, NEW x \in Int, NEW y \in Int, NEW work,
         Owed(s) = Leg(a, x), OwedRow(s) = {a}, Write(s, w, work),
         work.delta = Plus(tx[s].delta, Leg(w, y)),
         work.after[a] = seen[s].balance[a] + x, work.after[w] = seen[s].balance[w] + y,
         \A u \in Wallet \ {a, w} : work.after[u] = tx[s].after[u],
         NEW l \in {"commit", "convertCharge"}, Goto(s, l),
         l = "convertCharge" => seen[s].balance[v] = balance[v]
  PROVE  Stated(s, v)'
  <1>1. /\ pc'[s] = l /\ req'[s] = req[s] /\ tx'[s] = work /\ seen' = seen
        /\ UNCHANGED <<balance, lastAfter>> /\ lock' = [lock EXCEPT ![w] = s]
    BY DEF Write, Lock, Goto, committedVars, IInv, TypeOK, StoreTypeOK, ThreadTypeOK
  <1>2. /\ seen[s].balance \in [Wallet -> Int] /\ tx[s].delta \in [Wallet -> Int]
        /\ balance \in [Wallet -> Int] /\ lock \in [Wallet -> Session \cup {NoSession}]
    <2>1. pc[s] # "idle"
      OBVIOUS
    <2> QED BY <2>1, Serving DEF IInv, TypeOK, StoreTypeOK
  <1>3. ASSUME lock'[v] = s
        PROVE  work.after[v] = balance[v] + work.delta[v]
    <2>1. seen[s].balance[v] + Leg(a, x)[v] = balance[v] + tx[s].delta[v]
      BY DEF Stated, ReadsHold, ReadLabels
    <2>2. work.delta[v] = tx[s].delta[v] + Leg(w, y)[v]
      BY DEF Plus
    <2>3. /\ Leg(a, x)[v] = IF v = a THEN x ELSE 0
          /\ Leg(w, y)[v] = IF v = w THEN y ELSE 0
      BY DEF Leg
    <2>4. seen[s].balance[v] \in Int /\ tx[s].delta[v] \in Int /\ balance[v] \in Int
      BY <1>2
    <2>5. CASE v = a \/ v = w
      BY <2>1, <2>2, <2>3, <2>4, <2>5
    <2>6. CASE v # a /\ v # w
      <3>1. lock[v] = s
        BY <1>1, <1>2, <1>3, <2>6
      <3>2. tx[s].after[v] = balance[v] + tx[s].delta[v]
        BY <2>6, <3>1 DEF Stated, RowsShow
      <3> QED BY <2>2, <2>3, <2>4, <2>6, <3>2
    <2> QED BY <2>5, <2>6
  <1>4. RowsShow(s, v)'
    BY <1>1, <1>3 DEF RowsShow
  <1>5. ReadsHold(s, v)'
    BY <1>1 DEF ReadsHold, ReadLabels
  <1>6. LastRow(s, v)'
    BY <1>1 DEF Stated, LastRow
  <1>7. LegsApart(s)'
    BY <1>1 DEF LegsApart
  <1> QED BY <1>4, <1>5, <1>6, <1>7 DEF Stated

(* The checks and reads of a transfer.                                     *)
LEMMA TransferReadStated ==
  ASSUME IInv, BankInv, NEW s \in Session, NEW v \in Wallet, Stated(s, v),
         req[s].op = "CHARGE" => req[s].from # req[s].to,
         Charge(s) \/ Refund(s) \/ Convert(s) \/ ConvertCharge(s)
  PROVE  Stated(s, v)'
  <1>0. PICK r \in Requests : r = req[s]
    BY Serving DEF Charge, Refund, Convert, ConvertCharge
  <1>1. /\ pc[s] \in {"charge", "refund", "convert", "convertCharge"}
        /\ pc[s] # "generalPost" /\ pc[s] \in LabelsOf(r.op)
        /\ r.op \in TransferOps \cup PaymentOps /\ r.from \in Wallet /\ Owner[r.from] \in User
        /\ CashOf[Owner[r.from]] \in Cash
    <2>1. pc[s] \in {"charge", "refund", "convert", "convertCharge"}
      BY DEF Charge, Refund, Convert, ConvertCharge
    <2>2. pc[s] \in LabelsOf(r.op)
      BY <1>0, <2>1 DEF BankInv, OnItsWay
    <2>3. r.op \in TransferOps \cup PaymentOps /\ r.from \in Wallet
      BY RequestFields
    <2>4. Owner[r.from] \in User
      BY <2>3, WalletsAssumption
    <2> QED BY <2>1, <2>2, <2>3, <2>4 DEF Cash
  <1>2. CASE \E e : Refuse(s, e)
    BY <1>1, <1>2, RefuseStated
  <1>3. ASSUME NEW l, Goto(s, l) PROVE pc'[s] = l /\ req'[s] = r
    BY <1>0, <1>3 DEF Goto, IInv, TypeOK, ThreadTypeOK
  <1>4. CASE Charge(s) /\ ~(\E e : Refuse(s, e))
    <2>1. pc[s] = "charge" /\ Read(s, Snapshot(r)) /\ Goto(s, "chargeDebit")
      BY <1>0, <1>4 DEF Charge, Decide
    <2>2. r.op = "CHARGE"
      BY <1>1, <2>1 DEF LabelsOf, TransferOps, PaymentOps, LocalOps
    <2>3. LegsApart(s)'
      BY <1>0, <1>3, <2>1, <2>2 DEF LegsApart, ChargeSource
    <2> QED BY <1>0, <1>1, <2>1, <2>3, ReadStated DEF InTransaction
  <1>5. CASE (Refund(s) \/ Convert(s)) /\ ~(\E e : Refuse(s, e))
    <2>1. /\ pc[s] \in {"refund", "convert"} /\ Read(s, Snapshot(r)) /\ Goto(s, "refundDebit")
          /\ \E to : RefundVerdict(r.user, r.from, to, r.amount, balance[r.from]) = "ok"
      BY <1>0, <1>5 DEF Refund, Convert, Decide, ConvertVerdict
    <2>2. r.from \notin Cash
      BY <2>1 DEF RefundVerdict, Local
    <2>3. LegsApart(s)'
      BY <1>3, <2>1, <2>2 DEF LegsApart
    <2> QED BY <1>0, <1>1, <2>1, <2>3, ReadStated DEF InTransaction
  <1>6. CASE ConvertCharge(s) /\ ~(\E e : Refuse(s, e))
    <2> DEFINE cash == ChargeSource(r)
               view == [seen[s] EXCEPT !.balance = [w \in Wallet |-> View(s, w)]]
    <2>1. /\ pc[s] = "convertCharge" /\ Read(s, view) /\ Goto(s, "chargeDebit")
          /\ ChargeVerdict(r.user, cash, r.to, ConvertBase(r), View(s, cash),
                           seen[s].charged[MonthOf(now)], FALSE) = "ok"
      BY <1>0, <1>6 DEF ConvertCharge, Decide
    <2>2. r.op = "CONVERT"
      BY <1>1, <2>1 DEF LabelsOf, TransferOps, PaymentOps, LocalOps
    <2>3. r.to \notin Cash
      BY <2>1 DEF ChargeVerdict, Local
    <2>4. LegsApart(s)'
      <3>1. ChargeSource(r) \in Cash
        BY <1>1, <2>2 DEF ChargeSource
      <3>2. pc'[s] = "chargeDebit" /\ req'[s] = r
        BY <1>3, <2>1
      <3> QED BY <2>3, <3>1, <3>2 DEF LegsApart
    <2>5. /\ UNCHANGED <<balance, lastAfter, lock, tx>> /\ pc'[s] = "chargeDebit"
          /\ \A w \in Wallet : seen'[s].balance[w] = View(s, w)
      <3>1. seen[s] \in SeenType
        BY <2>1, Serving
      <3>2. view.balance = [w \in Wallet |-> View(s, w)]
        BY <3>1 DEF SeenType
      <3>3. seen'[s] = view
        BY <2>1 DEF Read, IInv, TypeOK, StoreTypeOK
      <3> HIDE DEF view
      <3> QED BY <1>3, <2>1, <3>2, <3>3 DEF Read, committedVars
    <2>6. View(s, v) = balance[v] + tx[s].delta[v]
      <3>1. CASE lock[v] = s
        BY <3>1 DEF View
      <3>2. CASE lock[v] # s
        <4>1. View(s, v) = balance[v]
          BY <2>1, <3>2 DEF View, Stated, ReadsHold
        <4>2. tx[s].delta[v] = 0
          BY <3>2 DEF IInv, LockDiscipline
        <4>3. balance[v] \in Int
          BY DEF IInv, TypeOK, StoreTypeOK
        <4> QED BY <4>1, <4>2, <4>3
      <3> QED BY <3>1, <3>2
    <2>7. ReadsHold(s, v)'
      <3>1. Owed(s)' = Nothing
        BY <2>5 DEF Owed
      <3>2. balance[v] \in Int /\ tx[s].delta[v] \in Int
        BY <2>1, Serving DEF IInv, TypeOK, StoreTypeOK
      <3>3. View(s, v) + 0 = balance[v] + tx[s].delta[v]
        BY <2>6, <3>2
      <3> QED BY <2>5, <3>1, <3>3 DEF ReadsHold, Nothing
    <2>8. RowsShow(s, v)'
      <3>1. OwedRow(s) = {}
        BY <2>1 DEF OwedRow
      <3> QED BY <2>5, <3>1 DEF Stated, RowsShow
    <2>9. LastRow(s, v)'
      BY <2>1, <2>5 DEF Stated, LastRow
    <2> QED BY <2>4, <2>7, <2>8, <2>9 DEF Stated
  <1> QED BY <1>2, <1>4, <1>5, <1>6

(* The first legs of a charge, of a refund and of a local payment.         *)
LEMMA FirstLegStated ==
  ASSUME IInv, NEW s \in Session, NEW v \in Wallet, Stated(s, v),
         ChargeDebit(s) \/ RefundDebit(s) \/ LocalPay(s)
  PROVE  Stated(s, v)'
  <1>0. PICK r \in Requests : r = req[s]
    BY Serving DEF ChargeDebit, RefundDebit, LocalPay
  <1> DEFINE t == tx[s]
  <1>1. /\ t \in WorkType /\ r.from \in Wallet /\ ChargeSource(r) \in Wallet
        /\ ChargeBase(r) \in Int /\ r.amount \in Int
    BY RequestFields DEF IInv, TypeOK, StoreTypeOK
  <1>2. -ChargeBase(r) \in Int /\ -r.amount \in Int
    BY <1>1
  <1>3. ASSUME NEW l, Goto(s, l) PROVE pc'[s] = l /\ req'[s] = r
    BY <1>0, <1>3 DEF Goto, IInv, TypeOK, ThreadTypeOK
  <1>4. ASSUME NEW w \in Wallet, NEW x \in Int
        PROVE  /\ Updated(t, w, x) \in WorkType
               /\ Updated(t, w, x).delta = Plus(t.delta, Leg(w, x))
               /\ Updated(t, w, x).after = t.after
    BY <1>1, UpdatedType, AfterColumns
  <1>5. CASE ChargeDebit(s)
    <2> DEFINE w == ChargeSource(r)
               x == -ChargeBase(r)
               work == Updated(t, w, x)
    <2>1. pc[s] = "chargeDebit" /\ Write(s, w, work) /\ Goto(s, "chargeCredit")
      BY <1>0, <1>5 DEF ChargeDebit
    <2>2. Owed(s)' = Leg(w, x) /\ OwedRow(s)' = {w}
      BY <1>1, <1>3, <2>1 DEF Owed, OwedRow
    <2>3. LegsApart(s)'
      BY <1>0, <1>3, <2>1 DEF Stated, LegsApart
    <2>4. work.delta = Plus(t.delta, Leg(w, x)) /\ work.after = t.after
      BY <1>1, <1>2, <1>4
    <2>5. w \in Wallet /\ x \in Int
      BY <1>1, <1>2
    <2> HIDE DEF w, x, work
    <2> QED BY <2>1, <2>2, <2>3, <2>4, <2>5, DebitStated
  <1>6. CASE RefundDebit(s)
    <2> DEFINE x == -r.amount
               work == Updated(t, r.from, x)
    <2>1. pc[s] = "refundDebit" /\ Write(s, r.from, work) /\ Goto(s, "refundCredit")
      BY <1>0, <1>6 DEF RefundDebit
    <2>2. Owed(s)' = Leg(r.from, x) /\ OwedRow(s)' = {r.from}
      BY <1>1, <1>3, <2>1 DEF Owed, OwedRow
    <2>3. LegsApart(s)'
      BY <1>0, <1>3, <2>1 DEF Stated, LegsApart
    <2>4. work.delta = Plus(t.delta, Leg(r.from, x)) /\ work.after = t.after
      BY <1>1, <1>2, <1>4
    <2> HIDE DEF x, work
    <2>5. x \in Int
      BY <1>2 DEF x
    <2> QED BY <1>1, <2>1, <2>2, <2>3, <2>4, <2>5, DebitStated
  <1>7. CASE LocalPay(s)
    <2> DEFINE x == -r.amount
               up == Updated(t, r.from, x)
               work == [up EXCEPT !.total = r.amount]
    <2>1. pc[s] = "localPay" /\ Write(s, r.from, work) /\ Goto(s, "localFinish")
      BY <1>0, <1>7 DEF LocalPay
    <2>2. Owed(s)' = Leg(r.from, x) /\ OwedRow(s)' = {r.from}
      BY <1>1, <1>3, <2>1 DEF Owed, OwedRow
    <2>3. LegsApart(s)'
      BY <1>3, <2>1 DEF LegsApart
    <2>4. up \in WorkType /\ up.delta = Plus(t.delta, Leg(r.from, x)) /\ up.after = t.after
      BY <1>1, <1>2, <1>4
    <2> HIDE DEF up
    <2>5. work.delta = Plus(t.delta, Leg(r.from, x)) /\ work.after = t.after
      BY <2>4 DEF WorkType
    <2>6. x \in Int
      BY <1>2
    <2> HIDE DEF x, work
    <2> QED BY <1>1, <2>1, <2>2, <2>3, <2>5, <2>6, DebitStated
  <1> QED BY <1>5, <1>6, <1>7
(* Two member's rows.                                                      *)
LEMMA TwoRows ==
  ASSUME NEW t \in WorkType, NEW a \in Wallet, NEW w \in Wallet, a # w,
         NEW x \in Int, NEW y \in Int, NEW m \in Int, NEW n \in Int, NEW rows,
         \/ rows = Inserted(Inserted(t, a, x, m), w, y, n)
         \/ rows = Inserted(Inserted(t, w, y, n), a, x, m)
  PROVE  /\ rows \in WorkType /\ rows.delta = t.delta
         /\ rows.after[a] = m + x /\ rows.after[w] = n + y
         /\ \A u \in Wallet \ {a, w} : rows.after[u] = t.after[u]
  <1>0. t.after \in [Wallet -> Int]
    BY DEF WorkType
  <1>1. CASE rows = Inserted(Inserted(t, a, x, m), w, y, n)
    <2> DEFINE one == Inserted(t, a, x, m)
    <2>1. /\ one \in WorkType /\ one.delta = t.delta
          /\ one.after = [t.after EXCEPT ![a] = m + x]
      BY InsertedType, AfterColumns
    <2>2. rows = Inserted(one, w, y, n)
      BY <1>1
    <2> HIDE DEF one
    <2>3. /\ rows \in WorkType /\ rows.delta = one.delta
          /\ rows.after = [one.after EXCEPT ![w] = n + y]
      BY <2>1, <2>2, InsertedType, AfterColumns
    <2> QED BY <1>0, <2>1, <2>3
  <1>2. CASE rows = Inserted(Inserted(t, w, y, n), a, x, m)
    <2> DEFINE one == Inserted(t, w, y, n)
    <2>1. /\ one \in WorkType /\ one.delta = t.delta
          /\ one.after = [t.after EXCEPT ![w] = n + y]
      BY InsertedType, AfterColumns
    <2>2. rows = Inserted(one, a, x, m)
      BY <1>2
    <2> HIDE DEF one
    <2>3. /\ rows \in WorkType /\ rows.delta = one.delta
          /\ rows.after = [one.after EXCEPT ![a] = m + x]
      BY <2>1, <2>2, InsertedType, AfterColumns
    <2> QED BY <1>0, <2>1, <2>3
  <1> QED BY <1>1, <1>2

(* The second legs of a charge and of a refund.                            *)
LEMMA SecondLegStated ==
  ASSUME IInv, BankInv, NEW s \in Session, NEW v \in Wallet, Stated(s, v),
         ChargeCredit(s) \/ RefundCredit(s)
  PROVE  Stated(s, v)'
  <1>0. PICK r \in Requests : r = req[s]
    BY Serving DEF ChargeCredit, RefundCredit
  <1> DEFINE t == tx[s]
             b == seen[s].balance
  <1>1. /\ t \in WorkType /\ b \in [Wallet -> Int]
        /\ r.from \in Wallet /\ r.to \in Wallet /\ ChargeSource(r) \in Wallet
        /\ RefundTarget(r) \in Wallet /\ ChargeBase(r) \in Int /\ r.amount \in Int
        /\ Credited(ChargeBase(r), Rate(r.to)) \in Int
        /\ RefundValue(r.amount, Rate(r.from)) \in Int
    <2>1. t \in WorkType /\ b \in [Wallet -> Int]
      BY Serving DEF ChargeCredit, RefundCredit
    <2> QED BY <2>1, RequestFields
  <1>2. -ChargeBase(r) \in Int /\ -r.amount \in Int
    BY <1>1
  <1>3. pc[s] # "idle" /\ pc[s] \in LabelsOf(r.op) /\ Permitted(r, pc[s])
        /\ t.posts = RowsDone(r, pc[s])
    BY <1>0 DEF BankInv, OnItsWay, ChargeCredit, RefundCredit, Entries
  <1>4. CASE ChargeCredit(s)
    <2> DEFINE a == ChargeSource(r)
               w == r.to
               x == -ChargeBase(r)
               y == Credited(ChargeBase(r), Rate(r.to))
               up == Updated(t, w, y)
               rows == Inserted(Inserted(up, a, x, b[a]), w, y, b[w])
               work == ChargeRows(s, up)
    <2>1. pc[s] = "chargeCredit" /\ Write(s, w, work) /\ Goto(s, "commit")
      BY <1>0, <1>4 DEF ChargeCredit
    <2>2. work = IF r.op = "CHARGE" THEN [rows EXCEPT !.charge = y, !.at = now] ELSE rows
      BY <1>0 DEF ChargeRows, MonthlyAmount
    <2>3. a # w
      BY <1>0, <2>1 DEF Stated, LegsApart
    <2>4. Owed(s) = Leg(a, x) /\ OwedRow(s) = {a}
      BY <1>0, <1>1, <2>1 DEF Owed, OwedRow
    <2>5. a \in Wallet /\ w \in Wallet /\ x \in Int /\ y \in Int /\ b[a] \in Int /\ b[w] \in Int
      BY <1>1, <1>2
    <2>6. up \in WorkType /\ up.delta = Plus(t.delta, Leg(w, y)) /\ up.after = t.after
      <3>1. t \in WorkType /\ w \in Wallet /\ y \in Int
        BY <1>1, <2>5
      <3> HIDE DEF t, w, y
      <3> QED BY <3>1, UpdatedType, AfterColumns DEF up
    <2> HIDE DEF a, w, x, y, up, work
    <2>7. /\ rows \in WorkType /\ rows.delta = up.delta
          /\ rows.after[a] = b[a] + x /\ rows.after[w] = b[w] + y
          /\ \A u \in Wallet \ {a, w} : rows.after[u] = up.after[u]
      <3> DEFINE m == b[a]
                 n == b[w]
      <3>1. m \in Int /\ n \in Int
        BY <2>5
      <3>2. rows = Inserted(Inserted(up, a, x, m), w, y, n)
        OBVIOUS
      <3> HIDE DEF rows, m, n
      <3>3. /\ rows \in WorkType /\ rows.delta = up.delta
            /\ rows.after[a] = m + x /\ rows.after[w] = n + y
            /\ \A u \in Wallet \ {a, w} : rows.after[u] = up.after[u]
        BY <2>3, <2>5, <2>6, <3>1, <3>2, TwoRows
      <3> QED BY <3>3 DEF m, n
    <2> HIDE DEF rows
    <2>8. work.delta = rows.delta /\ work.after = rows.after
      BY <2>2, <2>7 DEF WorkType
    <2>9. /\ work.delta = Plus(t.delta, Leg(w, y))
          /\ work.after[a] = b[a] + x /\ work.after[w] = b[w] + y
          /\ \A u \in Wallet \ {a, w} : work.after[u] = t.after[u]
      BY <2>6, <2>7, <2>8
    <2>10. "commit" # "convertCharge"
      OBVIOUS
    <2> QED BY <2>1, <2>3, <2>4, <2>5, <2>9, <2>10, RowsStated
  <1>5. CASE RefundCredit(s)
    <2> DEFINE a == r.from
               w == RefundTarget(r)
               x == -r.amount
               y == RefundValue(r.amount, Rate(r.from))
               up == Updated(t, w, y)
               work == Inserted(Inserted(up, w, y, b[w]), a, x, b[a])
               l == IF r.op = "CONVERT" THEN "convertCharge" ELSE "commit"
    <2>1. pc[s] = "refundCredit" /\ Write(s, w, work) /\ Goto(s, l)
      BY <1>0, <1>5 DEF RefundCredit, RefundRows
    <2>2. r.op \in {"REFUND", "CONVERT"}
      BY <1>3, <2>1, RequestFields DEF LabelsOf, TransferOps, PaymentOps, LocalOps
    <2>3. a # w
      <3>1. r.from \notin Cash
        BY <1>0, <2>1 DEF Stated, LegsApart
      <3>2. RefundTarget(r) \in Cash
        <4>1. r.user \in User /\ Owner[r.from] \in User
          BY RequestFields, WalletsAssumption
        <4> QED BY <1>3, <2>2, <4>1 DEF RefundTarget, Permitted, Cash
      <3> QED BY <3>1, <3>2
    <2>4. Owed(s) = Leg(a, x) /\ OwedRow(s) = {a}
      BY <1>0, <1>1, <2>1 DEF Owed, OwedRow
    <2>5. a \in Wallet /\ w \in Wallet /\ x \in Int /\ y \in Int /\ b[a] \in Int /\ b[w] \in Int
      BY <1>1, <1>2
    <2>6. up \in WorkType /\ up.delta = Plus(t.delta, Leg(w, y)) /\ up.after = t.after
      <3>1. t \in WorkType /\ w \in Wallet /\ y \in Int
        BY <1>1, <2>5
      <3> HIDE DEF t, w, y
      <3> QED BY <3>1, UpdatedType, AfterColumns DEF up
    <2>7. l = "convertCharge" => b[v] = balance[v]
      <3> SUFFICES ASSUME r.op = "CONVERT" PROVE b[v] = balance[v]
        OBVIOUS
      <3>1. t.posts = Nothing
        BY <1>3, <2>1 DEF RowsDone
      <3>2. t.delta = Plus(Nothing, Leg(a, x))
        BY <1>3, <2>4, <3>1, Serving
      <3>3. b[v] + Leg(a, x)[v] = balance[v] + (0 + Leg(a, x)[v])
        <4>1. b[v] + Owed(s)[v] = balance[v] + t.delta[v]
          BY <2>1 DEF Stated, ReadsHold, ReadLabels
        <4>2. t.delta[v] = 0 + Leg(a, x)[v]
          BY <3>2 DEF Plus, Nothing
        <4> QED BY <2>4, <4>1, <4>2
      <3>4. balance[v] \in Int /\ Leg(a, x)[v] \in Int /\ b[v] \in Int
        BY <1>1, <2>5 DEF Leg, IInv, TypeOK, StoreTypeOK
      <3> QED BY <3>3, <3>4
    <2>8. l \in {"commit", "convertCharge"}
      OBVIOUS
    <2> HIDE DEF a, w, x, y, up, l
    <2>9. /\ work.delta = up.delta
          /\ work.after[a] = b[a] + x /\ work.after[w] = b[w] + y
          /\ \A u \in Wallet \ {a, w} : work.after[u] = up.after[u]
      <3> DEFINE m == b[a]
                 n == b[w]
      <3>1. m \in Int /\ n \in Int
        BY <2>5
      <3>2. work = Inserted(Inserted(up, w, y, n), a, x, m)
        OBVIOUS
      <3> HIDE DEF work, m, n, t, b
      <3>3. /\ work \in WorkType /\ work.delta = up.delta
            /\ work.after[a] = m + x /\ work.after[w] = n + y
            /\ \A u \in Wallet \ {a, w} : work.after[u] = up.after[u]
        BY <2>3, <2>5, <2>6, <3>1, <3>2, TwoRows
      <3> QED BY <3>3 DEF m, n
    <2> HIDE DEF work
    <2>10. /\ work.delta = Plus(t.delta, Leg(w, y))
           /\ \A u \in Wallet \ {a, w} : work.after[u] = t.after[u]
      BY <2>6, <2>9
    <2> QED BY <2>1, <2>3, <2>4, <2>5, <2>7, <2>8, <2>9, <2>10, RowsStated
  <1> QED BY <1>4, <1>5
(* A row that shows its wallet, inserted by a strategy.                    *)
LEMMA RowStated ==
  ASSUME IInv, NEW s \in Session, NEW v \in Wallet, Stated(s, v), pc[s] # "generalPost",
         NEW w \in Wallet, OwedRow(s) \subseteq {w}, NEW work, tx'[s] = work,
         pc'[s] \in {"mixedMain", "commit"}, UNCHANGED <<balance, lastAfter>>,
         \A u \in Wallet : lock'[u] = s => lock[u] = s \/ u = w,
         v = w => work.after[w] = balance[w] + work.delta[w],
         \A u \in Wallet \ {w} : work.after[u] = tx[s].after[u] /\ work.delta[u] = tx[s].delta[u],
         ReadsHold(s, v)', LegsApart(s)'
  PROVE  Stated(s, v)'
  <1>1. ASSUME lock'[v] = s
        PROVE  work.after[v] = balance[v] + work.delta[v]
    <2>1. CASE v = w
      BY <2>1
    <2>2. CASE v # w
      BY <1>1, <2>2 DEF Stated, RowsShow
    <2> QED BY <2>1, <2>2
  <1>2. RowsShow(s, v)'
    BY <1>1 DEF RowsShow
  <1>3. LastRow(s, v)'
    BY DEF Stated, LastRow
  <1> QED BY <1>2, <1>3 DEF Stated

(* The checks and reads of a payment.                                      *)
LEMMA PaymentReadStated ==
  ASSUME IInv, NEW s \in Session, NEW v \in Wallet, Stated(s, v),
         PinRejected(s) \/ PaymentContext(s) \/ General(s) \/ Mixed(s)
  PROVE  Stated(s, v)'
  <1>0. PICK r \in Requests : r = req[s]
    BY Serving DEF PinRejected, PaymentContext, General, Mixed
  <1>1. pc[s] \in {"pay", "general", "mixed"} /\ pc[s] # "generalPost" /\ pc[s] \notin InTransaction
    BY DEF PinRejected, PaymentContext, General, Mixed, InTransaction
  <1>2. CASE \E e : Refuse(s, e)
    BY <1>1, <1>2, RefuseStated
  <1>3. ASSUME NEW l, Goto(s, l) PROVE pc'[s] = l /\ req'[s] = r
    BY <1>0, <1>3 DEF Goto, IInv, TypeOK, ThreadTypeOK
  <1>4. CASE PaymentContext(s) /\ ~(\E e : Refuse(s, e))
    <2> DEFINE l == Route(r)
    <2>1. Read(s, Snapshot(r)) /\ Goto(s, l) /\ PaymentVerdict(r) = "ok"
      BY <1>0, <1>4 DEF PaymentContext
    <2>2. r.from \notin Cash
      BY <2>1 DEF PaymentVerdict
    <2>3. l \in {"general", "localPay", "mixed"}
      BY DEF Route
    <2>4. LegsApart(s)'
      BY <1>3, <2>1, <2>2, <2>3 DEF LegsApart
    <2> HIDE DEF l
    <2> QED BY <1>0, <1>1, <2>1, <2>3, <2>4, ReadStated
  <1>5. CASE General(s) /\ ~(\E e : Refuse(s, e))
    <2>1. Read(s, Snapshot(r)) /\ Goto(s, "generalDebit")
      BY <1>0, <1>5 DEF General
    <2>2. LegsApart(s)'
      BY <1>3, <2>1 DEF LegsApart
    <2> QED BY <1>0, <1>1, <2>1, <2>2, ReadStated
  <1>6. CASE Mixed(s) /\ ~(\E e : Refuse(s, e))
    <2>1. pc[s] = "mixed" /\ Read(s, Snapshot(r)) /\ Goto(s, "mixedLocal")
      BY <1>0, <1>6 DEF Mixed
    <2>2. LegsApart(s)'
      BY <1>0, <1>3, <2>1 DEF Stated, LegsApart
    <2> QED BY <1>0, <1>1, <2>1, <2>2, ReadStated
  <1> QED BY <1>2, <1>4, <1>5, <1>6 DEF PinRejected

(* The statements of a GENERAL payment.                                    *)
LEMMA GeneralStated ==
  ASSUME IInv, NEW s \in Session, NEW v \in Wallet, Stated(s, v),
         GeneralDebit(s) \/ GeneralPost(s) \/ GeneralMerchant(s)
  PROVE  Stated(s, v)'
  <1>0. PICK r \in Requests : r = req[s]
    BY Serving DEF GeneralDebit, GeneralPost, GeneralMerchant
  <1>00. PICK c \in Wallet : c = CashOf[r.user]
    BY RequestFields
  <1>1. pc[s] \notin InTransaction
    BY DEF GeneralDebit, GeneralPost, GeneralMerchant, InTransaction
  <1>2. tx[s] = NoWork /\ \A w \in Wallet : lock[w] # s
    BY <1>1, Unworked
  <1>3. /\ r.total \in Int /\ balance \in [Wallet -> Int]
        /\ lastAfter \in [Wallet -> Int] /\ seen[s].balance \in [Wallet -> Int]
    <2>1. seen[s].balance \in [Wallet -> Int]
      BY Serving DEF GeneralDebit, GeneralPost, GeneralMerchant
    <2> QED BY <2>1, RequestFields DEF IInv, TypeOK, StoreTypeOK
  <1>4. ASSUME NEW l, Goto(s, l) PROVE pc'[s] = l /\ req'[s] = r
    BY <1>0, <1>4 DEF Goto, IInv, TypeOK, ThreadTypeOK
  <1>5. CASE GeneralDebit(s)
    <2>1. /\ pc[s] = "generalDebit" /\ pc'[s] = "generalPost" /\ req'[s] = r
          /\ balance' = [balance EXCEPT ![c] = @ - r.total]
          /\ UNCHANGED <<lastAfter, lock, tx, seen>>
      BY <1>0, <1>00, <1>4, <1>5 DEF GeneralDebit
    <2>2. seen[s].balance[v] = balance[v]
      <3>1. Owed(s) = Nothing
        BY <2>1 DEF Owed
      <3>2. seen[s].balance[v] + 0 = balance[v] + 0
        BY <1>2, <1>3, <2>1, <3>1 DEF Stated, ReadsHold, ReadLabels, NoWork, Nothing
      <3> QED BY <1>3, <3>2
    <2>3. ReadsHold(s, v)'
      <3>1. v = c => seen'[s].balance[v] = balance'[v] + r.total
        BY <1>3, <2>1, <2>2
      <3> QED BY <1>00, <2>1, <3>1 DEF ReadsHold, ReadLabels
    <2>4. LastRow(s, v)'
      <3>1. lastAfter[v] = balance[v] + 0
        BY <2>1 DEF Stated, LastRow
      <3>2. lastAfter[v] = balance'[v] + IF v = c THEN r.total ELSE 0
        BY <1>3, <2>1, <3>1
      <3> QED BY <1>00, <2>1, <3>2 DEF LastRow
    <2> QED BY <1>2, <2>1, <2>3, <2>4 DEF Stated, RowsShow, LegsApart
  <1>6. CASE GeneralPost(s)
    <2>1. /\ pc[s] = "generalPost" /\ pc'[s] = "generalMerchant" /\ req'[s] = r
          /\ lastAfter' = [lastAfter EXCEPT ![c] = seen[s].balance[c] - r.total]
          /\ UNCHANGED <<balance, lock, tx, seen>>
      BY <1>0, <1>00, <1>4, <1>6 DEF GeneralPost
    <2>2. lastAfter'[v] = balance[v] + 0
      <3>1. CASE v = c
        <4>1. seen[s].balance[v] = balance[v] + r.total
          BY <1>0, <1>00, <2>1, <3>1 DEF Stated, ReadsHold
        <4> QED BY <1>3, <2>1, <3>1, <4>1
      <3>2. CASE v # c
        <4>1. lastAfter[v] = balance[v] + 0
          BY <1>0, <1>00, <3>2 DEF Stated, LastRow
        <4> QED BY <1>3, <2>1, <3>2, <4>1
      <3> QED BY <3>1, <3>2
    <2>3. LastRow(s, v)'
      BY <2>1, <2>2 DEF LastRow
    <2> QED BY <1>2, <2>1, <2>3 DEF Stated, RowsShow, LegsApart, ReadsHold, ReadLabels
  <1>7. CASE GeneralMerchant(s)
    <2>1. /\ pc[s] = "generalMerchant" /\ pc'[s] = "idle"
          /\ UNCHANGED <<balance, lastAfter, lock>>
      BY <1>7 DEF GeneralMerchant, Answer, IInv, TypeOK, ThreadTypeOK
    <2> QED BY <1>2, <2>1, StatedAnew DEF Stated
  <1> QED BY <1>5, <1>6, <1>7

(* The merchant's row leaves the rest of the work alone.                   *)
LEMMA MerchantColumns ==
  ASSUME NEW t \in WorkType, NEW n \in Int
  PROVE  /\ InsertedMerchant(t, n) \in WorkType
         /\ InsertedMerchant(t, n).delta = t.delta /\ InsertedMerchant(t, n).after = t.after
  BY DEF InsertedMerchant, WorkType

(* A member's row and the merchant's row beside it.                        *)
LEMMA MerchantAfterRow ==
  ASSUME NEW u \in WorkType, NEW w \in Wallet, NEW x \in Int, NEW m \in Int, NEW n \in Int,
         NEW rows, rows = InsertedMerchant(Inserted(u, w, x, m), n)
  PROVE  /\ rows \in WorkType
         /\ rows.delta = u.delta /\ rows.after[w] = m + x
         /\ \A o \in Wallet \ {w} : rows.after[o] = u.after[o]
  <1> DEFINE row == Inserted(u, w, x, m)
  <1>1. row \in WorkType /\ row.delta = u.delta
    BY InsertedType
  <1>2. row.after = [u.after EXCEPT ![w] = m + x]
    BY AfterColumns
  <1>3. rows = InsertedMerchant(row, n)
    OBVIOUS
  <1> HIDE DEF row
  <1>4. rows \in WorkType /\ rows.delta = row.delta /\ rows.after = row.after
    BY <1>1, <1>3, MerchantColumns
  <1>5. u.after \in [Wallet -> Int]
    BY DEF WorkType
  <1> QED BY <1>1, <1>2, <1>4, <1>5

(* The rows of LocalStrategy and LocalMixedStrategy.                       *)
LEMMA StrategyRowsStated ==
  ASSUME IInv, NEW s \in Session, NEW v \in Wallet, Stated(s, v),
         LocalFinish(s) \/ MixedLocal(s) \/ MixedMain(s)
  PROVE  Stated(s, v)'
  <1>0. PICK r \in Requests : r = req[s]
    BY Serving DEF LocalFinish, MixedLocal, MixedMain
  <1> DEFINE t == tx[s]
             b == seen[s].balance
             c == CashOf[r.user]
  <1>1. /\ t \in WorkType /\ b \in [Wallet -> Int] /\ t.delta \in [Wallet -> Int]
        /\ balance \in [Wallet -> Int]
        /\ r.from \in Wallet /\ c \in Wallet /\ r.amount \in Int /\ r.total \in Int
    <2>1. t \in WorkType /\ b \in [Wallet -> Int] /\ t.delta \in [Wallet -> Int]
      BY Serving DEF LocalFinish, MixedLocal, MixedMain
    <2> QED BY <2>1, RequestFields DEF IInv, TypeOK, StoreTypeOK
  <1>2. CASE \E e : Refuse(s, e)
    <2>1. pc[s] # "generalPost"
      BY DEF LocalFinish, MixedLocal, MixedMain
    <2> QED BY <1>2, <2>1, RefuseStated
  <1>3. ASSUME NEW l, NEW work, Goto(s, l), tx' = [tx EXCEPT ![s] = work]
        PROVE  pc'[s] = l /\ req'[s] = r /\ tx'[s] = work
    BY <1>0, <1>3 DEF Goto, IInv, TypeOK, StoreTypeOK, ThreadTypeOK
  <1>4. -r.amount \in Int /\ -r.total \in Int /\ -(r.total - r.amount) \in Int
        /\ \A w \in Wallet : b[w] \in Int /\ balance[w] \in Int /\ t.delta[w] \in Int
    BY <1>1
  <1>5. ASSUME NEW w \in Wallet, NEW x \in Int, Write(s, w, tx'[s])
        PROVE  /\ UNCHANGED <<balance, lastAfter, seen>>
               /\ \A u \in Wallet : lock'[u] = s => lock[u] = s \/ u = w
    BY <1>5 DEF Write, Lock, committedVars, IInv, TypeOK, StoreTypeOK
  <1>7. CASE LocalFinish(s) /\ ~(\E e : Refuse(s, e))
    <2> DEFINE rows == InsertedMerchant(Inserted(t, r.from, -r.total, b[r.from]), r.total)
               award == Award(Reached(s), HeldUnderLock(s))
               work == [rows EXCEPT !.award = award]
    <2>1. /\ pc[s] = "localFinish" /\ tx' = [tx EXCEPT ![s] = work] /\ Goto(s, "commit")
          /\ UNCHANGED <<balance, lastAfter, lock, seen>>
      BY <1>0, <1>7 DEF LocalFinish, committedVars
    <2>2. /\ rows \in WorkType
          /\ rows.delta = t.delta /\ rows.after[r.from] = b[r.from] + -r.total
          /\ \A u \in Wallet \ {r.from} : rows.after[u] = t.after[u]
      <3> DEFINE y == -r.total
      <3>1. rows = InsertedMerchant(Inserted(t, r.from, y, b[r.from]), r.total)
        OBVIOUS
      <3> DEFINE m == b[r.from]
      <3>2. y \in Int /\ m \in Int
        BY <1>1, <1>4
      <3>3. rows = InsertedMerchant(Inserted(t, r.from, y, m), r.total)
        BY <3>1
      <3> HIDE DEF rows, y, t, m
      <3>4. /\ rows \in WorkType
            /\ rows.delta = t.delta /\ rows.after[r.from] = m + y
            /\ \A u \in Wallet \ {r.from} : rows.after[u] = t.after[u]
        BY <1>1, <3>2, <3>3, MerchantAfterRow
      <3> QED BY <3>4 DEF y, m
    <2> HIDE DEF rows, award
    <2>3. work.delta = rows.delta /\ work.after = rows.after
      BY <2>2 DEF WorkType
    <2> HIDE DEF work
    <2>4. v = r.from => work.after[r.from] = balance[r.from] + work.delta[r.from]
      <3> SUFFICES ASSUME v = r.from
                   PROVE  work.after[v] = balance[v] + work.delta[v]
        OBVIOUS
      <3>1. r.amount = r.total
        BY <1>0, <2>1 DEF IInv, RowsMatchUpdates, RowsMatch
      <3>2. b[v] + -r.amount = balance[v] + t.delta[v]
        <4>1. Owed(s) = Leg(r.from, -r.amount)
          BY <1>0, <2>1 DEF Owed
        <4>2. b[v] + Leg(r.from, -r.amount)[v] = balance[v] + t.delta[v]
          BY <1>1, <2>1, <4>1 DEF Stated, ReadsHold, ReadLabels
        <4> QED BY <1>1, <4>2 DEF Leg
      <3> QED BY <2>2, <2>3, <3>1, <3>2
    <2>5. pc'[s] = "commit" /\ req'[s] = r /\ tx'[s] = work
      BY <1>3, <2>1
    <2>6. ReadsHold(s, v)' /\ LegsApart(s)'
      BY <2>5 DEF ReadsHold, ReadLabels, LegsApart
    <2>7. OwedRow(s) \subseteq {r.from}
      BY <1>0, <2>1 DEF OwedRow
    <2> QED BY <1>1, <2>1, <2>2, <2>3, <2>4, <2>5, <2>6, <2>7, RowStated
  <1>8. CASE MixedLocal(s) /\ ~(\E e : Refuse(s, e))
    <2> DEFINE x == -r.amount
               up == Updated(t, r.from, x)
               rows == InsertedMerchant(Inserted(up, r.from, x, b[r.from]), r.amount)
               award == Award(Reached(s), seen[s].held)
               work == [rows EXCEPT !.total = r.amount, !.award = award]
    <2>1. pc[s] = "mixedLocal" /\ Write(s, r.from, work) /\ Goto(s, "mixedMain")
      BY <1>0, <1>8 DEF MixedLocal
    <2>2. /\ pc'[s] = "mixedMain" /\ req'[s] = r /\ tx'[s] = work
          /\ UNCHANGED <<balance, lastAfter, seen>>
          /\ \A u \in Wallet : lock'[u] = s => lock[u] = s \/ u = r.from
      <3>1. pc'[s] = "mixedMain" /\ req'[s] = r /\ tx'[s] = work
        BY <1>3, <2>1 DEF Write
      <3> HIDE DEF work
      <3> QED BY <1>1, <1>5, <2>1, <3>1
    <2>3. up \in WorkType /\ up.delta = Plus(t.delta, Leg(r.from, x)) /\ up.after = t.after
      <3>1. x \in Int
        BY <1>4
      <3> HIDE DEF x
      <3> QED BY <1>1, <3>1, UpdatedType, AfterColumns
    <2> HIDE DEF up, award
    <2>4. /\ rows \in WorkType
          /\ rows.delta = up.delta /\ rows.after[r.from] = b[r.from] + x
          /\ \A u \in Wallet \ {r.from} : rows.after[u] = up.after[u]
      <3>1. rows = InsertedMerchant(Inserted(up, r.from, x, b[r.from]), r.amount)
        OBVIOUS
      <3> DEFINE m == b[r.from]
      <3>2. x \in Int /\ m \in Int
        BY <1>1, <1>4
      <3>3. rows = InsertedMerchant(Inserted(up, r.from, x, m), r.amount)
        BY <3>1
      <3> HIDE DEF rows, x, m
      <3>4. /\ rows \in WorkType
            /\ rows.delta = up.delta /\ rows.after[r.from] = m + x
            /\ \A u \in Wallet \ {r.from} : rows.after[u] = up.after[u]
        BY <1>1, <2>3, <3>2, <3>3, MerchantAfterRow
      <3> QED BY <3>4 DEF m
    <2> HIDE DEF rows
    <2>5. work.delta = rows.delta /\ work.after = rows.after
      BY <2>4 DEF WorkType
    <2> HIDE DEF work
    <2>6. /\ work.delta[r.from] = t.delta[r.from] + x
          /\ \A u \in Wallet \ {r.from} : work.delta[u] = t.delta[u]
      <3>1. work.delta = Plus(t.delta, Leg(r.from, x))
        BY <2>3, <2>4, <2>5
      <3>2. x \in Int
        BY <1>4
      <3> HIDE DEF x
      <3> QED BY <1>1, <3>1, <3>2, LegElsewhere DEF Plus, Leg
    <2>7. b[v] = balance[v] + t.delta[v]
      <3>1. Owed(s) = Nothing
        BY <2>1 DEF Owed
      <3>2. b[v] + 0 = balance[v] + t.delta[v]
        BY <2>1, <3>1 DEF Stated, ReadsHold, ReadLabels, Nothing
      <3> QED BY <1>4, <3>2
    <2>8. v = r.from => work.after[r.from] = balance[r.from] + work.delta[r.from]
      <3>1. /\ v = r.from => b[r.from] = balance[r.from] + t.delta[r.from]
            /\ x \in Int /\ balance[r.from] \in Int /\ t.delta[r.from] \in Int
        BY <1>1, <1>4, <2>7
      <3> HIDE DEF x
      <3> QED BY <2>4, <2>5, <2>6, <3>1
    <2>9. ReadsHold(s, v)'
      BY <2>2, <2>6, <2>7 DEF ReadsHold, ReadLabels
    <2>10. LegsApart(s)'
      BY <1>0, <2>1, <2>2 DEF Stated, LegsApart
    <2>11. OwedRow(s) \subseteq {r.from}
      BY <1>0, <2>1 DEF OwedRow
    <2> QED BY <1>1, <2>1, <2>2, <2>3, <2>4, <2>5, <2>6, <2>8, <2>9, <2>10, <2>11, RowStated
  <1>9. CASE MixedMain(s)
    <2> DEFINE x == -(r.total - r.amount)
               up == Updated(t, c, x)
               work == InsertedMerchant(Inserted(up, c, x, b[c]), r.amount)
    <2>1. pc[s] = "mixedMain" /\ Write(s, c, work) /\ Goto(s, "commit")
      BY <1>0, <1>9 DEF MixedMain
    <2>2. /\ pc'[s] = "commit" /\ req'[s] = r /\ tx'[s] = work
          /\ UNCHANGED <<balance, lastAfter, seen>>
          /\ \A u \in Wallet : lock'[u] = s => lock[u] = s \/ u = c
      <3>1. pc'[s] = "commit" /\ req'[s] = r /\ tx'[s] = work
        BY <1>3, <2>1 DEF Write
      <3> HIDE DEF work, c
      <3> QED BY <1>1, <1>5, <2>1, <3>1
    <2>3. up \in WorkType /\ up.delta = Plus(t.delta, Leg(c, x)) /\ up.after = t.after
      <3>1. x \in Int
        BY <1>4
      <3> HIDE DEF x, c
      <3> QED BY <1>1, <3>1, UpdatedType, AfterColumns
    <2> HIDE DEF up
    <2>4. /\ work.delta = up.delta /\ work.after[c] = b[c] + x
          /\ \A u \in Wallet \ {c} : work.after[u] = up.after[u]
      <3>1. work = InsertedMerchant(Inserted(up, c, x, b[c]), r.amount)
        OBVIOUS
      <3>2. x \in Int
        BY <1>4
      <3> DEFINE m == b[c]
      <3>3. c \in Wallet /\ r.amount \in Int /\ up \in WorkType /\ m \in Int
        BY <1>1, <2>3
      <3>4. work = InsertedMerchant(Inserted(up, c, x, m), r.amount)
        BY <3>1
      <3> DEFINE n == r.amount
      <3>5. n \in Int /\ work = InsertedMerchant(Inserted(up, c, x, m), n)
        BY <3>3, <3>4
      <3> HIDE DEF work, x, m, n, c
      <3>6. /\ work \in WorkType /\ work.delta = up.delta /\ work.after[c] = m + x
            /\ \A u \in Wallet \ {c} : work.after[u] = up.after[u]
        BY <3>2, <3>3, <3>5, MerchantAfterRow
      <3> QED BY <3>6 DEF m
    <2> HIDE DEF work
    <2>5. /\ work.delta[c] = t.delta[c] + x
          /\ \A u \in Wallet \ {c} : work.delta[u] = t.delta[u]
      <3>1. work.delta = Plus(t.delta, Leg(c, x))
        BY <2>3, <2>4
      <3>2. x \in Int
        BY <1>4
      <3> HIDE DEF x, c
      <3> QED BY <1>1, <3>1, <3>2, LegElsewhere DEF Plus, Leg
    <2>6. v = c => b[c] = balance[c] + t.delta[c]
      <3>1. r.from \notin Cash
        BY <1>0, <2>1 DEF Stated, LegsApart
      <3>2. c \in Cash
        BY RequestFields DEF Cash
      <3> QED BY <1>0, <1>1, <2>1, <3>1, <3>2 DEF Stated, ReadsHold
    <2>7. v = c => work.after[c] = balance[c] + work.delta[c]
      <3>1. x \in Int /\ balance[c] \in Int /\ t.delta[c] \in Int
        BY <1>1, <1>4
      <3> HIDE DEF x, c
      <3> QED BY <2>4, <2>5, <2>6, <3>1
    <2>8. ReadsHold(s, v)' /\ LegsApart(s)'
      BY <2>2 DEF ReadsHold, ReadLabels, LegsApart
    <2>9. OwedRow(s) \subseteq {c}
      BY <2>1 DEF OwedRow
    <2> HIDE DEF c
    <2> QED BY <1>1, <2>1, <2>2, <2>3, <2>4, <2>5, <2>7, <2>8, <2>9, RowStated
  <1> QED BY <1>2, <1>7, <1>8, <1>9

(* A commit makes the rows and the balances they show visible together.    *)
LEMMA CommitStated ==
  ASSUME IInv, NEW s \in Session, NEW v \in Wallet, Stated(s, v), Commit(s)
  PROVE  Stated(s, v)'
  <1> DEFINE t == tx[s]
  <1>1. /\ pc[s] = "commit" /\ pc'[s] = "idle"
        /\ balance' = Plus(balance, t.delta)
        /\ lastAfter' = [w \in Wallet |-> IF lock[w] = s THEN t.after[w] ELSE lastAfter[w]]
    BY DEF Commit, CommitWork, Answer, IInv, TypeOK, ThreadTypeOK
  <1>2. \A w \in Wallet : lock'[w] # s
    BY StoreAssumption DEF Commit, CommitWork, Unlocked
  <1>3. \A w \in Wallet : balance[w] \in Int /\ t.delta[w] \in Int
    BY <1>1, Serving DEF IInv, TypeOK, StoreTypeOK
  <1>4. lastAfter'[v] = balance'[v] + 0
    <2>1. balance'[v] = balance[v] + t.delta[v]
      BY <1>1 DEF Plus
    <2>2. CASE lock[v] = s
      <3>1. v \notin OwedRow(s)
        BY <1>1 DEF OwedRow
      <3>2. t.after[v] = balance[v] + t.delta[v]
        BY <2>2, <3>1 DEF Stated, RowsShow
      <3> QED BY <1>1, <1>3, <2>1, <2>2, <3>2
    <2>3. CASE lock[v] # s
      <3>1. t.delta[v] = 0
        BY <2>3 DEF IInv, LockDiscipline
      <3>2. lastAfter[v] = balance[v] + 0
        BY <1>1 DEF Stated, LastRow
      <3> QED BY <1>1, <1>3, <2>1, <2>3, <3>1, <3>2
    <2> QED BY <2>2, <2>3
  <1>5. LastRow(s, v)'
    BY <1>1, <1>4 DEF LastRow
  <1> QED BY <1>1, <1>2, <1>5 DEF Stated, ReadsHold, ReadLabels, RowsShow, LegsApart

(* Only crashes and timeouts count as faults.                              *)
LEMMA FaultsStay ==
  ASSUME IInv, BankInv, [Next]_vars, faults' = 0
  PROVE  faults = 0 /\ ~Crash /\ \A s \in Session : ~LockWaitTimeout(s)
  <1>0. faults \in Nat
    BY BoundsAssumption DEF IInv, TypeOK, ThreadTypeOK
  <1>1. ~Crash /\ \A s \in Session : ~LockWaitTimeout(s)
    BY <1>0 DEF Crash, LockWaitTimeout
  <1>2. ASSUME NEW s \in Session, Acts(s) PROVE faults = 0
    <2>1. CASE GeneralDebit(s) \/ GeneralPost(s) \/ GeneralMerchant(s)
      BY <2>1 DEF GeneralDebit, GeneralPost, GeneralMerchant, Goto, Answer
    <2>2. CASE ~(GeneralDebit(s) \/ GeneralPost(s) \/ GeneralMerchant(s))
      BY <1>1, <1>2, <2>2, OutsideDue
    <2> QED BY <2>1, <2>2
  <1>3. ASSUME Tick \/ Drained \/ UNCHANGED vars PROVE faults = 0
    BY <1>3 DEF Tick, Drained, vars, threadVars
  <1>4. (\E s \in Session : Acts(s)) \/ Tick \/ Drained \/ UNCHANGED vars
    BY <1>1 DEF Next, Acts
  <1> QED BY <1>1, <1>2, <1>3, <1>4

-----------------------------------------------------------------------------
(* Statements and the steps of all threads.                                *)

(* A step of the thread that is alone with the wallet.                     *)
LEMMA OwnStated ==
  ASSUME IInv, BankInv, LapseInv, NEW v \in Wallet, "itself" \notin lapses[v],
         NEW s \in InService(v), Stated(s, v), Acts(s), ~LockWaitTimeout(s)
  PROVE  Stated(s, v)' /\ (pc'[s] = "idle" \/ req'[s] = req[s])
  <1>0. s \in Session /\ pc[s] # "idle"
    BY DEF InService
  <1>1. req[s].op = "CHARGE" => req[s].from # req[s].to
    BY DEF LapseInv, LapsesNow, Lapse
  <1>2. CASE DeadlockAbort(s)
    <2>1. ~GeneralDebit(s) /\ ~GeneralPost(s) /\ ~GeneralMerchant(s)
      BY <1>0, <1>2 DEF DeadlockAbort, Refuse, RollbackWork, Answer, GeneralDebit, GeneralPost,
                        GeneralMerchant, Goto, IInv, TypeOK, ThreadTypeOK, StoreTypeOK
    <2>2. pc[s] # "generalPost"
      BY <1>0, <2>1, OutsideDue DEF GeneralDue
    <2>3. Stated(s, v)'
      BY <1>0, <1>2, <2>2, RefuseStated DEF DeadlockAbort
    <2>4. pc'[s] = "idle"
      BY <1>0, <1>2 DEF DeadlockAbort, Refuse, Answer, IInv, TypeOK, ThreadTypeOK
    <2> QED BY <2>3, <2>4
  <1>3. CASE Step(s)
    <2>1. TransferStep(s) => Stated(s, v)'
      BY <1>0, <1>1, TransferReadStated, FirstLegStated, SecondLegStated DEF TransferStep
    <2>2. PaymentStep(s) => Stated(s, v)'
      BY <1>0, PaymentReadStated, FirstLegStated, GeneralStated, StrategyRowsStated
         DEF PaymentStep
    <2>3. Commit(s) => Stated(s, v)'
      BY <1>0, CommitStated
    <2>4. Stated(s, v)'
      BY <1>3, <2>1, <2>2, <2>3 DEF Step
    <2>5. pc'[s] = "idle" \/ req'[s] = req[s]
      <3>1. (\E e : Refuse(s, e)) \/ Commit(s) \/ GeneralMerchant(s) \/ \E l : Goto(s, l)
        BY <1>3 DEF Step, TransferStep, PaymentStep, Charge, ChargeDebit, ChargeCredit, Refund,
                    RefundDebit, RefundCredit, Convert, ConvertCharge, Decide, PinRejected,
                    PaymentContext, General, GeneralDebit, GeneralPost, LocalPay, LocalFinish,
                    Mixed, MixedLocal, MixedMain
      <3> QED BY <1>0, <3>1 DEF Refuse, Answer, Commit, GeneralMerchant, Goto, IInv, TypeOK,
                                ThreadTypeOK
    <2> QED BY <2>4, <2>5
  <1>4. ~\E r \in Requests : Receive(s, r)
    BY <1>0 DEF Receive
  <1> QED BY <1>2, <1>3, <1>4 DEF Acts

(* A step of a thread that does not use the wallet.                        *)
LEMMA ColumnsOfOthers ==
  ASSUME IInv, BankInv, LockInv, NEW s \in Session, Acts(s), NEW v \in Wallet,
         s \notin InService(v)
  PROVE  balance'[v] = balance[v] /\ lastAfter'[v] = lastAfter[v]
  <1>1. balance'[v] = balance[v]
    BY BalanceOfOthers
  <1>2. lastAfter \in [Wallet -> Int]
    BY DEF IInv, TypeOK, StoreTypeOK
  <1>3. CASE Commit(s)
    <2>1. lastAfter' = [w \in Wallet |-> IF lock[w] = s THEN tx[s].after[w] ELSE lastAfter[w]]
          /\ pc[s] = "commit"
      BY <1>3 DEF Commit, CommitWork
    <2>2. lock[v] # s
      BY <2>1 DEF LockInv, LocksOf, InService
    <2> QED BY <1>1, <2>1, <2>2
  <1>4. CASE GeneralPost(s)
    <2>1. PICK r \in Requests : r = req[s]
      BY <1>4, Serving DEF GeneralPost
    <2>2. PICK c \in Wallet : c = CashOf[r.user] /\ Owner[c] = r.user
      BY RequestFields, WalletsAssumption
    <2>3. pc[s] = "generalPost" /\ r.op = "GENERAL"
      BY <1>4, <2>1, RequestFields
         DEF GeneralPost, BankInv, OnItsWay, LabelsOf, Entries, TransferOps, PaymentOps, LocalOps
    <2>4. v # c
      BY <2>1, <2>2, <2>3 DEF InService, Uses
    <2>5. lastAfter' = [lastAfter EXCEPT ![c] = seen[s].balance[c] - r.total]
      BY <1>4, <2>1, <2>2 DEF GeneralPost
    <2> QED BY <1>1, <1>2, <2>4, <2>5
  <1>5. CASE ~Commit(s) /\ ~GeneralPost(s)
    <2>1. lastAfter' = lastAfter
      BY <1>5 DEF Acts, Step, DeadlockAbort, Receive, LockWaitTimeout, Refuse, RollbackWork,
                  storeVars, committedVars, TransferStep, PaymentStep, Charge, ChargeDebit,
                  ChargeCredit, Refund, RefundDebit, RefundCredit, Convert, ConvertCharge, Decide,
                  Read, Write, PinRejected, PaymentContext, General, GeneralDebit,
                  GeneralMerchant, LocalPay, LocalFinish, Mixed, MixedLocal, MixedMain
    <2> QED BY <1>1, <2>1
  <1> QED BY <1>3, <1>4, <1>5

(* Such a step leaves what another thread has read in step with the wallet. *)
LEMMA OtherStated ==
  ASSUME IInv, NEW s \in Session, Acts(s), NEW t \in Session, t # s, NEW v \in Wallet,
         balance'[v] = balance[v], lastAfter'[v] = lastAfter[v], Stated(t, v)
  PROVE  Stated(t, v)'
  <1>1. pc'[t] = pc[t] /\ req'[t] = req[t] /\ tx'[t] = tx[t] /\ seen'[t] = seen[t]
    BY OthersLeftAlone DEF LeftAlone
  <1>2. lock'[v] = t <=> lock[v] = t
    BY OthersLeftAlone, LocksItself DEF LeftAlone
  <1>3. Owed(t)' = Owed(t) /\ OwedRow(t)' = OwedRow(t)
    BY <1>1 DEF Owed, OwedRow
  <1>4. ReadsHold(t, v)'
    BY <1>1, <1>2, <1>3 DEF Stated, ReadsHold
  <1>5. RowsShow(t, v)'
    BY <1>1, <1>2, <1>3 DEF Stated, RowsShow
  <1>6. LegsApart(t)'
    BY <1>1 DEF Stated, LegsApart
  <1>7. LastRow(t, v)'
    BY <1>1 DEF Stated, LastRow
  <1> QED BY <1>4, <1>5, <1>6, <1>7 DEF Stated

(* Every step keeps the statement of a wallet that nobody has mistreated.  *)
LEMMA NextStated ==
  ASSUME IInv, BankInv, LapseInv, LockInv, StatedInv, [HNext]_historyVars,
         IInv', LapseInv'
  PROVE  StatedInv'
  <1>1. SUFFICES ASSUME faults' = 0, NEW v \in Wallet, lapses'[v] \cap Misstating = {}
                 PROVE  StatedAt(v)'
    BY DEF StatedInv
  <1>2. [Next]_vars
    BY DEF HNext, historyVars
  <1>3. faults = 0 /\ ~Crash /\ \A s \in Session : ~LockWaitTimeout(s)
    BY <1>1, <1>2, FaultsStay
  <1>4. /\ "overlap" \notin lapses[v] /\ "itself" \notin lapses[v] /\ "overlap" \notin lapses'[v]
        /\ StatedAt(v)
    <2>1. lapses[v] \subseteq lapses'[v]
      BY NextLapses
    <2> QED BY <1>1, <1>3, <2>1 DEF StatedInv, Misstating
  <1>5. \A s, t \in InService(v)' : s = t
    BY <1>4 DEF LapseInv, LapsesNow, Lapse
  <1>6. ASSUME NEW s \in Session, Acts(s), s \in InService(v) PROVE StatedAt(v)'
    <2>1. Stated(s, v)' /\ (pc'[s] = "idle" \/ req'[s] = req[s])
      BY <1>3, <1>4, <1>6, OwnStated DEF StatedAt
    <2>2. InService(v)' \subseteq {s}
      <3> SUFFICES ASSUME NEW t \in InService(v)', t # s PROVE FALSE
        OBVIOUS
      <3>1. t \in InService(v)
        BY <1>6, StillInService DEF InService
      <3> QED BY <1>4, <1>6, <3>1, Alone
    <2>3. InService(v)' = {} => lastAfter'[v] = balance'[v]
      <3> SUFFICES ASSUME InService(v)' = {} PROVE lastAfter'[v] = balance'[v]
        OBVIOUS
      <3>1. pc'[s] = "idle"
        BY <1>6, <2>1 DEF InService, Uses
      <3>2. lastAfter'[v] = balance'[v] + 0
        BY <2>1, <3>1 DEF Stated, LastRow
      <3>3. balance'[v] \in Int
        BY DEF IInv, TypeOK, StoreTypeOK
      <3> QED BY <3>2, <3>3
    <2> QED BY <2>1, <2>2, <2>3 DEF StatedAt
  <1>7. ASSUME NEW s \in Session, Acts(s), s \notin InService(v) PROVE StatedAt(v)'
    <2>1. balance'[v] = balance[v] /\ lastAfter'[v] = lastAfter[v]
      BY <1>7, ColumnsOfOthers
    <2>2. ASSUME NEW t \in InService(v) PROVE t \in InService(v)' /\ t # s
      BY <1>7, OthersLeftAlone DEF LeftAlone, InService, Uses
    <2>3. ASSUME NEW t \in InService(v)', t # s PROVE Stated(t, v)'
      <3>1. t \in InService(v) /\ t \in Session
        BY <1>7, <2>3, StillInService DEF InService
      <3> QED BY <1>4, <1>7, <2>1, <2>3, <3>1, OtherStated DEF StatedAt
    <2>4. ASSUME s \in InService(v)' PROVE Stated(s, v)'
      <3>1. InService(v) = {}
        BY <1>5, <2>2, <2>4
      <3>2. lastAfter[v] = balance[v]
        BY <1>4, <3>1 DEF StatedAt
      <3>3. PICK r \in Requests : Receive(s, r)
        BY <1>7, <2>4, TakenUp
      <3>4. pc[s] = "idle" /\ lock' = lock /\ pc'[s] \in {"charge", "refund", "convert", "pay"}
        BY <3>3 DEF Receive, Entry, storeVars, IInv, TypeOK, ThreadTypeOK
      <3>5. \A w \in Wallet : lock'[w] # s
        BY <3>4, Unworked DEF InTransaction
      <3> QED BY <2>1, <3>2, <3>4, <3>5, StatedAnew
    <2>5. InService(v)' = {} => lastAfter'[v] = balance'[v]
      BY <1>4, <2>1, <2>2 DEF StatedAt
    <2> QED BY <2>3, <2>4, <2>5 DEF StatedAt
  <1>8. CASE Tick \/ Drained \/ UNCHANGED vars
    <2>1. UNCHANGED <<balance, lastAfter, lock, tx, seen, pc, req>>
      BY <1>8 DEF Tick, Drained, vars, storeVars, committedVars, threadVars
    <2>2. InService(v)' = InService(v)
      BY <2>1 DEF InService, Uses
    <2>3. ASSUME NEW s \in Session, Stated(s, v) PROVE Stated(s, v)'
      <3>1. Owed(s)' = Owed(s) /\ OwedRow(s)' = OwedRow(s)
        BY <2>1 DEF Owed, OwedRow
      <3> QED BY <2>1, <2>3, <3>1 DEF Stated, ReadsHold, RowsShow, LegsApart, LastRow
    <2> QED BY <1>4, <2>1, <2>2, <2>3 DEF StatedAt, InService
  <1> QED BY <1>2, <1>3, <1>6, <1>7, <1>8 DEF Next, Acts

(* The run starts with the statements as they are.                         *)
LEMMA InitStated ==
  ASSUME HInit
  PROVE  StatedInv
  <1>1. balance = Opening /\ lastAfter = Opening /\ \A s \in Session : pc[s] = "idle"
    BY DEF HInit, Init, StoreInit, ThreadInit
  <1> QED BY <1>1 DEF StatedInv, StatedAt, InService

(* The after column of a row is computed from what the handler read before *)
(* it updated anything; still the last row of a wallet's statement shows   *)
(* its balance whenever the wallet is at rest, as long as nothing has      *)
(* failed, no two requests have met on it and it was not charged from      *)
(* itself.                                                                 *)
THEOREM StatementsShowBalance == HSpec => []StatedUnlessCareless
  <1>1. HInit => StatedInv
    BY InitStated
  <1>2. /\ IInv /\ BankInv /\ LapseInv /\ LockInv /\ StatedInv /\ [HNext]_historyVars
        /\ (IInv /\ BankInv /\ LapseInv)'
        => StatedInv'
    BY NextStated
  <1>3. StatedInv => StatedUnlessCareless
    BY DEF StatedInv, StatedAt, StatedUnlessCareless, Misstating
  <1> QED BY <1>1, <1>2, <1>3, LapsesAreNoted, LocksAreUsed, PTL DEF HSpec

-----------------------------------------------------------------------------
(* What a transaction adds to the month's total.                           *)

(* s has inserted the rows of a charge.                                    *)
ChargeRowsIn(s) == pc[s] = "commit" /\ req[s].op = "CHARGE"

(* Only the rows of a charge count, with the amount credited, in a month   *)
(* that has begun.                                                         *)
CountsOf(s) ==
  /\ tx[s].charge = IF ChargeRowsIn(s) THEN Credited(req[s].amount, Rate(req[s].to)) ELSE 0
  /\ ChargeRowsIn(s) => tx[s].at <= now

CountInv == \A s \in Session : CountsOf(s)

(* UPDATEs and single rows leave the column alone.                         *)
LEMMA ChargeColumn ==
  ASSUME NEW t \in WorkType, NEW w \in Wallet, NEW x \in Int, NEW m \in Int
  PROVE  /\ Updated(t, w, x) \in WorkType /\ Updated(t, w, x).charge = t.charge
         /\ Inserted(t, w, x, m) \in WorkType /\ Inserted(t, w, x, m).charge = t.charge
         /\ InsertedMerchant(t, x) \in WorkType /\ InsertedMerchant(t, x).charge = t.charge
  <1>1. Updated(t, w, x) \in WorkType /\ Inserted(t, w, x, m) \in WorkType
    BY UpdatedType, InsertedType
  <1>2. Updated(t, w, x).charge = t.charge /\ Inserted(t, w, x, m).charge = t.charge
    BY DEF Updated, Inserted, WorkType
  <1>3. InsertedMerchant(t, x) \in WorkType /\ InsertedMerchant(t, x).charge = t.charge
    BY DEF InsertedMerchant, WorkType
  <1> QED BY <1>1, <1>2, <1>3

(* Nor do an UPDATE and two members' rows together.                        *)
LEMMA ChargeColumns ==
  ASSUME NEW t \in WorkType, NEW w \in Wallet, NEW x \in Int, NEW u \in Wallet, NEW y \in Int,
         NEW m \in Int, NEW v \in Wallet, NEW z \in Int, NEW n \in Int,
         NEW rows, rows = Inserted(Inserted(Updated(t, w, x), u, y, m), v, z, n)
  PROVE  rows \in WorkType /\ rows.charge = t.charge
  <1> DEFINE up == Updated(t, w, x)
             row == Inserted(up, u, y, m)
  <1>1. up \in WorkType /\ up.charge = t.charge
    BY ChargeColumn
  <1>2. rows = Inserted(row, v, z, n)
    OBVIOUS
  <1> HIDE DEF up
  <1>3. row \in WorkType /\ row.charge = t.charge
    BY <1>1, ChargeColumn
  <1> HIDE DEF row
  <1> QED BY <1>2, <1>3, ChargeColumn

(* Nor do a member's row and the merchant's.                               *)
LEMMA ChargeColumnPaid ==
  ASSUME NEW t \in WorkType, NEW u \in Wallet, NEW y \in Int, NEW m \in Int, NEW z \in Int,
         NEW rows, rows = InsertedMerchant(Inserted(t, u, y, m), z)
  PROVE  rows \in WorkType /\ rows.charge = t.charge
  <1> DEFINE row == Inserted(t, u, y, m)
  <1>1. row \in WorkType /\ row.charge = t.charge
    BY ChargeColumn
  <1>2. rows = InsertedMerchant(row, z)
    OBVIOUS
  <1> HIDE DEF row
  <1> QED BY <1>1, <1>2, ChargeColumn

(* A thread that goes on with the same column.                             *)
LEMMA CountsAsBefore ==
  ASSUME IInv, NEW s \in Session, CountsOf(s), pc[s] # "commit", NEW l, Goto(s, l), NEW work,
         tx'[s] = work, work.charge = tx[s].charge, l # "commit" \/ req[s].op # "CHARGE"
  PROVE  CountsOf(s)'
  <1>1. pc'[s] = l /\ req'[s] = req[s]
    BY DEF Goto, IInv, TypeOK, ThreadTypeOK
  <1>2. ~ChargeRowsIn(s) /\ ~ChargeRowsIn(s)'
    BY <1>1 DEF ChargeRowsIn
  <1> QED BY <1>2 DEF CountsOf

(* A thread without a transaction.                                         *)
LEMMA CountsNothing ==
  ASSUME IInv, NEW s \in Session,
         \/ \E e : Refuse(s, e)
         \/ \E r \in Requests : Receive(s, r)
         \/ LockWaitTimeout(s) \/ Commit(s) \/ GeneralMerchant(s)
  PROVE  CountsOf(s)'
  <1>1. pc'[s] # "commit" /\ tx'[s] = NoWork
    <2>1. CASE (\E r \in Requests : Receive(s, r)) \/ GeneralMerchant(s)
      <3>1. tx[s] = NoWork
        BY <2>1, Unworked DEF Receive, GeneralMerchant, InTransaction
      <3> QED BY <2>1, <3>1 DEF Receive, storeVars, Entry, GeneralMerchant, Answer, IInv, TypeOK,
                                ThreadTypeOK
    <2>2. CASE (\E e : Refuse(s, e)) \/ LockWaitTimeout(s)
      BY <2>2 DEF Refuse, Answer, LockWaitTimeout, RollbackWork, IInv, TypeOK, StoreTypeOK,
                  ThreadTypeOK
    <2>3. CASE Commit(s)
      BY <2>3 DEF Commit, CommitWork, Answer, IInv, TypeOK, StoreTypeOK, ThreadTypeOK
    <2> QED BY <2>1, <2>2, <2>3
  <1> QED BY <1>1 DEF CountsOf, ChargeRowsIn, NoWork

(* The rows of a charge, for itself and within a conversion.               *)
LEMMA ChargeCreditCounts ==
  ASSUME IInv, NEW s \in Session, CountsOf(s), ChargeCredit(s)
  PROVE  CountsOf(s)'
  <1>0. PICK r \in Requests : r = req[s]
    BY Serving DEF ChargeCredit
  <1> DEFINE t == tx[s]
             a == ChargeSource(r)
             x == -ChargeBase(r)
             y == Credited(ChargeBase(r), Rate(r.to))
             m == seen[s].balance[a]
             n == seen[s].balance[r.to]
             rows == Inserted(Inserted(Updated(t, r.to, y), a, x, m), r.to, y, n)
             work == IF r.op = "CHARGE" THEN [rows EXCEPT !.charge = y, !.at = now] ELSE rows
  <1>1. /\ t \in WorkType /\ a \in Wallet /\ r.to \in Wallet /\ x \in Int /\ y \in Int
        /\ m \in Int /\ n \in Int /\ now \in Time /\ now <= now
    <2>1. seen[s].balance \in [Wallet -> Int]
      BY Serving DEF ChargeCredit
    <2>2. now \in Time /\ now \in Int
      BY StoreAssumption DEF IInv, TypeOK, StoreTypeOK, Time
    <2>3. t \in WorkType /\ a \in Wallet /\ r.to \in Wallet /\ ChargeBase(r) \in Int /\ y \in Int
      BY RequestFields DEF IInv, TypeOK, StoreTypeOK
    <2> HIDE DEF t, a, y
    <2> QED BY <2>1, <2>2, <2>3
  <1>2. pc[s] = "chargeCredit" /\ Goto(s, "commit") /\ tx' = [tx EXCEPT ![s] = work]
    BY <1>0 DEF ChargeCredit, Write, ChargeRows, MonthlyAmount
  <1>3. pc'[s] = "commit" /\ req'[s] = r /\ tx'[s] = work /\ now' = now
    <2> HIDE DEF work
    <2> QED BY <1>0, <1>2 DEF ChargeCredit, Write, Goto, IInv, TypeOK, StoreTypeOK, ThreadTypeOK
  <1>4. rows \in WorkType /\ rows.charge = t.charge
    <2>1. rows = Inserted(Inserted(Updated(t, r.to, y), a, x, m), r.to, y, n)
      OBVIOUS
    <2> HIDE DEF rows, t, a, x, y, m, n
    <2> QED BY <1>1, <2>1, ChargeColumns
  <1> HIDE DEF rows, y
  <1>5. CASE r.op = "CHARGE"
    <2>1. work.charge = y /\ work.at = now
      BY <1>4, <1>5 DEF WorkType
    <2>2. ChargeBase(r) = r.amount
      BY <1>5 DEF ChargeBase
    <2> HIDE DEF work
    <2> QED BY <1>1, <1>3, <1>5, <2>1, <2>2 DEF CountsOf, ChargeRowsIn, y
  <1>6. CASE r.op # "CHARGE"
    <2>1. work.charge = t.charge
      BY <1>4, <1>6
    <2> HIDE DEF work
    <2> QED BY <1>0, <1>2, <1>3, <1>6, <2>1, CountsAsBefore
  <1> QED BY <1>5, <1>6

(* The other steps of transfers.                                           *)
LEMMA TransferCounts ==
  ASSUME IInv, BankInv, NEW s \in Session, CountsOf(s), TransferStep(s)
  PROVE  CountsOf(s)'
  <1>0. PICK r \in Requests : r = req[s]
    BY Serving DEF TransferStep, Charge, ChargeDebit, ChargeCredit, Refund, RefundDebit,
                   RefundCredit, Convert, ConvertCharge
  <1> DEFINE t == tx[s]
  <1>1. /\ t \in WorkType /\ tx \in [Session -> WorkType]
        /\ ChargeSource(r) \in Wallet /\ -ChargeBase(r) \in Int
        /\ r.from \in Wallet /\ -r.amount \in Int /\ RefundTarget(r) \in Wallet
        /\ RefundValue(r.amount, Rate(r.from)) \in Int
    BY RequestFields DEF IInv, TypeOK, StoreTypeOK
  <1>2. CASE \E e : Refuse(s, e)
    BY <1>2, CountsNothing
  <1>3. CASE (Charge(s) \/ Refund(s) \/ Convert(s) \/ ConvertCharge(s)) /\ ~(\E e : Refuse(s, e))
    <2>1. /\ pc[s] # "commit" /\ tx' = tx
          /\ \E l \in {"chargeDebit", "refundDebit"} : Goto(s, l)
      BY <1>3 DEF Charge, Refund, Convert, ConvertCharge, Decide, Read
    <2> QED BY <2>1, CountsAsBefore
  <1>4. CASE ChargeDebit(s)
    <2> DEFINE work == Updated(t, ChargeSource(r), -ChargeBase(r))
    <2>1. /\ pc[s] = "chargeDebit" /\ Goto(s, "chargeCredit") /\ tx' = [tx EXCEPT ![s] = work]
      BY <1>0, <1>4 DEF ChargeDebit, Write
    <2>2. work.charge = t.charge
      BY <1>1, ChargeColumn
    <2> HIDE DEF work
    <2> QED BY <1>1, <2>1, <2>2, CountsAsBefore
  <1>5. CASE RefundDebit(s)
    <2> DEFINE work == Updated(t, r.from, -r.amount)
    <2>1. /\ pc[s] = "refundDebit" /\ Goto(s, "refundCredit") /\ tx' = [tx EXCEPT ![s] = work]
      BY <1>0, <1>5 DEF RefundDebit, Write
    <2>2. work.charge = t.charge
      BY <1>1, ChargeColumn
    <2> HIDE DEF work
    <2> QED BY <1>1, <2>1, <2>2, CountsAsBefore
  <1>6. CASE RefundCredit(s)
    <2> DEFINE c == RefundTarget(r)
               x == RefundValue(r.amount, Rate(r.from))
               y == -r.amount
               m == seen[s].balance[c]
               n == seen[s].balance[r.from]
               work == Inserted(Inserted(Updated(t, c, x), c, x, m), r.from, y, n)
    <2>1. /\ pc[s] = "refundCredit" /\ tx' = [tx EXCEPT ![s] = work]
          /\ \E l : Goto(s, l)
      BY <1>0, <1>6 DEF RefundCredit, Write, RefundRows
    <2>2. m \in Int /\ n \in Int
      <3>1. seen[s].balance \in [Wallet -> Int]
        BY <2>1, Serving
      <3> QED BY <1>1, <3>1
    <2>3. work.charge = t.charge
      <3>1. c \in Wallet /\ x \in Int /\ y \in Int
        BY <1>1
      <3>2. work = Inserted(Inserted(Updated(t, c, x), c, x, m), r.from, y, n)
        OBVIOUS
      <3> HIDE DEF work, t, c, x, y, m, n
      <3> QED BY <1>1, <2>2, <3>1, <3>2, ChargeColumns
    <2>4. r.op # "CHARGE"
      BY <1>0, <2>1 DEF BankInv, OnItsWay, LabelsOf
    <2> HIDE DEF work
    <2> QED BY <1>0, <1>1, <2>1, <2>3, <2>4, CountsAsBefore
  <1> QED BY <1>2, <1>3, <1>4, <1>5, <1>6, ChargeCreditCounts DEF TransferStep

(* Payments charge nothing.                                                *)
LEMMA PaymentCounts ==
  ASSUME IInv, BankInv, NEW s \in Session, CountsOf(s), PaymentStep(s)
  PROVE  CountsOf(s)'
  <1>0. PICK r \in Requests : r = req[s]
    BY Serving DEF PaymentStep, PinRejected, PaymentContext, General, GeneralDebit, GeneralPost,
                   GeneralMerchant, LocalPay, LocalFinish, Mixed, MixedLocal, MixedMain
  <1> DEFINE t == tx[s]
             c == CashOf[r.user]
             b == seen[s].balance
  <1>1. pc[s] \notin {"idle", "commit"} /\ r.op # "CHARGE"
    <2>1. pc[s] \in {"pay", "general", "generalDebit", "generalPost", "generalMerchant",
                     "localPay", "localFinish", "mixed", "mixedLocal", "mixedMain"}
      BY DEF PaymentStep, PinRejected, PaymentContext, General, GeneralDebit, GeneralPost,
             GeneralMerchant, LocalPay, LocalFinish, Mixed, MixedLocal, MixedMain
    <2> QED BY <1>0, <2>1 DEF BankInv, OnItsWay, LabelsOf
  <1>2. /\ t \in WorkType /\ tx \in [Session -> WorkType] /\ r.from \in Wallet /\ c \in Wallet
        /\ r.amount \in Int /\ r.total \in Int /\ -r.amount \in Int /\ -r.total \in Int
        /\ -(r.total - r.amount) \in Int /\ b[r.from] \in Int /\ b[c] \in Int
    <2>1. b \in [Wallet -> Int]
      BY <1>1, Serving
    <2> QED BY <2>1, RequestFields DEF IInv, TypeOK, StoreTypeOK
  <1>3. CASE (\E e : Refuse(s, e)) \/ GeneralMerchant(s)
    BY <1>3, CountsNothing
  <1>4. ASSUME NEW l, Goto(s, l), NEW work, tx' = [tx EXCEPT ![s] = work], work.charge = t.charge
        PROVE  CountsOf(s)'
    BY <1>0, <1>1, <1>2, <1>4, CountsAsBefore
  <1>5. CASE (PaymentContext(s) \/ General(s) \/ GeneralDebit(s) \/ GeneralPost(s) \/ Mixed(s))
             /\ ~(\E e : Refuse(s, e))
    <2>1. tx' = tx /\ \E l : Goto(s, l)
      BY <1>5 DEF PaymentContext, General, GeneralDebit, GeneralPost, Mixed, Read
    <2> QED BY <1>0, <1>1, <2>1, CountsAsBefore
  <1>6. CASE LocalPay(s)
    <2> DEFINE up == Updated(t, r.from, -r.amount)
    <2>1. Goto(s, "localFinish") /\ tx' = [tx EXCEPT ![s] = [up EXCEPT !.total = r.amount]]
      BY <1>0, <1>6 DEF LocalPay, Write
    <2>2. up \in WorkType /\ up.charge = t.charge
      BY <1>2, ChargeColumn
    <2> HIDE DEF up
    <2>3. [up EXCEPT !.total = r.amount].charge = t.charge
      BY <2>2 DEF WorkType
    <2> QED BY <1>4, <2>1, <2>3
  <1>7. CASE LocalFinish(s) /\ ~(\E e : Refuse(s, e))
    <2> DEFINE rows == InsertedMerchant(Inserted(t, r.from, -r.total, b[r.from]), r.total)
    <2>1. Goto(s, "commit") /\ \E a : tx' = [tx EXCEPT ![s] = [rows EXCEPT !.award = a]]
      BY <1>0, <1>7 DEF LocalFinish
    <2>2. rows \in WorkType /\ rows.charge = t.charge
      <3> DEFINE y == -r.total
                 m == b[r.from]
      <3>1. y \in Int /\ m \in Int
        BY <1>2
      <3>2. rows = InsertedMerchant(Inserted(t, r.from, y, m), r.total)
        OBVIOUS
      <3>3. t \in WorkType /\ r.from \in Wallet /\ r.total \in Int
        BY <1>2
      <3> HIDE DEF rows, t, y, m, b, c
      <3> QED BY <3>1, <3>2, <3>3, ChargeColumnPaid
    <2> HIDE DEF rows
    <2>3. \A a : [rows EXCEPT !.award = a].charge = t.charge
      BY <2>2 DEF WorkType
    <2> QED BY <1>4, <2>1, <2>3
  <1>8. CASE MixedLocal(s) /\ ~(\E e : Refuse(s, e))
    <2> DEFINE y == -r.amount
               m == b[r.from]
               up == Updated(t, r.from, y)
               rows == InsertedMerchant(Inserted(up, r.from, y, m), r.amount)
    <2>1. Goto(s, "mixedMain")
          /\ \E a : tx' = [tx EXCEPT ![s] = [rows EXCEPT !.total = r.amount, !.award = a]]
      BY <1>0, <1>8 DEF MixedLocal, Write
    <2>2. rows \in WorkType /\ rows.charge = t.charge
      <3>1. y \in Int /\ m \in Int
        BY <1>2
      <3> HIDE DEF y, m, t
      <3>2. up \in WorkType /\ up.charge = t.charge
        BY <1>2, <3>1, ChargeColumn
      <3>3. rows = InsertedMerchant(Inserted(up, r.from, y, m), r.amount)
        OBVIOUS
      <3> HIDE DEF rows, up
      <3> QED BY <1>2, <3>1, <3>2, <3>3, ChargeColumnPaid
    <2> HIDE DEF rows
    <2>3. \A a : [rows EXCEPT !.total = r.amount, !.award = a].charge = t.charge
      BY <2>2 DEF WorkType
    <2> QED BY <1>4, <2>1, <2>3
  <1>9. CASE MixedMain(s)
    <2> DEFINE y == -(r.total - r.amount)
               m == b[c]
               up == Updated(t, c, y)
               work == InsertedMerchant(Inserted(up, c, y, m), r.amount)
    <2>1. Goto(s, "commit") /\ tx' = [tx EXCEPT ![s] = work]
      BY <1>0, <1>9 DEF MixedMain, Write
    <2>2. work.charge = t.charge
      <3>1. y \in Int /\ m \in Int /\ c \in Wallet
        BY <1>2
      <3> HIDE DEF y, m, t, c
      <3>2. up \in WorkType /\ up.charge = t.charge
        BY <1>2, <3>1, ChargeColumn
      <3>3. work = InsertedMerchant(Inserted(up, c, y, m), r.amount)
        OBVIOUS
      <3> HIDE DEF work, up
      <3> QED BY <1>2, <3>1, <3>2, <3>3, ChargeColumnPaid
    <2> HIDE DEF work
    <2> QED BY <1>4, <2>1, <2>2
  <1> QED BY <1>3, <1>5, <1>6, <1>7, <1>8, <1>9 DEF PaymentStep, PinRejected

(* Every step keeps what all threads are going to add.                     *)
LEMMA NextCounts ==
  ASSUME IInv, BankInv, CountInv, [HNext]_historyVars
  PROVE  CountInv'
  <1>1. [Next]_vars
    BY DEF HNext, historyVars
  <1>2. ASSUME NEW s \in Session, Acts(s) PROVE CountInv'
    <2>1. now' = now
      BY <1>2 DEF Acts, Step, DeadlockAbort, Receive, LockWaitTimeout, Refuse, RollbackWork, Commit,
                  CommitWork, storeVars, TransferStep, PaymentStep, Charge, ChargeDebit,
                  ChargeCredit, Refund, RefundDebit, RefundCredit, Convert, ConvertCharge, Decide,
                  Read, Write, PinRejected, PaymentContext, General, GeneralDebit, GeneralPost,
                  GeneralMerchant, LocalPay, LocalFinish, Mixed, MixedLocal, MixedMain
    <2>2. ASSUME NEW t \in Session, t # s PROVE CountsOf(t)'
      <3>1. pc'[t] = pc[t] /\ req'[t] = req[t] /\ tx'[t] = tx[t]
        BY <1>2, <2>2, OthersLeftAlone DEF LeftAlone
      <3> QED BY <2>1, <3>1 DEF CountInv, CountsOf, ChargeRowsIn
    <2>3. CountsOf(s)'
      <3>1. CountsOf(s)
        BY DEF CountInv
      <3> QED BY <1>2, <3>1, CountsNothing, TransferCounts, PaymentCounts
              DEF Acts, Step, DeadlockAbort
    <2> QED BY <2>2, <2>3 DEF CountInv
  <1>3. CASE Crash
    <2>1. \A s \in Session : pc'[s] = "idle" /\ tx'[s] = NoWork
      BY <1>3 DEF Crash
    <2> QED BY <2>1 DEF CountInv, CountsOf, ChargeRowsIn, NoWork
  <1>4. CASE Tick
    <2>1. now' = now + 1 /\ UNCHANGED <<pc, req, tx>>
      BY <1>4 DEF Tick, threadVars
    <2>2. ASSUME NEW s \in Session PROVE tx[s].at <= now => tx[s].at <= now'
      <3>1. tx[s].at \in Int /\ now \in Int
        BY StoreAssumption DEF IInv, TypeOK, StoreTypeOK, WorkType, Time
      <3> QED BY <2>1, <3>1
    <2> QED BY <2>1, <2>2 DEF CountInv, CountsOf, ChargeRowsIn
  <1>5. CASE Drained \/ UNCHANGED vars
    <2>1. UNCHANGED <<pc, req, tx, now>>
      BY <1>5 DEF Drained, vars, storeVars, threadVars
    <2> QED BY <2>1 DEF CountInv, CountsOf, ChargeRowsIn
  <1> QED BY <1>1, <1>2, <1>3, <1>4, <1>5 DEF Next, Acts

(* Nothing is at work at the start.                                        *)
LEMMA InitCounts ==
  ASSUME HInit
  PROVE  CountInv
  <1>1. \A s \in Session : pc[s] = "idle" /\ tx[s] = NoWork
    BY DEF HInit, Init, StoreInit, ThreadInit
  <1> QED BY <1>1 DEF CountInv, CountsOf, ChargeRowsIn, NoWork
-----------------------------------------------------------------------------
(* The monthly maximum.                                                    *)

Meeting == {"overlap", "negative"}

(* A charge of w that has passed the check fits in the month in which its  *)
(* row is going to be, or has been, inserted.                              *)
Capped(s, w) ==
  req[s].op = "CHARGE" /\ req[s].to = w =>
    /\ pc[s] \in {"chargeDebit", "chargeCredit"} =>
         /\ req[s].amount <= Maximum[w]
         /\ 2 * (principal[w][now] + req[s].amount) <= 2 * Maximum[w] + charges[w][now]
    /\ pc[s] = "commit" =>
         2 * (principal[w][tx[s].at] + req[s].amount) <= 2 * Maximum[w] + charges[w][tx[s].at]

(* The principal charged in month t is within the maximum, and the month's *)
(* total covers it, but for half a won per charge; nothing is charged in a *)
(* month that has not begun.                                               *)
MonthFits(w, t) ==
  /\ 0 <= principal[w][t]
  /\ 2 * principal[w][t] <= 2 * Maximum[w] + charges[w][t]
  /\ 2 * ((100 + Rate(w)) * principal[w][t]) <= 200 * charged[w][MonthOf(t)] + 100 * charges[w][t]
  /\ t > now => principal[w][t] = 0

CapAt(w) ==
  /\ \A t \in Time : MonthFits(w, t)
  /\ \A m \in Month : charged[w][m] >= 0
  /\ \A s \in InService(w) : Capped(s, w)

CapInv ==
  /\ \A w \in Wallet, t \in Time : charges[w][t] \in Nat
  /\ \A w \in Local : lapses[w] \cap Meeting = {} => CapAt(w)

(* One more charge, whose bonus is rounded.                                *)
LEMMA CoverGrows ==
  ASSUME NEW c \in Nat, NEW p \in Nat, NEW k \in Nat, NEW rate \in Nat, NEW a \in Nat,
         2 * ((100 + rate) * p) <= 200 * c + 100 * k
  PROVE  2 * ((100 + rate) * (p + a)) <= 200 * (c + Credited(a, rate)) + 100 * (k + 1)
  <1> DEFINE b == Bonus(a, rate)
             x == a * rate
             y == (100 + rate) * p
  <1>1. x \in Int /\ y \in Int
    OBVIOUS
  <1>2. b \in Int /\ 2 * x + 100 < 2 * (100 * b) + 2 * 100
    <2> HIDE DEF x
    <2>1. RoundHalfUp(x, 100) \in Int
          /\ 2 * x + 100 < 2 * (100 * RoundHalfUp(x, 100)) + 2 * 100
      BY <1>1, RoundNearest
    <2> QED BY <2>1 DEF Bonus, x
  <1>3. (100 + rate) * (p + a) = y + (100 * a + x)
    OBVIOUS
  <1>4. Credited(a, rate) = a + b
    BY DEF Credited
  <1> HIDE DEF b, x
  <1>5. 2 * y <= 200 * c + 100 * k
    OBVIOUS
  <1> HIDE DEF y
  <1> QED BY <1>1, <1>2, <1>3, <1>4, <1>5

(* What the check turns a month's total back into.                         *)
LEMMA CoverIsRead ==
  ASSUME NEW c \in Nat, NEW p \in Nat, NEW k \in Nat, NEW rate \in Nat,
         2 * ((100 + rate) * p) <= 200 * c + 100 * k
  PROVE  RefundValue(c, rate) \in Nat /\ 2 * p <= 2 * RefundValue(c, rate) + k
  <1> DEFINE n == 100 * c
             d == 100 + rate
             v == RoundHalfUp(n, d)
  <1>1. n \in Nat /\ d \in Nat /\ d > 0 /\ 2 * (d * p) <= 2 * n + 100 * k /\ 100 <= d
    OBVIOUS
  <1>2. v \in Int /\ 2 * n + d < 2 * (d * v) + 2 * d
    BY <1>1, RoundNearest
  <1>3. v \in Nat
    BY NatAmounts DEF RefundValue
  <1> HIDE DEF v, n
  <1>4. 100 * k <= d * k
    <2>1. d * k = 100 * k + rate * k /\ rate * k \in Nat
      OBVIOUS
    <2> QED BY <2>1
  <1> HIDE DEF d
  <1>5. 2 * p <= 2 * v + k
    <2> SUFFICES ASSUME ~(2 * p <= 2 * v + k) PROVE FALSE
      OBVIOUS
    <2>1. PICK j \in Nat : 2 * p = 2 * v + k + 1 + j
      <3>1. 2 * p - (2 * v + k + 1) \in Nat
            /\ 2 * p = 2 * v + k + 1 + (2 * p - (2 * v + k + 1))
        BY <1>3
      <3> QED BY <3>1
    <2>2. d * (2 * p) = d * (2 * v + k + 1 + j)
      BY <2>1
    <2>3. d * (2 * p) = 2 * (d * p)
      BY <1>1
    <2>4. d * (2 * v + k + 1 + j) = 2 * (d * v) + d * k + d + d * j
      BY <1>1, <1>3
    <2>5. d * p \in Int /\ d * v \in Int /\ d * k \in Int /\ d * j \in Nat
      BY <1>1, <1>3
    <2> QED BY <1>1, <1>2, <1>4, <2>2, <2>3, <2>4, <2>5
  <1> QED BY <1>3, <1>5 DEF RefundValue, v, n, d

(* The types of what the tables say of months.                             *)
LEMMA MonthTypes ==
  ASSUME IInv
  PROVE  /\ now \in Time /\ now \in Nat
         /\ \A w \in Wallet, t \in Time :
              /\ t \in Nat /\ MonthOf(t) \in Month
              /\ charged[w][MonthOf(t)] \in Int /\ principal[w][t] \in Int
         /\ \A w \in Wallet : Maximum[w] \in Nat /\ Rate(w) \in Nat
  <1>1. now \in Time /\ Time \subseteq Nat
    BY StoreAssumption DEF IInv, TypeOK, StoreTypeOK, Time
  <1>2. \A w \in Wallet, t \in Time : charged[w][MonthOf(t)] \in Int /\ principal[w][t] \in Int
    BY MonthType DEF IInv, TypeOK, StoreTypeOK
  <1> QED BY <1>1, <1>2, MonthType, RateType, StoreAssumption

(* The check of a charge.                                                  *)
LEMMA ChargeCapped ==
  ASSUME IInv, NEW w \in Local, NEW s \in Session, Charge(s), req[s].to = w,
         req[s].amount \in Nat, charges[w][now] \in Nat, MonthFits(w, now),
         charged[w][MonthOf(now)] >= 0, charges'[w][now] = charges[w][now]
  PROVE  Capped(s, w)'
  <1>0. PICK r \in Requests : r = req[s]
    BY Serving DEF Charge
  <1> DEFINE total == charged[w][MonthOf(now)]
             verdict == ChargeVerdict(r.user, r.from, w, r.amount, balance[r.from], total, r.logged)
  <1>1. Decide(s, verdict, Snapshot(r), "chargeDebit")
    BY <1>0 DEF Charge
  <1>2. CASE Refuse(s, verdict)
    <2>1. pc'[s] = "idle"
      BY <1>2 DEF Refuse, Answer, IInv, TypeOK, ThreadTypeOK
    <2> QED BY <2>1 DEF Capped
  <1>3. CASE verdict = "ok" /\ Read(s, Snapshot(r)) /\ Goto(s, "chargeDebit")
    <2>1. /\ UNCHANGED <<principal, now>> /\ pc'[s] = "chargeDebit" /\ req'[s] = r
      BY <1>0, <1>3 DEF Read, Goto, committedVars, IInv, TypeOK, ThreadTypeOK
    <2> HIDE DEF total
    <2> DEFINE p == principal[w][now]
               m == Maximum[w]
               v == RefundValue(total, Rate(w))
               k == charges[w][now]
    <2>2. ~(r.amount > m - v)
      BY <1>3 DEF ChargeVerdict
    <2>3. /\ w \in Wallet /\ now \in Time /\ r.amount \in Nat /\ m \in Nat /\ p \in Nat
          /\ total \in Nat /\ Rate(w) \in Nat /\ k \in Nat
      <3>1. w \in Wallet
        BY DEF Local
      <3> QED BY <1>0, <3>1, MonthTypes DEF total, MonthFits
    <2>4. 2 * ((100 + Rate(w)) * p) <= 200 * total + 100 * k
      BY DEF MonthFits, total
    <2>5. v \in Nat /\ 2 * p <= 2 * v + k
      <3> HIDE DEF p, k
      <3> QED BY <2>3, <2>4, CoverIsRead
    <2>6. r.amount <= m /\ 2 * (p + r.amount) <= 2 * m + k
      <3> HIDE DEF p, m, v, k
      <3> QED BY <2>2, <2>3, <2>5
    <2> QED BY <2>1, <2>6 DEF Capped
  <1> HIDE DEF verdict
  <1> QED BY <1>1, <1>2, <1>3 DEF Decide

(* The legs of a charge; the row has the month in which it is inserted.    *)
LEMMA ChargeLegsCapped ==
  ASSUME IInv, NEW w \in Local, NEW s \in Session, ChargeDebit(s) \/ ChargeCredit(s),
         Capped(s, w), \A t \in Time : charges'[w][t] = charges[w][t]
  PROVE  Capped(s, w)'
  <1>0. PICK r \in Requests : r = req[s]
    BY Serving DEF ChargeDebit, ChargeCredit
  <1>1. UNCHANGED <<principal, now>>
    BY DEF ChargeDebit, ChargeCredit, Write, committedVars
  <1>2. ASSUME NEW l, Goto(s, l) PROVE pc'[s] = l /\ req'[s] = r
    BY <1>0, <1>2 DEF Goto, IInv, TypeOK, ThreadTypeOK
  <1>3. CASE ChargeDebit(s)
    <2>1. pc[s] = "chargeDebit" /\ pc'[s] = "chargeCredit" /\ req'[s] = r
      BY <1>2, <1>3 DEF ChargeDebit
    <2>2. now \in Time
      BY DEF IInv, TypeOK, StoreTypeOK
    <2> QED BY <1>0, <1>1, <2>1, <2>2 DEF Capped
  <1>4. CASE ChargeCredit(s) /\ r.op = "CHARGE"
    <2> DEFINE a == ChargeSource(r)
               x == -ChargeBase(r)
               y == Credited(ChargeBase(r), Rate(r.to))
               m == seen[s].balance[a]
               n == seen[s].balance[r.to]
               rows == Inserted(Inserted(Updated(tx[s], r.to, y), a, x, m), r.to, y, n)
               work == [rows EXCEPT !.charge = y, !.at = now]
    <2>1. pc[s] = "chargeCredit" /\ Goto(s, "commit") /\ tx' = [tx EXCEPT ![s] = work]
      BY <1>0, <1>4 DEF ChargeCredit, Write, ChargeRows, MonthlyAmount
    <2>2. rows \in WorkType
      <3>1. tx[s] \in WorkType /\ a \in Wallet /\ r.to \in Wallet /\ ChargeBase(r) \in Int /\ y \in Int
        BY RequestFields DEF IInv, TypeOK, StoreTypeOK
      <3>2. x \in Int /\ m \in Int /\ n \in Int
        <4>1. seen[s].balance \in [Wallet -> Int]
          BY <2>1, Serving
        <4> HIDE DEF a, y
        <4> QED BY <3>1, <4>1
      <3>3. rows = Inserted(Inserted(Updated(tx[s], r.to, y), a, x, m), r.to, y, n)
        OBVIOUS
      <3> HIDE DEF rows, a, x, y, m, n
      <3> QED BY <3>1, <3>2, <3>3, ChargeColumns
    <2> HIDE DEF rows, y
    <2>3. work.at = now
      BY <2>2 DEF WorkType
    <2> HIDE DEF work
    <2>4. pc'[s] = "commit" /\ req'[s] = r /\ tx'[s] = work
      BY <1>2, <2>1 DEF IInv, TypeOK, StoreTypeOK
    <2>5. now \in Time
      BY DEF IInv, TypeOK, StoreTypeOK
    <2> QED BY <1>0, <1>1, <2>1, <2>3, <2>4, <2>5 DEF Capped
  <1>5. CASE ChargeCredit(s) /\ r.op # "CHARGE"
    <2>1. req'[s] = r
      BY <1>2, <1>5 DEF ChargeCredit
    <2> QED BY <1>5, <2>1 DEF Capped
  <1> QED BY <1>3, <1>4, <1>5

(* The other steps of a handler charge nothing.                            *)
LEMMA OthersCapped ==
  ASSUME IInv, BankInv, NEW w \in Local, NEW s \in Session, Acts(s),
         ~Charge(s), ~ChargeDebit(s), ~ChargeCredit(s), ~Commit(s)
  PROVE  Capped(s, w)'
  <1>1. CASE (\E e : Refuse(s, e)) \/ LockWaitTimeout(s) \/ GeneralMerchant(s)
    <2>1. pc'[s] = "idle"
      BY <1>1 DEF Refuse, Answer, LockWaitTimeout, GeneralMerchant, IInv, TypeOK, ThreadTypeOK
    <2> QED BY <2>1 DEF Capped
  <1>2. CASE \E r \in Requests : Receive(s, r)
    <2>1. pc'[s] \in {"charge", "refund", "convert", "pay"}
      BY <1>2 DEF Receive, Entry, IInv, TypeOK, ThreadTypeOK
    <2> QED BY <2>1 DEF Capped
  <1>3. ASSUME pc[s] \notin {"idle", "charge", "chargeDebit", "chargeCredit", "commit"},
               NEW l, Goto(s, l)
        PROVE  Capped(s, w)'
    <2>1. req'[s] = req[s]
      BY <1>3 DEF Goto
    <2>2. req[s].op # "CHARGE"
      BY <1>3 DEF BankInv, OnItsWay, LabelsOf
    <2> QED BY <2>1, <2>2 DEF Capped
  <1>4. CASE TransferStep(s) /\ ~(\E e : Refuse(s, e))
    <2>1. pc[s] \notin {"idle", "charge", "chargeDebit", "chargeCredit", "commit"}
      BY <1>4 DEF TransferStep, Refund, RefundDebit, RefundCredit, Convert, ConvertCharge
    <2>2. PICK l : Goto(s, l)
      BY <1>4 DEF TransferStep, Decide, Refund, RefundDebit, RefundCredit, Convert, ConvertCharge
    <2> QED BY <1>3, <2>1, <2>2
  <1>5. CASE PaymentStep(s) /\ ~(\E e : Refuse(s, e)) /\ ~GeneralMerchant(s)
    <2>1. pc[s] \notin {"idle", "charge", "chargeDebit", "chargeCredit", "commit"}
      BY <1>5 DEF PaymentStep, PinRejected, PaymentContext, General, GeneralDebit, GeneralPost,
                  LocalPay, LocalFinish, Mixed, MixedLocal, MixedMain
    <2>2. PICK l : Goto(s, l)
      BY <1>5 DEF PaymentStep, PinRejected, PaymentContext, General, GeneralDebit, GeneralPost,
                  LocalPay, LocalFinish, Mixed, MixedLocal, MixedMain
    <2> QED BY <1>3, <2>1, <2>2
  <1> QED BY <1>1, <1>2, <1>4, <1>5 DEF Acts, Step, DeadlockAbort

(* A commit adds a charge to the total and the principal of its month.     *)
LEMMA CommitMonths ==
  ASSUME IInv, CountInv, NEW s \in Session, Commit(s)
  PROVE  /\ \A w \in Wallet, m \in Month :
              charged'[w][m] = charged[w][m]
                + IF req[s].op = "CHARGE" /\ w = req[s].to /\ m = MonthOf(tx[s].at)
                  THEN Credited(req[s].amount, Rate(req[s].to)) ELSE 0
         /\ \A w \in Wallet, t \in Time :
              principal'[w][t] = principal[w][t]
                + IF req[s].op = "CHARGE" /\ w = req[s].to /\ t = tx[s].at
                  THEN req[s].amount ELSE 0
  <1>0. PICK r \in Requests : r = req[s]
    BY Serving DEF Commit
  <1> DEFINE a == tx[s].at
             k == tx[s].charge
  <1>1. /\ charged' = [charged EXCEPT ![r.to][MonthOf(a)] = @ + k]
        /\ principal' = IF r.op # "CHARGE" THEN principal
                        ELSE [principal EXCEPT ![r.to][a] = @ + r.amount]
    BY <1>0 DEF Commit, CommitWork
  <1>2. /\ a \in Time /\ k \in Int /\ r.to \in Wallet /\ r.amount \in Int
        /\ charged \in [Wallet -> [Month -> Int]] /\ principal \in [Wallet -> [Time -> Int]]
    <2>1. tx[s] \in WorkType
      BY DEF IInv, TypeOK, StoreTypeOK
    <2> QED BY <2>1, RequestFields DEF WorkType, IInv, TypeOK, StoreTypeOK
  <1>3. k = IF r.op = "CHARGE" THEN Credited(r.amount, Rate(r.to)) ELSE 0
    BY <1>0 DEF CountInv, CountsOf, ChargeRowsIn, Commit
  <1> HIDE DEF k
  <1>4. ASSUME NEW w \in Wallet, NEW m \in Month
        PROVE  charged'[w][m] = charged[w][m] + (IF w = r.to /\ m = MonthOf(a) THEN k ELSE 0)
    BY <1>1, <1>2, MonthType
  <1>5. ASSUME NEW w \in Wallet, NEW t \in Time
        PROVE  principal'[w][t] = principal[w][t] +
                 (IF r.op = "CHARGE" /\ w = r.to /\ t = a THEN r.amount ELSE 0)
    BY <1>1, <1>2
  <1>6. ASSUME NEW w \in Wallet, NEW m \in Month
        PROVE  charged'[w][m] = charged[w][m] +
                 (IF r.op = "CHARGE" /\ w = r.to /\ m = MonthOf(a)
                  THEN Credited(r.amount, Rate(r.to)) ELSE 0)
    BY <1>3, <1>4
  <1> QED BY <1>0, <1>5, <1>6

(* What happens to the months of a wallet in a step of a thread.           *)
LEMMA MonthsMove ==
  ASSUME IInv, BankInv, CountInv, HNext, NEW s \in Session, Acts(s), NEW w \in Wallet,
         \A t \in Time : charges[w][t] \in Nat
  PROVE  /\ now' = now
         /\ \A t \in Time :
              charges'[w][t] = charges[w][t]
                + IF Commit(s) /\ req[s].op = "CHARGE" /\ req[s].to = w /\ tx[s].at = t
                  THEN 1 ELSE 0
         /\ ~Commit(s) =>
              /\ charged' = charged /\ principal' = principal
              /\ \A t \in Time : charges'[w][t] = charges[w][t]
  <1>1. now' = now /\ (~Commit(s) => charged' = charged /\ principal' = principal)
    BY DEF Acts, Step, DeadlockAbort, Receive, LockWaitTimeout, Refuse, RollbackWork, Commit,
           CommitWork, storeVars, committedVars, TransferStep, PaymentStep, Charge, ChargeDebit,
           ChargeCredit, Refund, RefundDebit, RefundCredit, Convert, ConvertCharge, Decide,
           Read, Write, PinRejected, PaymentContext, General, GeneralDebit, GeneralPost,
           GeneralMerchant, LocalPay, LocalFinish, Mixed, MixedLocal, MixedMain
  <1>2. ASSUME NEW u \in Session, NEW t \in Time, ChargeCommitted(u, w, t)
        PROVE  u = s /\ Commit(s)
    <2>1. u = s
      BY <1>2, OthersLeftAlone DEF LeftAlone, ChargeCommitted
    <2>2. pc[s] = "commit" /\ reply'[s] = "ok"
      BY <1>2, <2>1 DEF ChargeCommitted
    <2>3. ~DeadlockAbort(s) /\ ~LockWaitTimeout(s)
      BY <2>2 DEF DeadlockAbort, Refuse, Answer, LockWaitTimeout, IInv, TypeOK, ThreadTypeOK
    <2>4. ~TransferStep(s) /\ ~PaymentStep(s) /\ ~(\E r \in Requests : Receive(s, r))
      BY <2>2 DEF Receive, TransferStep, PaymentStep, Charge, ChargeDebit, ChargeCredit, Refund,
                  RefundDebit, RefundCredit, Convert, ConvertCharge, PinRejected, PaymentContext,
                  General, GeneralDebit, GeneralPost, GeneralMerchant, LocalPay, LocalFinish,
                  Mixed, MixedLocal, MixedMain
    <2> QED BY <2>1, <2>3, <2>4 DEF Acts, Step
  <1>3. ASSUME NEW t \in Time, Commit(s)
        PROVE  ChargeCommitted(s, w, t) <=> req[s].op = "CHARGE" /\ req[s].to = w /\ tx[s].at = t
    <2>1. pc[s] = "commit" /\ pc'[s] = "idle" /\ reply'[s] = "ok"
      BY <1>3 DEF Commit, Answer, IInv, TypeOK, ThreadTypeOK
    <2> QED BY <2>1 DEF ChargeCommitted
  <1>4. charges' = [v \in Wallet |-> [t \in Time |->
                      charges[v][t] + IF \E u \in Session : ChargeCommitted(u, v, t) THEN 1 ELSE 0]]
    BY DEF HNext
  <1>5. ASSUME NEW t \in Time
        PROVE  charges'[w][t] = charges[w][t] +
                 (IF Commit(s) /\ req[s].op = "CHARGE" /\ req[s].to = w /\ tx[s].at = t
                  THEN 1 ELSE 0)
    <2>1. (\E u \in Session : ChargeCommitted(u, w, t)) <=>
            Commit(s) /\ req[s].op = "CHARGE" /\ req[s].to = w /\ tx[s].at = t
      BY <1>2, <1>3
    <2>2. charges'[w][t] = charges[w][t] +
            (IF \E u \in Session : ChargeCommitted(u, w, t) THEN 1 ELSE 0)
      BY <1>4
    <2> QED BY <2>1, <2>2
  <1>6. ASSUME ~Commit(s), NEW t \in Time PROVE charges'[w][t] = charges[w][t]
    <2>1. charges'[w][t] = charges[w][t] + 0 /\ charges[w][t] \in Nat
      BY <1>5, <1>6
    <2> QED BY <2>1
  <1> QED BY <1>1, <1>5, <1>6
-----------------------------------------------------------------------------
(* Who charges a wallet, and when.                                         *)

(* One more charge of month t that fits.                                   *)
LEMMA MonthAdded ==
  ASSUME IInv, NEW w \in Local, NEW t \in Time, NEW a \in Nat, t <= now, now' = now,
         charges[w][t] \in Nat, charged[w][MonthOf(t)] >= 0, MonthFits(w, t),
         2 * (principal[w][t] + a) <= 2 * Maximum[w] + charges[w][t],
         charged'[w][MonthOf(t)] = charged[w][MonthOf(t)] + Credited(a, Rate(w)),
         principal'[w][t] = principal[w][t] + a, charges'[w][t] = charges[w][t] + 1
  PROVE  MonthFits(w, t)'
  <1> DEFINE c == charged[w][MonthOf(t)]
             p == principal[w][t]
             k == charges[w][t]
             rate == Rate(w)
             m == Maximum[w]
             y == Credited(a, rate)
  <1>1. /\ c \in Nat /\ p \in Nat /\ k \in Nat /\ rate \in Nat /\ m \in Nat /\ y \in Nat
        /\ t \in Nat /\ now \in Nat
    <2>1. w \in Wallet
      BY DEF Local
    <2>2. c \in Nat /\ p \in Nat /\ k \in Nat /\ rate \in Nat /\ m \in Nat /\ t \in Nat /\ now \in Nat
      BY <2>1, MonthTypes DEF MonthFits
    <2> QED BY <2>2, NatAmounts
  <1>2. 2 * ((100 + rate) * p) <= 200 * c + 100 * k /\ 2 * (p + a) <= 2 * m + k
    BY DEF MonthFits
  <1>3. charged'[w][MonthOf(t)] = c + y /\ principal'[w][t] = p + a /\ charges'[w][t] = k + 1
    OBVIOUS
  <1> HIDE DEF c, p, k, rate, m, y
  <1>4. 2 * ((100 + rate) * (p + a)) <= 200 * (c + y) + 100 * (k + 1)
    BY <1>1, <1>2, CoverGrows DEF y
  <1>5. 0 <= p + a /\ 2 * (p + a) <= 2 * m + (k + 1)
    BY <1>1, <1>2
  <1>6. ~(t > now')
    BY <1>1
  <1> QED BY <1>3, <1>4, <1>5, <1>6 DEF MonthFits, rate, m

(* A month whose total has perhaps grown, by a charge of another year.     *)
LEMMA MonthStays ==
  ASSUME IInv, NEW w \in Local, NEW t \in Time, NEW x \in Nat, now' = now,
         charges[w][t] \in Nat, MonthFits(w, t),
         charged'[w][MonthOf(t)] = charged[w][MonthOf(t)] + x,
         principal'[w][t] = principal[w][t], charges'[w][t] = charges[w][t]
  PROVE  MonthFits(w, t)'
  <1> DEFINE c == charged[w][MonthOf(t)]
             k == charges[w][t]
             n == 2 * ((100 + Rate(w)) * principal[w][t])
  <1>1. c \in Int /\ k \in Nat /\ n \in Int /\ n <= 200 * c + 100 * k
    <2>1. w \in Wallet
      BY DEF Local
    <2>2. principal[w][t] \in Int /\ Rate(w) \in Nat /\ c \in Int
      BY <2>1, MonthTypes
    <2>3. n <= 200 * c + 100 * k
      BY DEF MonthFits
    <2> QED BY <2>2, <2>3
  <1>2. n <= 200 * (c + x) + 100 * k
    <2> HIDE DEF n, c, k
    <2> QED BY <1>1
  <1> QED BY <1>2 DEF MonthFits

(* The thread that uses the wallet, until it commits.                      *)
LEMMA OwnCapped ==
  ASSUME IInv, BankInv, LapseInv, NEW w \in Local, lapses[w] \cap Meeting = {},
         \A t \in Time : charges[w][t] \in Nat, CapAt(w), NEW s \in InService(w), Acts(s),
         ~Commit(s), \A t \in Time : charges'[w][t] = charges[w][t]
  PROVE  Capped(s, w)'
  <1>1. s \in Session /\ w \in Wallet /\ Capped(s, w) /\ now \in Time /\ req[s].amount \in Nat
    BY NotNegative DEF InService, Local, CapAt, Meeting, IInv, TypeOK, StoreTypeOK
  <1>2. CASE Charge(s) /\ req[s].to = w
    <2>1. MonthFits(w, now) /\ charged[w][MonthOf(now)] >= 0
      BY <1>1, MonthType DEF CapAt
    <2> QED BY <1>1, <1>2, <2>1, ChargeCapped
  <1>3. CASE Charge(s) /\ req[s].to # w
    <2>1. (\E e : Refuse(s, e)) \/ \E l : Goto(s, l)
      BY <1>3 DEF Charge, Decide
    <2>2. pc'[s] = "idle" \/ req'[s] = req[s]
      BY <1>1, <2>1 DEF Refuse, Answer, Goto, IInv, TypeOK, ThreadTypeOK
    <2> QED BY <1>3, <2>2 DEF Capped
  <1>4. CASE ChargeDebit(s) \/ ChargeCredit(s)
    BY <1>1, <1>4, ChargeLegsCapped
  <1>5. CASE ~Charge(s) /\ ~ChargeDebit(s) /\ ~ChargeCredit(s)
    BY <1>1, <1>5, OthersCapped
  <1> QED BY <1>2, <1>3, <1>4, <1>5

(* Its commit.                                                             *)
LEMMA CommitFits ==
  ASSUME IInv, BankInv, LapseInv, CountInv, HNext, NEW w \in Local, lapses[w] \cap Meeting = {},
         \A t \in Time : charges[w][t] \in Nat, CapAt(w), NEW s \in InService(w), Commit(s)
  PROVE  CapAt(w)'
  <1>1. s \in Session /\ w \in Wallet /\ Capped(s, w) /\ Acts(s) /\ pc[s] = "commit"
    BY DEF InService, Local, CapAt, Acts, Step, Commit
  <1> DEFINE r == req[s]
             mine == r.op = "CHARGE" /\ r.to = w
             y == Credited(r.amount, Rate(w))
             at == tx[s].at
  <1>2. r.amount \in Nat /\ y \in Nat
    <2>1. r.amount \in Nat
      BY <1>1, NotNegative DEF Meeting
    <2>2. Rate(w) \in Nat
      BY <1>1, MonthTypes
    <2> QED BY <2>1, <2>2, NatAmounts
  <1>3. /\ \A m \in Month : charged'[w][m] = charged[w][m]
              + IF mine /\ m = MonthOf(at) THEN y ELSE 0
        /\ \A t \in Time : principal'[w][t] = principal[w][t]
              + IF mine /\ t = at THEN r.amount ELSE 0
    <2>1. \A m \in Month : charged'[w][m] = charged[w][m]
            + IF r.op = "CHARGE" /\ w = r.to /\ m = MonthOf(at) THEN Credited(r.amount, Rate(r.to)) ELSE 0
      BY <1>1, CommitMonths
    <2>2. \A t \in Time : principal'[w][t] = principal[w][t]
            + IF r.op = "CHARGE" /\ w = r.to /\ t = at THEN r.amount ELSE 0
      BY <1>1, CommitMonths
    <2> QED BY <2>1, <2>2
  <1>4. now' = now /\ \A t \in Time : charges'[w][t] = charges[w][t] + IF mine /\ at = t THEN 1 ELSE 0
    BY <1>1, MonthsMove
  <1>5. /\ \A t \in Time : charges[w][t] \in Nat /\ MonthFits(w, t) /\ MonthOf(t) \in Month
        /\ \A m \in Month : charged[w][m] >= 0 /\ charged[w][m] \in Int
        /\ \A t \in Time : principal[w][t] \in Int
    BY <1>1, MonthType DEF CapAt, IInv, TypeOK, StoreTypeOK
  <1>6. mine => at <= now /\ 2 * (principal[w][at] + r.amount) <= 2 * Maximum[w] + charges[w][at]
    BY <1>1 DEF CountInv, CountsOf, ChargeRowsIn, Capped
  <1> HIDE DEF r, y, at, mine
  <1>7. ASSUME NEW t \in Time PROVE MonthFits(w, t)'
    <2>1. CASE mine /\ t = at
      <3>1. /\ charged'[w][MonthOf(t)] = charged[w][MonthOf(t)] + Credited(r.amount, Rate(w))
            /\ principal'[w][t] = principal[w][t] + r.amount
            /\ charges'[w][t] = charges[w][t] + 1
        BY <1>3, <1>4, <1>5, <2>1 DEF y
      <3> QED BY <1>2, <1>4, <1>5, <1>6, <2>1, <3>1, MonthAdded
    <2>2. CASE ~(mine /\ t = at)
      <3>1. PICK x \in Nat : charged'[w][MonthOf(t)] = charged[w][MonthOf(t)] + x
        BY <1>2, <1>3, <1>5
      <3>2. principal'[w][t] = principal[w][t] + 0 /\ charges'[w][t] = charges[w][t] + 0
        BY <1>3, <1>4, <2>2
      <3>3. principal'[w][t] = principal[w][t] /\ charges'[w][t] = charges[w][t]
        BY <1>5, <3>2
      <3> QED BY <1>4, <1>5, <3>1, <3>3, MonthStays
    <2> QED BY <2>1, <2>2
  <1>8. \A m \in Month : charged'[w][m] >= 0
    BY <1>2, <1>3, <1>5
  <1>9. InService(w)' = {}
    <2>1. pc'[s] = "idle"
      BY <1>1 DEF Commit, Answer, IInv, TypeOK, ThreadTypeOK
    <2>2. ASSUME NEW t \in InService(w)' PROVE FALSE
      <3>1. t \in Session /\ pc'[t] # "idle"
        BY DEF InService
      <3>2. t # s
        BY <2>1, <3>1
      <3>3. t \in InService(w)
        BY <1>1, <3>1, <3>2, StillInService
      <3> QED BY <1>1, <3>2, <3>3, Alone DEF Meeting
    <2> QED BY <2>2
  <1> QED BY <1>7, <1>8, <1>9 DEF CapAt

(* A thread that does not use the wallet charges nothing to it.            *)
LEMMA OthersCharge ==
  ASSUME IInv, BankInv, CountInv, HNext, NEW s \in Session, Acts(s), NEW w \in Wallet,
         s \notin InService(w), \A t \in Time : charges[w][t] \in Nat
  PROVE  /\ \A m \in Month : charged'[w][m] = charged[w][m]
         /\ \A t \in Time : principal'[w][t] = principal[w][t] /\ charges'[w][t] = charges[w][t]
  <1>1. CASE Commit(s)
    <2> DEFINE r == req[s]
    <2>1. ~(r.op = "CHARGE" /\ r.to = w)
      <3> SUFFICES ASSUME r.op = "CHARGE", r.to = w PROVE FALSE
        OBVIOUS
      <3>1. Permitted(r, "commit") /\ pc[s] = "commit"
        BY <1>1, CommitEffect DEF Commit
      <3>2. Owner[w] = r.user
        BY <3>1 DEF Permitted
      <3> QED BY <3>1, <3>2 DEF InService, Uses, TransferOps
    <2>2. \A m \in Month : charged'[w][m] = charged[w][m] + 0
      BY <1>1, <2>1, CommitMonths
    <2>3. \A t \in Time : principal'[w][t] = principal[w][t] + 0
      BY <1>1, <2>1, CommitMonths
    <2>4. \A t \in Time : charges'[w][t] = charges[w][t] + 0
      BY <2>1, MonthsMove
    <2>5. /\ \A m \in Month : charged[w][m] \in Int
          /\ \A t \in Time : principal[w][t] \in Int
      BY DEF IInv, TypeOK, StoreTypeOK
    <2> QED BY <2>2, <2>3, <2>4, <2>5
  <1>2. CASE ~Commit(s)
    BY <1>2, MonthsMove
  <1> QED BY <1>1, <1>2

(* Months stay as they are while nothing is charged.                       *)
LEMMA CapStays ==
  ASSUME IInv, NEW w \in Local, CapAt(w), now' = now,
         \A m \in Month : charged'[w][m] = charged[w][m],
         \A t \in Time : principal'[w][t] = principal[w][t] /\ charges'[w][t] = charges[w][t],
         \A s \in InService(w)' : Capped(s, w)'
  PROVE  CapAt(w)'
  <1>1. ASSUME NEW t \in Time PROVE MonthFits(w, t)'
    <2>1. MonthFits(w, t) /\ MonthOf(t) \in Month
      BY MonthType DEF CapAt
    <2> QED BY <2>1 DEF MonthFits
  <1> QED BY <1>1 DEF CapAt

(* Every step of a thread.                                                 *)
LEMMA ActsCapped ==
  ASSUME IInv, BankInv, LapseInv, CountInv, HNext, NEW w \in Local, lapses[w] \cap Meeting = {},
         \A t \in Time : charges[w][t] \in Nat, CapAt(w), NEW s \in Session, Acts(s)
  PROVE  CapAt(w)'
  <1>0. w \in Wallet /\ now \in Time
    BY DEF Local, IInv, TypeOK, StoreTypeOK
  <1>1. now' = now
    BY <1>0, MonthsMove
  <1>2. CASE s \in InService(w) /\ Commit(s)
    BY <1>2, CommitFits
  <1>3. CASE s \in InService(w) /\ ~Commit(s)
    <2>1. /\ charged' = charged /\ principal' = principal
          /\ \A t \in Time : charges'[w][t] = charges[w][t]
      BY <1>0, <1>3, MonthsMove
    <2>2. Capped(s, w)'
      BY <1>3, <2>1, OwnCapped
    <2>3. ASSUME NEW t \in InService(w)' PROVE t = s
      <3>1. t \in Session
        BY DEF InService
      <3> QED BY <1>0, <1>3, <3>1, StillInService, Alone DEF Meeting
    <2> QED BY <1>1, <2>1, <2>2, <2>3, CapStays
  <1>4. CASE s \notin InService(w)
    <2>1. /\ \A m \in Month : charged'[w][m] = charged[w][m]
          /\ \A t \in Time : principal'[w][t] = principal[w][t] /\ charges'[w][t] = charges[w][t]
      BY <1>0, <1>4, OthersCharge
    <2>2. ASSUME NEW t \in InService(w)', t # s PROVE Capped(t, w)'
      <3>1. t \in Session /\ t \in InService(w)
        BY <1>0, <2>2, StillInService DEF InService
      <3>2. pc'[t] = pc[t] /\ req'[t] = req[t] /\ tx'[t] = tx[t]
        BY <2>2, <3>1, OthersLeftAlone DEF LeftAlone
      <3>3. Capped(t, w) /\ tx[t].at \in Time
        BY <3>1 DEF CapAt, IInv, TypeOK, StoreTypeOK, WorkType
      <3> QED BY <1>0, <1>1, <2>1, <3>2, <3>3 DEF Capped
    <2>3. ASSUME s \in InService(w)' PROVE Capped(s, w)'
      <3>1. pc'[s] \in Entries
        BY <1>0, <1>4, <2>3, TakenUp
      <3> QED BY <3>1 DEF Capped, Entries
    <2> QED BY <1>1, <2>1, <2>2, <2>3, CapStays
  <1> QED BY <1>2, <1>3, <1>4

(* A new month has room for what the check of the last one admitted.       *)
LEMMA TickCapped ==
  ASSUME IInv, LapseInv, CountInv, NEW w \in Local, lapses[w] \cap Meeting = {},
         \A t \in Time : charges[w][t] \in Nat, CapAt(w), Tick,
         \A t \in Time : charges'[w][t] = charges[w][t]
  PROVE  CapAt(w)'
  <1>0. w \in Wallet
    BY DEF Local
  <1>1. /\ now' = now + 1 /\ now < MaxTime /\ UNCHANGED <<charged, principal, pc, req, tx>>
    BY DEF Tick, committedVars, threadVars
  <1>2. now' \in Time /\ now' > now /\ now \in Nat /\ now' \in Nat
    BY <1>1, MonthTypes, StoreAssumption DEF Time
  <1>3. ASSUME NEW t \in Time PROVE MonthFits(w, t)'
    <2>1. MonthFits(w, t) /\ t \in Nat
      BY <1>0, MonthTypes DEF CapAt
    <2>2. t > now' => t > now
      BY <1>1, <1>2, <2>1
    <2> QED BY <1>1, <2>1, <2>2 DEF MonthFits
  <1>4. ASSUME NEW s \in InService(w)' PROVE Capped(s, w)'
    <2> DEFINE r == req[s]
    <2>1. s \in InService(w) /\ s \in Session
      BY <1>1, <1>4 DEF InService, Uses
    <2>2. Capped(s, w) /\ r.amount \in Nat /\ Maximum[w] \in Nat /\ charges[w][now'] \in Nat
      BY <1>0, <1>2, <2>1, NotNegative, MonthTypes DEF CapAt, Meeting
    <2>3. principal[w][now'] = 0
      BY <1>2 DEF CapAt, MonthFits
    <2>4. r.amount <= Maximum[w] =>
            2 * (principal[w][now'] + r.amount) <= 2 * Maximum[w] + charges[w][now']
      <3> HIDE DEF r
      <3> QED BY <2>2, <2>3
    <2>5. tx[s].at \in Time
      BY <2>1 DEF IInv, TypeOK, StoreTypeOK, WorkType
    <2> QED BY <1>1, <1>2, <2>2, <2>4, <2>5 DEF Capped
  <1> QED BY <1>1, <1>3, <1>4 DEF CapAt

(* Every step keeps the months within their maximum.                       *)
LEMMA NextCapped ==
  ASSUME IInv, BankInv, LapseInv, CountInv, CapInv, [HNext]_historyVars
  PROVE  CapInv'
  <1>1. CASE UNCHANGED historyVars
    <2>1. UNCHANGED <<charged, principal, charges, now, pc, req, tx, lapses>>
      BY <1>1 DEF historyVars, vars, storeVars, committedVars, threadVars
    <2>2. \A w \in Wallet : InService(w)' = InService(w)
      BY <2>1 DEF InService, Uses
    <2>3. \A w \in Local : w \in Wallet
      BY DEF Local
    <2> QED BY <2>1, <2>2, <2>3 DEF CapInv, CapAt, MonthFits, Capped
  <1>2. CASE HNext
    <2>1. ASSUME NEW w \in Wallet, NEW t \in Time
          PROVE  /\ charges[w][t] \in Nat /\ charges'[w][t] \in Nat
                 /\ (\A s \in Session : ~ChargeCommitted(s, w, t)) => charges'[w][t] = charges[w][t]
      <3>1. charges'[w][t] = charges[w][t]
              + IF \E s \in Session : ChargeCommitted(s, w, t) THEN 1 ELSE 0
        BY <1>2 DEF HNext
      <3>2. charges[w][t] \in Nat
        BY DEF CapInv
      <3> QED BY <3>1, <3>2
    <2> SUFFICES ASSUME NEW w \in Local, lapses'[w] \cap Meeting = {}
                 PROVE  CapAt(w)'
      BY <2>1 DEF CapInv
    <2>2. w \in Wallet
      BY DEF Local
    <2>3. lapses[w] \cap Meeting = {}
      BY <2>2, NextLapses
    <2>4. CapAt(w)
      BY <2>3 DEF CapInv
    <2>5. CASE \E s \in Session : Acts(s)
      BY <1>2, <2>1, <2>2, <2>3, <2>4, <2>5, ActsCapped
    <2>6. CASE Crash
      <3>1. UNCHANGED <<charged, principal, now>> /\ \A s \in Session : pc'[s] = "idle"
        BY <2>6 DEF Crash, committedVars
      <3>2. \A s \in Session, t \in Time : ~ChargeCommitted(s, w, t)
        BY <2>6 DEF Crash, ChargeCommitted
      <3> QED BY <2>1, <2>2, <2>4, <3>1, <3>2, CapStays DEF InService
    <2>7. CASE Tick
      <3>1. pc' = pc
        BY <2>7 DEF Tick, threadVars
      <3>2. \A s \in Session, t \in Time : ~ChargeCommitted(s, w, t)
        BY <3>1 DEF ChargeCommitted
      <3> QED BY <2>1, <2>2, <2>3, <2>4, <2>7, <3>2, TickCapped
    <2>8. CASE Drained
      <3>1. UNCHANGED <<charged, principal, now>> /\ \A s \in Session : pc'[s] = "idle"
        BY <2>8 DEF Drained, AllIdle, vars, storeVars, committedVars, threadVars
      <3>2. \A s \in Session, t \in Time : ~ChargeCommitted(s, w, t)
        BY <2>8 DEF Drained, AllIdle, ChargeCommitted
      <3> QED BY <2>1, <2>2, <2>4, <3>1, <3>2, CapStays DEF InService
    <2>9. Next
      BY <1>2 DEF HNext
    <2> QED BY <2>5, <2>6, <2>7, <2>8, <2>9 DEF Next, Acts
  <1> QED BY <1>1, <1>2

(* Nothing has been charged at the start.                                  *)
LEMMA InitCapped ==
  ASSUME HInit
  PROVE  CapInv
  <1>1. /\ \A w \in Wallet, t \in Time : principal[w][t] = 0 /\ charges[w][t] = 0
        /\ \A w \in Wallet, m \in Month : charged[w][m] = 0
        /\ \A s \in Session : pc[s] = "idle"
    BY DEF HInit, Init, StoreInit, ThreadInit
  <1>2. ASSUME NEW w \in Local PROVE CapAt(w)
    <2>1. w \in Wallet /\ Maximum[w] \in Nat /\ Rate(w) \in Nat
      BY StoreAssumption, RateType DEF Local
    <2>2. ASSUME NEW t \in Time PROVE MonthFits(w, t)
      <3>1. charged[w][MonthOf(t)] = 0 /\ principal[w][t] = 0 /\ charges[w][t] = 0
        BY <1>1, <2>1, MonthType
      <3> QED BY <2>1, <3>1 DEF MonthFits
    <2> QED BY <1>1, <2>1, <2>2 DEF CapAt, InService
  <1> QED BY <1>1, <1>2 DEF CapInv

(* The charges of a calendar month stay within the maximum but for half a  *)
(* won per charge, on every wallet on which no two requests met and no     *)
(* negative amount was sent, whatever is charged, refunded and converted   *)
(* and whenever the month ends: the check reads the month's total, bonuses *)
(* included, and turns it back into the principal to half a won.           *)
THEOREM MonthlyMaximumHolds == HSpec => []CappedUnlessCareless
  <1>1. HInit => CountInv /\ CapInv
    BY InitCounts, InitCapped
  <1>2. IInv /\ BankInv /\ LapseInv /\ CountInv /\ CapInv /\ [HNext]_historyVars
          => CountInv' /\ CapInv'
    BY NextCounts, NextCapped
  <1>3. CapInv => CappedUnlessCareless
    BY DEF CapInv, CapAt, MonthFits, CappedUnlessCareless, Meeting
  <1> QED BY <1>1, <1>2, <1>3, LapsesAreNoted, PTL DEF HSpec

=============================================================================
