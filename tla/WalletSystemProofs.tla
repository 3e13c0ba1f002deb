------------------------- MODULE WalletSystemProofs -------------------------
(***************************************************************************)
(* Proofs about WalletSystem, for every set of members, wallets, threads   *)
(* and requests and for every bound.                                       *)
(***************************************************************************)
EXTENDS WalletSystem, TLAPS

-----------------------------------------------------------------------------
(* The rounding arithmetic of Money, for every amount and percentage.      *)

(* Rounding is to the nearest integer, ties upwards: the quotient n / d    *)
(* differs from Math.round's result by half at most.                       *)
LEMMA RoundNearest ==
  ASSUME NEW n \in Int, NEW d \in Nat, d > 0
  PROVE  /\ RoundHalfUp(n, d) \in Int
         /\ 2 * (d * RoundHalfUp(n, d)) <= 2 * n + d
         /\ 2 * n + d < 2 * (d * RoundHalfUp(n, d)) + 2 * d
  <1> DEFINE a == 2 * n + d
             b == 2 * d
             q == a \div b
  <1>1. a \in Int /\ b \in Int /\ b > 0
    OBVIOUS
  <1>2. q \in Int /\ b * q <= a /\ a < b * q + b
    <2> HIDE DEF a, b
    <2> QED BY <1>1
  <1>3. b * q = 2 * (d * q)
    BY <1>2
  <1> QED BY <1>1, <1>2, <1>3 DEF RoundHalfUp

(* Bonus, credit and refund value of an amount are integers.               *)
LEMMA AmountTypes ==
  ASSUME NEW a \in Int, NEW p \in Nat
  PROVE  /\ Bonus(a, p) \in Int
         /\ Credited(a, p) \in Int
         /\ RefundValue(a, p) \in Int
  <1>1. a * p \in Int /\ 100 * a \in Int /\ 100 + p \in Nat /\ 100 + p > 0
    OBVIOUS
  <1>2. Bonus(a, p) \in Int
    BY <1>1, RoundNearest DEF Bonus
  <1>3. RefundValue(a, p) \in Int
    BY <1>1, RoundNearest DEF RefundValue
  <1> QED BY <1>2, <1>3 DEF Credited

(* A number within half a unit of n / d, strictly, is what n / d rounds to. *)
LEMMA RoundUnique ==
  ASSUME NEW n \in Int, NEW d \in Nat, d > 0, NEW k \in Int,
         2 * (d * k) <= 2 * n + d, 2 * n + d < 2 * (d * k) + 2 * d
  PROVE  RoundHalfUp(n, d) = k
  <1> DEFINE q == RoundHalfUp(n, d)
  <1>1. q \in Int /\ 2 * (d * q) <= 2 * n + d /\ 2 * n + d < 2 * (d * q) + 2 * d
    BY RoundNearest
  <1> HIDE DEF q
  <1>2. d * q < d * k + d /\ d * k < d * q + d
    BY <1>1
  <1>3. d * k + d = d * (k + 1) /\ d * q + d = d * (q + 1)
    BY <1>1
  <1>4. q < k + 1
    <2>1. ~(q >= k + 1)
      <3> SUFFICES ASSUME q >= k + 1 PROVE FALSE
        OBVIOUS
      <3>1. PICK m \in Nat : q = (k + 1) + m
        <4>1. q - (k + 1) \in Nat /\ q = (k + 1) + (q - (k + 1))
          BY <1>1
        <4> QED BY <4>1
      <3>2. d * m \in Nat /\ d * q = d * (k + 1) + d * m
        BY <3>1
      <3> QED BY <1>1, <1>2, <1>3, <3>2
    <2> QED BY <2>1, <1>1
  <1>5. k < q + 1
    <2>1. ~(k >= q + 1)
      <3> SUFFICES ASSUME k >= q + 1 PROVE FALSE
        OBVIOUS
      <3>1. PICK m \in Nat : k = (q + 1) + m
        <4>1. k - (q + 1) \in Nat /\ k = (q + 1) + (k - (q + 1))
          BY <1>1
        <4> QED BY <4>1
      <3>2. d * m \in Nat /\ d * k = d * (q + 1) + d * m
        BY <1>1, <3>1
      <3> QED BY <1>1, <1>2, <1>3, <3>2
    <2> QED BY <2>1, <1>1
  <1>6. q = k
    BY <1>1, <1>4, <1>5
  <1> QED BY <1>6 DEF q

(* Refunding exactly what a charge credited gives back exactly the         *)
(* principal, for every percentage: RefundProcessor undoes                 *)
(* RechargeProcessor although both round.                                  *)
THEOREM RefundUndoesCharge ==
  ASSUME NEW a \in Int, NEW p \in Nat
  PROVE  RefundValue(Credited(a, p), p) = a
  <1> DEFINE b == Bonus(a, p)
             c == Credited(a, p)
             x == a * p
  <1>1. x \in Int
    OBVIOUS
  <1>2. b \in Int /\ 2 * (100 * b) <= 2 * x + 100 /\ 2 * x + 100 < 2 * (100 * b) + 2 * 100
    BY <1>1, RoundNearest DEF Bonus
  <1>3. c = a + b /\ c \in Int /\ 100 * c \in Int
    BY <1>2 DEF Credited
  <1>4. (100 + p) * a = 100 * a + x
    OBVIOUS
  <1>5. 100 + p \in Nat /\ 100 + p > 0
    OBVIOUS
  <1>6. 2 * ((100 + p) * a) <= 2 * (100 * c) + (100 + p)
    <2> HIDE DEF b, c, x
    <2> QED BY <1>1, <1>2, <1>3, <1>4
  <1>7. 2 * (100 * c) + (100 + p) < 2 * ((100 + p) * a) + 2 * (100 + p)
    <2>1. CASE p = 0
      <3>1. x = 0
        BY <2>1
      <3>2. b = 0
        BY <1>2, <3>1
      <3> QED BY <2>1, <3>1, <3>2, <1>3
    <2>2. CASE p > 0
      <3> HIDE DEF b, c, x
      <3> QED BY <2>2, <1>1, <1>2, <1>3, <1>4
    <2> QED BY <2>1, <2>2
  <1> QED
    <2> HIDE DEF c
    <2> QED BY <1>3, <1>5, <1>6, <1>7, RoundUnique DEF RefundValue, c

-----------------------------------------------------------------------------
(* Types of the request fields and of the amounts computed from them.      *)

(* The percentage in the formulas is a natural number: RechargeProcessor   *)
(* and RefundProcessor fall back to 0.                                     *)
LEMMA RateType ==
  ASSUME NEW w \in Wallet
  PROVE  Rate(w) \in Nat
  BY WalletsAssumption DEF Rate

(* The wallets and amounts that the transfer processors derive from a      *)
(* request are wallets and integers.                                       *)
LEMMA RequestFields ==
  ASSUME NEW r \in Requests
  PROVE  /\ r.op \in TransferOps \cup PaymentOps
         /\ r.user \in User /\ r.from \in Wallet /\ r.to \in Wallet
         /\ r.amount \in Int /\ r.total \in Int
         /\ CashOf[r.user] \in Wallet
         /\ ChargeSource(r) \in Wallet /\ RefundTarget(r) \in Wallet
         /\ ChargeBase(r) \in Int
         /\ Credited(ChargeBase(r), Rate(r.to)) \in Int
         /\ RefundValue(r.amount, Rate(r.from)) \in Int
  <1>1. r \in RequestType
    BY RequestsAssumption
  <1>2. /\ r.op \in TransferOps \cup PaymentOps
        /\ r.user \in User /\ r.from \in Wallet /\ r.to \in Wallet
        /\ r.amount \in Int /\ r.total \in Int
    BY <1>1 DEF RequestType
  <1>3. \A u \in User : CashOf[u] \in Wallet
    BY WalletsAssumption
  <1>4. Owner[r.from] \in User /\ Pct[r.from] \in Nat
    BY <1>2, WalletsAssumption
  <1>5. ConvertBase(r) \in Int
    BY <1>2, <1>4, AmountTypes DEF ConvertBase
  <1>6. ChargeBase(r) \in Int
    BY <1>2, <1>5 DEF ChargeBase
  <1>7. Credited(ChargeBase(r), Rate(r.to)) \in Int
    BY <1>2, <1>6, RateType, AmountTypes
  <1>8. RefundValue(r.amount, Rate(r.from)) \in Int
    BY <1>2, RateType, AmountTypes
  <1>9. ChargeSource(r) \in Wallet /\ RefundTarget(r) \in Wallet
    BY <1>2, <1>3, <1>4 DEF ChargeSource, RefundTarget
  <1> QED BY <1>2, <1>3, <1>6, <1>7, <1>8, <1>9

-----------------------------------------------------------------------------
(* Changes of balances and a transaction's work.                           *)

(* Legs and their sums are functions from wallets to integers.             *)
LEMMA LegPlus ==
  /\ Nothing \in [Wallet -> Int]
  /\ \A w \in Wallet, x \in Int : Leg(w, x) \in [Wallet -> Int]
  /\ \A f, g \in [Wallet -> Int] : Plus(f, g) \in [Wallet -> Int]
  BY DEF Nothing, Leg, Plus

(* A connection without an open transaction is well typed.                 *)
LEMMA NoWorkType == NoWork \in WorkType
  <1>1. 0 \in Time
    BY StoreAssumption DEF Time
  <1> QED BY <1>1, LegPlus DEF NoWork, WorkType

(* What an UPDATE, a member row and a merchant row do to a transaction's   *)
(* work.                                                                   *)
LEMMA WorkTypes ==
  ASSUME NEW t \in WorkType, NEW w \in Wallet, NEW x \in Int, NEW before \in Int,
         NEW n \in Int
  PROVE  /\ Updated(t, w, x) \in WorkType
         /\ Inserted(t, w, x, before) \in WorkType
         /\ InsertedMerchant(t, n) \in WorkType
         /\ Updated(t, w, x).delta = Plus(t.delta, Leg(w, x))
         /\ Updated(t, w, x).posts = t.posts
         /\ Inserted(t, w, x, before).delta = t.delta
         /\ Inserted(t, w, x, before).posts = Plus(t.posts, Leg(w, x))
         /\ InsertedMerchant(t, n).delta = t.delta
         /\ InsertedMerchant(t, n).posts = t.posts
  <1>1. /\ t.delta \in [Wallet -> Int] /\ t.posts \in [Wallet -> Int]
        /\ t.after \in [Wallet -> Int] /\ t.merchant \in Int
    BY DEF WorkType
  <1>2. /\ Plus(t.delta, Leg(w, x)) \in [Wallet -> Int]
        /\ Plus(t.posts, Leg(w, x)) \in [Wallet -> Int]
    BY <1>1, LegPlus
  <1>3. [t.after EXCEPT ![w] = before + x] \in [Wallet -> Int]
    BY <1>1
  <1>4. Updated(t, w, x) \in WorkType
    BY <1>2 DEF Updated, WorkType
  <1>5. Inserted(t, w, x, before) \in WorkType
    BY <1>2, <1>3 DEF Inserted, WorkType
  <1>6. InsertedMerchant(t, n) \in WorkType
    BY <1>1 DEF InsertedMerchant, WorkType
  <1>7. /\ Updated(t, w, x).delta = Plus(t.delta, Leg(w, x))
        /\ Updated(t, w, x).posts = t.posts
    BY DEF Updated, WorkType
  <1>8. /\ Inserted(t, w, x, before).delta = t.delta
        /\ Inserted(t, w, x, before).posts = Plus(t.posts, Leg(w, x))
    BY DEF Inserted, WorkType
  <1>9. /\ InsertedMerchant(t, n).delta = t.delta
        /\ InsertedMerchant(t, n).posts = t.posts
    BY DEF InsertedMerchant, WorkType
  <1> QED BY <1>4, <1>5, <1>6, <1>7, <1>8, <1>9

-----------------------------------------------------------------------------
(* What the kinds of steps preserve.                                       *)

(* Adding no change changes nothing.                                       *)
LEMMA PlusNothing ==
  ASSUME NEW f \in [Wallet -> Int]
  PROVE  Plus(f, Nothing) = f
  BY DEF Plus, Nothing

(* A thread whose label, request and work stay put keeps its rows matched. *)
LEMMA OthersKeep ==
  ASSUME NEW t \in Session, RowsMatch(t),
         pc'[t] = pc[t], req'[t] = req[t], tx'[t] = tx[t]
  PROVE  RowsMatch(t)'
  <1>1. Owed(t)' = Owed(t)
    BY DEF Owed
  <1> QED BY <1>1 DEF RowsMatch

(* A thread without uncommitted work, outside transactions, is matched.    *)
LEMMA NoWorkMatches ==
  ASSUME NEW t \in Session, tx'[t] = NoWork,
         pc'[t] = "idle" \/ (pc'[t] \in Labels \ InTransaction /\ req'[t] \in Requests),
         pc'[t] \in {"localPay", "localFinish"} => req'[t].amount = req'[t].total
  PROVE  RowsMatch(t)'
  <1>1. Owed(t)' = Nothing
    BY DEF Owed, InTransaction
  <1>2. NoWork.delta = Nothing /\ NoWork.posts = Nothing
    BY DEF NoWork
  <1>3. Plus(Nothing, Nothing) = Nothing
    BY LegPlus, PlusNothing
  <1>4. pc'[t] \notin InTransaction
    BY DEF InTransaction
  <1> QED BY <1>1, <1>2, <1>3, <1>4 DEF RowsMatch

(* A rollback and an error answer, for whatever reason.                    *)
LEMMA AbortPreserves ==
  ASSUME IInv, NEW s \in Session, NEW e \in Errors, RollbackWork(s),
         pc' = [pc EXCEPT ![s] = "idle"],
         req' = [req EXCEPT ![s] = NoRequest],
         reply' = [reply EXCEPT ![s] = e],
         UNCHANGED served, faults' \in 0 .. MaxFaults
  PROVE  IInv'
  <1> USE DEF RollbackWork, committedVars
  <1>1. NothingSeen \in SeenType
    BY LegPlus DEF NothingSeen, SeenType
  <1>2. Unlocked(s) \in [Wallet -> Session \cup {NoSession}]
    BY DEF Unlocked, IInv, TypeOK, StoreTypeOK
  <1>3. StoreTypeOK'
    BY <1>1, <1>2, NoWorkType DEF IInv, TypeOK, StoreTypeOK
  <1>4. ThreadTypeOK'
    BY DEF IInv, TypeOK, ThreadTypeOK, Labels, Replies
  <1>5. BooksBalance'
    BY DEF IInv, BooksBalance
  <1>6. LockDiscipline'
    <2>1. ASSUME NEW t \in Session, NEW w \in Wallet, tx'[t].delta[w] # 0
          PROVE  lock'[w] = t
      <3>1. t # s
        BY <2>1 DEF NoWork, Nothing, IInv, TypeOK, StoreTypeOK
      <3>2. lock[w] = t
        BY <2>1, <3>1 DEF IInv, TypeOK, StoreTypeOK, LockDiscipline
      <3> QED BY <3>1, <3>2 DEF Unlocked
    <2>2. ASSUME NEW w \in Wallet, lock'[w] # NoSession
          PROVE  pc'[lock'[w]] \in InTransaction
      <3>1. lock[w] # s /\ lock'[w] = lock[w]
        BY <2>2 DEF Unlocked
      <3>2. lock[w] \in Session /\ pc[lock[w]] \in InTransaction
        BY <2>2, <3>1 DEF IInv, LockDiscipline, TypeOK, StoreTypeOK
      <3> QED BY <3>1, <3>2 DEF IInv, TypeOK, ThreadTypeOK
    <2> QED BY <2>1, <2>2 DEF LockDiscipline
  <1>7. RowsMatchUpdates'
    <2> SUFFICES ASSUME NEW t \in Session PROVE RowsMatch(t)'
      BY DEF RowsMatchUpdates
    <2>1. CASE t = s
      BY <2>1, NoWorkMatches DEF IInv, TypeOK, StoreTypeOK, ThreadTypeOK
    <2>2. CASE t # s
      BY <2>2, OthersKeep DEF IInv, TypeOK, StoreTypeOK, ThreadTypeOK, RowsMatchUpdates
    <2> QED BY <2>1, <2>2
  <1> QED BY <1>3, <1>4, <1>5, <1>6, <1>7 DEF IInv, TypeOK

(* An exception leaves a handler.                                          *)
LEMMA RefusePreserves ==
  ASSUME IInv, NEW s \in Session, NEW e \in Errors, Refuse(s, e)
  PROVE  IInv'
  BY AbortPreserves DEF Refuse, Answer, IInv, TypeOK, ThreadTypeOK

(* A group of reads: only what the thread has seen moves.                  *)
LEMMA ReadPreserves ==
  ASSUME IInv, NEW s \in Session, NEW view \in SeenType,
         NEW label \in Labels \ {"idle", "chargeCredit", "refundCredit", "localFinish"},
         Read(s, view), Goto(s, label),
         pc[s] # "idle", Owed(s) = Nothing,
         pc[s] \in InTransaction => label \in InTransaction,
         label = "localPay" => req[s].amount = req[s].total
  PROVE  IInv'
  <1> USE DEF Read, Goto, committedVars
  <1>1. StoreTypeOK'
    BY DEF IInv, TypeOK, StoreTypeOK
  <1>2. ThreadTypeOK'
    BY DEF IInv, TypeOK, ThreadTypeOK
  <1>3. BooksBalance'
    BY DEF IInv, BooksBalance
  <1>4. LockDiscipline'
    BY DEF IInv, TypeOK, ThreadTypeOK, StoreTypeOK, LockDiscipline
  <1>5. RowsMatchUpdates'
    <2> SUFFICES ASSUME NEW t \in Session PROVE RowsMatch(t)'
      BY DEF RowsMatchUpdates
    <2>1. CASE t = s
      <3>1. Owed(s)' = Nothing
        BY DEF Owed, IInv, TypeOK, ThreadTypeOK
      <3>2. pc'[s] = label /\ RowsMatch(s)
        BY DEF IInv, TypeOK, ThreadTypeOK, RowsMatchUpdates
      <3> QED BY <2>1, <3>1, <3>2 DEF RowsMatch
    <2>2. CASE t # s
      BY <2>2, OthersKeep DEF IInv, TypeOK, StoreTypeOK, ThreadTypeOK, RowsMatchUpdates
    <2> QED BY <2>1, <2>2
  <1> QED BY <1>1, <1>2, <1>3, <1>4, <1>5 DEF IInv, TypeOK

(* A statement under a row lock: what it does to the work of its thread    *)
(* must account for the leg the next label owes.                           *)
LEMMA WritePreserves ==
  ASSUME IInv, NEW s \in Session, NEW w \in Wallet, NEW work \in WorkType,
         NEW label \in InTransaction,
         Write(s, w, work), Goto(s, label), pc[s] # "idle",
         \A v \in Wallet \ {w} : work.delta[v] = tx[s].delta[v],
         work.delta = Plus(work.posts, Owed(s)'),
         label = "localFinish" => req[s].amount = req[s].total
  PROVE  IInv'
  <1> USE DEF Write, Lock, Goto, committedVars
  <1>1. StoreTypeOK'
    BY DEF IInv, TypeOK, StoreTypeOK
  <1>2. ThreadTypeOK'
    BY DEF IInv, TypeOK, ThreadTypeOK, Labels, InTransaction, TransferLabels, PaymentLabels
  <1>3. BooksBalance'
    BY DEF IInv, BooksBalance
  <1>4. tx'[s] = work /\ lock'[w] = s /\ pc'[s] = label
    BY DEF IInv, TypeOK, StoreTypeOK, ThreadTypeOK
  <1>5. LockDiscipline'
    <2>1. ASSUME NEW t \in Session, NEW v \in Wallet, tx'[t].delta[v] # 0
          PROVE  lock'[v] = t
      <3>1. CASE t = s
        BY <2>1, <3>1, <1>4 DEF IInv, TypeOK, StoreTypeOK, LockDiscipline
      <3>2. CASE t # s
        <4>1. lock[v] = t
          BY <2>1, <3>2 DEF IInv, TypeOK, StoreTypeOK, LockDiscipline
        <4>2. v # w
          BY <4>1, <3>2, StoreAssumption DEF Free
        <4> QED BY <4>1, <4>2
      <3> QED BY <3>1, <3>2
    <2>2. ASSUME NEW v \in Wallet, lock'[v] # NoSession
          PROVE  pc'[lock'[v]] \in InTransaction
      <3>1. CASE lock'[v] = s
        BY <3>1, <1>4
      <3>2. CASE lock'[v] # s
        <4>1. v # w /\ lock'[v] = lock[v]
          BY <3>2, <1>4 DEF IInv, TypeOK, StoreTypeOK
        <4>2. lock[v] \in Session /\ pc[lock[v]] \in InTransaction
          BY <2>2, <4>1 DEF IInv, LockDiscipline, TypeOK, StoreTypeOK
        <4> QED BY <3>2, <4>1, <4>2 DEF IInv, TypeOK, ThreadTypeOK
      <3> QED BY <3>1, <3>2
    <2> QED BY <2>1, <2>2 DEF LockDiscipline
  <1>6. RowsMatchUpdates'
    <2> SUFFICES ASSUME NEW t \in Session PROVE RowsMatch(t)'
      BY DEF RowsMatchUpdates
    <2>1. CASE t = s
      <3>1. req'[s] \in Requests
        BY DEF IInv, RowsMatchUpdates, RowsMatch
      <3> QED BY <2>1, <3>1, <1>4 DEF RowsMatch, InTransaction
    <2>2. CASE t # s
      BY <2>2, OthersKeep DEF IInv, TypeOK, StoreTypeOK, ThreadTypeOK, RowsMatchUpdates
    <2> QED BY <2>1, <2>2
  <1> QED BY <1>1, <1>2, <1>3, <1>5, <1>6 DEF IInv, TypeOK

(* Adding to one entry of a function keeps it a function to integers.      *)
LEMMA AddAt ==
  ASSUME NEW B, NEW g \in [B -> Int], NEW b \in B, NEW n \in Int
  PROVE  [g EXCEPT ![b] = @ + n] \in [B -> Int]
  OBVIOUS

(* The month of any moment of the run is one of the twelve.                *)
LEMMA MonthType ==
  ASSUME NEW t \in Time
  PROVE  MonthOf(t) \in Month
  <1>1. t \in Nat
    BY StoreAssumption DEF Time
  <1>2. t % 12 \in 0 .. 11
    BY <1>1
  <1> QED BY <1>2 DEF MonthOf, Month, MonthsPerYear

(* A commit: its rows account for all its updates.                         *)
LEMMA CommitPreserves ==
  ASSUME IInv, NEW s \in Session, Commit(s)
  PROVE  IInv'
  <1> DEFINE r == req[s]
             t == tx[s]
  <1> USE DEF Commit, CommitWork, Answer
  <1>1. /\ r \in Requests
        /\ t \in WorkType
        /\ t.delta = t.posts
    <2>1. pc[s] = "commit" /\ RowsMatch(s) /\ t \in WorkType
      BY DEF IInv, TypeOK, StoreTypeOK, RowsMatchUpdates
    <2>2. Owed(s) = Nothing
      BY <2>1 DEF Owed
    <2> QED BY <2>1, <2>2, PlusNothing DEF RowsMatch, WorkType
  <1>2. /\ r.user \in User /\ r.from \in Wallet /\ r.to \in Wallet
        /\ r.amount \in Int /\ r.total \in Int
    BY <1>1, RequestFields
  <1>3. /\ t.delta \in [Wallet -> Int] /\ t.posts \in [Wallet -> Int]
        /\ t.after \in [Wallet -> Int] /\ t.merchant \in Int /\ t.total \in Int
        /\ t.charge \in Int /\ t.at \in Time /\ t.award \in Grade \cup {"none"}
    BY <1>1 DEF WorkType
  <1>4. StoreTypeOK'
    <2> HIDE DEF r, t
    <2>1. balance' \in [Wallet -> Int] /\ posted' \in [Wallet -> Int]
      BY <1>3, LegPlus DEF IInv, TypeOK, StoreTypeOK, t
    <2>2. lastAfter' \in [Wallet -> Int]
      BY <1>3 DEF IInv, TypeOK, StoreTypeOK, t
    <2>3. totalPayment' \in [Wallet -> Int]
      BY <1>2, <1>3 DEF IInv, TypeOK, StoreTypeOK, t, r
    <2>4. charged' \in [Wallet -> [Month -> Int]]
      <3> DEFINE m == MonthOf(t.at)
      <3>1. m \in Month
        BY <1>3, MonthType
      <3>2. charged[r.to] \in [Month -> Int]
        BY <1>2 DEF IInv, TypeOK, StoreTypeOK
      <3>3. [charged[r.to] EXCEPT ![m] = @ + t.charge] \in [Month -> Int]
        BY <1>3, <3>1, <3>2, AddAt
      <3>4. charged' = [charged EXCEPT ![r.to] = [charged[r.to] EXCEPT ![m] = @ + t.charge]]
        BY <1>2 DEF IInv, TypeOK, StoreTypeOK, r, t
      <3> QED BY <3>3, <3>4 DEF IInv, TypeOK, StoreTypeOK
    <2>5. principal' \in [Wallet -> [Time -> Int]]
      <3>1. [principal[r.to] EXCEPT ![t.at] = @ + r.amount] \in [Time -> Int]
        BY <1>2, <1>3, AddAt DEF IInv, TypeOK, StoreTypeOK
      <3>2. \/ principal' = principal
            \/ principal' = [principal EXCEPT ![r.to] =
                                 [principal[r.to] EXCEPT ![t.at] = @ + r.amount]]
        BY <1>2 DEF IInv, TypeOK, StoreTypeOK, r, t
      <3> QED BY <3>1, <3>2 DEF IInv, TypeOK, StoreTypeOK
    <2>6. merchantPosted' \in Int /\ paid' \in Int
      BY <1>2, <1>3 DEF IInv, TypeOK, StoreTypeOK, t, r
    <2>7. badges' \in [User -> [Badge -> [Grade -> Nat]]]
      <3> DEFINE b == BadgeOf[r.from]
      <3>1. CASE t.award = "none"
        BY <3>1 DEF IInv, TypeOK, StoreTypeOK, t, r
      <3>2. CASE t.award # "none"
        <4>1. t.award \in Grade /\ badges[r.user] \in [Badge -> [Grade -> Nat]]
          BY <3>2, <1>2, <1>3 DEF IInv, TypeOK, StoreTypeOK
        <4>2. [badges[r.user] EXCEPT ![b][t.award] = @ + 1] \in [Badge -> [Grade -> Nat]]
          <5>1. CASE b \in Badge
            <6>1. badges[r.user][b] \in [Grade -> Nat]
              BY <5>1, <4>1
            <6>2. [badges[r.user][b] EXCEPT ![t.award] = @ + 1] \in [Grade -> Nat]
              BY <6>1, <4>1
            <6> QED BY <6>2, <4>1
          <5>2. CASE b \notin Badge
            BY <5>2, <4>1
          <5> QED BY <5>1, <5>2
        <4>3. badges' = [badges EXCEPT ![r.user] = [badges[r.user] EXCEPT ![b][t.award] = @ + 1]]
          BY <3>2, <1>2 DEF IInv, TypeOK, StoreTypeOK, t, r
        <4> QED BY <4>2, <4>3 DEF IInv, TypeOK, StoreTypeOK
      <3> QED BY <3>1, <3>2
    <2>8. lock' \in [Wallet -> Session \cup {NoSession}]
      BY DEF Unlocked, IInv, TypeOK, StoreTypeOK
    <2>9. tx' \in [Session -> WorkType]
      BY NoWorkType DEF IInv, TypeOK, StoreTypeOK
    <2>10. seen' \in [Session -> SeenType]
      <3>1. NothingSeen \in SeenType
        BY LegPlus DEF NothingSeen, SeenType
      <3> QED BY <3>1 DEF IInv, TypeOK, StoreTypeOK
    <2>11. now' \in Time /\ unposted' \in [Wallet -> Int]
      BY DEF IInv, TypeOK, StoreTypeOK
    <2> QED BY <2>1, <2>2, <2>3, <2>4, <2>5, <2>6, <2>7, <2>8, <2>9, <2>10, <2>11
            DEF StoreTypeOK
  <1>5. ThreadTypeOK'
    BY DEF IInv, TypeOK, ThreadTypeOK, Labels, Replies
  <1>6. BooksBalance'
    <2> SUFFICES ASSUME NEW w \in Wallet
                 PROVE  balance'[w] = Opening[w] + posted'[w] - unposted'[w]
      BY DEF BooksBalance
    <2>1. /\ balance'[w] = balance[w] + t.delta[w]
          /\ posted'[w] = posted[w] + t.posts[w]
          /\ unposted'[w] = unposted[w]
      BY DEF Plus
    <2>2. balance[w] = Opening[w] + posted[w] - unposted[w]
      BY DEF IInv, BooksBalance
    <2> HIDE DEF t
    <2>3. posted[w] \in Int /\ unposted[w] \in Int
      BY DEF IInv, TypeOK, StoreTypeOK
    <2>4. Opening[w] \in Int /\ t.posts[w] \in Int /\ t.delta[w] = t.posts[w]
      BY <1>1, <1>3, WalletsAssumption
    <2> QED BY <2>1, <2>2, <2>3, <2>4
  <1>7. LockDiscipline'
    <2>1. ASSUME NEW v \in Session, NEW w \in Wallet, tx'[v].delta[w] # 0
          PROVE  lock'[w] = v
      <3>1. v # s
        BY <2>1 DEF NoWork, Nothing, IInv, TypeOK, StoreTypeOK
      <3>2. lock[w] = v
        BY <2>1, <3>1 DEF IInv, TypeOK, StoreTypeOK, LockDiscipline
      <3> QED BY <3>1, <3>2 DEF Unlocked
    <2>2. ASSUME NEW w \in Wallet, lock'[w] # NoSession
          PROVE  pc'[lock'[w]] \in InTransaction
      <3>1. lock[w] # s /\ lock'[w] = lock[w]
        BY <2>2 DEF Unlocked
      <3>2. lock[w] \in Session /\ pc[lock[w]] \in InTransaction
        BY <2>2, <3>1 DEF IInv, LockDiscipline, TypeOK, StoreTypeOK
      <3> QED BY <3>1, <3>2 DEF IInv, TypeOK, ThreadTypeOK
    <2> QED BY <2>1, <2>2 DEF LockDiscipline
  <1>8. RowsMatchUpdates'
    <2> SUFFICES ASSUME NEW v \in Session PROVE RowsMatch(v)'
      BY DEF RowsMatchUpdates
    <2>1. CASE v = s
      BY <2>1, NoWorkMatches DEF IInv, TypeOK, StoreTypeOK, ThreadTypeOK
    <2>2. CASE v # s
      BY <2>2, OthersKeep DEF IInv, TypeOK, StoreTypeOK, ThreadTypeOK, RowsMatchUpdates
    <2> QED BY <2>1, <2>2
  <1> QED BY <1>4, <1>5, <1>6, <1>7, <1>8 DEF IInv, TypeOK


-----------------------------------------------------------------------------
(* The transfers.                                                          *)

(* What a request reads from the tables is well typed.                     *)
LEMMA SnapshotType ==
  ASSUME IInv, NEW r \in Requests
  PROVE  Snapshot(r) \in SeenType
  <1>1. r.user \in User /\ r.from \in Wallet /\ r.to \in Wallet
    BY RequestFields
  <1>2. HeldBy(r) \in [Grade -> Nat]
    <2>1. CASE BadgeOf[r.from] = NoBadge
      BY <2>1 DEF HeldBy
    <2>2. CASE BadgeOf[r.from] # NoBadge
      <3>1. BadgeOf[r.from] \in Badge
        BY <1>1, <2>2, StoreAssumption
      <3> QED BY <1>1, <2>2, <3>1 DEF HeldBy, IInv, TypeOK, StoreTypeOK
    <2> QED BY <2>1, <2>2
  <1> QED BY <1>1, <1>2 DEF Snapshot, SeenType, IInv, TypeOK, StoreTypeOK

(* What holds of the request and the work of a thread that is serving.     *)
LEMMA Serving ==
  ASSUME IInv, NEW s \in Session, pc[s] # "idle"
  PROVE  /\ req[s] \in Requests
         /\ tx[s] \in WorkType /\ seen[s] \in SeenType
         /\ tx[s].delta = Plus(tx[s].posts, Owed(s))
         /\ tx[s].delta \in [Wallet -> Int] /\ tx[s].posts \in [Wallet -> Int]
         /\ seen[s].balance \in [Wallet -> Int]
         /\ tx[s].merchant \in Int /\ tx[s].total \in Int
  BY DEF IInv, TypeOK, StoreTypeOK, RowsMatchUpdates, RowsMatch, WorkType, SeenType

(* A processor's checks: refused with their verdict, or read and go on.    *)
LEMMA DecidePreserves ==
  ASSUME IInv, NEW s \in Session, NEW verdict \in Errors \cup {"ok"}, NEW view \in SeenType,
         NEW label \in Labels \ {"idle", "chargeCredit", "refundCredit", "localFinish", "localPay"},
         Decide(s, verdict, view, label),
         pc[s] # "idle", Owed(s) = Nothing,
         pc[s] \in InTransaction => label \in InTransaction
  PROVE  IInv'
  <1>1. CASE verdict # "ok" /\ Refuse(s, verdict)
    BY <1>1, RefusePreserves
  <1>2. CASE verdict = "ok" /\ Read(s, view) /\ Goto(s, label)
    BY <1>2, ReadPreserves
  <1> QED BY <1>1, <1>2 DEF Decide

(* The first step of a charge, refund or conversion, and the second round  *)
(* of checks in the middle of a conversion.                                *)
LEMMA TransferReads ==
  ASSUME IInv, NEW s \in Session, Charge(s) \/ Refund(s) \/ Convert(s) \/ ConvertCharge(s)
  PROVE  IInv'
  <1>1. pc[s] # "idle" /\ Owed(s) = Nothing
    BY DEF Charge, Refund, Convert, ConvertCharge, Owed
  <1>2. Snapshot(req[s]) \in SeenType
    BY <1>1, Serving, SnapshotType
  <1>3. /\ "chargeDebit" \in Labels /\ "refundDebit" \in Labels
        /\ "chargeDebit" \in InTransaction
        /\ "charge" \notin InTransaction /\ "refund" \notin InTransaction
        /\ "convert" \notin InTransaction
    BY DEF Labels, TransferLabels, InTransaction
  <1>4. CASE Charge(s)
    <2>1. ChargeVerdict(req[s].user, req[s].from, req[s].to, req[s].amount, balance[req[s].from],
                        charged[req[s].to][MonthOf(now)], req[s].logged) \in Errors \cup {"ok"}
      BY DEF ChargeVerdict, Errors
    <2> QED BY <1>1, <1>2, <1>3, <1>4, <2>1, DecidePreserves DEF Charge
  <1>5. CASE Refund(s)
    <2>1. RefundVerdict(req[s].user, req[s].from, req[s].to, req[s].amount,
                        balance[req[s].from]) \in Errors \cup {"ok"}
      BY DEF RefundVerdict, Errors
    <2> QED BY <1>1, <1>2, <1>3, <1>5, <2>1, DecidePreserves DEF Refund
  <1>6. CASE Convert(s)
    <2>1. ConvertVerdict(req[s]) \in Errors \cup {"ok"}
      BY DEF ConvertVerdict, RefundVerdict, Errors
    <2> QED BY <1>1, <1>2, <1>3, <1>6, <2>1, DecidePreserves DEF Convert
  <1>7. CASE ConvertCharge(s)
    <2> DEFINE r == req[s]
               view == [seen[s] EXCEPT !.balance = [w \in Wallet |-> View(s, w)]]
               verdict == ChargeVerdict(r.user, ChargeSource(r), r.to, ConvertBase(r),
                             View(s, ChargeSource(r)), seen[s].charged[MonthOf(now)], FALSE)
    <2>1. verdict \in Errors \cup {"ok"}
      BY DEF ChargeVerdict, Errors
    <2>2. [w \in Wallet |-> View(s, w)] \in [Wallet -> Int]
      <3> SUFFICES ASSUME NEW w \in Wallet PROVE View(s, w) \in Int
        OBVIOUS
      <3>1. tx[s].delta[w] \in Int /\ seen[s].balance[w] \in Int
        BY <1>1, Serving
      <3>2. balance[w] \in Int
        BY DEF IInv, TypeOK, StoreTypeOK
      <3> QED BY <3>1, <3>2 DEF View
    <2>3. view \in SeenType
      <3>1. seen[s] \in SeenType
        BY <1>1, Serving
      <3> QED BY <2>2, <3>1 DEF SeenType
    <2>4. Decide(s, verdict, view, "chargeDebit")
      BY <1>7 DEF ConvertCharge
    <2> HIDE DEF verdict, view
    <2> QED BY <1>1, <1>3, <2>1, <2>3, <2>4, DecidePreserves
  <1> QED BY <1>4, <1>5, <1>6, <1>7

(* Sums of changes commute and associate.                                  *)
LEMMA PlusLaws ==
  ASSUME NEW f \in [Wallet -> Int], NEW g \in [Wallet -> Int], NEW h \in [Wallet -> Int]
  PROVE  /\ Plus(Plus(f, g), h) = Plus(Plus(f, h), g)
         /\ Plus(Plus(f, Nothing), g) = Plus(f, g)
         /\ Plus(Plus(Plus(f, g), h), Nothing) = Plus(Plus(f, g), h)
         /\ Plus(Plus(f, g), Nothing) = Plus(f, g)
  BY DEF Plus, Nothing

(* A leg leaves the other wallets alone.                                   *)
LEMMA LegElsewhere ==
  ASSUME NEW f \in [Wallet -> Int], NEW w \in Wallet, NEW x \in Int
  PROVE  \A v \in Wallet \ {w} : Plus(f, Leg(w, x))[v] = f[v]
  BY DEF Plus, Leg

(* An UPDATE adds its leg to the work's delta and to nothing else.         *)
LEMMA UpdatedType ==
  ASSUME NEW t \in WorkType, NEW w \in Wallet, NEW x \in Int
  PROVE  /\ Updated(t, w, x) \in WorkType
         /\ Updated(t, w, x).delta = Plus(t.delta, Leg(w, x))
         /\ Updated(t, w, x).posts = t.posts
  <1>1. 0 \in Int
    OBVIOUS
  <1> QED BY <1>1, WorkTypes

(* A row adds its leg to the work's posts and to nothing else.             *)
LEMMA InsertedType ==
  ASSUME NEW t \in WorkType, NEW w \in Wallet, NEW x \in Int, NEW before \in Int
  PROVE  /\ Inserted(t, w, x, before) \in WorkType
         /\ Inserted(t, w, x, before).delta = t.delta
         /\ Inserted(t, w, x, before).posts = Plus(t.posts, Leg(w, x))
  <1>1. 0 \in Int
    OBVIOUS
  <1> QED BY <1>1, WorkTypes

(* The first leg of a transfer: the row for it is still owed.              *)
LEMMA FirstLeg ==
  ASSUME IInv, NEW s \in Session, ChargeDebit(s) \/ RefundDebit(s)
  PROVE  IInv'
  <1> DEFINE r == req[s]
             t == tx[s]
  <1>1. /\ pc[s] # "idle" /\ Owed(s) = Nothing
        /\ r \in Requests /\ t \in WorkType /\ t.delta = Plus(t.posts, Nothing)
        /\ t.delta \in [Wallet -> Int] /\ t.posts \in [Wallet -> Int]
    <2>1. pc[s] # "idle" /\ Owed(s) = Nothing
      BY DEF ChargeDebit, RefundDebit, Owed
    <2> QED BY <2>1, Serving
  <1>2. ASSUME NEW w \in Wallet, NEW x \in Int, NEW label \in {"chargeCredit", "refundCredit"},
               Write(s, w, Updated(t, w, x)), Goto(s, label),
               Owed(s)' = Leg(w, x)
        PROVE  IInv'
    <2> DEFINE work == Updated(t, w, x)
    <2>1. work \in WorkType /\ work.delta = Plus(t.delta, Leg(w, x)) /\ work.posts = t.posts
      BY <1>1, <1>2, WorkTypes
    <2>2. Leg(w, x) \in [Wallet -> Int]
      BY <1>2, LegPlus
    <2>3. work.delta = Plus(work.posts, Owed(s)')
      BY <1>1, <1>2, <2>1, <2>2, PlusLaws
    <2>4. \A v \in Wallet \ {w} : work.delta[v] = t.delta[v]
      BY <1>1, <1>2, <2>1, LegElsewhere
    <2>5. label \in InTransaction /\ label # "localFinish"
      BY <1>2 DEF InTransaction
    <2>6. Write(s, w, work) /\ Goto(s, label)
      BY <1>2
    <2> HIDE DEF work
    <2> QED BY <1>1, <2>1, <2>3, <2>4, <2>5, <2>6, WritePreserves
  <1>3. CASE ChargeDebit(s)
    <2>1. ChargeSource(r) \in Wallet /\ -ChargeBase(r) \in Int
      BY <1>1, RequestFields
    <2>2. Write(s, ChargeSource(r), Updated(t, ChargeSource(r), -ChargeBase(r)))
          /\ Goto(s, "chargeCredit")
      BY <1>3 DEF ChargeDebit
    <2>3. pc'[s] = "chargeCredit" /\ req'[s] = r
      BY <2>2 DEF Goto, IInv, TypeOK, ThreadTypeOK
    <2>4. Owed(s)' = Leg(ChargeSource(r), -ChargeBase(r))
      BY <2>3 DEF Owed
    <2> HIDE DEF r, t
    <2> QED BY <1>2, <2>1, <2>2, <2>4
  <1>4. CASE RefundDebit(s)
    <2>1. r.from \in Wallet /\ -r.amount \in Int
      BY <1>1, RequestFields
    <2>2. Write(s, r.from, Updated(t, r.from, -r.amount)) /\ Goto(s, "refundCredit")
      BY <1>4 DEF RefundDebit
    <2>3. pc'[s] = "refundCredit" /\ req'[s] = r
      BY <2>2 DEF Goto, IInv, TypeOK, ThreadTypeOK
    <2>4. Owed(s)' = Leg(r.from, -r.amount)
      BY <2>3 DEF Owed
    <2> HIDE DEF r, t
    <2> QED BY <1>2, <2>1, <2>2, <2>4
  <1> QED BY <1>3, <1>4

(* The second leg of a charge, and the rows of both legs.                  *)
LEMMA ChargeCreditPreserves ==
  ASSUME IInv, NEW s \in Session, ChargeCredit(s)
  PROVE  IInv'
  <1> DEFINE r == req[s]
             t == tx[s]
             from == ChargeSource(r)
             base == ChargeBase(r)
             credit == Credited(base, Rate(r.to))
             up == Updated(t, r.to, credit)
             row1 == Inserted(up, from, -base, seen[s].balance[from])
             row2 == Inserted(row1, r.to, credit, seen[s].balance[r.to])
             work == ChargeRows(s, up)
             g == Leg(from, -base)
             h == Leg(r.to, credit)
  <1>1. /\ pc[s] = "chargeCredit"
        /\ r \in Requests /\ t \in WorkType /\ t.delta = Plus(t.posts, g)
        /\ t.delta \in [Wallet -> Int] /\ t.posts \in [Wallet -> Int]
        /\ seen[s].balance \in [Wallet -> Int]
    <2>1. pc[s] = "chargeCredit" /\ Owed(s) = g
      BY DEF ChargeCredit, Owed
    <2> QED BY <2>1, Serving
  <1>2. /\ from \in Wallet /\ r.to \in Wallet /\ base \in Int /\ credit \in Int
        /\ -base \in Int /\ credit \in Int
    BY <1>1, RequestFields
  <1>3. seen[s].balance[from] \in Int /\ seen[s].balance[r.to] \in Int
    BY <1>1, <1>2
  <1>4. g \in [Wallet -> Int] /\ h \in [Wallet -> Int]
    BY <1>2, LegPlus
  <1> HIDE DEF r, t, from, base, credit, up, row1, row2, work, g, h
  <1>5. up \in WorkType /\ up.delta = Plus(t.delta, h) /\ up.posts = t.posts
    BY <1>1, <1>2, UpdatedType DEF up, h
  <1>6. row1 \in WorkType /\ row1.delta = up.delta /\ row1.posts = Plus(up.posts, g)
    BY <1>2, <1>3, <1>5, WorkTypes DEF row1, g
  <1>7. row2 \in WorkType /\ row2.delta = up.delta /\ row2.posts = Plus(Plus(t.posts, g), h)
    BY <1>2, <1>3, <1>5, <1>6, WorkTypes DEF row2, h
  <1>8. work \in WorkType /\ work.delta = row2.delta /\ work.posts = row2.posts
    <2>1. work = IF r.op = "CHARGE" THEN [row2 EXCEPT !.charge = credit, !.at = now] ELSE row2
      BY DEF work, ChargeRows, MonthlyAmount, row2, row1, r, from, base, credit
    <2>2. now \in Time
      BY DEF IInv, TypeOK, StoreTypeOK
    <2> QED BY <1>2, <1>7, <2>1, <2>2 DEF WorkType
  <1>9. work.delta = Plus(work.posts, Nothing)
    <2>1. Plus(t.posts, g) \in [Wallet -> Int]
      BY <1>1, <1>4, LegPlus
    <2>2. work.posts = Plus(Plus(t.posts, g), h) /\ work.delta = Plus(Plus(t.posts, g), h)
      BY <1>1, <1>5, <1>7, <1>8
    <2> QED BY <1>1, <1>4, <2>2, PlusLaws
  <1>10. Write(s, r.to, work) /\ Goto(s, "commit")
    BY DEF ChargeCredit, work, up, credit, base, r, t
  <1>11. Owed(s)' = Nothing
    <2>1. pc'[s] = "commit"
      BY <1>10 DEF Goto, IInv, TypeOK, ThreadTypeOK
    <2> QED BY <2>1 DEF Owed
  <1>12. \A v \in Wallet \ {r.to} : work.delta[v] = t.delta[v]
    BY <1>1, <1>2, <1>5, <1>7, <1>8, LegElsewhere DEF h
  <1>13. "commit" \in InTransaction
    BY DEF InTransaction
  <1> QED BY <1>1, <1>2, <1>8, <1>9, <1>10, <1>11, <1>12, <1>13, WritePreserves DEF t

(* The second leg of a refund, and the rows of both legs.                  *)
LEMMA RefundCreditPreserves ==
  ASSUME IInv, NEW s \in Session, RefundCredit(s)
  PROVE  IInv'
  <1> DEFINE r == req[s]
             t == tx[s]
             cash == RefundTarget(r)
             value == RefundValue(r.amount, Rate(r.from))
             up == Updated(t, cash, value)
             row1 == Inserted(up, cash, value, seen[s].balance[cash])
             work == Inserted(row1, r.from, -r.amount, seen[s].balance[r.from])
             label == IF r.op = "CONVERT" THEN "convertCharge" ELSE "commit"
             g == Leg(r.from, -r.amount)
             h == Leg(cash, value)
  <1>1. /\ pc[s] = "refundCredit"
        /\ r \in Requests /\ t \in WorkType /\ t.delta = Plus(t.posts, g)
        /\ t.delta \in [Wallet -> Int] /\ t.posts \in [Wallet -> Int]
        /\ seen[s].balance \in [Wallet -> Int]
    <2>1. pc[s] = "refundCredit" /\ Owed(s) = g
      BY DEF RefundCredit, Owed
    <2> QED BY <2>1, Serving
  <1>2. /\ cash \in Wallet /\ r.from \in Wallet /\ value \in Int
        /\ r.amount \in Int /\ -r.amount \in Int
    BY <1>1, RequestFields
  <1>3. seen[s].balance[cash] \in Int /\ seen[s].balance[r.from] \in Int
    BY <1>1, <1>2
  <1>4. g \in [Wallet -> Int] /\ h \in [Wallet -> Int]
    BY <1>2, LegPlus
  <1>5. Write(s, cash, work) /\ Goto(s, label)
    BY DEF RefundCredit, RefundRows
  <1>6. Owed(s)' = Nothing
    <2>1. pc'[s] = label
      BY <1>5 DEF Goto, IInv, TypeOK, ThreadTypeOK
    <2> QED BY <2>1 DEF Owed
  <1>7. label \in InTransaction /\ label # "localFinish"
    BY DEF InTransaction
  <1> HIDE DEF r, t, cash, value, up, row1, work, label, g, h
  <1>8. up \in WorkType /\ up.delta = Plus(t.delta, h) /\ up.posts = t.posts
    BY <1>1, <1>2, UpdatedType DEF up, h
  <1>9. row1 \in WorkType /\ row1.delta = up.delta /\ row1.posts = Plus(up.posts, h)
    BY <1>2, <1>3, <1>8, InsertedType DEF row1, h
  <1>10. work \in WorkType /\ work.delta = up.delta /\ work.posts = Plus(Plus(t.posts, h), g)
    BY <1>2, <1>3, <1>8, <1>9, InsertedType DEF work, g
  <1>11. work.delta = Plus(work.posts, Nothing)
    <2>1. work.delta = Plus(Plus(t.posts, g), h)
      BY <1>1, <1>8, <1>10
    <2> QED BY <1>1, <1>4, <1>10, <2>1, PlusLaws
  <1>12. \A v \in Wallet \ {cash} : work.delta[v] = t.delta[v]
    BY <1>1, <1>2, <1>8, <1>10, LegElsewhere DEF h
  <1> QED BY <1>1, <1>2, <1>5, <1>6, <1>7, <1>10, <1>11, <1>12, WritePreserves DEF t

(* Every step of the three transfer processors keeps the invariant.        *)
LEMMA TransferPreserves ==
  ASSUME IInv, NEW s \in Session, TransferStep(s)
  PROVE  IInv'
  BY TransferReads, FirstLeg, ChargeCreditPreserves, RefundCreditPreserves DEF TransferStep

-----------------------------------------------------------------------------
(* The payments.                                                           *)

(* The PIN, the context, and the reads of processGeneral and               *)
(* LocalMixedStrategy.                                                     *)
LEMMA PaymentReads ==
  ASSUME IInv, NEW s \in Session,
         PinRejected(s) \/ PaymentContext(s) \/ General(s) \/ Mixed(s)
  PROVE  IInv'
  <1>1. pc[s] # "idle" /\ Owed(s) = Nothing /\ pc[s] \notin InTransaction
    BY DEF PinRejected, PaymentContext, General, Mixed, Owed, InTransaction
  <1>2. Snapshot(req[s]) \in SeenType
    BY <1>1, Serving, SnapshotType
  <1>3. CASE PinRejected(s)
    BY <1>3, RefusePreserves DEF PinRejected, Errors
  <1>4. CASE PaymentContext(s)
    <2>1. CASE PaymentVerdict(req[s]) # "ok" /\ Refuse(s, PaymentVerdict(req[s]))
      <3>1. PaymentVerdict(req[s]) \in Errors
        BY <2>1 DEF PaymentVerdict, Errors
      <3> QED BY <2>1, <3>1, RefusePreserves
    <2>2. CASE Read(s, Snapshot(req[s])) /\ Goto(s, Route(req[s]))
      <3>1. Route(req[s]) \in {"general", "localPay", "mixed"}
        BY DEF Route
      <3>2. Route(req[s]) = "localPay" => req[s].amount = req[s].total
        BY DEF Route
      <3>3. Route(req[s]) \in Labels \ {"idle", "chargeCredit", "refundCredit", "localFinish"}
        BY <3>1 DEF Labels, PaymentLabels
      <3> QED BY <1>1, <1>2, <2>2, <3>2, <3>3, ReadPreserves
    <2> QED BY <1>4, <2>1, <2>2 DEF PaymentContext
  <1>5. CASE General(s)
    <2>1. CASE Refuse(s, "WALLET_BALANCE_NOT_ENOUGH")
      BY <2>1, RefusePreserves DEF Errors
    <2>2. CASE Read(s, Snapshot(req[s])) /\ Goto(s, "generalDebit")
      BY <1>1, <1>2, <2>2, ReadPreserves DEF Labels, PaymentLabels
    <2> QED BY <1>5, <2>1, <2>2 DEF General
  <1>6. CASE Mixed(s)
    <2>1. CASE Refuse(s, "WALLET_BALANCE_NOT_ENOUGH")
      BY <2>1, RefusePreserves DEF Errors
    <2>2. CASE Read(s, Snapshot(req[s])) /\ Goto(s, "mixedLocal")
      BY <1>1, <1>2, <2>2, ReadPreserves DEF Labels, PaymentLabels
    <2> QED BY <1>6, <2>1, <2>2 DEF Mixed
  <1> QED BY <1>3, <1>4, <1>5, <1>6

(* The statements of a GENERAL payment commit on their own: each moves the *)
(* balance, the statement and the unposted cash of one wallet together.    *)
LEMMA GeneralPreserves ==
  ASSUME IInv, NEW s \in Session, GeneralDebit(s) \/ GeneralPost(s) \/ GeneralMerchant(s)
  PROVE  IInv'
  <1> DEFINE r == req[s]
             c == CashOf[r.user]
  <1>1. /\ pc[s] \in {"generalDebit", "generalPost", "generalMerchant"}
        /\ pc'[s] \in {"generalPost", "generalMerchant", "idle"}
        /\ pc' = [pc EXCEPT ![s] = pc'[s]]
        /\ req' = [req EXCEPT ![s] = IF pc'[s] = "idle" THEN NoRequest ELSE r]
    BY DEF GeneralDebit, GeneralPost, GeneralMerchant, Goto, Answer, IInv, TypeOK, ThreadTypeOK
  <1>2. r \in Requests /\ tx[s] = NoWork
    BY <1>1, Serving DEF InTransaction, IInv, RowsMatchUpdates, RowsMatch
  <1>3. c \in Wallet /\ r.total \in Int
    BY <1>2, RequestFields
  <1>4. lock' = lock /\ tx' = tx
    BY DEF GeneralDebit, GeneralPost, GeneralMerchant
  <1>5. ThreadTypeOK'
    <2>1. served' = served /\ faults' = faults
      BY DEF GeneralDebit, GeneralPost, GeneralMerchant, Goto, Answer
    <2>2. reply' \in [Session -> Replies]
      BY DEF GeneralDebit, GeneralPost, GeneralMerchant, Goto, Answer, IInv, TypeOK,
             ThreadTypeOK, Replies
    <2>3. pc' \in [Session -> Labels]
      BY <1>1 DEF IInv, TypeOK, ThreadTypeOK, Labels, PaymentLabels
    <2>4. req' \in [Session -> Requests \cup {NoRequest}]
      BY <1>1 DEF IInv, TypeOK, ThreadTypeOK
    <2> QED BY <2>1, <2>2, <2>3, <2>4 DEF IInv, TypeOK, ThreadTypeOK
  <1>6. LockDiscipline'
    <2>1. ASSUME NEW w \in Wallet, lock[w] # NoSession
          PROVE  pc'[lock[w]] \in InTransaction
      <3>1. lock[w] \in Session /\ pc[lock[w]] \in InTransaction
        BY <2>1 DEF IInv, TypeOK, StoreTypeOK, LockDiscipline
      <3>2. lock[w] # s
        BY <1>1, <3>1 DEF InTransaction
      <3> QED BY <1>1, <3>1, <3>2 DEF IInv, TypeOK, ThreadTypeOK
    <2> QED BY <1>4, <2>1 DEF IInv, LockDiscipline
  <1>7. RowsMatchUpdates'
    <2> SUFFICES ASSUME NEW t \in Session PROVE RowsMatch(t)'
      BY DEF RowsMatchUpdates
    <2>1. CASE t = s
      <3>1. pc'[s] = "idle" \/ (pc'[s] \in Labels \ InTransaction /\ req'[s] \in Requests)
        BY <1>1, <1>2 DEF IInv, TypeOK, ThreadTypeOK, Labels, PaymentLabels, InTransaction
      <3>2. pc'[s] \notin {"localPay", "localFinish"}
        BY <1>1
      <3> QED BY <1>2, <1>4, <2>1, <3>1, <3>2, NoWorkMatches
    <2>2. CASE t # s
      BY <1>1, <1>4, <2>2, OthersKeep DEF IInv, TypeOK, StoreTypeOK, ThreadTypeOK, RowsMatchUpdates
    <2> QED BY <2>1, <2>2
  <1> HIDE DEF r, c
  <1>8. StoreTypeOK' /\ BooksBalance'
    <2>1. NothingSeen \in SeenType
      BY LegPlus DEF NothingSeen, SeenType
    <2>2. Opening \in [Wallet -> Nat]
      BY WalletsAssumption
    <2>3. CASE GeneralDebit(s)
      BY <1>3, <2>2, <2>3 DEF GeneralDebit, IInv, TypeOK, StoreTypeOK, BooksBalance, r, c
    <2>4. CASE GeneralPost(s)
      <3>1. seen[s].balance[c] \in Int
        BY <1>1, <1>3, Serving
      <3> QED BY <1>3, <2>2, <2>4, <3>1
              DEF GeneralPost, IInv, TypeOK, StoreTypeOK, BooksBalance, r, c
    <2>5. CASE GeneralMerchant(s)
      BY <1>3, <2>1, <2>5 DEF GeneralMerchant, IInv, TypeOK, StoreTypeOK, BooksBalance, r, c
    <2> QED BY <2>3, <2>4, <2>5 DEF GeneralDebit
  <1> QED BY <1>5, <1>6, <1>7, <1>8 DEF IInv, TypeOK

(* LocalStrategy: the update first, its row after the badge reads.         *)
LEMMA LocalPayPreserves ==
  ASSUME IInv, NEW s \in Session, LocalPay(s)
  PROVE  IInv'
  <1> DEFINE r == req[s]
             t == tx[s]
             up == Updated(t, r.from, -r.amount)
             work == [up EXCEPT !.total = r.amount]
             g == Leg(r.from, -r.amount)
  <1>1. /\ pc[s] = "localPay" /\ r \in Requests /\ r.amount = r.total
        /\ t \in WorkType /\ t.delta = Plus(t.posts, Nothing)
        /\ t.delta \in [Wallet -> Int] /\ t.posts \in [Wallet -> Int]
    <2>1. pc[s] = "localPay" /\ Owed(s) = Nothing
      BY DEF LocalPay, Owed
    <2>2. r.amount = r.total
      BY <2>1 DEF IInv, RowsMatchUpdates, RowsMatch
    <2> QED BY <2>1, <2>2, Serving
  <1>2. r.from \in Wallet /\ r.amount \in Int /\ -r.amount \in Int
    BY <1>1, RequestFields
  <1>3. Write(s, r.from, work) /\ Goto(s, "localFinish")
    BY DEF LocalPay
  <1>4. Owed(s)' = g
    <2>1. pc'[s] = "localFinish" /\ req'[s] = r
      BY <1>3 DEF Goto, IInv, TypeOK, ThreadTypeOK
    <2> QED BY <2>1 DEF Owed
  <1> HIDE DEF r, t, up, work, g
  <1>5. up \in WorkType /\ up.delta = Plus(t.delta, g) /\ up.posts = t.posts
    BY <1>1, <1>2, UpdatedType DEF up, g
  <1>6. work \in WorkType /\ work.delta = up.delta /\ work.posts = up.posts
    BY <1>2, <1>5 DEF work, WorkType
  <1>7. work.delta = Plus(work.posts, g)
    <2>1. g \in [Wallet -> Int]
      BY <1>2, LegPlus DEF g
    <2> QED BY <1>1, <1>5, <1>6, <2>1, PlusLaws
  <1>8. \A v \in Wallet \ {r.from} : work.delta[v] = t.delta[v]
    BY <1>1, <1>2, <1>5, <1>6, LegElsewhere DEF g
  <1>9. "localFinish" \in InTransaction
    BY DEF InTransaction
  <1> QED BY <1>1, <1>2, <1>3, <1>4, <1>6, <1>7, <1>8, <1>9, WritePreserves DEF t, r

(* The badge that a payment earns is a grade or none.                      *)
LEMMA AwardType ==
  ASSUME NEW total \in Int, NEW held \in [Grade -> Nat]
  PROVE  Award(Tier(total), held) \in Grade \cup {"none"}
  BY StoreAssumption DEF Award, Tier, Grade

(* LocalStrategy inserts the row that its payAndAccumulate owes; it takes  *)
(* merchantAmount where the update took inputAmount, and they are equal    *)
(* here.                                                                   *)
LEMMA LocalFinishPreserves ==
  ASSUME IInv, NEW s \in Session, LocalFinish(s)
  PROVE  IInv'
  <1> DEFINE r == req[s]
             t == tx[s]
             tier == Tier(seen[s].total + r.amount)
             award == Award(tier, HeldBy(r))
             row == Inserted(t, r.from, -r.total, seen[s].balance[r.from])
             rows == InsertedMerchant(row, r.total)
             work == [rows EXCEPT !.award = award]
             g == Leg(r.from, -r.amount)
  <1>1. /\ pc[s] = "localFinish" /\ r \in Requests /\ r.amount = r.total
        /\ t \in WorkType /\ t.delta = Plus(t.posts, g)
        /\ t.delta \in [Wallet -> Int] /\ t.posts \in [Wallet -> Int]
        /\ seen[s] \in SeenType /\ seen[s].balance \in [Wallet -> Int]
    <2>1. pc[s] = "localFinish" /\ Owed(s) = g
      BY DEF LocalFinish, Owed
    <2>2. r.amount = r.total
      BY <2>1 DEF IInv, RowsMatchUpdates, RowsMatch
    <2> QED BY <2>1, <2>2, Serving
  <1>2. /\ r.from \in Wallet /\ r.total \in Int /\ r.amount \in Int
        /\ -r.total \in Int /\ -r.amount \in Int
        /\ seen[s].balance[r.from] \in Int /\ seen[s].total \in Int
    BY <1>1, RequestFields DEF SeenType
  <1>3. award \in Grade \cup {"none"}
    <2>1. Snapshot(r) \in SeenType
      BY <1>1, SnapshotType
    <2>2. HeldBy(r) \in [Grade -> Nat]
      BY <2>1 DEF SeenType, Snapshot
    <2> QED BY <1>2, <2>2, AwardType
  <1>4. CASE Refuse(s, "INTERNAL_SERVER_ERROR")
    BY <1>4, RefusePreserves DEF Errors
  <1>5. CASE ~Refuse(s, "INTERNAL_SERVER_ERROR")
    <2>1. /\ tx' = [tx EXCEPT ![s] = work] /\ Goto(s, "commit")
          /\ UNCHANGED <<committedVars, lock, seen, now>>
      BY <1>5 DEF LocalFinish, Reached, HeldUnderLock
    <2> HIDE DEF r, t, tier, award, row, rows, work, g
    <2>2. row \in WorkType /\ row.delta = t.delta /\ row.posts = Plus(t.posts, g)
      BY <1>1, <1>2, InsertedType DEF row, g
    <2>3. rows \in WorkType /\ rows.delta = row.delta /\ rows.posts = row.posts
      BY <1>2, <2>2 DEF rows, InsertedMerchant, WorkType
    <2>4. work \in WorkType /\ work.delta = t.delta /\ work.posts = Plus(t.posts, g)
      BY <1>3, <2>2, <2>3 DEF work, WorkType
    <2>5. StoreTypeOK'
      BY <2>1, <2>4 DEF IInv, TypeOK, StoreTypeOK, committedVars
    <2>6. ThreadTypeOK'
      BY <2>1 DEF Goto, IInv, TypeOK, ThreadTypeOK, Labels
    <2>7. BooksBalance'
      BY <2>1 DEF IInv, BooksBalance, committedVars
    <2>8. tx'[s] = work /\ pc'[s] = "commit" /\ req'[s] = r
      BY <2>1 DEF Goto, IInv, TypeOK, StoreTypeOK, ThreadTypeOK, r
    <2>9. LockDiscipline'
      <3>1. ASSUME NEW v \in Session, NEW w \in Wallet, tx'[v].delta[w] # 0
            PROVE  lock'[w] = v
        <4>1. tx'[v].delta = tx[v].delta
          BY <2>1, <2>4, <2>8 DEF IInv, TypeOK, StoreTypeOK, t
        <4> QED BY <2>1, <3>1, <4>1 DEF IInv, LockDiscipline
      <3>2. ASSUME NEW w \in Wallet, lock'[w] # NoSession
            PROVE  pc'[lock'[w]] \in InTransaction
        <4>1. lock'[w] = lock[w] /\ lock[w] \in Session /\ pc[lock[w]] \in InTransaction
          BY <2>1, <3>2 DEF IInv, LockDiscipline, TypeOK, StoreTypeOK
        <4> QED BY <2>1, <4>1 DEF Goto, IInv, TypeOK, ThreadTypeOK, InTransaction
      <3> QED BY <3>1, <3>2 DEF LockDiscipline
    <2>10. RowsMatchUpdates'
      <3> SUFFICES ASSUME NEW v \in Session PROVE RowsMatch(v)'
        BY DEF RowsMatchUpdates
      <3>1. CASE v = s
        <4>1. Owed(s)' = Nothing
          BY <2>8 DEF Owed
        <4>2. g \in [Wallet -> Int]
          BY <1>2, LegPlus DEF g
        <4>3. work.delta = Plus(work.posts, Nothing)
          BY <1>1, <2>4, <4>2, PlusLaws
        <4> QED BY <1>1, <2>8, <3>1, <4>1, <4>3 DEF RowsMatch, InTransaction
      <3>2. CASE v # s
        BY <2>1, <3>2, OthersKeep
           DEF Goto, IInv, TypeOK, StoreTypeOK, ThreadTypeOK, RowsMatchUpdates
      <3> QED BY <3>1, <3>2
    <2> QED BY <2>5, <2>6, <2>7, <2>9, <2>10 DEF IInv, TypeOK
  <1> QED BY <1>4, <1>5

(* An update together with its row: nothing is owed before or after.       *)
LEMMA LegAndRow ==
  ASSUME IInv, NEW s \in Session, NEW w \in Wallet, NEW x \in Int, NEW before \in Int,
         NEW work \in WorkType, NEW label \in {"mixedMain", "commit"},
         pc[s] # "idle", Owed(s) = Nothing,
         work.delta = Plus(tx[s].delta, Leg(w, x)),
         work.posts = Plus(tx[s].posts, Leg(w, x)),
         Write(s, w, work), Goto(s, label)
  PROVE  IInv'
  <1> DEFINE t == tx[s]
             g == Leg(w, x)
  <1>1. t.delta = Plus(t.posts, Nothing)
        /\ t.delta \in [Wallet -> Int] /\ t.posts \in [Wallet -> Int]
    BY Serving
  <1>2. g \in [Wallet -> Int]
    BY LegPlus
  <1>3. Owed(s)' = Nothing
    <2>1. pc'[s] = label
      BY DEF Goto, IInv, TypeOK, ThreadTypeOK
    <2> QED BY <2>1 DEF Owed
  <1>4. \A v \in Wallet \ {w} : work.delta[v] = t.delta[v]
    BY <1>1, LegElsewhere
  <1>5. label \in InTransaction /\ label # "localFinish"
    BY DEF InTransaction
  <1> HIDE DEF t, g
  <1>6. work.delta = Plus(work.posts, Nothing)
    <2>1. work.delta = Plus(t.delta, g) /\ work.posts = Plus(t.posts, g)
      BY DEF t, g
    <2> QED BY <1>1, <1>2, <2>1, PlusLaws
  <1> QED BY <1>3, <1>4, <1>5, <1>6, WritePreserves DEF t

(* LocalMixedStrategy's update of the local wallet, with its rows.         *)
LEMMA MixedLocalPreserves ==
  ASSUME IInv, NEW s \in Session, MixedLocal(s)
  PROVE  IInv'
  <1> DEFINE r == req[s]
             t == tx[s]
             tier == Tier(seen[s].total + r.amount)
             award == Award(tier, seen[s].held)
             up == Updated(t, r.from, -r.amount)
             row == Inserted(up, r.from, -r.amount, seen[s].balance[r.from])
             rows == InsertedMerchant(row, r.amount)
             work == [rows EXCEPT !.total = r.amount, !.award = award]
             g == Leg(r.from, -r.amount)
  <1>1. /\ pc[s] # "idle" /\ Owed(s) = Nothing /\ r \in Requests /\ t \in WorkType
        /\ seen[s] \in SeenType /\ seen[s].balance \in [Wallet -> Int]
    <2>1. pc[s] # "idle" /\ Owed(s) = Nothing
      BY DEF MixedLocal, Owed
    <2> QED BY <2>1, Serving
  <1>2. /\ r.from \in Wallet /\ r.amount \in Int /\ -r.amount \in Int
        /\ seen[s].balance[r.from] \in Int /\ seen[s].total \in Int
        /\ seen[s].held \in [Grade -> Nat]
    BY <1>1, RequestFields DEF SeenType
  <1>3. award \in Grade \cup {"none"}
    BY <1>2, AwardType
  <1>4. CASE Refuse(s, "INTERNAL_SERVER_ERROR") \/ Refuse(s, "WALLET_BALANCE_NOT_ENOUGH")
    BY <1>4, RefusePreserves DEF Errors
  <1>5. CASE ~(Refuse(s, "INTERNAL_SERVER_ERROR") \/ Refuse(s, "WALLET_BALANCE_NOT_ENOUGH"))
    <2>1. Write(s, r.from, work) /\ Goto(s, "mixedMain")
      BY <1>5 DEF MixedLocal, Reached
    <2> HIDE DEF r, t, tier, award, up, row, rows, work, g
    <2>2. up \in WorkType /\ up.delta = Plus(t.delta, g) /\ up.posts = t.posts
      BY <1>1, <1>2, UpdatedType DEF up, g
    <2>3. row \in WorkType /\ row.delta = up.delta /\ row.posts = Plus(up.posts, g)
      BY <1>2, <2>2, InsertedType DEF row, g
    <2>4. rows \in WorkType /\ rows.delta = row.delta /\ rows.posts = row.posts
      BY <1>2, <2>3 DEF rows, InsertedMerchant, WorkType
    <2>5. /\ work \in WorkType
          /\ work.delta = Plus(t.delta, g) /\ work.posts = Plus(t.posts, g)
      BY <1>2, <1>3, <2>2, <2>3, <2>4 DEF work, WorkType
    <2> QED BY <1>1, <1>2, <2>1, <2>5, LegAndRow DEF g, t
  <1> QED BY <1>4, <1>5

(* LocalMixedStrategy's update of the cash wallet, with its rows.          *)
LEMMA MixedMainPreserves ==
  ASSUME IInv, NEW s \in Session, MixedMain(s)
  PROVE  IInv'
  <1> DEFINE r == req[s]
             t == tx[s]
             c == CashOf[r.user]
             left == r.total - r.amount
             up == Updated(t, c, -left)
             row == Inserted(up, c, -left, seen[s].balance[c])
             work == InsertedMerchant(row, r.amount)
             g == Leg(c, -left)
  <1>1. /\ pc[s] # "idle" /\ Owed(s) = Nothing /\ r \in Requests /\ t \in WorkType
        /\ seen[s].balance \in [Wallet -> Int]
    <2>1. pc[s] # "idle" /\ Owed(s) = Nothing
      BY DEF MixedMain, Owed
    <2> QED BY <2>1, Serving
  <1>2. /\ c \in Wallet /\ r.amount \in Int /\ -left \in Int
        /\ seen[s].balance[c] \in Int
    BY <1>1, RequestFields
  <1>3. Write(s, c, work) /\ Goto(s, "commit")
    BY DEF MixedMain
  <1> HIDE DEF r, t, c, left, up, row, work, g
  <1>4. up \in WorkType /\ up.delta = Plus(t.delta, g) /\ up.posts = t.posts
    BY <1>1, <1>2, UpdatedType DEF up, g
  <1>5. row \in WorkType /\ row.delta = up.delta /\ row.posts = Plus(up.posts, g)
    BY <1>2, <1>4, InsertedType DEF row, g
  <1>6. /\ work \in WorkType
        /\ work.delta = Plus(t.delta, g) /\ work.posts = Plus(t.posts, g)
    BY <1>2, <1>4, <1>5 DEF work, InsertedMerchant, WorkType
  <1> QED BY <1>1, <1>2, <1>3, <1>6, LegAndRow DEF g, t

(* Every step of a payment keeps the invariant.                            *)
LEMMA PaymentPreserves ==
  ASSUME IInv, NEW s \in Session, PaymentStep(s)
  PROVE  IInv'
  BY PaymentReads, GeneralPreserves, LocalPayPreserves, LocalFinishPreserves,
     MixedLocalPreserves, MixedMainPreserves DEF PaymentStep

-----------------------------------------------------------------------------
(* Arrivals, faults and time.                                              *)

(* A thread that takes a request holds no lock and has no uncommitted      *)
(* work.                                                                   *)
LEMMA ReceivePreserves ==
  ASSUME IInv, NEW s \in Session, NEW r \in Requests, Receive(s, r)
  PROVE  IInv'
  <1> USE DEF Receive, storeVars, committedVars
  <1>1. StoreTypeOK'
    BY DEF IInv, TypeOK, StoreTypeOK
  <1>2. Entry(r) \in {"charge", "refund", "convert", "pay"}
    BY DEF Entry
  <1>3. ThreadTypeOK'
    BY <1>2, BoundsAssumption DEF IInv, TypeOK, ThreadTypeOK, Labels, TransferLabels,
       PaymentLabels, Replies
  <1>4. BooksBalance'
    BY DEF IInv, BooksBalance
  <1>5. LockDiscipline'
    <2>1. ASSUME NEW w \in Wallet, lock[w] # NoSession
          PROVE  pc'[lock[w]] \in InTransaction
      <3>1. lock[w] \in Session /\ pc[lock[w]] \in InTransaction
        BY <2>1 DEF IInv, TypeOK, StoreTypeOK, LockDiscipline
      <3>2. lock[w] # s
        BY <3>1 DEF InTransaction
      <3> QED BY <3>1, <3>2 DEF IInv, TypeOK, ThreadTypeOK
    <2> QED BY <2>1 DEF IInv, LockDiscipline
  <1>6. RowsMatchUpdates'
    <2> SUFFICES ASSUME NEW t \in Session PROVE RowsMatch(t)'
      BY DEF RowsMatchUpdates
    <2>1. CASE t = s
      <3>1. tx'[s] = NoWork
        BY DEF IInv, RowsMatchUpdates, RowsMatch, InTransaction
      <3>2. pc'[s] = Entry(r) /\ req'[s] = r
        BY DEF IInv, TypeOK, ThreadTypeOK
      <3>3. Entry(r) \in Labels \ InTransaction
        BY <1>2 DEF Labels, TransferLabels, PaymentLabels, InTransaction
      <3>4. Entry(r) \notin {"localPay", "localFinish"}
        BY <1>2
      <3> QED BY <2>1, <3>1, <3>2, <3>3, <3>4, NoWorkMatches
    <2>2. CASE t # s
      BY <2>2, OthersKeep DEF IInv, TypeOK, StoreTypeOK, ThreadTypeOK, RowsMatchUpdates
    <2> QED BY <2>1, <2>2
  <1> QED BY <1>1, <1>3, <1>4, <1>5, <1>6 DEF IInv, TypeOK

(* One more fault stays within the bound of the run.                       *)
LEMMA FaultCounted ==
  ASSUME IInv, faults < MaxFaults
  PROVE  faults + 1 \in 0 .. MaxFaults
  BY BoundsAssumption DEF IInv, TypeOK, ThreadTypeOK

(* innodb_lock_wait_timeout fails one statement, and with it the request.  *)
LEMMA TimeoutPreserves ==
  ASSUME IInv, NEW s \in Session, LockWaitTimeout(s)
  PROVE  IInv'
  <1>1. faults' \in 0 .. MaxFaults
    BY FaultCounted DEF LockWaitTimeout
  <1>2. "LOCK_FAILURE" \in Errors
    BY DEF Errors
  <1> QED BY <1>1, <1>2, AbortPreserves DEF LockWaitTimeout

(* A restart finds the committed tables and no transaction.                *)
LEMMA CrashPreserves ==
  ASSUME IInv, Crash
  PROVE  IInv'
  <1> USE DEF Crash, committedVars
  <1>1. NothingSeen \in SeenType
    BY LegPlus DEF NothingSeen, SeenType
  <1>2. StoreTypeOK'
    BY <1>1, NoWorkType DEF IInv, TypeOK, StoreTypeOK
  <1>3. ThreadTypeOK'
    <2>1. faults' \in 0 .. MaxFaults
      BY FaultCounted
    <2>2. reply' \in [Session -> Replies]
      BY DEF IInv, TypeOK, ThreadTypeOK, Replies, Errors
    <2>3. pc' \in [Session -> Labels] /\ req' \in [Session -> Requests \cup {NoRequest}]
      BY DEF Labels
    <2> QED BY <2>1, <2>2, <2>3 DEF IInv, TypeOK, ThreadTypeOK
  <1>4. BooksBalance'
    BY DEF IInv, BooksBalance
  <1>5. LockDiscipline'
    BY DEF LockDiscipline, NoWork, Nothing
  <1>6. RowsMatchUpdates'
    BY NoWorkMatches DEF RowsMatchUpdates
  <1> QED BY <1>2, <1>3, <1>4, <1>5, <1>6 DEF IInv, TypeOK

(* A new month changes no wallet.                                          *)
LEMMA TickPreserves ==
  ASSUME IInv, Tick
  PROVE  IInv'
  <1> USE DEF Tick, committedVars, threadVars
  <1>1. now' \in Time
    BY StoreAssumption DEF IInv, TypeOK, StoreTypeOK, Time
  <1>2. StoreTypeOK' /\ ThreadTypeOK'
    BY <1>1 DEF IInv, TypeOK, StoreTypeOK, ThreadTypeOK
  <1>3. BooksBalance' /\ LockDiscipline'
    BY DEF IInv, BooksBalance, LockDiscipline
  <1>4. RowsMatchUpdates'
    BY OthersKeep DEF IInv, RowsMatchUpdates
  <1> QED BY <1>2, <1>3, <1>4 DEF IInv, TypeOK

(* Nothing happens.                                                        *)
LEMMA StutterPreserves ==
  ASSUME IInv, UNCHANGED vars
  PROVE  IInv'
  <1> USE DEF vars, storeVars, committedVars, threadVars
  <1>1. StoreTypeOK' /\ ThreadTypeOK'
    BY DEF IInv, TypeOK, StoreTypeOK, ThreadTypeOK
  <1>2. BooksBalance' /\ LockDiscipline'
    BY DEF IInv, BooksBalance, LockDiscipline
  <1>3. RowsMatchUpdates'
    BY OthersKeep DEF IInv, RowsMatchUpdates
  <1> QED BY <1>1, <1>2, <1>3 DEF IInv, TypeOK

-----------------------------------------------------------------------------
(* The invariant.                                                          *)

(* The tables as the migrations fill them, with every thread idle.         *)
LEMMA InitIInv ==
  ASSUME Init
  PROVE  IInv
  <1> USE DEF Init, StoreInit, ThreadInit
  <1>1. NothingSeen \in SeenType
    BY LegPlus DEF NothingSeen, SeenType
  <1>2. 0 \in Time
    BY StoreAssumption DEF Time
  <1>3. StoreTypeOK
    BY <1>1, <1>2, NoWorkType, LegPlus, WalletsAssumption DEF StoreTypeOK, Nothing
  <1>4. ThreadTypeOK
    BY BoundsAssumption DEF ThreadTypeOK, Labels, Replies
  <1>5. BooksBalance
    BY WalletsAssumption DEF BooksBalance, Nothing
  <1>6. LockDiscipline
    BY DEF LockDiscipline, NoWork, Nothing
  <1>7. RowsMatchUpdates
    <2> SUFFICES ASSUME NEW s \in Session PROVE RowsMatch(s)
      BY DEF RowsMatchUpdates
    <2>1. Owed(s) = Nothing
      BY DEF Owed
    <2>2. NoWork.delta = Plus(NoWork.posts, Nothing)
      BY LegPlus, PlusNothing DEF NoWork
    <2> QED BY <2>1, <2>2 DEF RowsMatch
  <1> QED BY <1>3, <1>4, <1>5, <1>6, <1>7 DEF IInv, TypeOK

(* Every step, of whichever thread and whatever it interrupts, keeps it.   *)
LEMMA NextIInv ==
  ASSUME IInv, [Next]_vars
  PROVE  IInv'
  <1>1. ASSUME NEW s \in Session, NEW r \in Requests, Receive(s, r) PROVE IInv'
    BY <1>1, ReceivePreserves
  <1>2. ASSUME NEW s \in Session, Step(s) PROVE IInv'
    BY <1>2, TransferPreserves, PaymentPreserves, CommitPreserves DEF Step
  <1>3. ASSUME NEW s \in Session, DeadlockAbort(s) PROVE IInv'
    BY <1>3, RefusePreserves DEF DeadlockAbort, Errors
  <1>4. ASSUME NEW s \in Session, LockWaitTimeout(s) PROVE IInv'
    BY <1>4, TimeoutPreserves
  <1>5. CASE Crash
    BY <1>5, CrashPreserves
  <1>6. CASE Tick
    BY <1>6, TickPreserves
  <1>7. CASE Drained \/ UNCHANGED vars
    BY <1>7, StutterPreserves DEF Drained
  <1> QED BY <1>1, <1>2, <1>3, <1>4, <1>5, <1>6, <1>7 DEF Next

(* The inductive invariant holds in every reachable state.                 *)
THEOREM Invariance == Spec => []IInv
  <1>1. Init => IInv
    BY InitIInv
  <1>2. IInv /\ [Next]_vars => IInv'
    BY NextIInv
  <1> QED BY <1>1, <1>2, PTL DEF Spec

(* Every variable keeps its type, whatever members, wallets and requests   *)
(* there are: tables, transaction work, views and handler labels.          *)
THEOREM TypeCorrectness == Spec => []TypeOK
  <1>1. IInv => TypeOK
    BY DEF IInv
  <1> QED BY <1>1, Invariance, PTL

(* No interleaving of handlers, rollback, deadlock, timeout or crash makes *)
(* a wallet's balance differ from its opening balance plus its rows, less  *)
(* the cash of GENERAL payments without a row.                             *)
THEOREM BooksAlwaysBalance == Spec => []BooksBalance
  <1>1. IInv => BooksBalance
    BY DEF IInv
  <1> QED BY <1>1, Invariance, PTL

=============================================================================
