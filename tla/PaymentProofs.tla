---------------------------- MODULE PaymentProofs ----------------------------
(***************************************************************************)
(* What the payments owe: the cash that GENERAL payments have taken and    *)
(* not recorded yet, the merchants' side of the statements, and the badges *)
(* of LocalStrategy, for every set of threads, members and requests.       *)
(*                                                                         *)
(* The first two are about sums over the request threads.  A sum is kept   *)
(* as the partial sums along an enumeration of the threads, so that what   *)
(* the proofs need of sums needs no induction.                             *)
(***************************************************************************)
EXTENDS BankProofs, FiniteSetTheorems, FunctionTheorems, WellFoundedInduction

-----------------------------------------------------------------------------
(* Sums over a finite set.                                                 *)

(* x is the last of the partial sums P of f along the enumeration e.       *)
SumsUp(f, S, x, n, e, P) ==
  /\ e \in Bijection(1 .. n, S)
  /\ P \in [0 .. n -> Int]
  /\ P[0] = 0
  /\ P[n] = x
  /\ \A k \in 1 .. n : P[k] = P[k - 1] + f[e[k]]

(* x is the sum of f over S.                                               *)
IsSum(f, S, x) == \E n \in Nat : \E e, P : SumsUp(f, S, x, n, e, P)

(* Partial sums of nothing are zero.                                       *)
LEMMA SumZero ==
  ASSUME NEW S, IsFiniteSet(S), NEW f, \A s \in S : f[s] = 0
  PROVE  IsSum(f, S, 0)
  <1>1. PICK n \in Nat : ExistsBijection(1 .. n, S)
    BY FS_NatBijection
  <1>2. PICK e \in Bijection(1 .. n, S) : TRUE
    BY <1>1, Fun_ExistsBij
  <1>3. \A k \in 1 .. n : e[k] \in S
    BY <1>2, Fun_BijectionProperties
  <1> DEFINE P == [k \in 0 .. n |-> 0]
  <1>4. P \in [0 .. n -> Int] /\ P[0] = 0 /\ P[n] = 0
    BY <1>1
  <1>5. \A k \in 1 .. n : P[k] = P[k - 1] + f[e[k]]
    BY <1>1, <1>3
  <1>6. SumsUp(f, S, 0, n, e, P)
    BY <1>2, <1>4, <1>5 DEF SumsUp
  <1> QED BY <1>1, <1>6 DEF IsSum

(* Another value at one element changes the sum by the difference: so do   *)
(* the partial sums from that element on.                                  *)
LEMMA SumChange ==
  ASSUME NEW S, NEW f, NEW g, NEW x \in Int, IsSum(f, S, x), NEW s \in S,
         \A t \in S : f[t] \in Int, g[s] \in Int, \A t \in S \ {s} : g[t] = f[t]
  PROVE  IsSum(g, S, x + (g[s] - f[s]))
  <1>0. PICK n \in Nat : \E e, P : SumsUp(f, S, x, n, e, P)
    BY DEF IsSum
  <1>1. PICK e, P : SumsUp(f, S, x, n, e, P)
    BY <1>0
  <1>2. /\ e \in Bijection(1 .. n, S) /\ P \in [0 .. n -> Int] /\ P[0] = 0 /\ P[n] = x
        /\ \A k \in 1 .. n : P[k] = P[k - 1] + f[e[k]]
    BY <1>1 DEF SumsUp
  <1>3. /\ \A k \in 1 .. n : e[k] \in S
        /\ \A j, k \in 1 .. n : e[j] = e[k] => j = k
        /\ \E k \in 1 .. n : e[k] = s
    <2> DEFINE T == 1 .. n
    <2>1. e \in Bijection(T, S)
      BY <1>2
    <2> HIDE DEF T
    <2>2. e \in [T -> S]
      BY <2>1, Fun_BijectionProperties
    <2>3. \A j, k \in T : e[j] = e[k] => j = k
      BY <2>1, Fun_BijectionProperties
    <2>4. \A t \in S : \E k \in T : e[k] = t
      BY <2>1, Fun_BijectionProperties
    <2> QED BY <2>2, <2>3, <2>4 DEF T
  <1>4. PICK j \in 1 .. n : e[j] = s
    BY <1>3
  <1> DEFINE d == g[s] - f[s]
             Q == [k \in 0 .. n |-> IF k >= j THEN P[k] + d ELSE P[k]]
  <1>5. d \in Int
    OBVIOUS
  <1>6. Q \in [0 .. n -> Int]
    BY <1>2, <1>5
  <1>7. Q[0] = 0 /\ Q[n] = x + d
    BY <1>2, <1>4, <1>5
  <1>8. ASSUME NEW k \in 1 .. n
        PROVE  Q[k] = Q[k - 1] + g[e[k]]
    <2>1. /\ k \in 0 .. n /\ k - 1 \in 0 .. n /\ k \in Int /\ j \in Int
          /\ P[k] = P[k - 1] + f[e[k]] /\ P[k] \in Int /\ P[k - 1] \in Int
      BY <1>2, <1>4
    <2>2. CASE k = j
      <3>1. Q[k] = P[k] + d /\ Q[k - 1] = P[k - 1] /\ e[k] = s
        BY <1>4, <2>1, <2>2
      <3> QED BY <2>1, <3>1
    <2>3. CASE k # j
      <3>1. e[k] # s /\ e[k] \in S
        BY <1>3, <1>4, <2>3
      <3>2. g[e[k]] = f[e[k]]
        BY <3>1
      <3>3. CASE k > j
        <4>1. Q[k] = P[k] + d /\ Q[k - 1] = P[k - 1] + d
          BY <2>1, <3>3
        <4>2. f[e[k]] \in Int
          BY <3>1
        <4> HIDE DEF d, Q
        <4> QED BY <1>5, <2>1, <3>2, <4>1, <4>2
      <3>4. CASE k < j
        <4>1. Q[k] = P[k] /\ Q[k - 1] = P[k - 1]
          BY <2>1, <3>4
        <4> QED BY <2>1, <3>2, <4>1
      <3> QED BY <2>1, <2>3, <3>3, <3>4
    <2> QED BY <2>2, <2>3
  <1> HIDE DEF Q, d
  <1>9. SumsUp(g, S, x + d, n, e, Q)
    BY <1>2, <1>6, <1>7, <1>8 DEF SumsUp
  <1> QED BY <1>1, <1>9 DEF IsSum, d

(* A set of natural numbers has a least one.                               *)
LEMMA LeastNat ==
  ASSUME NEW U \in SUBSET Nat, U # {}
  PROVE  \E n \in U : \A k \in U : n <= k
  <1>1. IsWellFoundedOn(OpToRel(<, Nat), Nat)
    BY NatLessThanWellFounded
  <1>2. \A x, y \in Nat : x < y => <<x, y>> \in OpToRel(<, Nat)
    BY DEF OpToRel
  <1>3. PICK R : IsWellFoundedOn(R, Nat) /\ \A x, y \in Nat : x < y => <<x, y>> \in R
    BY <1>1, <1>2
  <1>4. PICK n \in U : \A y \in U : <<y, n>> \notin R
    <2>1. IsWellFoundedOn(R, Nat) /\ U \subseteq Nat
      BY <1>3
    <2> QED BY <2>1, WFMin
  <1>5. ASSUME NEW k \in U PROVE n <= k
    <2>1. ~(k < n)
      BY <1>3, <1>4
    <2> QED BY <2>1
  <1> QED BY <1>5

(* A sum of nothing is nothing.                                            *)
LEMMA SumOfNothing ==
  ASSUME NEW S, NEW f, \A t \in S : f[t] = 0, NEW x, IsSum(f, S, x)
  PROVE  x = 0
  <1>0. PICK n \in Nat : \E e, P : SumsUp(f, S, x, n, e, P)
    BY DEF IsSum
  <1>1. PICK e, P : SumsUp(f, S, x, n, e, P)
    BY <1>0
  <1>2. /\ e \in Bijection(1 .. n, S) /\ P \in [0 .. n -> Int] /\ P[0] = 0 /\ P[n] = x
        /\ \A k \in 1 .. n : P[k] = P[k - 1] + f[e[k]]
    BY <1>1 DEF SumsUp
  <1>3. e \in [1 .. n -> S]
    BY <1>2, Fun_BijectionProperties
  <1> DEFINE U == { k \in 0 .. n : P[k] # 0 }
  <1> SUFFICES ASSUME x # 0 PROVE FALSE
    OBVIOUS
  <1>4. U \in SUBSET Nat /\ n \in U /\ U # {}
    BY <1>2
  <1>5. PICK j \in U : \A k \in U : j <= k
    BY <1>4, LeastNat
  <1>6. j \in 1 .. n /\ j - 1 \in 0 .. n /\ P[j - 1] = 0
    <2>1. j \in 0 .. n /\ P[j] # 0
      BY <1>5
    <2>2. j # 0
      BY <1>2, <2>1
    <2>3. j \in 1 .. n /\ j - 1 \in 0 .. n
      BY <2>1, <2>2
    <2>4. j - 1 \notin U
      BY <1>5, <2>1
    <2> QED BY <2>3, <2>4
  <1>7. P[j] # 0 /\ P[j] = P[j - 1] + f[e[j]] /\ f[e[j]] = 0
    BY <1>2, <1>3, <1>5, <1>6
  <1> QED BY <1>6, <1>7

-----------------------------------------------------------------------------
(* The threads.                                                            *)

(* A step of s that is not the end of the server or of the month.          *)
Acts(s) ==
  \/ \E r \in Requests : Receive(s, r)
  \/ Step(s)
  \/ DeadlockAbort(s)
  \/ LockWaitTimeout(s)

(* What t is doing, as far as other threads could interfere.               *)
LeftAlone(t) ==
  /\ pc'[t] = pc[t] /\ req'[t] = req[t] /\ tx'[t] = tx[t] /\ seen'[t] = seen[t]
  /\ \A w \in Wallet : lock[w] = t => lock'[w] = t

(* The kinds of steps leave the other threads alone: what they roll back   *)
(* or unlock is their own, and they lock only what is free.                *)
LEMMA KindsLeaveAlone ==
  ASSUME IInv, NEW s \in Session, NEW t \in Session, t # s
  PROVE  /\ \A e : Refuse(s, e) => LeftAlone(t)
         /\ \A view, l : Read(s, view) /\ Goto(s, l) => LeftAlone(t)
         /\ \A w, work, l : Write(s, w, work) /\ Goto(s, l) => LeftAlone(t)
         /\ \A r \in Requests : Receive(s, r) => LeftAlone(t)
         /\ Commit(s) \/ LockWaitTimeout(s) => LeftAlone(t)
  <1>0. t # NoSession
    BY StoreAssumption
  <1> USE DEF IInv, TypeOK, StoreTypeOK, ThreadTypeOK, LeftAlone
  <1>1. ASSUME NEW e, Refuse(s, e) PROVE LeftAlone(t)
    BY <1>1 DEF Refuse, RollbackWork, Answer, Unlocked
  <1>2. ASSUME NEW view, NEW l, Read(s, view), Goto(s, l) PROVE LeftAlone(t)
    BY <1>2 DEF Read, Goto
  <1>3. ASSUME NEW w, NEW work, NEW l, Write(s, w, work), Goto(s, l) PROVE LeftAlone(t)
    BY <1>0, <1>3 DEF Write, Lock, Free, Goto
  <1>4. ASSUME NEW r \in Requests, Receive(s, r) PROVE LeftAlone(t)
    BY <1>4 DEF Receive, storeVars
  <1>5. CASE Commit(s)
    BY <1>5 DEF Commit, CommitWork, Answer, Unlocked
  <1>6. CASE LockWaitTimeout(s)
    BY <1>6 DEF LockWaitTimeout, RollbackWork, Unlocked
  <1> QED BY <1>1, <1>2, <1>3, <1>4, <1>5, <1>6

(* A thread does not touch another one's handler, transaction or locks.    *)
LEMMA OthersLeftAlone ==
  ASSUME IInv, NEW s \in Session, NEW t \in Session, t # s, Acts(s)
  PROVE  LeftAlone(t)
  <1>1. ASSUME NEW e, Refuse(s, e) PROVE LeftAlone(t)
    BY <1>1, KindsLeaveAlone
  <1>2. ASSUME NEW view, NEW l, Read(s, view), Goto(s, l) PROVE LeftAlone(t)
    BY <1>2, KindsLeaveAlone
  <1>3. ASSUME NEW w, NEW work, NEW l, Write(s, w, work), Goto(s, l) PROVE LeftAlone(t)
    BY <1>3, KindsLeaveAlone
  <1>4. CASE \/ (\E r \in Requests : Receive(s, r)) \/ LockWaitTimeout(s) \/ Commit(s)
             \/ DeadlockAbort(s)
    BY <1>1, <1>4, KindsLeaveAlone DEF DeadlockAbort
  <1>5. CASE TransferStep(s)
    <2>1. ASSUME NEW verdict, NEW view, NEW l, Decide(s, verdict, view, l) PROVE LeftAlone(t)
      BY <1>1, <1>2, <2>1 DEF Decide
    <2>2. CASE Charge(s) \/ Refund(s) \/ Convert(s) \/ ConvertCharge(s)
      BY <2>1, <2>2 DEF Charge, Refund, Convert, ConvertCharge
    <2>3. CASE ChargeDebit(s) \/ ChargeCredit(s) \/ RefundDebit(s) \/ RefundCredit(s)
      BY <1>3, <2>3 DEF ChargeDebit, ChargeCredit, RefundDebit, RefundCredit
    <2> QED BY <1>5, <2>2, <2>3 DEF TransferStep
  <1>6. CASE \/ PinRejected(s) \/ PaymentContext(s) \/ General(s) \/ Mixed(s)
             \/ LocalPay(s) \/ MixedLocal(s) \/ MixedMain(s)
    BY <1>1, <1>2, <1>3, <1>6 DEF PinRejected, PaymentContext, General, Mixed, LocalPay,
                                  MixedLocal, MixedMain
  <1>7. CASE GeneralDebit(s) \/ GeneralPost(s) \/ GeneralMerchant(s)
    BY <1>7 DEF GeneralDebit, GeneralPost, GeneralMerchant, Goto, Answer, LeftAlone,
                IInv, TypeOK, StoreTypeOK, ThreadTypeOK
  <1>8. CASE LocalFinish(s)
    <2>1. CASE Refuse(s, "INTERNAL_SERVER_ERROR")
      BY <1>1, <2>1
    <2>2. CASE ~Refuse(s, "INTERNAL_SERVER_ERROR")
      BY <1>8, <2>2 DEF LocalFinish, Goto, LeftAlone, IInv, TypeOK, StoreTypeOK, ThreadTypeOK
    <2> QED BY <2>1, <2>2
  <1> QED BY <1>4, <1>5, <1>6, <1>7, <1>8 DEF Acts, Step, PaymentStep

-----------------------------------------------------------------------------
(* The cash of GENERAL payments that has no row yet.                       *)

GeneralDue == {"generalPost", "generalMerchant"}

(* What the threads of member u still have to record, and what all threads *)
(* still have to record for the merchants.                                 *)
PostDue(u) ==
  [t \in Session |-> IF pc[t] = "generalPost" /\ req[t].user = u THEN req[t].total ELSE 0]
MerchantDue == [t \in Session |-> IF pc[t] \in GeneralDue THEN req[t].total ELSE 0]

(* Without a fault the unrecorded cash of a member is exactly the sum of   *)
(* what its threads are about to record, and the same for the merchants.   *)
UnpostedIsDue ==
  faults = 0 => \A u \in User : IsSum(PostDue(u), Session, unposted[CashOf[u]])
MerchantsAreDue ==
  faults = 0 => IsSum(MerchantDue, Session, paid - merchantPosted)

(* s goes on to label l with request q.                                    *)
Moves(s, l, q) == pc' = [pc EXCEPT ![s] = l] /\ req' = [req EXCEPT ![s] = q]

(* What is due is a number.                                                *)
LEMMA DueTypes ==
  ASSUME IInv
  PROVE  /\ \A u \in User, t \in Session : PostDue(u)[t] \in Int
         /\ \A t \in Session : MerchantDue[t] \in Int
  <1>1. ASSUME NEW t \in Session, pc[t] \in GeneralDue PROVE req[t].total \in Int
    <2>1. req[t] \in Requests
      BY <1>1, Serving DEF GeneralDue
    <2> QED BY <2>1, RequestFields
  <1> QED BY <1>1 DEF PostDue, MerchantDue, GeneralDue

(* A thread that is not between these statements owes nothing.             *)
LEMMA DueStays ==
  ASSUME IInv, NEW s \in Session, NEW l, NEW q, Moves(s, l, q),
         l \notin GeneralDue, pc[s] \notin GeneralDue
  PROVE  /\ \A u \in User : PostDue(u)' = PostDue(u)
         /\ MerchantDue' = MerchantDue
  <1>1. ASSUME NEW t \in Session
        PROVE  /\ pc'[t] \in GeneralDue <=> pc[t] \in GeneralDue
               /\ pc'[t] = "generalPost" <=> pc[t] = "generalPost"
               /\ pc[t] \in GeneralDue => req'[t] = req[t]
    BY DEF Moves, GeneralDue, IInv, TypeOK, ThreadTypeOK
  <1>2. MerchantDue' = MerchantDue
    BY <1>1 DEF MerchantDue
  <1>3. ASSUME NEW u \in User PROVE PostDue(u)' = PostDue(u)
    BY <1>1 DEF PostDue, GeneralDue
  <1> QED BY <1>2, <1>3

(* The steps that neither take unrecorded cash nor record it.              *)
LEMMA OutsideDue ==
  ASSUME IInv, BankInv, NEW s \in Session, Acts(s), ~LockWaitTimeout(s),
         ~GeneralDebit(s), ~GeneralPost(s), ~GeneralMerchant(s)
  PROVE  /\ \E l, q : Moves(s, l, q) /\ l \notin GeneralDue
         /\ pc[s] \notin GeneralDue
         /\ faults' = faults /\ unposted' = unposted
         /\ Commit(s) \/ UNCHANGED <<paid, merchantPosted, badges>>
  <1> DEFINE Outside == /\ \E l, q : Moves(s, l, q) /\ l \notin GeneralDue
                        /\ faults' = faults /\ unposted' = unposted
                        /\ Commit(s) \/ UNCHANGED <<paid, merchantPosted, badges>>
  <1>1. ASSUME NEW e, Refuse(s, e) PROVE Outside
    <2>1. Moves(s, "idle", NoRequest) /\ "idle" \notin GeneralDue
      BY <1>1 DEF Refuse, Answer, Moves, GeneralDue
    <2> QED BY <1>1, <2>1 DEF Refuse, RollbackWork, Answer, committedVars
  <1>2. ASSUME NEW l, l \notin GeneralDue, Goto(s, l), UNCHANGED committedVars PROVE Outside
    <2>1. Moves(s, l, req[s])
      BY <1>2 DEF Goto, Moves, IInv, TypeOK, ThreadTypeOK
    <2> QED BY <1>2, <2>1 DEF Goto, committedVars
  <1>3. ASSUME NEW r \in Requests, Receive(s, r) PROVE Outside /\ pc[s] \notin GeneralDue
    <2>1. Moves(s, Entry(r), r) /\ Entry(r) \notin GeneralDue
      BY <1>3 DEF Receive, Moves, Entry, GeneralDue
    <2> QED BY <1>3, <2>1 DEF Receive, storeVars, committedVars, GeneralDue
  <1>4. ASSUME DeadlockAbort(s) PROVE Outside /\ pc[s] \notin GeneralDue
    <2>1. PICK T \in SUBSET Session : s \in T /\ T = UNION { WaitsFor(t) : t \in T }
      BY <1>4 DEF DeadlockAbort, Deadlocked
    <2>2. PICK t \in T : s \in WaitsFor(t)
      BY <2>1
    <2>3. \E w : w \in NextRow(t) /\ s = lock[w]
      BY <2>2 DEF WaitsFor
    <2>4. NextRow(t) \in SUBSET Wallet
      <3>1. CASE pc[t] = "idle"
        BY <3>1 DEF NextRow
      <3>2. CASE pc[t] # "idle"
        <4>1. req[t] \in Requests
          BY <3>2, <2>1, Serving
        <4> QED BY <4>1, RequestFields DEF NextRow
      <3> QED BY <3>1, <3>2
    <2>5. pc[s] \in InTransaction
      BY <2>3, <2>4, StoreAssumption DEF IInv, LockDiscipline
    <2> QED BY <1>1, <1>4, <2>5 DEF DeadlockAbort, InTransaction, GeneralDue
  <1>5. ASSUME Commit(s) PROVE Outside /\ pc[s] \notin GeneralDue
    <2>1. Moves(s, "idle", NoRequest) /\ "idle" \notin GeneralDue
      BY <1>5 DEF Commit, Answer, Moves, GeneralDue
    <2> QED BY <1>5, <2>1 DEF Commit, CommitWork, Answer, GeneralDue
  <1>6. ASSUME TransferStep(s) PROVE Outside /\ pc[s] \notin GeneralDue
    <2>1. ASSUME NEW verdict, NEW view, NEW l, l \notin GeneralDue, Decide(s, verdict, view, l)
          PROVE  Outside
      BY <1>1, <1>2, <2>1 DEF Decide, Read
    <2>2. CASE Charge(s) \/ Refund(s) \/ Convert(s) \/ ConvertCharge(s)
      <3>1. "chargeDebit" \notin GeneralDue /\ "refundDebit" \notin GeneralDue
        BY DEF GeneralDue
      <3>2. pc[s] \notin GeneralDue
        BY <2>2 DEF Charge, Refund, Convert, ConvertCharge, GeneralDue
      <3> HIDE DEF Outside
      <3> QED BY <2>1, <2>2, <3>1, <3>2 DEF Charge, Refund, Convert, ConvertCharge
    <2>3. CASE ChargeDebit(s) \/ ChargeCredit(s) \/ RefundDebit(s) \/ RefundCredit(s)
      <3>1. \E l : l \notin GeneralDue /\ Goto(s, l) /\ UNCHANGED committedVars
        BY <2>3 DEF ChargeDebit, ChargeCredit, RefundDebit, RefundCredit, Write, GeneralDue
      <3>2. pc[s] \notin GeneralDue
        BY <2>3 DEF ChargeDebit, ChargeCredit, RefundDebit, RefundCredit, GeneralDue
      <3> HIDE DEF Outside
      <3> QED BY <1>2, <3>1, <3>2
    <2> HIDE DEF Outside
    <2> QED BY <1>6, <2>2, <2>3 DEF TransferStep
  <1>7. ASSUME PaymentStep(s) PROVE Outside /\ pc[s] \notin GeneralDue
    <2>1. \/ \E e : Refuse(s, e)
          \/ \E l : l \notin GeneralDue /\ Goto(s, l) /\ UNCHANGED committedVars
      <3>1. Route(req[s]) \notin GeneralDue
        BY DEF Route, GeneralDue
      <3>2. "generalDebit" \notin GeneralDue /\ "localFinish" \notin GeneralDue
            /\ "commit" \notin GeneralDue /\ "mixedLocal" \notin GeneralDue
            /\ "mixedMain" \notin GeneralDue
        BY DEF GeneralDue
      <3> QED BY <1>7, <3>1, <3>2 DEF PaymentStep, PinRejected, PaymentContext, General, LocalPay,
                 LocalFinish, Mixed, MixedLocal, MixedMain, Read, Write
    <2>2. pc[s] \notin GeneralDue
      BY <1>7 DEF PaymentStep, PinRejected, PaymentContext, General, LocalPay, LocalFinish,
                  Mixed, MixedLocal, MixedMain, GeneralDue
    <2> HIDE DEF Outside
    <2> QED BY <1>1, <1>2, <2>1, <2>2
  <1> HIDE DEF Outside
  <1>8. Outside /\ pc[s] \notin GeneralDue
    BY <1>3, <1>4, <1>5, <1>6, <1>7 DEF Acts, Step
  <1> QED BY <1>8 DEF Outside

(* One thread comes to owe, or pays, the difference.                       *)
LEMMA DueMoves ==
  ASSUME IInv, NEW s \in Session, NEW l \in Labels, NEW q, Moves(s, l, q),
         pc[s] \in {"generalDebit", "generalPost", "generalMerchant"},
         l \in {"generalPost", "generalMerchant", "idle"}, l # "idle" => q = req[s]
  PROVE  /\ \A u \in User : \A t \in Session \ {s} : PostDue(u)'[t] = PostDue(u)[t]
         /\ \A u \in User : PostDue(u)'[s] = IF l = "generalPost" /\ req[s].user = u
                                             THEN req[s].total ELSE 0
         /\ \A t \in Session \ {s} : MerchantDue'[t] = MerchantDue[t]
         /\ MerchantDue'[s] = IF l \in GeneralDue THEN req[s].total ELSE 0
  <1>1. /\ pc'[s] = l /\ req'[s] = q
        /\ \A t \in Session \ {s} : pc'[t] = pc[t] /\ req'[t] = req[t]
    BY DEF Moves, IInv, TypeOK, ThreadTypeOK
  <1> QED BY <1>1 DEF PostDue, MerchantDue, GeneralDue

(* The debit takes what the row will record, and nothing from others.      *)
LEMMA DebitDue ==
  ASSUME IInv, NEW s \in Session, GeneralDebit(s), UnpostedIsDue
  PROVE  UnpostedIsDue'
  <1> SUFFICES ASSUME faults' = 0, NEW u \in User
               PROVE  IsSum(PostDue(u)', Session, unposted'[CashOf[u]])
    BY DEF UnpostedIsDue
  <1>0. PICK r \in Requests : r = req[s]
    BY Serving DEF GeneralDebit
  <1>1. /\ pc[s] = "generalDebit" /\ Moves(s, "generalPost", r) /\ faults' = faults
        /\ unposted' = [unposted EXCEPT ![CashOf[r.user]] = @ + r.total]
    BY <1>0 DEF GeneralDebit, Goto, Moves, IInv, TypeOK, ThreadTypeOK
  <1>2. /\ r.user \in User /\ r.total \in Int /\ CashOf[r.user] \in Wallet
        /\ CashOf[u] \in Wallet /\ unposted[CashOf[u]] \in Int
        /\ CashOf[u] = CashOf[r.user] => u = r.user
    <2>1. r.user \in User /\ r.total \in Int
      BY RequestFields
    <2> QED BY <2>1, WalletsAssumption DEF IInv, TypeOK, StoreTypeOK
  <1>3. IsSum(PostDue(u), Session, unposted[CashOf[u]])
    BY <1>1 DEF UnpostedIsDue
  <1>4. PostDue(u)[s] = 0
    BY <1>1 DEF PostDue
  <1>5. /\ \A t \in Session \ {s} : PostDue(u)'[t] = PostDue(u)[t]
        /\ PostDue(u)'[s] = IF r.user = u THEN r.total ELSE 0
    <2>1. "generalPost" \in Labels
      BY DEF Labels, PaymentLabels
    <2> QED BY <1>0, <1>1, <2>1, DueMoves
  <1>6. \A t \in Session : PostDue(u)[t] \in Int
    BY DueTypes
  <1> DEFINE f == PostDue(u)
             g == PostDue(u)'
             x == unposted[CashOf[u]]
  <1>7. /\ IsSum(f, Session, x) /\ x \in Int
        /\ \A t \in Session : f[t] \in Int
        /\ g[s] \in Int /\ \A t \in Session \ {s} : g[t] = f[t]
    BY <1>2, <1>3, <1>5, <1>6
  <1>8. unposted'[CashOf[u]] = x + (g[s] - f[s])
    BY <1>1, <1>2, <1>4, <1>5 DEF IInv, TypeOK, StoreTypeOK
  <1> HIDE DEF f, g, x
  <1>9. IsSum(g, Session, x + (g[s] - f[s]))
    BY <1>7, SumChange
  <1> QED BY <1>8, <1>9 DEF g

(* The row records it.                                                     *)
LEMMA PostDueDone ==
  ASSUME IInv, NEW s \in Session, GeneralPost(s), UnpostedIsDue
  PROVE  UnpostedIsDue'
  <1> SUFFICES ASSUME faults' = 0, NEW u \in User
               PROVE  IsSum(PostDue(u)', Session, unposted'[CashOf[u]])
    BY DEF UnpostedIsDue
  <1>0. PICK r \in Requests : r = req[s]
    BY Serving DEF GeneralPost
  <1>1. /\ pc[s] = "generalPost" /\ Moves(s, "generalMerchant", r) /\ faults' = faults
        /\ unposted' = [unposted EXCEPT ![CashOf[r.user]] = @ - r.total]
    BY <1>0 DEF GeneralPost, Goto, Moves, IInv, TypeOK, ThreadTypeOK
  <1>2. /\ r.user \in User /\ r.total \in Int /\ CashOf[r.user] \in Wallet
        /\ CashOf[u] \in Wallet /\ unposted[CashOf[u]] \in Int
        /\ CashOf[u] = CashOf[r.user] => u = r.user
    <2>1. r.user \in User /\ r.total \in Int
      BY RequestFields
    <2> QED BY <2>1, WalletsAssumption DEF IInv, TypeOK, StoreTypeOK
  <1>3. IsSum(PostDue(u), Session, unposted[CashOf[u]])
    BY <1>1 DEF UnpostedIsDue
  <1>4. PostDue(u)[s] = IF r.user = u THEN r.total ELSE 0
    BY <1>0, <1>1 DEF PostDue
  <1>5. /\ \A t \in Session \ {s} : PostDue(u)'[t] = PostDue(u)[t]
        /\ PostDue(u)'[s] = 0
    <2>1. "generalMerchant" \in Labels
      BY DEF Labels, PaymentLabels
    <2> QED BY <1>0, <1>1, <2>1, DueMoves
  <1>6. \A t \in Session : PostDue(u)[t] \in Int
    BY DueTypes
  <1> DEFINE f == PostDue(u)
             g == PostDue(u)'
             x == unposted[CashOf[u]]
  <1>7. /\ IsSum(f, Session, x) /\ x \in Int
        /\ \A t \in Session : f[t] \in Int
        /\ g[s] \in Int /\ \A t \in Session \ {s} : g[t] = f[t]
    BY <1>2, <1>3, <1>5, <1>6
  <1>8. unposted'[CashOf[u]] = x + (g[s] - f[s])
    BY <1>1, <1>2, <1>4, <1>5 DEF IInv, TypeOK, StoreTypeOK
  <1> HIDE DEF f, g, x
  <1>9. IsSum(g, Session, x + (g[s] - f[s]))
    BY <1>7, SumChange
  <1> QED BY <1>8, <1>9 DEF g

(* The merchant's row leaves the member's side alone.                      *)
LEMMA MerchantPostDue ==
  ASSUME IInv, NEW s \in Session, GeneralMerchant(s), UnpostedIsDue
  PROVE  UnpostedIsDue'
  <1>1. /\ pc[s] = "generalMerchant" /\ pc' = [pc EXCEPT ![s] = "idle"]
        /\ req' = [req EXCEPT ![s] = NoRequest] /\ faults' = faults /\ unposted' = unposted
    BY DEF GeneralMerchant, Answer
  <1>2. ASSUME NEW u \in User PROVE PostDue(u)' = PostDue(u)
    BY <1>1 DEF PostDue, IInv, TypeOK, ThreadTypeOK
  <1> QED BY <1>1, <1>2 DEF UnpostedIsDue

(* Every step keeps the account of unrecorded cash, or is a fault.         *)
LEMMA NextUnposted ==
  ASSUME IInv, BankInv, [Next]_vars, UnpostedIsDue
  PROVE  UnpostedIsDue'
  <1>1. ASSUME NEW s \in Session, Acts(s), ~LockWaitTimeout(s),
               ~GeneralDebit(s), ~GeneralPost(s), ~GeneralMerchant(s)
        PROVE  UnpostedIsDue'
    <2>1. /\ \E l, q : Moves(s, l, q) /\ l \notin GeneralDue
          /\ pc[s] \notin GeneralDue /\ faults' = faults /\ unposted' = unposted
      BY <1>1, OutsideDue
    <2>2. \A u \in User : PostDue(u)' = PostDue(u)
      BY <2>1, DueStays
    <2> QED BY <2>1, <2>2 DEF UnpostedIsDue
  <1>2. ASSUME NEW s \in Session, GeneralDebit(s) \/ GeneralPost(s) \/ GeneralMerchant(s)
        PROVE  UnpostedIsDue'
    BY <1>2, DebitDue, PostDueDone, MerchantPostDue
  <1>3. ASSUME Crash \/ \E s \in Session : LockWaitTimeout(s)
        PROVE  UnpostedIsDue'
    <2>1. faults' = faults + 1 /\ faults \in Nat
      BY <1>3, BoundsAssumption DEF Crash, LockWaitTimeout, IInv, TypeOK, ThreadTypeOK
    <2>2. faults' # 0
      BY <2>1
    <2> QED BY <2>2 DEF UnpostedIsDue
  <1>4. CASE Tick \/ Drained \/ UNCHANGED vars
    <2>1. UNCHANGED <<pc, req, faults, unposted>>
      BY <1>4 DEF Tick, Drained, vars, storeVars, threadVars, committedVars
    <2>2. \A u \in User : PostDue(u)' = PostDue(u)
      BY <2>1 DEF PostDue
    <2> QED BY <2>1, <2>2 DEF UnpostedIsDue
  <1> QED BY <1>1, <1>2, <1>3, <1>4 DEF Next, Acts

(* Nothing is taken and nothing is due at the start.                       *)
LEMMA InitUnposted ==
  ASSUME Init
  PROVE  UnpostedIsDue
  <1> SUFFICES ASSUME NEW u \in User PROVE IsSum(PostDue(u), Session, unposted[CashOf[u]])
    BY DEF UnpostedIsDue
  <1>1. \A t \in Session : PostDue(u)[t] = 0
    BY DEF Init, ThreadInit, PostDue
  <1>2. unposted[CashOf[u]] = 0
    BY WalletsAssumption DEF Init, StoreInit, Nothing
  <1> QED BY <1>1, <1>2, SumZero, PoolAssumption

(* While no thread crashes or times out, cash that a GENERAL payment took  *)
(* is cash whose row a thread is about to insert: processGeneral, without  *)
(* a transaction, loses nothing to any interleaving or deadlock by itself. *)
THEOREM NothingIsLost == Spec => []NothingLostWithoutFault
  <1>1. Init => UnpostedIsDue
    BY InitUnposted
  <1>2. IInv /\ BankInv /\ UnpostedIsDue /\ [Next]_vars => UnpostedIsDue'
    BY NextUnposted
  <1>3. IInv /\ UnpostedIsDue => NothingLostWithoutFault
    <2> SUFFICES ASSUME IInv, UnpostedIsDue, faults = 0, NEW u \in User,
                        unposted[CashOf[u]] # 0
                 PROVE  \E s \in Session : pc[s] = "generalPost" /\ req[s].user = u
      BY DEF NothingLostWithoutFault
    <2>1. IsSum(PostDue(u), Session, unposted[CashOf[u]])
      BY DEF UnpostedIsDue
    <2>2. \A t \in Session : PostDue(u)[t] \in Int
      BY DueTypes
    <2>3. PICK t \in Session : PostDue(u)[t] # 0
      <3> DEFINE f == PostDue(u)
                 x == unposted[CashOf[u]]
      <3> SUFFICES ASSUME \A t \in Session : f[t] = 0 PROVE FALSE
        OBVIOUS
      <3>1. IsSum(f, Session, x) /\ x # 0
        BY <2>1
      <3> HIDE DEF f, x
      <3> QED BY <3>1, SumOfNothing
    <2> QED BY <2>3 DEF PostDue
  <1> QED BY <1>1, <1>2, <1>3, AlwaysOnTheWay, PTL DEF Spec

-----------------------------------------------------------------------------
(* The merchants' rows and the badges of whole payments.                   *)

(* Nobody splits a local-currency payment between two wallets: inputAmount *)
(* covers the price, so that LocalMixedStrategy never runs.                *)
NoMixedPayments == \A r \in Requests : r.op \in LocalOps => r.amount >= r.total

(* A member has one wallet for a badge: a region has one currency, and a   *)
(* member one wallet of it.                                                *)
OneWalletPerBadge ==
  \A v, w \in Wallet :
    Owner[v] = Owner[w] /\ BadgeOf[v] = BadgeOf[w] /\ BadgeOf[v] # NoBadge => v = w

MixedLabels == {"mixed", "mixedLocal", "mixedMain"}

(* The merchant's row of a payment is complete when it is to be committed. *)
MerchantRow(s) ==
  /\ pc[s] \notin MixedLabels
  /\ tx[s].merchant = IF pc[s] = "commit" THEN req[s].total ELSE 0

(* A badge is awarded under the lock of the wallet it is for, which        *)
(* payAndAccumulate took.                                                  *)
AwardAtCommit(s) ==
  /\ pc[s] = "localFinish" => lock[req[s].from] = s
  /\ tx[s].award # "none" =>
       pc[s] = "commit" /\ lock[req[s].from] = s /\ BadgeOf[req[s].from] \in Badge

(* The member does not have the badge that is going to be awarded.         *)
AwardIsNew(s) ==
  tx[s].award # "none" => badges[req[s].user][BadgeOf[req[s].from]][tx[s].award] = 0

MerchantInv == \A s \in Session : MerchantRow(s) /\ AwardAtCommit(s)
BadgeInv    == NoDuplicateBadge /\ \A s \in Session : AwardIsNew(s)

(* An update touches neither the merchant's row, nor the award, nor the    *)
(* member's total.                                                         *)
LEMMA UpdatedKeeps ==
  ASSUME NEW t \in WorkType, NEW w \in Wallet, NEW x \in Int
  PROVE  /\ Updated(t, w, x) \in WorkType
         /\ Updated(t, w, x).merchant = t.merchant /\ Updated(t, w, x).award = t.award
         /\ Updated(t, w, x).total = t.total
  <1>1. Updated(t, w, x) \in WorkType
    BY UpdatedType
  <1>2. /\ Updated(t, w, x).merchant = t.merchant /\ Updated(t, w, x).award = t.award
        /\ Updated(t, w, x).total = t.total
    BY DEF Updated, WorkType
  <1> QED BY <1>1, <1>2

(* Nor does a member's row.                                                *)
LEMMA InsertedKeeps ==
  ASSUME NEW t \in WorkType, NEW w \in Wallet, NEW x \in Int, NEW before \in Int
  PROVE  /\ Inserted(t, w, x, before) \in WorkType
         /\ Inserted(t, w, x, before).merchant = t.merchant
         /\ Inserted(t, w, x, before).award = t.award
         /\ Inserted(t, w, x, before).total = t.total
  <1>1. Inserted(t, w, x, before) \in WorkType
    BY InsertedType
  <1>2. /\ Inserted(t, w, x, before).merchant = t.merchant
        /\ Inserted(t, w, x, before).award = t.award
        /\ Inserted(t, w, x, before).total = t.total
    BY DEF Inserted, WorkType
  <1> QED BY <1>1, <1>2

(* A statement that inserts no merchant's row and goes on, before the end. *)
LEMMA PayGoes ==
  ASSUME IInv, NEW s \in Session, MerchantRow(s), AwardAtCommit(s), pc[s] # "commit",
         NEW l, NEW work, l \notin MixedLabels, Goto(s, l), tx' = [tx EXCEPT ![s] = work],
         work.merchant = tx[s].merchant, work.award = tx[s].award,
         l = "commit" => req[s].total = 0, l = "localFinish" => lock'[req[s].from] = s
  PROVE  MerchantRow(s)' /\ AwardAtCommit(s)' /\ AwardIsNew(s)'
  <1>1. pc'[s] = l /\ tx'[s] = work /\ req'[s] = req[s]
    BY DEF Goto, IInv, TypeOK, StoreTypeOK, ThreadTypeOK
  <1> QED BY <1>1 DEF MerchantRow, AwardAtCommit, AwardIsNew

(* An answer after a rollback or a commit leaves no work.                  *)
LEMMA PayEnds ==
  ASSUME IInv, NEW s \in Session, pc'[s] = "idle", tx'[s] = NoWork
  PROVE  MerchantRow(s)' /\ AwardAtCommit(s)' /\ AwardIsNew(s)'
  BY DEF MerchantRow, AwardAtCommit, AwardIsNew, MixedLabels, NoWork

(* Work that has the merchant's row, award and total of t.                 *)
Keeps(t, work) ==
  work.merchant = t.merchant /\ work.award = t.award /\ work.total = t.total

TransferNext == {"chargeDebit", "chargeCredit", "refundDebit", "refundCredit",
                 "convertCharge", "commit"}

(* s goes on with a transfer, in a transaction that has only moved money.  *)
MovesMoney(s) ==
  \E l \in TransferNext, work \in WorkType :
    /\ Goto(s, l) /\ tx' = [tx EXCEPT ![s] = work] /\ Keeps(tx[s], work)
    /\ UNCHANGED <<committedVars, now>>

(* The credits and rows of a charge and of a refund.                       *)
LEMMA CreditsKeep ==
  ASSUME IInv, NEW s \in Session, ChargeCredit(s) \/ RefundCredit(s)
  PROVE  MovesMoney(s)
  <1> DEFINE r == req[s]
             t == tx[s]
  <1>1. /\ r \in Requests /\ t \in WorkType /\ seen[s].balance \in [Wallet -> Int]
    BY Serving DEF ChargeCredit, RefundCredit
  <1>2. /\ r.from \in Wallet /\ r.to \in Wallet /\ ChargeSource(r) \in Wallet
        /\ RefundTarget(r) \in Wallet /\ ChargeBase(r) \in Int /\ r.amount \in Int
        /\ Credited(ChargeBase(r), Rate(r.to)) \in Int
        /\ RefundValue(r.amount, Rate(r.from)) \in Int
    BY <1>1, RequestFields
  <1>3. ASSUME NEW w, NEW work \in WorkType, NEW l \in TransferNext,
               Write(s, w, work), Goto(s, l), Keeps(t, work)
        PROVE  MovesMoney(s)
    BY <1>3 DEF Write, MovesMoney
  <1> HIDE DEF r, t
  <1>4. CASE ChargeCredit(s)
    <2> DEFINE from == ChargeSource(r)
               base == ChargeBase(r)
               credit == Credited(base, Rate(r.to))
               up == Updated(t, r.to, credit)
               row1 == Inserted(up, from, -base, seen[s].balance[from])
               row2 == Inserted(row1, r.to, credit, seen[s].balance[r.to])
               work == ChargeRows(s, up)
    <2>1. Write(s, r.to, work) /\ Goto(s, "commit") /\ "commit" \in TransferNext
      BY <1>4 DEF ChargeCredit, TransferNext, r, t
    <2>2. work = IF r.op = "CHARGE" THEN [row2 EXCEPT !.charge = credit, !.at = now] ELSE row2
      BY DEF ChargeRows, MonthlyAmount, r
    <2>3. /\ from \in Wallet /\ credit \in Int /\ -base \in Int /\ now \in Time
          /\ seen[s].balance[from] \in Int /\ seen[s].balance[r.to] \in Int
      BY <1>1, <1>2 DEF IInv, TypeOK, StoreTypeOK
    <2> HIDE DEF from, base, credit, up, row1, row2, work
    <2>4. up \in WorkType /\ Keeps(t, up)
      BY <1>1, <1>2, <2>3, UpdatedKeeps DEF up, Keeps
    <2>5. row1 \in WorkType /\ Keeps(t, row1)
      BY <2>3, <2>4, InsertedKeeps DEF row1, Keeps
    <2>6. row2 \in WorkType /\ Keeps(t, row2)
      <3>1. /\ row1 \in WorkType /\ r.to \in Wallet /\ credit \in Int
            /\ seen[s].balance[r.to] \in Int
        BY <1>2, <2>3, <2>5
      <3> QED BY <2>5, <3>1, InsertedKeeps DEF row2, Keeps
    <2>7. work \in WorkType /\ Keeps(t, work)
      BY <2>2, <2>3, <2>6 DEF WorkType, Keeps
    <2> QED BY <1>3, <2>1, <2>7
  <1>5. CASE RefundCredit(s)
    <2> DEFINE cash == RefundTarget(r)
               value == RefundValue(r.amount, Rate(r.from))
               up == Updated(t, cash, value)
               row1 == Inserted(up, cash, value, seen[s].balance[cash])
               work == Inserted(row1, r.from, -r.amount, seen[s].balance[r.from])
               l == IF r.op = "CONVERT" THEN "convertCharge" ELSE "commit"
    <2>1. Write(s, cash, work) /\ Goto(s, l)
      BY <1>5 DEF RefundCredit, RefundRows, r, t
    <2>2. l \in TransferNext
      BY DEF TransferNext
    <2>3. /\ cash \in Wallet /\ value \in Int /\ -r.amount \in Int
          /\ seen[s].balance[cash] \in Int /\ seen[s].balance[r.from] \in Int
      BY <1>1, <1>2
    <2> HIDE DEF cash, value, up, row1, work, l
    <2>4. up \in WorkType /\ Keeps(t, up)
      BY <1>1, <2>3, UpdatedKeeps DEF up, Keeps
    <2>5. row1 \in WorkType /\ Keeps(t, row1)
      BY <2>3, <2>4, InsertedKeeps DEF row1, Keeps
    <2>6. work \in WorkType /\ Keeps(t, work)
      <3>1. /\ row1 \in WorkType /\ r.from \in Wallet /\ -r.amount \in Int
            /\ seen[s].balance[r.from] \in Int
        BY <1>2, <2>3, <2>5
      <3> QED BY <2>5, <3>1, InsertedKeeps DEF work, Keeps
    <2> QED BY <1>3, <2>1, <2>2, <2>6
  <1> QED BY <1>4, <1>5

(* A transfer inserts no merchant's row, counts no payment and awards no   *)
(* badge.                                                                  *)
LEMMA TransferKeeps ==
  ASSUME IInv, NEW s \in Session, TransferStep(s)
  PROVE  (\E e : Refuse(s, e)) \/ MovesMoney(s)
  <1> DEFINE r == req[s]
             t == tx[s]
  <1>1. t \in WorkType /\ tx \in [Session -> WorkType]
    BY DEF IInv, TypeOK, StoreTypeOK
  <1>2. ASSUME NEW verdict, NEW view, NEW l \in {"chargeDebit", "refundDebit"},
               Decide(s, verdict, view, l)
        PROVE  (\E e : Refuse(s, e)) \/ MovesMoney(s)
    <2>1. CASE Read(s, view) /\ Goto(s, l)
      <3>1. tx' = [tx EXCEPT ![s] = t] /\ Keeps(t, t) /\ l \in TransferNext
        BY <1>1, <2>1 DEF Read, Keeps, TransferNext
      <3> QED BY <1>1, <2>1, <3>1 DEF Read, MovesMoney
    <2> QED BY <1>2, <2>1 DEF Decide
  <1>3. CASE Charge(s) \/ Refund(s) \/ Convert(s) \/ ConvertCharge(s)
    BY <1>2, <1>3 DEF Charge, Refund, Convert, ConvertCharge
  <1>4. ASSUME NEW w \in Wallet, NEW x \in Int, NEW l \in TransferNext,
               Write(s, w, Updated(t, w, x)), Goto(s, l)
        PROVE  MovesMoney(s)
    <2>1. Updated(t, w, x) \in WorkType /\ Keeps(t, Updated(t, w, x))
      BY <1>1, UpdatedKeeps DEF Keeps
    <2> QED BY <1>4, <2>1 DEF Write, MovesMoney
  <1>5. CASE ChargeDebit(s)
    <2>1. ChargeSource(r) \in Wallet /\ -ChargeBase(r) \in Int
      <3>1. r \in Requests
        BY <1>5, Serving DEF ChargeDebit
      <3>2. ChargeSource(r) \in Wallet /\ ChargeBase(r) \in Int
        BY <3>1, RequestFields
      <3> QED BY <3>2
    <2>2. /\ Write(s, ChargeSource(r), Updated(t, ChargeSource(r), -ChargeBase(r)))
          /\ Goto(s, "chargeCredit") /\ "chargeCredit" \in TransferNext
      BY <1>5 DEF ChargeDebit, TransferNext
    <2> QED BY <1>4, <2>1, <2>2
  <1>6. CASE RefundDebit(s)
    <2>1. r.from \in Wallet /\ -r.amount \in Int
      <3>1. r \in Requests
        BY <1>6, Serving DEF RefundDebit
      <3>2. r.from \in Wallet /\ r.amount \in Int
        BY <3>1, RequestFields
      <3> QED BY <3>2
    <2>2. /\ Write(s, r.from, Updated(t, r.from, -r.amount))
          /\ Goto(s, "refundCredit") /\ "refundCredit" \in TransferNext
      BY <1>6 DEF RefundDebit, TransferNext
    <2> QED BY <1>4, <2>1, <2>2
  <1> QED BY <1>3, <1>5, <1>6, CreditsKeep DEF TransferStep

(* So a transfer leaves the merchants' rows complete.                      *)
LEMMA TransferPays ==
  ASSUME IInv, BankInv, NEW s \in Session, MerchantRow(s), AwardAtCommit(s), TransferStep(s)
  PROVE  MerchantRow(s)' /\ AwardAtCommit(s)' /\ AwardIsNew(s)'
  <1> DEFINE r == req[s]
  <1>1. pc[s] \in TransferLabels
    BY DEF TransferStep, Charge, ChargeDebit, ChargeCredit, Refund, RefundDebit,
           RefundCredit, Convert, ConvertCharge, TransferLabels
  <1>2. pc[s] # "commit" /\ pc[s] # "idle"
    BY <1>1 DEF TransferLabels
  <1>3. r \in Requests /\ pc[s] \in LabelsOf(r.op)
    BY <1>2, Serving DEF BankInv, OnItsWay
  <1>4. r.total = 0
    <2>1. r.op \in TransferOps \cup PaymentOps
      BY <1>3, RequestFields
    <2>2. CASE r.op \in PaymentOps
      BY <1>1, <1>3, <2>2 DEF LabelsOf, PaymentOps, LocalOps, TransferLabels
    <2> QED BY <1>3, <2>1, <2>2, RequestsAssumption
  <1>5. CASE \E e : Refuse(s, e)
    BY <1>5, PayEnds DEF Refuse, RollbackWork, Answer, IInv, TypeOK, StoreTypeOK, ThreadTypeOK
  <1>6. CASE MovesMoney(s)
    <2>1. PICK l \in TransferNext, work \in WorkType :
            Goto(s, l) /\ tx' = [tx EXCEPT ![s] = work] /\ Keeps(tx[s], work)
      BY <1>6 DEF MovesMoney
    <2>2. l \notin MixedLabels
      BY DEF TransferNext, MixedLabels
    <2>3. l # "localFinish"
      BY DEF TransferNext
    <2> QED BY <1>2, <1>4, <2>1, <2>2, <2>3, PayGoes DEF Keeps
  <1> QED BY <1>5, <1>6, TransferKeeps

(* LocalStrategy's rows: the merchant's for the whole price, and a badge   *)
(* that the member does not have, both under the lock of its wallet.       *)
LEMMA LocalFinishPays ==
  ASSUME IInv, BankInv, NEW s \in Session, MerchantRow(s), AwardAtCommit(s), LocalFinish(s)
  PROVE  MerchantRow(s)' /\ AwardAtCommit(s)' /\ AwardIsNew(s)'
  <1>0. PICK r \in Requests : r = req[s]
    BY Serving DEF LocalFinish
  <1> DEFINE t == tx[s]
             tier == Reached(s)
             held == HeldUnderLock(s)
             row == Inserted(t, r.from, -r.total, seen[s].balance[r.from])
             rows == InsertedMerchant(row, r.total)
             work == [rows EXCEPT !.award = Award(tier, held)]
  <1>1. /\ pc[s] = "localFinish" /\ t \in WorkType /\ seen[s].balance \in [Wallet -> Int]
        /\ seen[s].total \in Int
        /\ r.from \in Wallet /\ r.user \in User /\ r.total \in Int /\ r.amount \in Int
    <2>1. pc[s] = "localFinish"
      BY DEF LocalFinish
    <2>2. t \in WorkType /\ seen[s] \in SeenType
      BY <2>1, Serving
    <2>3. r.amount \in Int
      BY RequestsAssumption DEF RequestType
    <2> QED BY <2>1, <2>2, <2>3, RequestFields DEF SeenType
  <1>2. CASE Refuse(s, "INTERNAL_SERVER_ERROR")
    BY <1>2, PayEnds DEF Refuse, RollbackWork, Answer, IInv, TypeOK, StoreTypeOK, ThreadTypeOK
  <1>3. CASE /\ ~BadgeLookupFails(r, tier, held)
             /\ tx' = [tx EXCEPT ![s] = work]
             /\ Goto(s, "commit")
             /\ UNCHANGED <<committedVars, lock, seen, now>>
    <2>1. pc'[s] = "commit" /\ tx'[s] = work /\ req'[s] = r /\ lock' = lock /\ badges' = badges
      BY <1>0, <1>3 DEF Goto, committedVars, IInv, TypeOK, StoreTypeOK, ThreadTypeOK
    <2>2. work.merchant = r.total /\ work.award = Award(tier, held)
      <3>1. row \in WorkType /\ row.merchant = t.merchant
        <4>1. -r.total \in Int /\ seen[s].balance[r.from] \in Int
          BY <1>1
        <4> QED BY <1>1, <4>1, InsertedKeeps
      <3>2. t.merchant = 0
        BY <1>1 DEF MerchantRow
      <3> HIDE DEF row
      <3> QED BY <1>1, <3>1, <3>2 DEF InsertedMerchant, WorkType
    <2>3. lock[r.from] = s
      BY <1>0, <1>1 DEF AwardAtCommit
    <2> HIDE DEF work
    <2>4. ASSUME work.award # "none"
          PROVE  /\ BadgeOf[r.from] \in Badge
                 /\ badges[r.user][BadgeOf[r.from]][work.award] = 0
      <3>1. work.award = tier /\ held[tier] = 0 /\ tier # "none"
        BY <2>2, <2>4 DEF Award
      <3>2. BadgeOf[r.from] # NoBadge
        BY <1>3, <3>1 DEF BadgeLookupFails
      <3>3. BadgeOf[r.from] \in Badge
        BY <1>1, <3>2, StoreAssumption
      <3>4. held = badges[r.user][BadgeOf[r.from]]
        BY <1>0, <3>2 DEF HeldUnderLock, HeldBy
      <3> QED BY <3>1, <3>3, <3>4
    <2>5. MerchantRow(s)'
      BY <2>1, <2>2 DEF MerchantRow, MixedLabels
    <2> QED BY <2>1, <2>3, <2>4, <2>5 DEF AwardAtCommit, AwardIsNew
  <1> QED BY <1>0, <1>2, <1>3 DEF LocalFinish

(* The payments without a second wallet.                                   *)
LEMMA PaymentPays ==
  ASSUME NoMixedPayments, IInv, BankInv, NEW s \in Session, MerchantRow(s), AwardAtCommit(s),
         PaymentStep(s)
  PROVE  MerchantRow(s)' /\ AwardAtCommit(s)' /\ AwardIsNew(s)'
  <1>0. PICK r \in Requests : r = req[s]
    BY Serving DEF PaymentStep, PinRejected, PaymentContext, General, GeneralDebit, GeneralPost,
                   GeneralMerchant, LocalPay, LocalFinish, Mixed, MixedLocal, MixedMain
  <1>1. /\ tx[s] \in WorkType /\ tx \in [Session -> WorkType] /\ pc \in [Session -> Labels]
        /\ r.from \in Wallet /\ r.amount \in Int /\ r.total \in Int
    BY RequestFields DEF IInv, TypeOK, StoreTypeOK, ThreadTypeOK
  <1>2. ASSUME NEW e, Refuse(s, e)
        PROVE  MerchantRow(s)' /\ AwardAtCommit(s)' /\ AwardIsNew(s)'
    BY <1>2, PayEnds DEF Refuse, RollbackWork, Answer, IInv, TypeOK, StoreTypeOK, ThreadTypeOK
  <1>3. ASSUME NEW l, l \notin MixedLabels, l # "commit", l # "localFinish", Goto(s, l),
               tx' = tx, pc[s] # "commit"
        PROVE  MerchantRow(s)' /\ AwardAtCommit(s)' /\ AwardIsNew(s)'
    <2>1. tx' = [tx EXCEPT ![s] = tx[s]]
      BY <1>1, <1>3
    <2> QED BY <1>3, <2>1, PayGoes
  <1>4. CASE PinRejected(s)
    BY <1>2, <1>4 DEF PinRejected
  <1>5. CASE PaymentContext(s)
    <2>1. CASE \E e : Refuse(s, e)
      BY <1>2, <2>1
    <2>2. CASE PaymentVerdict(r) = "ok" /\ Read(s, Snapshot(r)) /\ Goto(s, Route(r))
      <3>1. pc[s] = "pay" /\ pc[s] \in LabelsOf(r.op)
        BY <1>0, <1>5 DEF PaymentContext, BankInv, OnItsWay
      <3>2. r.op = "GENERAL" \/ r.op \in LocalOps
        BY <3>1, RequestFields DEF LabelsOf, PaymentOps, TransferOps
      <3>3. r.op \in LocalOps => r.amount = r.total
        <4>1. r.op # "GENERAL" => ~(r.amount > r.total)
          BY <2>2 DEF PaymentVerdict
        <4>2. r.op \in LocalOps => r.op # "GENERAL" /\ r.amount >= r.total
          BY DEF LocalOps, NoMixedPayments
        <4> QED BY <1>1, <4>1, <4>2
      <3>4. Route(r) \notin MixedLabels /\ Route(r) # "commit" /\ Route(r) # "localFinish"
        BY <3>2, <3>3 DEF Route, MixedLabels
      <3>5. tx' = tx /\ pc[s] # "commit"
        BY <2>2, <3>1 DEF Read
      <3> QED BY <1>3, <2>2, <3>4, <3>5
    <2> QED BY <1>0, <1>5, <2>1, <2>2 DEF PaymentContext
  <1>6. CASE General(s)
    <2>1. CASE \E e : Refuse(s, e)
      BY <1>2, <2>1
    <2>2. CASE tx' = tx /\ Goto(s, "generalDebit")
      <3>1. pc[s] # "commit"
        BY <1>6 DEF General
      <3> QED BY <1>3, <2>2, <3>1 DEF MixedLabels
    <2> QED BY <1>6, <2>1, <2>2 DEF General, Read
  <1>7. CASE GeneralDebit(s) \/ GeneralPost(s)
    <2>1. \E l \in {"generalPost", "generalMerchant"} : Goto(s, l)
      BY <1>7 DEF GeneralDebit, GeneralPost
    <2>2. tx' = tx /\ pc[s] # "commit"
      BY <1>7 DEF GeneralDebit, GeneralPost
    <2> QED BY <1>3, <2>1, <2>2 DEF MixedLabels
  <1>8. CASE GeneralMerchant(s)
    <2>1. tx[s] = NoWork
      BY <1>8 DEF GeneralMerchant, InTransaction, IInv, RowsMatchUpdates, RowsMatch
    <2>2. tx'[s] = NoWork /\ pc'[s] = "idle"
      BY <1>1, <1>8, <2>1 DEF GeneralMerchant, Answer
    <2> QED BY <2>2, PayEnds
  <1>9. CASE LocalPay(s)
    <2> DEFINE up == Updated(tx[s], r.from, -r.amount)
               work == [up EXCEPT !.total = r.amount]
    <2>1. Goto(s, "localFinish") /\ tx' = [tx EXCEPT ![s] = work] /\ pc[s] # "commit"
      BY <1>0, <1>9 DEF LocalPay, Write
    <2>2. up \in WorkType /\ up.merchant = tx[s].merchant /\ up.award = tx[s].award
      <3>1. -r.amount \in Int
        BY <1>1
      <3> QED BY <1>1, <3>1, UpdatedKeeps
    <2> HIDE DEF up
    <2>3. work.merchant = tx[s].merchant /\ work.award = tx[s].award
      BY <2>2 DEF WorkType
    <2> HIDE DEF work
    <2>4. "localFinish" \notin MixedLabels
      BY DEF MixedLabels
    <2>5. lock'[req[s].from] = s
      BY <1>0, <1>1, <1>9 DEF LocalPay, Write, Lock, IInv, TypeOK, StoreTypeOK
    <2> QED BY <2>1, <2>3, <2>4, <2>5, PayGoes
  <1>10. CASE LocalFinish(s)
    BY <1>10, LocalFinishPays
  <1>11. CASE Mixed(s) \/ MixedLocal(s) \/ MixedMain(s)
    BY <1>11 DEF Mixed, MixedLocal, MixedMain, MerchantRow, MixedLabels
  <1> QED BY <1>4, <1>5, <1>6, <1>7, <1>8, <1>9, <1>10, <1>11 DEF PaymentStep

(* Every step of the thread itself.                                        *)
LEMMA OwnPays ==
  ASSUME NoMixedPayments, IInv, BankInv, NEW s \in Session, MerchantRow(s), AwardAtCommit(s),
         Acts(s)
  PROVE  MerchantRow(s)' /\ AwardAtCommit(s)' /\ AwardIsNew(s)'
  <1>1. CASE \E r \in Requests : Receive(s, r)
    <2>1. PICK r \in Requests : Receive(s, r)
      BY <1>1
    <2>2. pc'[s] = Entry(r) /\ tx'[s] = tx[s] /\ pc[s] = "idle"
      BY <2>1 DEF Receive, storeVars, IInv, TypeOK, ThreadTypeOK
    <2>3. tx[s] = NoWork
      BY <2>2 DEF InTransaction, IInv, RowsMatchUpdates, RowsMatch
    <2>4. Entry(r) \notin MixedLabels /\ Entry(r) # "commit" /\ Entry(r) # "localFinish"
      BY DEF Entry, MixedLabels
    <2> QED BY <2>2, <2>3, <2>4 DEF MerchantRow, AwardAtCommit, AwardIsNew, NoWork
  <1>2. CASE Commit(s) \/ DeadlockAbort(s) \/ LockWaitTimeout(s)
    <2>1. pc'[s] = "idle" /\ tx'[s] = NoWork
      BY <1>2 DEF Commit, CommitWork, DeadlockAbort, Refuse, LockWaitTimeout, RollbackWork,
                  Answer, IInv, TypeOK, StoreTypeOK, ThreadTypeOK
    <2> QED BY <2>1, PayEnds
  <1> QED BY <1>1, <1>2, TransferPays, PaymentPays DEF Acts, Step

(* The steps of other threads.                                             *)
LEMMA OthersKeepRows ==
  ASSUME IInv, NEW s \in Session, NEW t \in Session, t # s, Acts(s),
         MerchantRow(t), AwardAtCommit(t)
  PROVE  MerchantRow(t)' /\ AwardAtCommit(t)'
  <1>1. LeftAlone(t)
    BY OthersLeftAlone
  <1>2. ASSUME pc[t] \in {"commit", "localFinish"} PROVE req[t].from \in Wallet
    BY <1>2, Serving, RequestFields
  <1> QED BY <1>1, <1>2 DEF LeftAlone, MerchantRow, AwardAtCommit

(* Only a commit changes the badges of the members, and only by the award. *)
LEMMA BadgesChange ==
  ASSUME IInv, BankInv, NEW s \in Session, Acts(s)
  PROVE  \/ badges' = badges
         \/ /\ Commit(s) /\ tx[s].award # "none"
            /\ badges' = [badges EXCEPT ![req[s].user][BadgeOf[req[s].from]][tx[s].award] = @ + 1]
  <1>1. CASE LockWaitTimeout(s)
    BY <1>1 DEF LockWaitTimeout, RollbackWork, committedVars
  <1>2. CASE GeneralDebit(s) \/ GeneralPost(s) \/ GeneralMerchant(s)
    BY <1>2 DEF GeneralDebit, GeneralPost, GeneralMerchant
  <1>3. CASE Commit(s)
    BY <1>3 DEF Commit, CommitWork
  <1> QED BY <1>1, <1>2, <1>3, OutsideDue

(* A badge cell after an award in another cell, and in the same one.       *)
LEMMA BadgeCells ==
  ASSUME IInv, NEW u \in User, NEW b \in Badge, NEW g \in Grade,
         badges' = [badges EXCEPT ![u][b][g] = @ + 1]
  PROVE  \A v \in User, c \in Badge, h \in Grade :
           badges'[v][c][h] = badges[v][c][h] + IF v = u /\ c = b /\ h = g THEN 1 ELSE 0
  <1>1. badges \in [User -> [Badge -> [Grade -> Nat]]]
    BY DEF IInv, TypeOK, StoreTypeOK
  <1> TAKE v \in User, c \in Badge, h \in Grade
  <1>2. badges[v][c][h] \in Nat
    BY <1>1
  <1>3. badges'[v][c][h] = IF v = u /\ c = b /\ h = g THEN badges[v][c][h] + 1 ELSE badges[v][c][h]
    BY <1>1
  <1> QED BY <1>2, <1>3

(* Two threads that are about to award the same badge would hold the lock  *)
(* of the same wallet.                                                     *)
LEMMA OthersKeepNew ==
  ASSUME OneWalletPerBadge, IInv, BankInv, NEW s \in Session, NEW t \in Session, t # s, Acts(s),
         MerchantInv, AwardIsNew(t)
  PROVE  AwardIsNew(t)'
  <1>1. LeftAlone(t)
    BY OthersLeftAlone
  <1> SUFFICES ASSUME tx'[t].award # "none"
               PROVE  badges'[req'[t].user][BadgeOf[req'[t].from]][tx'[t].award] = 0
    BY DEF AwardIsNew
  <1> DEFINE q == req[t]
             h == tx[t].award
  <1>2. /\ tx'[t].award = h /\ req'[t] = q /\ h # "none"
        /\ pc[t] = "commit" /\ lock[q.from] = t /\ BadgeOf[q.from] \in Badge
        /\ badges[q.user][BadgeOf[q.from]][h] = 0
    BY <1>1 DEF LeftAlone, MerchantInv, AwardAtCommit, AwardIsNew
  <1>3. q.user \in User /\ q.from \in Wallet /\ h \in Grade /\ Owner[q.from] = q.user
    <2>1. q \in Requests /\ tx[t] \in WorkType
      BY <1>2, Serving
    <2>2. Owner[q.from] = q.user
      BY <1>2 DEF BankInv, OnItsWay, Entries, Permitted
    <2> QED BY <1>2, <2>1, <2>2, RequestFields DEF WorkType
  <1>4. CASE badges' = badges
    BY <1>2, <1>4
  <1>5. CASE /\ Commit(s) /\ tx[s].award # "none"
             /\ badges' = [badges EXCEPT ![req[s].user][BadgeOf[req[s].from]][tx[s].award] = @ + 1]
    <2> DEFINE r == req[s]
               g == tx[s].award
    <2>1. /\ pc[s] = "commit" /\ lock[r.from] = s /\ BadgeOf[r.from] \in Badge
      BY <1>5 DEF Commit, MerchantInv, AwardAtCommit
    <2>2. r.user \in User /\ r.from \in Wallet /\ g \in Grade /\ Owner[r.from] = r.user
      <3>1. r \in Requests /\ tx[s] \in WorkType
        BY <2>1, Serving
      <3>2. Owner[r.from] = r.user
        BY <2>1 DEF BankInv, OnItsWay, Entries, Permitted
      <3> QED BY <1>5, <3>1, <3>2, RequestFields DEF WorkType
    <2>3. ~(q.user = r.user /\ BadgeOf[q.from] = BadgeOf[r.from])
      <3> SUFFICES ASSUME q.user = r.user, BadgeOf[q.from] = BadgeOf[r.from]
                   PROVE  FALSE
        OBVIOUS
      <3>1. q.from = r.from
        BY <1>2, <1>3, <2>2, StoreAssumption DEF OneWalletPerBadge
      <3> QED BY <1>2, <2>1, <3>1
    <2> HIDE DEF r, g, q, h
    <2>4. badges' = [badges EXCEPT ![r.user][BadgeOf[r.from]][g] = @ + 1]
      BY <1>5 DEF r, g
    <2>5. badges'[q.user][BadgeOf[q.from]][h] = badges[q.user][BadgeOf[q.from]][h] + 0
      BY <1>2, <1>3, <2>1, <2>2, <2>3, <2>4, BadgeCells
    <2> QED BY <1>2, <2>5
  <1> QED BY <1>4, <1>5, BadgesChange

(* An award turns none into one.                                           *)
LEMMA BadgesStaySingle ==
  ASSUME IInv, BankInv, NEW s \in Session, Acts(s), MerchantInv, BadgeInv
  PROVE  NoDuplicateBadge'
  <1>1. CASE badges' = badges
    BY <1>1 DEF BadgeInv, NoDuplicateBadge
  <1>2. CASE /\ Commit(s) /\ tx[s].award # "none"
             /\ badges' = [badges EXCEPT ![req[s].user][BadgeOf[req[s].from]][tx[s].award] = @ + 1]
    <2> DEFINE r == req[s]
               g == tx[s].award
    <2>1. /\ pc[s] = "commit" /\ BadgeOf[r.from] \in Badge
          /\ badges[r.user][BadgeOf[r.from]][g] = 0
      BY <1>2 DEF Commit, MerchantInv, AwardAtCommit, BadgeInv, AwardIsNew
    <2>2. r.user \in User /\ g \in Grade
      <3>1. r \in Requests /\ tx[s] \in WorkType
        BY <2>1, Serving
      <3> QED BY <1>2, <3>1, RequestFields DEF WorkType
    <2>3. badges' = [badges EXCEPT ![r.user][BadgeOf[r.from]][g] = @ + 1]
      BY <1>2
    <2> HIDE DEF r, g
    <2>4. \A v \in User, c \in Badge, h \in Grade :
            badges'[v][c][h] = badges[v][c][h]
                               + IF v = r.user /\ c = BadgeOf[r.from] /\ h = g THEN 1 ELSE 0
      BY <2>1, <2>2, <2>3, BadgeCells
    <2> SUFFICES ASSUME NEW v \in User, NEW c \in Badge, NEW h \in Grade
                 PROVE  badges'[v][c][h] <= 1
      BY DEF NoDuplicateBadge
    <2>5. badges[v][c][h] \in Nat /\ badges[v][c][h] <= 1
      BY DEF IInv, TypeOK, StoreTypeOK, BadgeInv, NoDuplicateBadge
    <2>6. CASE v = r.user /\ c = BadgeOf[r.from] /\ h = g
      <3>1. badges'[v][c][h] = 0 + 1
        BY <2>1, <2>4, <2>6
      <3> QED BY <3>1
    <2>7. CASE ~(v = r.user /\ c = BadgeOf[r.from] /\ h = g)
      <3>1. badges'[v][c][h] = badges[v][c][h] + 0
        BY <2>4, <2>7
      <3> QED BY <2>5, <3>1
    <2> QED BY <2>6, <2>7
  <1> QED BY <1>1, <1>2, BadgesChange

(* A crash leaves no thread anything to commit.                            *)
LEMMA CrashPays ==
  ASSUME Crash, NEW s \in Session
  PROVE  MerchantRow(s)' /\ AwardAtCommit(s)' /\ AwardIsNew(s)'
  BY DEF Crash, MerchantRow, AwardAtCommit, AwardIsNew, MixedLabels, NoWork

(* Every step keeps the merchants' rows complete.                          *)
LEMMA NextMerchants ==
  ASSUME NoMixedPayments, IInv, BankInv, MerchantInv, [Next]_vars
  PROVE  MerchantInv'
  <1> SUFFICES ASSUME NEW t \in Session PROVE MerchantRow(t)' /\ AwardAtCommit(t)'
    BY DEF MerchantInv
  <1>1. MerchantRow(t) /\ AwardAtCommit(t)
    BY DEF MerchantInv
  <1>2. ASSUME NEW s \in Session, Acts(s) PROVE MerchantRow(t)' /\ AwardAtCommit(t)'
    BY <1>1, <1>2, OwnPays, OthersKeepRows
  <1>3. CASE Crash
    BY <1>3, CrashPays
  <1>4. CASE Tick \/ Drained \/ UNCHANGED vars
    BY <1>1, <1>4 DEF Tick, Drained, vars, storeVars, threadVars, committedVars,
                      MerchantRow, AwardAtCommit
  <1> QED BY <1>2, <1>3, <1>4 DEF Next, Acts

(* Every step keeps badges single.                                         *)
LEMMA NextBadges ==
  ASSUME NoMixedPayments, OneWalletPerBadge, IInv, BankInv, MerchantInv, BadgeInv, [Next]_vars
  PROVE  BadgeInv'
  <1>1. ASSUME NEW s \in Session, Acts(s) PROVE BadgeInv'
    <2>1. ASSUME NEW t \in Session PROVE AwardIsNew(t)'
      <3>1. MerchantRow(t) /\ AwardAtCommit(t) /\ AwardIsNew(t)
        BY DEF MerchantInv, BadgeInv
      <3> QED BY <1>1, <3>1, OwnPays, OthersKeepNew
    <2> QED BY <1>1, <2>1, BadgesStaySingle DEF BadgeInv
  <1>2. CASE Crash
    <2>1. badges' = badges
      BY <1>2 DEF Crash, committedVars
    <2> QED BY <1>2, <2>1, CrashPays DEF BadgeInv, NoDuplicateBadge
  <1>3. CASE Tick \/ Drained \/ UNCHANGED vars
    <2>1. UNCHANGED <<badges, tx, req>>
      BY <1>3 DEF Tick, Drained, vars, storeVars, threadVars, committedVars
    <2> QED BY <2>1 DEF BadgeInv, NoDuplicateBadge, AwardIsNew
  <1> QED BY <1>1, <1>2, <1>3 DEF Next, Acts

(* At the start no thread has anything to commit and nobody has a badge.   *)
LEMMA InitPays ==
  ASSUME Init
  PROVE  MerchantInv /\ BadgeInv
  <1>1. \A s \in Session : tx[s] = NoWork /\ pc[s] = "idle"
    BY DEF Init, StoreInit, ThreadInit
  <1>2. \A s \in Session : MerchantRow(s) /\ AwardAtCommit(s) /\ AwardIsNew(s)
    BY <1>1 DEF MerchantRow, AwardAtCommit, AwardIsNew, MixedLabels, NoWork
  <1>3. NoDuplicateBadge
    BY DEF NoDuplicateBadge, Init, StoreInit
  <1> QED BY <1>2, <1>3 DEF MerchantInv, BadgeInv

(* No two payments of a member, in whatever order their transactions read, *)
(* wait and commit, give it the same badge twice: LocalStrategy looks for  *)
(* the badge under the lock of the wallet.  (LocalMixedStrategy looks      *)
(* before it has the lock, and the run badge_race shows what that allows.) *)
THEOREM BadgesAwardedOnce ==
  NoMixedPayments /\ OneWalletPerBadge => (Spec => []NoDuplicateBadge)
  <1> SUFFICES ASSUME NoMixedPayments, OneWalletPerBadge
               PROVE  Spec => []NoDuplicateBadge
    OBVIOUS
  <1>1. Init => MerchantInv /\ BadgeInv
    BY InitPays
  <1>2. IInv /\ BankInv /\ MerchantInv /\ BadgeInv /\ [Next]_vars => MerchantInv' /\ BadgeInv'
    BY NextMerchants, NextBadges
  <1>3. BadgeInv => NoDuplicateBadge
    BY DEF BadgeInv
  <1> QED BY <1>1, <1>2, <1>3, AlwaysOnTheWay, PTL DEF Spec
(* A thread's part of the merchants' due changes by what the difference    *)
(* between payments and merchants' rows changes.                           *)
LEMMA MerchantDueChange ==
  ASSUME IInv, NEW s \in Session, MerchantsAreDue, faults = 0,
         \A t \in Session \ {s} : MerchantDue'[t] = MerchantDue[t],
         MerchantDue'[s] \in Int,
         paid' - merchantPosted' = (paid - merchantPosted) + (MerchantDue'[s] - MerchantDue[s])
  PROVE  MerchantsAreDue'
  <1> DEFINE f == MerchantDue
             g == MerchantDue'
             x == paid - merchantPosted
  <1>1. x \in Int
    BY DEF IInv, TypeOK, StoreTypeOK
  <1>2. IsSum(f, Session, x)
    BY DEF MerchantsAreDue
  <1>3. \A t \in Session : f[t] \in Int
    BY DueTypes
  <1>4. g[s] \in Int /\ \A t \in Session \ {s} : g[t] = f[t]
    OBVIOUS
  <1>5. paid' - merchantPosted' = x + (g[s] - f[s])
    OBVIOUS
  <1> HIDE DEF f, g, x
  <1>6. IsSum(g, Session, x + (g[s] - f[s]))
    BY <1>1, <1>2, <1>3, <1>4, SumChange
  <1>7. IsSum(g, Session, paid' - merchantPosted')
    BY <1>5, <1>6
  <1> QED BY <1>7 DEF MerchantsAreDue, g

(* The statements of a GENERAL payment: the debit counts the payment, and  *)
(* the merchant's row what the debit counted.                              *)
LEMMA GeneralMerchants ==
  ASSUME IInv, NEW s \in Session, MerchantsAreDue,
         GeneralDebit(s) \/ GeneralPost(s) \/ GeneralMerchant(s)
  PROVE  MerchantsAreDue'
  <1> SUFFICES ASSUME faults' = 0 PROVE MerchantsAreDue'
    BY DEF MerchantsAreDue
  <1>0. PICK r \in Requests : r = req[s]
    BY Serving DEF GeneralDebit, GeneralPost, GeneralMerchant
  <1>1. faults = 0
    BY DEF GeneralDebit, GeneralPost, GeneralMerchant, Goto, Answer
  <1>2. r.total \in Int /\ paid \in Int /\ merchantPosted \in Int
    BY RequestFields DEF IInv, TypeOK, StoreTypeOK
  <1>3. /\ "generalPost" \in Labels /\ "generalMerchant" \in Labels /\ "idle" \in Labels
    BY DEF Labels, PaymentLabels
  <1>4. CASE GeneralDebit(s)
    <2>1. pc[s] = "generalDebit" /\ Moves(s, "generalPost", r)
      BY <1>0, <1>4 DEF GeneralDebit, Goto, Moves, IInv, TypeOK, ThreadTypeOK
    <2>2. /\ \A t \in Session \ {s} : MerchantDue'[t] = MerchantDue[t]
          /\ MerchantDue'[s] = r.total
      BY <1>0, <1>3, <2>1, DueMoves DEF GeneralDue
    <2>3. MerchantDue[s] = 0
      BY <2>1 DEF MerchantDue, GeneralDue
    <2>4. paid' - merchantPosted' = (paid - merchantPosted) + (r.total - 0)
      BY <1>0, <1>2, <1>4 DEF GeneralDebit
    <2> QED BY <1>1, <1>2, <2>2, <2>3, <2>4, MerchantDueChange
  <1>5. CASE GeneralPost(s)
    <2>1. pc[s] = "generalPost" /\ Moves(s, "generalMerchant", r)
      BY <1>0, <1>5 DEF GeneralPost, Goto, Moves, IInv, TypeOK, ThreadTypeOK
    <2>2. /\ \A t \in Session \ {s} : MerchantDue'[t] = MerchantDue[t]
          /\ MerchantDue'[s] = r.total
      BY <1>0, <1>3, <2>1, DueMoves DEF GeneralDue
    <2>3. MerchantDue[s] = r.total
      BY <1>0, <2>1 DEF MerchantDue, GeneralDue
    <2>4. paid' - merchantPosted' = (paid - merchantPosted) + (r.total - r.total)
      BY <1>2, <1>5 DEF GeneralPost
    <2> QED BY <1>1, <1>2, <2>2, <2>3, <2>4, MerchantDueChange
  <1>6. CASE GeneralMerchant(s)
    <2>1. pc[s] = "generalMerchant" /\ Moves(s, "idle", NoRequest)
      BY <1>6 DEF GeneralMerchant, Answer, Moves
    <2>2. /\ \A t \in Session \ {s} : MerchantDue'[t] = MerchantDue[t]
          /\ MerchantDue'[s] = 0
      <3>1. "idle" \notin GeneralDue
        BY DEF GeneralDue
      <3> QED BY <1>3, <2>1, <3>1, DueMoves
    <2>3. MerchantDue[s] = r.total
      BY <1>0, <2>1 DEF MerchantDue, GeneralDue
    <2>4. paid' - merchantPosted' = (paid - merchantPosted) + (0 - r.total)
      BY <1>0, <1>2, <1>6 DEF GeneralMerchant
    <2> QED BY <1>1, <1>2, <2>2, <2>3, <2>4, MerchantDueChange
  <1> QED BY <1>4, <1>5, <1>6

(* Every step keeps the account of the merchants' due, or is a fault.      *)
LEMMA NextMerchantsDue ==
  ASSUME IInv, BankInv, MerchantInv, MerchantsAreDue, [Next]_vars
  PROVE  MerchantsAreDue'
  <1>1. ASSUME NEW s \in Session, Acts(s), ~LockWaitTimeout(s),
               ~GeneralDebit(s), ~GeneralPost(s), ~GeneralMerchant(s)
        PROVE  MerchantsAreDue'
    <2>1. /\ \E l, q : Moves(s, l, q) /\ l \notin GeneralDue
          /\ pc[s] \notin GeneralDue /\ faults' = faults
          /\ Commit(s) \/ UNCHANGED <<paid, merchantPosted>>
      BY <1>1, OutsideDue
    <2>2. MerchantDue' = MerchantDue
      BY <2>1, DueStays
    <2>3. CASE Commit(s)
      <3>1. paid' = paid + req[s].total /\ merchantPosted' = merchantPosted + tx[s].merchant
        BY <2>3 DEF Commit, CommitWork
      <3>2. tx[s].merchant = req[s].total
        BY <2>3 DEF Commit, MerchantInv, MerchantRow
      <3>3. req[s].total \in Int /\ paid \in Int /\ merchantPosted \in Int
        <4>1. req[s] \in Requests
          BY <2>3, Serving DEF Commit
        <4> QED BY <4>1, RequestFields DEF IInv, TypeOK, StoreTypeOK
      <3>4. paid' - merchantPosted' = paid - merchantPosted
        BY <3>1, <3>2, <3>3
      <3> QED BY <2>1, <2>2, <3>4 DEF MerchantsAreDue
    <2>4. CASE UNCHANGED <<paid, merchantPosted>>
      BY <2>1, <2>2, <2>4 DEF MerchantsAreDue
    <2> QED BY <2>1, <2>3, <2>4
  <1>2. ASSUME NEW s \in Session, GeneralDebit(s) \/ GeneralPost(s) \/ GeneralMerchant(s)
        PROVE  MerchantsAreDue'
    BY <1>2, GeneralMerchants
  <1>3. ASSUME Crash \/ \E s \in Session : LockWaitTimeout(s)
        PROVE  MerchantsAreDue'
    <2>1. faults' = faults + 1 /\ faults \in Nat
      BY <1>3, BoundsAssumption DEF Crash, LockWaitTimeout, IInv, TypeOK, ThreadTypeOK
    <2>2. faults' # 0
      BY <2>1
    <2> QED BY <2>2 DEF MerchantsAreDue
  <1>4. CASE Tick \/ Drained \/ UNCHANGED vars
    <2>1. UNCHANGED <<pc, req, faults, paid, merchantPosted>>
      BY <1>4 DEF Tick, Drained, vars, storeVars, threadVars, committedVars
    <2>2. MerchantDue' = MerchantDue
      BY <2>1 DEF MerchantDue
    <2> QED BY <2>1, <2>2 DEF MerchantsAreDue
  <1> QED BY <1>1, <1>2, <1>3, <1>4 DEF Next, Acts

(* Nothing is paid and nothing is due at the start.                        *)
LEMMA InitMerchantsDue ==
  ASSUME Init
  PROVE  MerchantsAreDue
  <1>1. \A t \in Session : MerchantDue[t] = 0
    BY DEF Init, ThreadInit, MerchantDue, GeneralDue
  <1>2. paid - merchantPosted = 0
    BY DEF Init, StoreInit
  <1> QED BY <1>1, <1>2, SumZero, PoolAssumption DEF MerchantsAreDue

(* While no thread crashes or times out, what the members paid and the     *)
(* merchants' rows lack is what GENERAL payments are about to insert: at   *)
(* rest it is nothing, however payments from one wallet each interleave.   *)
(* (The run merchant_rows shows what payments from two wallets lack.)      *)
THEOREM MerchantsGetPaid ==
  NoMixedPayments => (Spec => []MerchantsPaidInFull)
  <1> SUFFICES ASSUME NoMixedPayments
               PROVE  Spec => []MerchantsPaidInFull
    OBVIOUS
  <1>1. Init => MerchantInv /\ MerchantsAreDue
    BY InitPays, InitMerchantsDue
  <1>2. IInv /\ BankInv /\ MerchantInv /\ MerchantsAreDue /\ [Next]_vars
          => MerchantInv' /\ MerchantsAreDue'
    BY NextMerchants, NextMerchantsDue
  <1>3. IInv /\ MerchantsAreDue => MerchantsPaidInFull
    <2> SUFFICES ASSUME IInv, MerchantsAreDue, AllIdle, faults = 0
                 PROVE  merchantPosted = paid
      BY DEF MerchantsPaidInFull
    <2>1. \A t \in Session : MerchantDue[t] = 0
      BY DEF AllIdle, MerchantDue, GeneralDue
    <2>2. IsSum(MerchantDue, Session, paid - merchantPosted)
      BY DEF MerchantsAreDue
    <2>3. paid - merchantPosted = 0
      BY <2>1, <2>2, SumOfNothing
    <2> QED BY <2>3 DEF IInv, TypeOK, StoreTypeOK
  <1> QED BY <1>1, <1>2, <1>3, AlwaysOnTheWay, PTL DEF Spec

=============================================================================
