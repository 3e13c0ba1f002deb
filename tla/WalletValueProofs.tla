-------------------------- MODULE WalletValueProofs --------------------------
(***************************************************************************)
(* Transfers keep what the wallets of a member are worth, for every finite *)
(* set of wallets, all members, threads and requests, and all percentages. *)
(*                                                                         *)
(* Worth is a fold over the member's wallets, and its unit a fold over all *)
(* local ones.  Their recursion is taken apart with a least counterexample *)
(* (LeastNat) in place of an induction theorem.                            *)
(***************************************************************************)
EXTENDS WalletValue, PaymentProofs

(* What the theorem takes for granted of the clients: a charge spends a    *)
(* main wallet, or a local one whose currency gives no bonus.              *)
(* RechargeProcessor checks whose wallet the source is and not which, and  *)
(* would spend an INCENTIVE one at par.                                    *)
ChargesAtPar ==
  \A r \in Requests : r.op = "CHARGE" => r.from \in Cash \/ Rate(r.from) = 0

-----------------------------------------------------------------------------
(* Recursion over the subsets of a finite set.                             *)

(* The element that a fold takes out of T.                                 *)
Pick(T) == CHOOSE x \in T : TRUE

(* step[T] computes a value at T from the value at T without an element.   *)
Steps(S, V, step) == \A T \in (SUBSET S) \ {{}} : step[T] \in [V -> V]

(* g follows the recursion on the subsets of S.                            *)
Follows(S, V, base, step, g) ==
  /\ g \in [SUBSET S -> V]
  /\ g[{}] = base
  /\ \A T \in (SUBSET S) \ {{}} : g[T] = step[T][g[T \ {Pick(T)}]]

(* g follows it on the subsets with n elements at most.                    *)
Solves(S, V, base, step, g, n) ==
  /\ g \in [SUBSET S -> V]
  /\ g[{}] = base
  /\ \A T \in (SUBSET S) \ {{}} : Cardinality(T) <= n => g[T] = step[T][g[T \ {Pick(T)}]]

(* Taking an element out makes a finite set smaller by one.                *)
LEMMA PickOne ==
  ASSUME NEW S, IsFiniteSet(S), NEW T \in SUBSET S, T # {}
  PROVE  /\ Pick(T) \in T /\ T \ {Pick(T)} \in SUBSET S
         /\ Cardinality(T) \in Nat /\ Cardinality(T) > 0
         /\ Cardinality(T \ {Pick(T)}) = Cardinality(T) - 1
  <1>1. IsFiniteSet(T) /\ Cardinality(T) \in Nat
    BY FS_Subset, FS_CardinalityType
  <1>2. Pick(T) \in T
    BY DEF Pick
  <1>3. Cardinality(T \ {Pick(T)}) = Cardinality(T) - 1
    BY <1>1, <1>2, FS_RemoveElement
  <1>4. Cardinality(T) # 0
    BY <1>1, FS_EmptySet
  <1> QED BY <1>1, <1>2, <1>3, <1>4

(* What holds of the empty set, and of a set when it holds without the     *)
(* element that a fold takes out, holds of every subset of a finite set:   *)
(* no subset is a smallest one that is not in G.                           *)
LEMMA SubsetsOneByOne ==
  ASSUME NEW S, IsFiniteSet(S), NEW G, {} \in G,
         \A T \in (SUBSET S) \ {{}} : T \ {Pick(T)} \in G => T \in G
  PROVE  SUBSET S \subseteq G
  <1> DEFINE U == { n \in Nat : \E T \in SUBSET S : Cardinality(T) = n /\ T \notin G }
  <1>1. U = {}
    <2> SUFFICES ASSUME U # {} PROVE FALSE
      OBVIOUS
    <2>1. PICK n \in U : \A k \in U : n <= k
      BY LeastNat
    <2>2. PICK T \in SUBSET S : Cardinality(T) = n /\ T \notin G
      BY <2>1
    <2>3. T # {}
      BY <2>2
    <2>4. PICK R \in SUBSET S : R = T \ {Pick(T)}
      BY <2>3, PickOne
    <2>5. n \in Nat /\ n > 0 /\ Cardinality(R) = n - 1
      BY <2>2, <2>3, <2>4, PickOne
    <2>6. R \notin G
      BY <2>2, <2>3, <2>4
    <2>7. n - 1 \in U
      BY <2>5, <2>6
    <2> QED BY <2>1, <2>5, <2>7
  <1>2. ASSUME NEW T \in SUBSET S PROVE T \in G
    <2>1. Cardinality(T) \in Nat
      BY FS_Subset, FS_CardinalityType
    <2> QED BY <1>1, <2>1
  <1> QED BY <1>2

(* Such a recursion has a solution: a solution for n elements, followed    *)
(* once more, is one for n + 1 elements.                                   *)
LEMMA Recursion ==
  ASSUME NEW S, IsFiniteSet(S), NEW V, NEW base \in V, NEW step, Steps(S, V, step)
  PROVE  \E g : Follows(S, V, base, step, g)
  <1> USE DEF Steps
  <1> DEFINE Has(n) == \E g : Solves(S, V, base, step, g, n)
             U == { n \in Nat : ~Has(n) }
  <1>1. Has(0)
    <2> DEFINE g == [T \in SUBSET S |-> base]
    <2>1. g \in [SUBSET S -> V] /\ g[{}] = base
      OBVIOUS
    <2>2. ASSUME NEW T \in (SUBSET S) \ {{}} PROVE ~(Cardinality(T) <= 0)
      <3>1. Cardinality(T) \in Nat /\ Cardinality(T) > 0
        BY <2>2, PickOne
      <3> QED BY <3>1
    <2> HIDE DEF g
    <2>3. Solves(S, V, base, step, g, 0)
      BY <2>1, <2>2 DEF Solves
    <2> QED BY <2>3
  <1>2. ASSUME NEW n \in Nat, Has(n) PROVE Has(n + 1)
    <2>1. PICK g : Solves(S, V, base, step, g, n)
      BY <1>2
    <2> DEFINE h == [T \in SUBSET S |-> IF T = {} THEN base ELSE step[T][g[T \ {Pick(T)}]]]
    <2>2. h \in [SUBSET S -> V] /\ h[{}] = base
      <3>1. ASSUME NEW T \in (SUBSET S) \ {{}} PROVE step[T][g[T \ {Pick(T)}]] \in V
        <4>1. g \in [SUBSET S -> V] /\ T \ {Pick(T)} \in SUBSET S /\ step[T] \in [V -> V]
          BY <2>1, <3>1 DEF Solves
        <4>2. g[T \ {Pick(T)}] \in V
          BY <4>1
        <4> QED BY <4>1, <4>2
      <3> QED BY <3>1
    <2>3. ASSUME NEW T \in (SUBSET S) \ {{}}, Cardinality(T) <= n + 1
          PROVE  h[T] = step[T][h[T \ {Pick(T)}]]
      <3> DEFINE R == T \ {Pick(T)}
      <3>1. R \in SUBSET S /\ Cardinality(R) <= n
        <4>1. Cardinality(T) \in Nat /\ Cardinality(R) = Cardinality(T) - 1 /\ R \in SUBSET S
          BY <2>3, PickOne
        <4> QED BY <2>3, <4>1
      <3>2. h[R] = g[R]
        BY <2>1, <3>1 DEF Solves
      <3> QED BY <3>2
    <2> HIDE DEF h
    <2>4. Solves(S, V, base, step, h, n + 1)
      BY <2>2, <2>3 DEF Solves
    <2> QED BY <2>4
  <1> HIDE DEF Has
  <1>3. U = {}
    <2> SUFFICES ASSUME U # {} PROVE FALSE
      OBVIOUS
    <2>1. PICK n \in U : \A k \in U : n <= k
      BY LeastNat
    <2>2. n \in Nat /\ n # 0 /\ ~Has(n)
      BY <1>1, <2>1
    <2>3. PICK k \in Nat : n = k + 1
      <3>1. n - 1 \in Nat /\ n = (n - 1) + 1
        BY <2>2
      <3> QED BY <3>1
    <2>4. k \notin U
      BY <2>1, <2>3
    <2> QED BY <1>2, <2>2, <2>3, <2>4
  <1>4. PICK c : c = Cardinality(S)
    OBVIOUS
  <1>5. c \in Nat /\ \A T \in SUBSET S : Cardinality(T) <= c
    BY <1>4, FS_CardinalityType, FS_Subset
  <1>6. PICK g : Solves(S, V, base, step, g, c)
    BY <1>3, <1>5 DEF Has
  <1>7. Follows(S, V, base, step, g)
    BY <1>5, <1>6 DEF Solves, Follows
  <1> QED BY <1>7
-----------------------------------------------------------------------------
(* Sums and products over finite sets.                                     *)

(* SumFunctionOnSet and the product of FoldFunctionOnSet, on every subset. *)
Sums(f, S) ==
  CHOOSE g : g = [T \in SUBSET S |-> IF T = {} THEN 0 ELSE f[Pick(T)] + g[T \ {Pick(T)}]]
Products(f, S) ==
  CHOOSE g : g = [T \in SUBSET S |-> IF T = {} THEN 1 ELSE f[Pick(T)] * g[T \ {Pick(T)}]]

(* The library's sum.                                                      *)
LEMMA SumIsFold ==
  ASSUME NEW f, NEW S
  PROVE  SumFunctionOnSet(f, S) = Sums(f, S)[S]
  BY DEF SumFunctionOnSet, FoldFunctionOnSet, MapThenFoldSet, Sums, Pick

(* The library's product.                                                  *)
LEMMA ProductIsFold ==
  ASSUME NEW f, NEW S
  PROVE  FoldFunctionOnSet(LAMBDA x, y : x * y, 1, f, S) = Products(f, S)[S]
  BY DEF FoldFunctionOnSet, MapThenFoldSet, Products, Pick

(* A sum takes one element after the other.                                *)
LEMMA SumsStep ==
  ASSUME NEW S, IsFiniteSet(S), NEW f, \A x \in S : f[x] \in Int
  PROVE  /\ Sums(f, S)[{}] = 0
         /\ \A T \in (SUBSET S) \ {{}} : Sums(f, S)[T] = f[Pick(T)] + Sums(f, S)[T \ {Pick(T)}]
  <1> DEFINE step == [T \in SUBSET S |-> [v \in Int |-> f[Pick(T)] + v]]
             Eq(g) == g = [T \in SUBSET S |-> IF T = {} THEN 0 ELSE f[Pick(T)] + g[T \ {Pick(T)}]]
  <1>1. ASSUME NEW T \in (SUBSET S) \ {{}} PROVE f[Pick(T)] \in Int /\ T \ {Pick(T)} \in SUBSET S
    BY PickOne
  <1>2. \A T \in (SUBSET S) \ {{}} : step[T] \in [Int -> Int] /\ \A v \in Int : step[T][v] = f[Pick(T)] + v
    BY <1>1
  <1> HIDE DEF step
  <1>3. PICK g : Follows(S, Int, 0, step, g)
    <2>1. Steps(S, Int, step) /\ 0 \in Int
      BY <1>2 DEF Steps
    <2> QED BY <2>1, Recursion
  <1>4. ASSUME NEW T \in (SUBSET S) \ {{}} PROVE g[T] = f[Pick(T)] + g[T \ {Pick(T)}]
    BY <1>1, <1>2, <1>3, <1>4 DEF Follows
  <1>5. Eq(g)
    BY <1>3, <1>4 DEF Follows
  <1>6. Eq(Sums(f, S))
    <2>1. Sums(f, S) = CHOOSE h : Eq(h)
      BY DEF Sums
    <2> HIDE DEF Eq
    <2> QED BY <1>5, <2>1
  <1>7. PICK h : h = Sums(f, S)
    OBVIOUS
  <1>8. Eq(h)
    BY <1>6, <1>7
  <1>9. h[{}] = 0 /\ \A T \in (SUBSET S) \ {{}} : h[T] = f[Pick(T)] + h[T \ {Pick(T)}]
    BY <1>8
  <1> QED BY <1>7, <1>9

(* A product takes one element after the other.                            *)
LEMMA ProductsStep ==
  ASSUME NEW S, IsFiniteSet(S), NEW f, \A x \in S : f[x] \in Nat
  PROVE  /\ Products(f, S)[{}] = 1
         /\ \A T \in (SUBSET S) \ {{}} :
              Products(f, S)[T] = f[Pick(T)] * Products(f, S)[T \ {Pick(T)}]
  <1> DEFINE step == [T \in SUBSET S |-> [v \in Nat |-> f[Pick(T)] * v]]
             Eq(g) == g = [T \in SUBSET S |-> IF T = {} THEN 1 ELSE f[Pick(T)] * g[T \ {Pick(T)}]]
  <1>1. ASSUME NEW T \in (SUBSET S) \ {{}} PROVE f[Pick(T)] \in Nat /\ T \ {Pick(T)} \in SUBSET S
    BY PickOne
  <1>2. \A T \in (SUBSET S) \ {{}} : step[T] \in [Nat -> Nat] /\ \A v \in Nat : step[T][v] = f[Pick(T)] * v
    BY <1>1
  <1> HIDE DEF step
  <1>3. PICK g : Follows(S, Nat, 1, step, g)
    <2>1. Steps(S, Nat, step) /\ 1 \in Nat
      BY <1>2 DEF Steps
    <2> QED BY <2>1, Recursion
  <1>4. ASSUME NEW T \in (SUBSET S) \ {{}} PROVE g[T] = f[Pick(T)] * g[T \ {Pick(T)}]
    BY <1>1, <1>2, <1>3, <1>4 DEF Follows
  <1>5. Eq(g)
    BY <1>3, <1>4 DEF Follows
  <1>6. Eq(Products(f, S))
    <2>1. Products(f, S) = CHOOSE h : Eq(h)
      BY DEF Products
    <2> HIDE DEF Eq
    <2> QED BY <1>5, <2>1
  <1>7. PICK h : h = Products(f, S)
    OBVIOUS
  <1>8. Eq(h)
    BY <1>6, <1>7
  <1>9. h[{}] = 1 /\ \A T \in (SUBSET S) \ {{}} : h[T] = f[Pick(T)] * h[T \ {Pick(T)}]
    BY <1>8
  <1> QED BY <1>7, <1>9

(* A change of one summand is a change of the sum: a least subset where    *)
(* the sums differ otherwise has an element to take out.                   *)
LEMMA SumChangesBy ==
  ASSUME NEW S, IsFiniteSet(S), NEW f, NEW g, \A x \in S : f[x] \in Int /\ g[x] \in Int,
         NEW s, NEW d \in Int,
         \A x \in S \ {s} : g[x] = f[x],
         s \in S => g[s] = f[s] + d
  PROVE  /\ SumFunctionOnSet(f, S) \in Int
         /\ SumFunctionOnSet(g, S) = SumFunctionOnSet(f, S) + (IF s \in S THEN d ELSE 0)
  <1> DEFINE F == Sums(f, S)
             G == Sums(g, S)
             Good(T) == F[T] \in Int /\ G[T] = F[T] + (IF s \in T THEN d ELSE 0)
             All == { T \in SUBSET S : Good(T) }
  <1>1. /\ F[{}] = 0 /\ G[{}] = 0
        /\ \A T \in (SUBSET S) \ {{}} : /\ F[T] = f[Pick(T)] + F[T \ {Pick(T)}]
                                        /\ G[T] = g[Pick(T)] + G[T \ {Pick(T)}]
    BY SumsStep
  <1> HIDE DEF F, G
  <1>2. Good({})
    BY <1>1
  <1>3. ASSUME NEW T \in (SUBSET S) \ {{}}, Good(T \ {Pick(T)})
        PROVE  Good(T)
    <2>0. PICK x : x = Pick(T)
      OBVIOUS
    <2> DEFINE R == T \ {x}
    <2>1. x \in S /\ x \in T /\ F[T] = f[x] + F[R] /\ G[T] = g[x] + G[R]
          /\ F[R] \in Int /\ G[R] = F[R] + (IF s \in R THEN d ELSE 0)
      BY <1>1, <1>3, <2>0, PickOne
    <2>2. f[x] \in Int /\ g[x] \in Int
      BY <2>1
    <2>3. CASE x = s
      <3>1. s \notin R /\ s \in T /\ g[x] = f[x] + d
        BY <2>1, <2>3
      <3> HIDE DEF R
      <3> QED BY <2>1, <2>2, <3>1
    <2>4. CASE x # s
      <3>1. (s \in R <=> s \in T) /\ g[x] = f[x]
        BY <2>1, <2>4
      <3> HIDE DEF R
      <3> QED BY <2>1, <2>2, <3>1
    <2> QED BY <2>3, <2>4
  <1> HIDE DEF Good
  <1>4. SUBSET S \subseteq All
    <2>1. {} \in All
      BY <1>2
    <2>2. \A T \in (SUBSET S) \ {{}} : T \ {Pick(T)} \in All => T \in All
      BY <1>3
    <2> HIDE DEF All
    <2> QED BY <2>1, <2>2, SubsetsOneByOne
  <1>5. Good(S)
    BY <1>4
  <1> QED BY <1>5, SumIsFold DEF Good, F, G

(* A product of positive numbers is positive, and each of them divides it. *)
LEMMA FactorsDivide ==
  ASSUME NEW S, IsFiniteSet(S), NEW f, \A x \in S : f[x] \in Nat \ {0}
  PROVE  /\ Products(f, S)[S] \in Nat \ {0}
         /\ \A w \in S : \E k \in Nat \ {0} : Products(f, S)[S] = f[w] * k
  <1> DEFINE P == Products(f, S)
             Good(T) == /\ P[T] \in Nat \ {0}
                        /\ \A w \in T : \E k \in Nat \ {0} : P[T] = f[w] * k
             G == { T \in SUBSET S : Good(T) }
  <1>1. P[{}] = 1 /\ \A T \in (SUBSET S) \ {{}} : P[T] = f[Pick(T)] * P[T \ {Pick(T)}]
    BY ProductsStep
  <1> HIDE DEF P
  <1>2. {} \in G
    BY <1>1
  <1>3. ASSUME NEW T \in (SUBSET S) \ {{}}, T \ {Pick(T)} \in G
        PROVE  Good(T)
    <2>1. PICK x : x = Pick(T)
      OBVIOUS
    <2>2. PICK R \in SUBSET S : R = T \ {x}
      BY <2>1, <1>3, PickOne
    <2>3. x \in S /\ x \in T /\ P[T] = f[x] * P[R] /\ Good(R)
      <3>1. R = T \ {Pick(T)}
        BY <2>1, <2>2
      <3>2. x \in T /\ x \in S
        BY <1>3, <2>1, PickOne
      <3>3. P[T] = f[x] * P[R]
        BY <1>1, <1>3, <2>1, <3>1
      <3>4. Good(R)
        BY <1>3, <3>1
      <3> QED BY <3>2, <3>3, <3>4
    <2>4. PICK y \in Nat \ {0} : y = f[x]
      BY <2>3
    <2>5. PICK p \in Nat \ {0} : p = P[R]
      BY <2>3
    <2>6. P[T] = y * p /\ y * p \in Nat \ {0}
      <3>1. y * p \in Nat /\ y * p # 0
        OBVIOUS
      <3> QED BY <3>1, <2>3, <2>4, <2>5
    <2>7. ASSUME NEW w \in T PROVE \E k \in Nat \ {0} : P[T] = f[w] * k
      <3>1. CASE w = x
        BY <3>1, <2>4, <2>6
      <3>2. CASE w # x
        <4>1. PICK k \in Nat \ {0} : p = f[w] * k
          BY <2>2, <2>3, <2>5, <3>2
        <4>2. PICK z \in Nat \ {0} : z = f[w]
          BY <2>7
        <4>3. y * p = z * (y * k) /\ y * k \in Nat \ {0}
          <5>1. p = z * k
            BY <4>1, <4>2
          <5>2. y * (z * k) = z * (y * k) /\ y * k \in Nat /\ y * k # 0
            OBVIOUS
          <5> QED BY <5>1, <5>2
        <4> QED BY <2>6, <4>2, <4>3
      <3> QED BY <3>1, <3>2
    <2> QED BY <2>6, <2>7
  <1>4. SUBSET S \subseteq G
    <2>1. \A T \in (SUBSET S) \ {{}} : T \ {Pick(T)} \in G => T \in G
      BY <1>3
    <2> HIDE DEF G
    <2> QED BY <1>2, <2>1, SubsetsOneByOne
  <1>5. Good(S)
    BY <1>4
  <1> QED BY <1>5 DEF P

-----------------------------------------------------------------------------
(* What the wallets of a member are worth.                                 *)

(* Scale is positive; a unit of a cash wallet is worth Scale, and a unit of *)
(* a local one 100 out of 100 + Rate of it, without a remainder.           *)
LEMMA UnitWorths ==
  ASSUME IsFiniteSet(Wallet)
  PROVE  /\ Scale \in Nat \ {0}
         /\ \A w \in Cash : UnitWorth(w) = Scale
         /\ \A w \in Local : /\ Rate(w) \in Nat
                            /\ \E k \in Nat \ {0} : /\ Scale = (100 + Rate(w)) * k
                                                   /\ UnitWorth(w) = 100 * k
  <1> DEFINE f == [w \in Wallet |-> 100 + Rate(w)]
  <1>1. IsFiniteSet(Local) /\ Local \subseteq Wallet
    BY FS_Subset DEF Local
  <1>2. \A w \in Wallet : Rate(w) \in Nat
    BY WalletsAssumption DEF Rate
  <1>3. \A w \in Local : f[w] = 100 + Rate(w) /\ f[w] \in Nat \ {0}
    BY <1>1, <1>2
  <1>4. Scale = Products(f, Local)[Local]
    BY ProductIsFold DEF Scale
  <1> HIDE DEF f
  <1>5. /\ Scale \in Nat \ {0}
        /\ \A w \in Local : \E k \in Nat \ {0} : Scale = f[w] * k
    BY <1>1, <1>3, <1>4, FactorsDivide
  <1>6. ASSUME NEW w \in Cash PROVE UnitWorth(w) = Scale
    BY DEF UnitWorth, Local
  <1>7. ASSUME NEW w \in Local
        PROVE  /\ Rate(w) \in Nat
               /\ \E k \in Nat \ {0} : /\ Scale = (100 + Rate(w)) * k
                                      /\ UnitWorth(w) = 100 * k
    <2>1. PICK n \in Nat \ {0} : n = 100 + Rate(w)
      BY <1>3
    <2>2. PICK k \in Nat \ {0} : Scale = n * k
      BY <1>3, <1>5, <2>1
    <2>3. (n * k) \div n = k
      OBVIOUS
    <2>4. UnitWorth(w) = 100 * k
      BY <2>1, <2>2, <2>3 DEF UnitWorth
    <2> QED BY <1>1, <1>2, <2>1, <2>2, <2>4
  <1> QED BY <1>5, <1>6, <1>7

(* Units of every wallet have a worth.                                     *)
LEMMA UnitWorthType ==
  ASSUME IsFiniteSet(Wallet), NEW w \in Wallet
  PROVE  UnitWorth(w) \in Int
  <1>1. CASE w \in Cash
    BY <1>1, UnitWorths
  <1>2. CASE w \in Local
    <2>1. PICK k \in Nat \ {0} : UnitWorth(w) = 100 * k
      BY <1>2, UnitWorths
    <2> QED BY <2>1
  <1> QED BY <1>1, <1>2 DEF Local

(* A wallet whose currency gives no bonus is worth as much as a cash one.  *)
LEMMA UnitsAtPar ==
  ASSUME IsFiniteSet(Wallet), NEW w \in Wallet, w \in Cash \/ Rate(w) = 0
  PROVE  UnitWorth(w) = Scale
  <1>1. CASE w \in Cash
    BY <1>1, UnitWorths
  <1>2. CASE w \in Local /\ Rate(w) = 0
    <2>1. PICK k \in Nat \ {0} : Scale = (100 + Rate(w)) * k /\ UnitWorth(w) = 100 * k
      BY <1>2, UnitWorths
    <2> QED BY <1>2, <2>1
  <1> QED BY <1>1, <1>2 DEF Local

(* A change of one balance changes the worth of its owner's wallets.       *)
LEMMA OneLeg ==
  ASSUME IsFiniteSet(Wallet), NEW f \in [Wallet -> Int], NEW w \in Wallet, NEW x \in Int,
         NEW u \in User
  PROVE  /\ Plus(f, Leg(w, x)) \in [Wallet -> Int]
         /\ Worth(f, u) \in Int
         /\ Worth(Plus(f, Leg(w, x)), u)
              = Worth(f, u) + (IF Owner[w] = u THEN UnitWorth(w) * x ELSE 0)
  <1> DEFINE S == { v \in Wallet : Owner[v] = u }
             g == Plus(f, Leg(w, x))
             a == [v \in Wallet |-> UnitWorth(v) * f[v]]
             b == [v \in Wallet |-> UnitWorth(v) * g[v]]
  <1>1. IsFiniteSet(S) /\ S \subseteq Wallet
    BY FS_Subset
  <1>2. PICK c \in Int : c = UnitWorth(w)
    BY UnitWorthType
  <1>3. g \in [Wallet -> Int] /\ g[w] = f[w] + x /\ \A v \in Wallet \ {w} : g[v] = f[v]
    BY DEF Plus, Leg
  <1>4. \A v \in Wallet : UnitWorth(v) \in Int /\ f[v] \in Int /\ g[v] \in Int
    BY <1>3, UnitWorthType
  <1>5. \A v \in S : a[v] \in Int /\ b[v] \in Int
    BY <1>1, <1>4
  <1>6. \A v \in S \ {w} : b[v] = a[v]
    BY <1>1, <1>3
  <1>7. c * x \in Int /\ b[w] = a[w] + c * x
    <2>1. PICK y \in Int : y = f[w]
      OBVIOUS
    <2>2. c * (y + x) = c * y + c * x /\ c * x \in Int
      OBVIOUS
    <2> QED BY <1>2, <1>3, <2>1, <2>2
  <1>8. Worth(f, u) = SumFunctionOnSet(a, S) /\ Worth(g, u) = SumFunctionOnSet(b, S)
    BY DEF Worth
  <1>9. w \in S <=> Owner[w] = u
    OBVIOUS
  <1> HIDE DEF S, a, b, g
  <1>10. PICK d \in Int : d = c * x
    BY <1>7
  <1>11. /\ SumFunctionOnSet(a, S) \in Int
         /\ SumFunctionOnSet(b, S) = SumFunctionOnSet(a, S) + (IF w \in S THEN d ELSE 0)
    <2>1. w \in S => b[w] = a[w] + d
      BY <1>7, <1>10
    <2>2. \A z \in S : a[z] \in Int /\ b[z] \in Int
      BY <1>5
    <2> QED BY <1>1, <1>6, <2>1, <2>2, SumChangesBy
  <1> QED BY <1>2, <1>3, <1>8, <1>9, <1>10, <1>11 DEF g

(* From balances f to g, the worth of the wallets of u changes by that of x *)
(* in w and of y in v when these are wallets of u.                         *)
Exchange(f, g, w, x, v, y, u) ==
  /\ g \in [Wallet -> Int] /\ Worth(f, u) \in Int
  /\ Worth(g, u) = Worth(f, u)
       + (IF Owner[w] = u THEN UnitWorth(w) * x + UnitWorth(v) * y ELSE 0)

(* The two legs of a charge or a refund, between wallets of one member.    *)
LEMMA TwoLegs ==
  ASSUME IsFiniteSet(Wallet), NEW f \in [Wallet -> Int],
         NEW w \in Wallet, NEW x \in Int, NEW v \in Wallet, NEW y \in Int, Owner[w] = Owner[v],
         NEW u \in User
  PROVE  Exchange(f, Plus(f, Plus(Leg(w, x), Leg(v, y))), w, x, v, y, u)
  <1> DEFINE h == Plus(f, Leg(w, x))
             g == Plus(f, Plus(Leg(w, x), Leg(v, y)))
  <1>1. g = Plus(h, Leg(v, y))
    BY DEF Plus, Leg
  <1>2. /\ h \in [Wallet -> Int] /\ Worth(f, u) \in Int
        /\ Worth(h, u) = Worth(f, u) + (IF Owner[w] = u THEN UnitWorth(w) * x ELSE 0)
    BY OneLeg
  <1> HIDE DEF h
  <1>3. /\ g \in [Wallet -> Int] /\ Worth(h, u) \in Int
        /\ Worth(g, u) = Worth(h, u) + (IF Owner[v] = u THEN UnitWorth(v) * y ELSE 0)
    <2>1. /\ Plus(h, Leg(v, y)) \in [Wallet -> Int] /\ Worth(h, u) \in Int
          /\ Worth(Plus(h, Leg(v, y)), u)
               = Worth(h, u) + (IF Owner[v] = u THEN UnitWorth(v) * y ELSE 0)
      BY <1>2, OneLeg
    <2> QED BY <1>1, <2>1
  <1>4. PICK b \in Int : b = UnitWorth(v)
    BY UnitWorthType
  <1>5. PICK a \in Int : a = UnitWorth(w)
    BY UnitWorthType
  <1>6. a * x \in Int /\ b * y \in Int
    OBVIOUS
  <1> HIDE DEF g
  <1>7. Worth(g, u) = Worth(f, u) + (IF Owner[w] = u THEN a * x + b * y ELSE 0)
    <2>1. PICK m \in Int : m = a * x
      BY <1>6
    <2>2. PICK n \in Int : n = b * y
      BY <1>6
    <2>3. CASE Owner[w] = u
      BY <1>2, <1>3, <1>4, <1>5, <2>1, <2>2, <2>3
    <2>4. CASE Owner[w] # u
      BY <1>2, <1>3, <2>4
    <2> QED BY <2>3, <2>4
  <1> QED BY <1>2, <1>3, <1>4, <1>5, <1>7 DEF g, Exchange

-----------------------------------------------------------------------------
(* What rounding costs.                                                    *)

(* k times a number within a bound is within k times the bound.            *)
LEMMA WithinTimes ==
  ASSUME NEW z \in Int, NEW m \in Nat, NEW k \in Nat, Within(z, m)
  PROVE  Within(z * k, m * k)
  <1>1. PICK a \in Nat : a = m - z
    BY DEF Within
  <1>2. PICK b \in Nat : b = m + z
    BY DEF Within
  <1>3. a * k \in Nat /\ b * k \in Nat
    OBVIOUS
  <1>4. a * k = m * k - z * k /\ b * k = m * k + z * k
    BY <1>1, <1>2
  <1>5. m * k \in Int /\ z * k \in Int
    OBVIOUS
  <1> QED BY <1>3, <1>4, <1>5 DEF Within

(* The bonus of a charge is half a percent point off at most: what the     *)
(* credit is worth differs from the base by half a won or less.            *)
LEMMA ChargeRounds ==
  ASSUME NEW a \in Int, NEW p \in Nat, NEW k \in Nat
  PROVE  LET d == ((100 + p) * k) * (-a) + (100 * k) * Credited(a, p) IN
         d \in Int /\ Within(2 * d, (100 + p) * k)
  <1> DEFINE d == ((100 + p) * k) * (-a) + (100 * k) * Credited(a, p)
  <1>1. PICK x \in Int : x = a * p
    OBVIOUS
  <1>2. PICK b \in Int : b = Bonus(a, p)
    BY AmountTypes
  <1>3. 2 * (100 * b) <= 2 * x + 100 /\ 2 * x + 100 < 2 * (100 * b) + 2 * 100
    BY <1>1, <1>2, RoundNearest DEF Bonus
  <1>4. PICK e \in Int : e = 2 * (100 * b - x)
    OBVIOUS
  <1>5. Within(e, 100 + p)
    BY <1>3, <1>4 DEF Within
  <1>6. Credited(a, p) = a + b
    BY <1>2 DEF Credited
  <1>7. d \in Int /\ 2 * d = e * k
    <2>1. d = ((100 + p) * k) * (-a) + (100 * k) * (a + b)
      BY <1>6
    <2>2. ((100 + p) * k) * (-a) = -(100 * (k * a)) - (a * p) * k
      OBVIOUS
    <2>3. (100 * k) * (a + b) = 100 * (k * a) + 100 * (k * b)
      OBVIOUS
    <2>4. d = 100 * (k * b) - x * k
      <3>1. k * a \in Int /\ k * b \in Int /\ x * k \in Int
        OBVIOUS
      <3> QED BY <1>1, <2>1, <2>2, <2>3, <3>1
    <2>5. e * k = 2 * (100 * (k * b) - x * k)
      BY <1>4
    <2>6. d \in Int
      BY <2>4
    <2> QED BY <2>4, <2>5, <2>6
  <1>8. Within(e * k, (100 + p) * k)
    BY <1>5, WithinTimes
  <1> QED BY <1>7, <1>8

(* The refund value of an amount differs from its worth by half a won.     *)
LEMMA RefundRounds ==
  ASSUME NEW a \in Int, NEW p \in Nat, NEW k \in Nat
  PROVE  LET d == (100 * k) * (-a) + ((100 + p) * k) * RefundValue(a, p) IN
         d \in Int /\ Within(2 * d, (100 + p) * k)
  <1> DEFINE d == (100 * k) * (-a) + ((100 + p) * k) * RefundValue(a, p)
  <1>1. PICK v \in Int : v = RefundValue(a, p)
    BY AmountTypes
  <1>2. PICK q \in Nat : q = 100 + p
    OBVIOUS
  <1>3. PICK n \in Int : n = 100 * a
    OBVIOUS
  <1>4. q > 0 /\ v = RoundHalfUp(n, q)
    BY <1>1, <1>2, <1>3 DEF RefundValue
  <1>5. 2 * (q * v) <= 2 * n + q /\ 2 * n + q < 2 * (q * v) + 2 * q
    BY <1>4, RoundNearest
  <1>6. PICK w \in Int : w = q * v
    OBVIOUS
  <1>7. PICK e \in Int : e = 2 * (w - n)
    OBVIOUS
  <1>8. Within(e, q)
    BY <1>5, <1>6, <1>7 DEF Within
  <1>9. d \in Int /\ 2 * d = e * k
    <2>1. d = (100 * k) * (-a) + (q * k) * v
      BY <1>1, <1>2
    <2>2. (100 * k) * (-a) = -(n * k)
      BY <1>3
    <2>3. (q * k) * v = (q * v) * k
      OBVIOUS
    <2>4. d = w * k - n * k
      <3>1. n * k \in Int /\ w * k \in Int
        OBVIOUS
      <3> QED BY <1>6, <2>1, <2>2, <2>3, <3>1
    <2>5. e * k = 2 * (w * k - n * k)
      BY <1>7
    <2>6. d \in Int
      BY <2>4
    <2> QED BY <2>4, <2>5, <2>6
  <1>10. Within(e * k, q * k)
    BY <1>8, WithinTimes
  <1> QED BY <1>2, <1>9, <1>10

-----------------------------------------------------------------------------
(* The effects of the transfers.                                           *)

(* A charge from a wallet at par to a local one of the same member.        *)
LEMMA ChargeWorth ==
  ASSUME IsFiniteSet(Wallet), NEW f \in [Wallet -> Int],
         NEW from \in Wallet, UnitWorth(from) = Scale, NEW to \in Local,
         Owner[from] = Owner[to], NEW a \in Int,
         NEW u \in User
  PROVE  LET g == Plus(f, ChargeEffect(from, to, a)) IN
         /\ g \in [Wallet -> Int] /\ Worth(f, u) \in Int /\ Worth(g, u) \in Int
         /\ Within(2 * (Worth(g, u) - Worth(f, u)), Scale)
  <1> DEFINE g == Plus(f, ChargeEffect(from, to, a))
  <1>1. from \in Wallet /\ to \in Wallet
    BY DEF Local
  <1>2. PICK p \in Nat : p = Rate(to)
    BY UnitWorths
  <1>3. PICK k \in Nat \ {0} : Scale = (100 + p) * k /\ UnitWorth(to) = 100 * k
    BY <1>2, UnitWorths
  <1>4. UnitWorth(from) = (100 + p) * k
    BY <1>3
  <1>5. PICK c \in Int : c = Credited(a, p)
    BY AmountTypes
  <1>6. PICK m \in Int : m = -a
    OBVIOUS
  <1>7. g = Plus(f, Plus(Leg(from, m), Leg(to, c)))
    BY <1>2, <1>5, <1>6 DEF ChargeEffect
  <1>8. PICK d \in Int : /\ d = ((100 + p) * k) * m + (100 * k) * c
                         /\ Within(2 * d, Scale)
    BY <1>3, <1>5, <1>6, ChargeRounds
  <1> HIDE DEF g
  <1>9. /\ g \in [Wallet -> Int] /\ Worth(f, u) \in Int
        /\ Worth(g, u) = Worth(f, u)
             + (IF Owner[from] = u THEN UnitWorth(from) * m + UnitWorth(to) * c ELSE 0)
    <2>1. Exchange(f, Plus(f, Plus(Leg(from, m), Leg(to, c))), from, m, to, c, u)
      BY <1>1, TwoLegs
    <2> QED BY <1>7, <2>1 DEF Exchange
  <1>10. Worth(g, u) = Worth(f, u) + (IF Owner[from] = u THEN d ELSE 0)
    BY <1>3, <1>4, <1>8, <1>9
  <1>11. Scale \in Nat
    BY UnitWorths
  <1>12. Worth(g, u) \in Int /\ Within(2 * (Worth(g, u) - Worth(f, u)), Scale)
    <2>1. CASE Owner[from] = u
      <3>1. Worth(g, u) = Worth(f, u) + d
        BY <1>10, <2>1
      <3>2. Worth(g, u) - Worth(f, u) = d
        BY <1>9, <3>1
      <3> QED BY <1>8, <1>9, <3>1, <3>2
    <2>2. CASE Owner[from] # u
      <3>1. Worth(g, u) = Worth(f, u)
        BY <1>9, <1>10, <2>2
      <3> QED BY <1>9, <1>11, <3>1 DEF Within
    <2> QED BY <2>1, <2>2
  <1> QED BY <1>9, <1>12 DEF g

(* A refund of a local wallet to a cash wallet of the same member.         *)
LEMMA RefundWorth ==
  ASSUME IsFiniteSet(Wallet), NEW f \in [Wallet -> Int],
         NEW from \in Local, NEW to \in Cash, Owner[from] = Owner[to], NEW a \in Int,
         NEW u \in User
  PROVE  LET g == Plus(f, RefundEffect(from, to, a)) IN
         /\ g \in [Wallet -> Int] /\ Worth(f, u) \in Int /\ Worth(g, u) \in Int
         /\ Within(2 * (Worth(g, u) - Worth(f, u)), Scale)
  <1> DEFINE g == Plus(f, RefundEffect(from, to, a))
  <1>1. from \in Wallet /\ to \in Wallet
    BY WalletsAssumption DEF Cash, Local
  <1>2. PICK p \in Nat : p = Rate(from)
    BY UnitWorths
  <1>3. PICK k \in Nat \ {0} : Scale = (100 + p) * k /\ UnitWorth(from) = 100 * k
    BY <1>2, UnitWorths
  <1>4. UnitWorth(to) = (100 + p) * k
    BY <1>3, UnitWorths
  <1>5. PICK c \in Int : c = RefundValue(a, p)
    BY AmountTypes
  <1>6. PICK m \in Int : m = -a
    OBVIOUS
  <1>7. g = Plus(f, Plus(Leg(from, m), Leg(to, c)))
    BY <1>2, <1>5, <1>6 DEF RefundEffect
  <1>8. PICK d \in Int : /\ d = (100 * k) * m + ((100 + p) * k) * c
                         /\ Within(2 * d, Scale)
    BY <1>3, <1>5, <1>6, RefundRounds
  <1> HIDE DEF g
  <1>9. /\ g \in [Wallet -> Int] /\ Worth(f, u) \in Int
        /\ Worth(g, u) = Worth(f, u)
             + (IF Owner[from] = u THEN UnitWorth(from) * m + UnitWorth(to) * c ELSE 0)
    <2>1. Exchange(f, Plus(f, Plus(Leg(from, m), Leg(to, c))), from, m, to, c, u)
      BY <1>1, TwoLegs
    <2> QED BY <1>7, <2>1 DEF Exchange
  <1>10. Worth(g, u) = Worth(f, u) + (IF Owner[from] = u THEN d ELSE 0)
    BY <1>3, <1>4, <1>8, <1>9
  <1>11. Scale \in Nat
    BY UnitWorths
  <1>12. Worth(g, u) \in Int /\ Within(2 * (Worth(g, u) - Worth(f, u)), Scale)
    <2>1. CASE Owner[from] = u
      <3>1. Worth(g, u) = Worth(f, u) + d
        BY <1>10, <2>1
      <3>2. Worth(g, u) - Worth(f, u) = d
        BY <1>9, <3>1
      <3> QED BY <1>8, <1>9, <3>1, <3>2
    <2>2. CASE Owner[from] # u
      <3>1. Worth(g, u) = Worth(f, u)
        BY <1>9, <1>10, <2>2
      <3> QED BY <1>9, <1>11, <3>1 DEF Within
    <2> QED BY <2>1, <2>2
  <1> QED BY <1>9, <1>12 DEF g

-----------------------------------------------------------------------------
(* The transfers.                                                          *)

(* How close the worth of the wallets of u stays from balances f to g.     *)
StaysNear(f, g, u, bound) == Within(2 * (Worth(g, u) - Worth(f, u)), bound)

(* The effect of a transfer whose wallets the processors have checked.     *)
LEMMA TransferStaysNear ==
  ASSUME IsFiniteSet(Wallet), ChargesAtPar,
         NEW r \in Requests, r.op \in TransferOps, Permitted(r, "commit"),
         NEW f \in [Wallet -> Int], NEW u \in User
  PROVE  StaysNear(f, Plus(f, Effect(r)), u, Scale * Roundings(r))
  <1> DEFINE cash == CashOf[r.user]
             base == ConvertBase(r)
  <1>1. /\ r.from \in Wallet /\ r.to \in Wallet /\ r.amount \in Int /\ base \in Int
        /\ cash \in Cash /\ Owner[cash] = r.user /\ Owner[r.from] = r.user
    <2>1. r.user \in User /\ r.from \in Wallet /\ r.to \in Wallet /\ r.amount \in Int
      BY RequestsAssumption DEF RequestType
    <2>2. base \in Int
      BY <2>1, AmountTypes, WalletsAssumption DEF ConvertBase
    <2> QED BY <2>1, <2>2, WalletsAssumption DEF Cash, Permitted
  <1>2. PICK n \in Nat : n = Scale
    BY UnitWorths
  <1>3. CASE r.op = "CHARGE"
    <2>1. r.to \in Local /\ Owner[r.from] = Owner[r.to] /\ UnitWorth(r.from) = Scale
      BY <1>1, <1>3, UnitsAtPar DEF ChargesAtPar, Permitted
    <2>2. StaysNear(f, Plus(f, ChargeEffect(r.from, r.to, r.amount)), u, Scale)
      BY <1>1, <2>1, ChargeWorth DEF StaysNear
    <2>3. Effect(r) = ChargeEffect(r.from, r.to, r.amount) /\ Scale * Roundings(r) = Scale
      BY <1>2, <1>3 DEF Effect, Roundings
    <2> QED BY <2>2, <2>3
  <1>4. CASE r.op = "REFUND"
    <2>1. r.from \in Local /\ r.to \in Cash /\ Owner[r.from] = Owner[r.to]
      BY <1>1, <1>4 DEF Permitted
    <2>2. StaysNear(f, Plus(f, RefundEffect(r.from, r.to, r.amount)), u, Scale)
      BY <1>1, <2>1, RefundWorth DEF StaysNear
    <2>3. Effect(r) = RefundEffect(r.from, r.to, r.amount) /\ Scale * Roundings(r) = Scale
      BY <1>2, <1>4 DEF Effect, Roundings
    <2> QED BY <2>2, <2>3
  <1>5. CASE r.op = "CONVERT"
    <2> DEFINE g == Plus(f, RefundEffect(r.from, cash, r.amount))
               h == Plus(g, ChargeEffect(cash, r.to, base))
    <2>1. r.from \in Local /\ r.to \in Local /\ Owner[r.to] = r.user
      BY <1>5 DEF Permitted
    <2>2. /\ g \in [Wallet -> Int] /\ Worth(f, u) \in Int /\ Worth(g, u) \in Int
          /\ Within(2 * (Worth(g, u) - Worth(f, u)), Scale)
      BY <1>1, <2>1, RefundWorth
    <2>3. cash \in Wallet /\ UnitWorth(cash) = Scale
      BY <1>1, UnitsAtPar, WalletsAssumption DEF Cash
    <2> HIDE DEF g, base, cash
    <2>4. /\ Worth(h, u) \in Int
          /\ Within(2 * (Worth(h, u) - Worth(g, u)), Scale)
      BY <1>1, <2>1, <2>2, <2>3, ChargeWorth
    <2>5. Plus(f, Effect(r)) = h
      <3>1. Effect(r) = Plus(RefundEffect(r.from, cash, r.amount), ChargeEffect(cash, r.to, base))
        BY <1>5 DEF Effect, cash, base
      <3>2. /\ RefundEffect(r.from, cash, r.amount) \in [Wallet -> Int]
            /\ ChargeEffect(cash, r.to, base) \in [Wallet -> Int]
        <4>1. RefundValue(r.amount, Rate(r.from)) \in Int /\ Credited(base, Rate(r.to)) \in Int
          BY <1>1, AmountTypes, WalletsAssumption DEF Rate
        <4> QED BY <1>1, <4>1 DEF RefundEffect, ChargeEffect, Plus, Leg
      <3> QED BY <3>1, <3>2 DEF g, Plus
    <2> HIDE DEF h
    <2>6. Within(2 * (Worth(h, u) - Worth(f, u)), n + n)
      BY <1>2, <2>2, <2>4 DEF Within
    <2>7. Scale * Roundings(r) = n + n
      BY <1>2, <1>5 DEF Roundings
    <2> QED BY <2>5, <2>6, <2>7 DEF StaysNear
  <1> QED BY <1>3, <1>4, <1>5 DEF TransferOps

(* Wherever the wallets, rates and requests come from, a charge from a     *)
(* wallet at par, a refund or a conversion that commits keeps what each      *)
(* member's wallets are worth up to its roundings: the formulas of the     *)
(* three processors agree in both directions, whatever else runs.          *)
THEOREM TransfersPreserveValue ==
  ASSUME IsFiniteSet(Wallet), ChargesAtPar
  PROVE  Spec => ValuePreserved
  <1>1. IInv /\ BankInv /\ [Next]_vars
          => [\A s \in Session, u \in User :
                pc[s] = "commit" /\ pc'[s] = "idle" /\ reply'[s] = "ok" /\ req[s].op \in TransferOps =>
                  Within(2 * (Worth(balance', u) - Worth(balance, u)), Scale * Roundings(req[s]))]_vars
    <2> SUFFICES ASSUME IInv, BankInv, [Next]_vars, NEW s \in Session, NEW u \in User,
                        pc[s] = "commit", pc'[s] = "idle", reply'[s] = "ok",
                        req[s].op \in TransferOps
                 PROVE  StaysNear(balance, balance', u, Scale * Roundings(req[s]))
      BY DEF StaysNear
    <2>1. Honest(s)
      BY NextHonest
    <2>2. balance' = Plus(balance, Effect(req[s]))
      BY <2>1 DEF Honest, TransferOps
    <2>3. req[s] \in Requests
      BY Serving
    <2>4. Permitted(req[s], "commit")
      BY DEF BankInv, OnItsWay, Entries
    <2>5. balance \in [Wallet -> Int]
      BY DEF IInv, TypeOK, StoreTypeOK
    <2>6. PICK r \in Requests : r = req[s]
      BY <2>3
    <2>7. StaysNear(balance, Plus(balance, Effect(r)), u, Scale * Roundings(r))
      BY <2>4, <2>5, <2>6, TransferStaysNear
    <2> QED BY <2>2, <2>6, <2>7
  <1> QED BY <1>1, AlwaysOnTheWay, PTL DEF Spec, ValuePreserved

=============================================================================
