------------------------------- MODULE Effects -------------------------------
(***************************************************************************)
(* Wallets, the requests members send, and what one request means for the  *)
(* balances: the price list of the system.  Both the abstract bank and the *)
(* detailed system are stated over these definitions.                      *)
(***************************************************************************)
EXTENDS Money

CONSTANTS
  User,        \* members
  Wallet,      \* wallet rows that exist during the run
  Owner,       \* Owner[w]: the member a wallet belongs to
  CashOf,      \* CashOf[u]: the CASH wallet of a member
  Pct,         \* Pct[w]: percentage of the wallet's local currency
  Incentive,   \* Incentive[w]: its benefit type is INCENTIVE
  Opening,     \* Opening[w]: balance at the start of the run
  Requests     \* the requests that clients may send

Cash  == { CashOf[u] : u \in User }
Local == Wallet \ Cash

TransferOps == {"CHARGE", "REFUND", "CONVERT"}
LocalOps    == {"LOCAL_CURRENCY"}
PaymentOps  == {"GENERAL"} \cup LocalOps

(* A TransferDTO has from, to, amount and transactionLogging (logged); a   *)
(* PaymentDTO has a local wallet (from), inputAmount (amount) and          *)
(* merchantAmount (total).  For a GENERAL payment inputAmount is null in   *)
(* the code and equals total here.  No annotation and no check asks for    *)
(* positive amounts, nor for the true that TransferDTO's note wants.       *)
RequestType ==
  [op : TransferOps \cup PaymentOps, user : User, from : Wallet, to : Wallet,
   amount : Int, total : Int, logged : BOOLEAN]

ASSUME WalletsAssumption ==
  /\ Owner \in [Wallet -> User]
  /\ CashOf \in [User -> Wallet]
  /\ \A u \in User : Owner[CashOf[u]] = u
  /\ Pct \in [Wallet -> Nat]
  /\ Incentive \in [Wallet -> BOOLEAN]
  /\ Opening \in [Wallet -> Nat]

(* A TransferDTO has no merchant amount.                                   *)
ASSUME RequestsAssumption ==
  /\ Requests \subseteq RequestType
  /\ \A r \in Requests : r.op \in TransferOps => r.total = 0

(* The percentage the charge and refund formulas use.                      *)
Rate(w) == IF Incentive[w] THEN Pct[w] ELSE 0

-----------------------------------------------------------------------------
(* Changes of balances, as functions from wallets to signed amounts.       *)

Nothing    == [w \in Wallet |-> 0]
Leg(w, x)  == [v \in Wallet |-> IF v = w THEN x ELSE 0]
Plus(f, g) == [w \in Wallet |-> f[w] + g[w]]

ChargeEffect(from, to, base) ==
  Plus(Leg(from, -base), Leg(to, Credited(base, Rate(to))))

RefundEffect(from, to, amount) ==
  Plus(Leg(from, -amount), Leg(to, RefundValue(amount, Rate(from))))

(* The principal a conversion charges: computed with the percentage of the *)
(* source currency whatever its benefit type is.                           *)
ConvertBase(r) == RefundValue(r.amount, Pct[r.from])

(* What settling request r does to the balances, all legs together.        *)
Effect(r) ==
  CASE r.op = "CHARGE"  -> ChargeEffect(r.from, r.to, r.amount)
    [] r.op = "REFUND"  -> RefundEffect(r.from, r.to, r.amount)
    [] r.op = "CONVERT" -> Plus(RefundEffect(r.from, CashOf[r.user], r.amount),
                                ChargeEffect(CashOf[r.user], r.to, ConvertBase(r)))
    [] r.op = "GENERAL" -> Leg(CashOf[r.user], -r.total)
    [] OTHER            -> Plus(Leg(r.from, -r.amount),
                                Leg(CashOf[r.user], r.amount - r.total))

=============================================================================
