----------------------------- MODULE WalletValue -----------------------------
(***************************************************************************)
(* What the wallets of a member are worth: a local-currency balance counts *)
(* at its refund rate.  The processors compute charge, bonus, refund and   *)
(* conversion with separate roundings (RechargeProcessor, RefundProcessor, *)
(* ConvertProcessor); the property here says that together they neither    *)
(* make nor lose money.                                                    *)
(***************************************************************************)
EXTENDS WalletSystem, Functions

(* A common denominator of the refund rates, so that worth is an integer.  *)
Scale == FoldFunctionOnSet(LAMBDA x, y : x * y, 1, [w \in Wallet |-> 100 + Rate(w)], Local)

(* Scale times the cash that one unit of the balance of w refunds to.      *)
UnitWorth(w) == IF w \in Local THEN 100 * (Scale \div (100 + Rate(w))) ELSE Scale

(* Scale times the worth of the wallets of u when their balances are f.    *)
Worth(f, u) ==
  SumFunctionOnSet([w \in Wallet |-> UnitWorth(w) * f[w]], { w \in Wallet : Owner[w] = u })

(* How many amounts the request rounds: a conversion refunds and charges.  *)
Roundings(r) == IF r.op = "CONVERT" THEN 2 ELSE 1

Within(x, bound) == -bound <= x /\ x <= bound

(* A committed charge, refund or conversion changes what each member's     *)
(* wallets are worth together by half a won per rounding at most, so that  *)
(* no sequence of transfers pumps money in or drains it: the refund rate   *)
(* of RefundProcessor, the bonus of RechargeProcessor and the principal of *)
(* ConvertProcessor agree with each other in both directions.              *)
ValuePreserved ==
  [][\A s \in Session, u \in User :
       pc[s] = "commit" /\ pc'[s] = "idle" /\ reply'[s] = "ok" /\ req[s].op \in TransferOps =>
         Within(2 * (Worth(balance', u) - Worth(balance, u)), Scale * Roundings(req[s]))]_vars

=============================================================================
