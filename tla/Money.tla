-------------------------------- MODULE Money --------------------------------
(***************************************************************************)
(* The rounding arithmetic of the transfer processors, as pure operators.  *)
(* The code computes with doubles and Math.round; amounts are whole won.   *)
(* For the percentages that the migrations install (5, 7 and 10) the       *)
(* double results and these integer definitions agree on every amount up   *)
(* to two million, so the integer form is what the code does.  They agree  *)
(* on negative amounts too (nothing refuses one), except that a bonus of 7 *)
(* percent that ends in exactly half a won, as that of -50, rounds down.   *)
(***************************************************************************)
EXTENDS Integers

(* Mutant: the (int) cast of a double in place of Math.round.              *)
RoundDown(n, d) == n \div d

(* Math.round of the quotient n / d, for d > 0: ties go up.                *)
RoundHalfUp(n, d) == (2 * n + d) \div (2 * d)

(* The incentive a charge of base earns: RechargeProcessor's bonus.        *)
Bonus(base, pct) == RoundHalfUp(base * pct, 100)

(* What a charge of base credits to the local-currency wallet.             *)
Credited(base, pct) == base + Bonus(base, pct)

(* The cash that amount of a local currency is worth when it is refunded;  *)
(* also how the charge path turns credited amounts back into principal.    *)
RefundValue(amount, pct) == RoundHalfUp(100 * amount, 100 + pct)

=============================================================================
