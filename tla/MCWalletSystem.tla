--------------------------- MODULE MCWalletSystem ---------------------------
(***************************************************************************)
(* Small instances of WalletSystem for TLC: two members, the cash wallets  *)
(* c1 and c2 and the local-currency wallets l1 (INCENTIVE, 7 percent) and  *)
(* l2 (DISCOUNT, 10 percent) of the first member.  The request sets name   *)
(* the workloads of the runs.                                              *)
(***************************************************************************)
EXTENDS WalletSystem, TLC

CONSTANTS u1, u2, c1, c2, l1, l2, b1, s1, s2

MCUser    == {u1, u2}
MCWallet  == {c1, c2, l1, l2}
MCOwner   == [w \in MCWallet |-> IF w = c2 THEN u2 ELSE u1]
MCCashOf  == u1 :> c1 @@ u2 :> c2
MCPct     == c1 :> 0 @@ c2 :> 0 @@ l1 :> 7 @@ l2 :> 10
MCIncentive == [w \in MCWallet |-> w = l1]
MCOpening == c1 :> 20000 @@ c2 :> 5000 @@ l1 :> 60000 @@ l2 :> 55000
MCMaximum == [w \in MCWallet |-> IF w = l1 THEN 15000 ELSE 30000]
MCBadgeOf == [w \in MCWallet |-> IF w = l1 THEN b1 ELSE NoBadge]

MCSessions == Permutations(Session)

Transfer(op, u, from, to, amount) ==
  [op |-> op, user |-> u, from |-> from, to |-> to, amount |-> amount, total |-> 0,
   logged |-> TRUE]
Unlogged(r) == [r EXCEPT !.logged = FALSE]
Payment(op, u, from, amount, total) ==
  [op |-> op, user |-> u, from |-> from, to |-> from, amount |-> amount, total |-> total,
   logged |-> TRUE]

(* Charges that hit the cap, the balance and somebody else's wallet, a     *)
(* refund and a conversion in each direction.                              *)
TransferRequests ==
  { Transfer("CHARGE", u1, c1, l1, 10000),
    Transfer("CHARGE", u1, c1, l2, 25000),
    Transfer("CHARGE", u1, c2, l1, 5000),
    Transfer("REFUND", u1, l1, c1, 10700),
    Transfer("CONVERT", u1, l1, l2, 53500),
    Transfer("CONVERT", u1, l2, l1, 11000),
    Transfer("CONVERT", u1, c1, l1, 1000),
    Unlogged(Transfer("CHARGE", u1, c1, l2, 25000)) }

(* Payments from one wallet each: every error of the context check, a      *)
(* region without a badge, and a wallet of another member.                 *)
PaymentRequests ==
  { Payment("LOCAL_CURRENCY", u1, l1, 30000, 30000),
    Payment("LOCAL_CURRENCY", u1, l2, 50000, 50000),
    Payment("LOCAL_CURRENCY", u1, l1, 2000, 1000),
    Payment("LOCAL_CURRENCY", u2, l1, 1000, 1000),
    Payment("LOCAL_CURRENCY", u1, c1, 1000, 1000),
    Payment("GENERAL", u1, l1, 12000, 12000) }

(* Transfers and payments that meet on the same two wallets in opposite    *)
(* lock orders: cash first for a charge, local first for the others.       *)
MixedRequests ==
  { Transfer("CHARGE", u1, c1, l1, 5000),
    Transfer("REFUND", u1, l1, c1, 5350),
    Payment("LOCAL_CURRENCY", u1, l1, 30000, 30000),
    Payment("LOCAL_CURRENCY", u1, l1, 25000, 30000),
    Payment("GENERAL", u1, l1, 12000, 12000) }

(* Both at once: every transfer with every payment.                        *)
AllRequests ==
  TransferRequests \cup MixedRequests \cup { Transfer("REFUND", u1, l2, c1, -3000) }

(* One member's everyday requests, for the runs with a single thread.      *)
SerialRequests ==
  { Transfer("CHARGE", u1, c1, l1, 10000),
    Transfer("REFUND", u1, l1, c1, 10700),
    Transfer("CONVERT", u1, l1, l2, 21400),
    Payment("LOCAL_CURRENCY", u1, l1, 30000, 30000),
    Payment("LOCAL_CURRENCY", u1, l1, 25000, 40000),
    Payment("LOCAL_CURRENCY", u1, l1, 5000, 5000),
    Payment("GENERAL", u1, l1, 12000, 12000) }

=============================================================================
