--------------------------- MODULE MCCarefulMembers ---------------------------
(***************************************************************************)
(* An instance of CarefulMembers with small odd amounts, where every       *)
(* rounding bites, beside everyday ones: charges of 7, 7 and 14987 won     *)
(* pass the maximum of 15000 by one.  l1 and l2 share a badge.             *)
(***************************************************************************)
EXTENDS CarefulMembers, WalletValue, MCWalletSystem

CarefulOpening == c1 :> 31000 @@ c2 :> 5000 @@ l1 :> 60000 @@ l2 :> 30000
CarefulBadgeOf == [w \in MCWallet |-> IF w \in {l1, l2} THEN b1 ELSE NoBadge]

CarefulRequests ==
  { Transfer("CHARGE", u1, c1, l1, 7),
    Transfer("CHARGE", u1, c1, l1, 14987),
    Unlogged(Transfer("CHARGE", u1, c1, l2, 25000)),
    Transfer("REFUND", u1, l1, c1, 32101),
    Transfer("REFUND", u1, l2, c1, -32000),
    Transfer("CHARGE", u1, l2, l2, 1000),
    Transfer("CONVERT", u1, l1, l2, 21401),
    Payment("LOCAL_CURRENCY", u1, l1, 30000, 30000),
    Payment("LOCAL_CURRENCY", u1, l1, 20000, 40000),
    Payment("LOCAL_CURRENCY", u1, l2, 30000, 30000),
    Payment("GENERAL", u1, l1, 12000, 12000) }

=============================================================================
