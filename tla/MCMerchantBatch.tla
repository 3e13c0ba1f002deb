--------------------------- MODULE MCMerchantBatch ---------------------------
(***************************************************************************)
(* A small instance of MerchantBatch: four currencies in partitions of     *)
(* three, and pages of three rows; merchant ma is listed in both           *)
(* partitions and twice for one currency, mc in the second, shorter        *)
(* partition only, an entry of k3 lies on a second page, and k0 has no     *)
(* usable entry.                                                           *)
(***************************************************************************)
EXTENDS MerchantBatch, TLC

CONSTANTS k0, k1, k2, k3, ma, mb, mc, w1, w2

MCCurrencies == <<k0, k1, k2, k3>>
MCListing == k0 :> <<Nameless>> @@ k1 :> <<ma, Nameless, ma>> @@ k2 :> <<mb, ma>>
             @@ k3 :> <<ma, mc, Nameless, mb>>

=============================================================================
