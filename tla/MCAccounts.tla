------------------------------ MODULE MCAccounts ------------------------------
(***************************************************************************)
(* A small instance of Accounts: the member ann with a CASH wallet and two *)
(* empty wallets of local currencies, and a username nobody has yet.       *)
(***************************************************************************)
EXTENDS Accounts, TLC

CONSTANTS ann, bob, k1, k2, k3, s1, s2

Row(owner, currency, balance, order) ==
  [owner |-> owner, currency |-> currency, cash |-> currency = NoCurrency,
   balance |-> balance, order |-> order, used |-> FALSE]

MCMember == 1 :> ann
MCWallet == 2 :> Row(1, NoCurrency, 1, 1) @@ 3 :> Row(1, k1, 0, 2) @@ 4 :> Row(1, k2, 0, 3)

Account(op, u)    == [op |-> op, username |-> u]
Create(u, c)      == [op |-> "create", username |-> u, currency |-> c]
Order(u, f)       == [op |-> "order", username |-> u, orders |-> f]
Remove(u, w)      == [op |-> "remove", username |-> u, wallet |-> w]
Move(u, w, x)     == [op |-> "move", username |-> u, wallet |-> w, amount |-> x, logged |-> TRUE]
Unlogged(r)       == [r EXCEPT !.logged = FALSE]
Pay(u, w, x)      == [op |-> "pay", username |-> u, wallet |-> w, amount |-> x]

(* Each operation once where it works and once for each of its refusals.   *)
MCRequests ==
  { Account("join", ann), Account("join", bob), Account("update", bob),
    Account("leave", ann), Account("leave", bob),
    Create(ann, k1), Create(ann, k3), Create(bob, k1),
    Order(ann, 2 :> 1), Order(ann, NoRows), Order(ann, 3 :> 3),
    Remove(ann, 2), Remove(ann, 3), Remove(ann, 4), Remove(bob, 3), Remove(bob, 6),
    Move(ann, 3, 1), Move(ann, 3, -1), Move(ann, 9, 1), Unlogged(Move(ann, 3, -1)),
    Pay(ann, 3, 1), Pay(ann, 3, -1), Pay(ann, 2, 1) }

(* A newcomer who changes her mind.                                        *)
LeaveRequests == { Account("join", bob), Account("leave", bob) }

=============================================================================
