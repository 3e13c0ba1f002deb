-------------------------------- MODULE Bank --------------------------------
(***************************************************************************)
(* What members may rely on, however requests interleave and fail: every   *)
(* transfer and every local-currency payment happens as a whole or not at  *)
(* all, moves exactly the amounts of Effect between wallets of the member  *)
(* who asked, and is posted to the statements of those wallets in the same *)
(* step.  A GENERAL payment is weaker: a teller takes the cash first and   *)
(* posts it later, once, unless the teller is lost in between.             *)
(***************************************************************************)
EXTENDS Effects

CONSTANTS
  Teller,
  NoRequest   \* the teller has posted all that it took

VARIABLES
  balance,   \* the balance of each wallet
  posted,    \* the signed sum of its statement
  unposted,  \* cash taken by GENERAL payments and not on the statement
  pending    \* pending[t]: the payment that teller t took and has to post

bankVars == <<balance, posted, unposted, pending>>

Minus(f) == [w \in Wallet |-> -f[w]]

(* Every wallet that request r touches belongs to its member.              *)
Authorized(r) == \A w \in Wallet : Effect(r)[w] # 0 => Owner[w] = r.user

Init ==
  /\ balance = Opening
  /\ posted = Nothing
  /\ unposted = Nothing
  /\ pending = [t \in Teller |-> NoRequest]

Settle(r) ==
  /\ r.op # "GENERAL"
  /\ Authorized(r)
  /\ balance' = Plus(balance, Effect(r))
  /\ posted' = Plus(posted, Effect(r))
  /\ UNCHANGED <<unposted, pending>>

Take(t, r) ==
  /\ r.op = "GENERAL"
  /\ Authorized(r)
  /\ pending[t] = NoRequest
  /\ pending' = [pending EXCEPT ![t] = r]
  /\ balance' = Plus(balance, Effect(r))
  /\ unposted' = Plus(unposted, Minus(Effect(r)))
  /\ UNCHANGED posted

Post(t, r) ==
  /\ pending[t] = r
  /\ pending' = [pending EXCEPT ![t] = NoRequest]
  /\ posted' = Plus(posted, Effect(r))
  /\ unposted' = Plus(unposted, Effect(r))
  /\ UNCHANGED balance

(* Tellers are lost, and what they took is never posted.                   *)
Lose(T) ==
  /\ pending' = [t \in Teller |-> IF t \in T THEN NoRequest ELSE pending[t]]
  /\ UNCHANGED <<balance, posted, unposted>>

Next ==
  \/ \E r \in Requests : Settle(r) \/ \E t \in Teller : Take(t, r) \/ Post(t, r)
  \/ \E T \in SUBSET Teller : Lose(T)

Spec == Init /\ [][Next]_bankVars

=============================================================================
