---------------------------- MODULE CarefulMembers ----------------------------
(***************************************************************************)
(* What the checks of the processors are worth, wallet by wallet.  They    *)
(* compare with values read earlier, and nothing holds those values still, *)
(* so what they promise depends on what else is sent.  Two history         *)
(* variables record, for each wallet, the kinds of requests sent so far    *)
(* that no check allows for, and how often the wallet was charged; each    *)
(* property names the kinds it does not survive.  Nothing restricts the    *)
(* threads, the requests or their interleavings.                           *)
(***************************************************************************)
EXTENDS WalletSystem

VARIABLES
  lapses,   \* history: lapses[w], the kinds of lapses that wallet w has seen
  charges   \* history: charges[w][t], charges of w committed in month t

historyVars == <<vars, lapses, charges>>

(* The wallets whose balances request r reads to decide, or changes, as    *)
(* far as they belong to the member who sends it: any other is refused.    *)
Uses(r) ==
  { w \in Wallet :
      /\ Owner[w] = r.user
      /\ \/ w = r.from /\ r.op # "GENERAL"
         \/ w = r.to /\ r.op \in TransferOps
         \/ w = CashOf[r.user] /\ \/ r.op \in {"CONVERT", "GENERAL"}
                                  \/ r.op \in LocalOps /\ r.amount # r.total }

(* The threads in the service of a request that uses w.                    *)
InService(w) == { s \in Session : pc[s] # "idle" /\ w \in Uses(req[s]) }

(* A local-currency payment that may earn the badge of wallet w.           *)
Earns(s, w) ==
  /\ pc[s] # "idle"
  /\ req[s].op \in LocalOps
  /\ req[s].user = Owner[w]
  /\ BadgeOf[req[s].from] = BadgeOf[w]

Lapse == {"overlap", "payments", "unlogged", "negative", "itself"}

(* What wallet w is going through now: two requests that use it in service *)
(* at once, or two payments for its badge; a charge out of it without      *)
(* transactionLogging; a request with a negative amount; a charge of the   *)
(* wallet from itself.                                                     *)
LapsesNow(w) ==
  { l \in Lapse :
      \/ l = "overlap" /\ \E s, t \in InService(w) : s # t
      \/ l = "payments" /\ \E s, t \in Session : s # t /\ Earns(s, w) /\ Earns(t, w)
      \/ \E s \in InService(w) :
           \/ l = "unlogged" /\ req[s].op = "CHARGE" /\ req[s].from = w /\ ~req[s].logged
           \/ l = "negative" /\ (req[s].amount < 0 \/ req[s].total < 0)
           \/ l = "itself" /\ req[s].op = "CHARGE" /\ req[s].from = req[s].to }

(* A charge of w is committed with its rows of month t.                    *)
ChargeCommitted(s, w, t) ==
  /\ pc[s] = "commit" /\ pc'[s] = "idle" /\ reply'[s] = "ok"
  /\ req[s].op = "CHARGE" /\ req[s].to = w /\ tx[s].at = t

-----------------------------------------------------------------------------
HInit ==
  /\ Init
  /\ lapses = [w \in Wallet |-> {}]
  /\ charges = [w \in Wallet |-> [t \in Time |-> 0]]

HNext ==
  /\ Next
  /\ lapses' = [w \in Wallet |-> lapses[w] \cup LapsesNow(w)']
  /\ charges' = [w \in Wallet |-> [t \in Time |->
                   charges[w][t] + IF \E s \in Session : ChargeCommitted(s, w, t) THEN 1 ELSE 0]]

HSpec == HInit /\ [][HNext]_historyVars

-----------------------------------------------------------------------------
(* Properties.                                                             *)

(* A wallet is only ever overdrawn after two of its member's requests met  *)
(* on it, a charge out of it went without the balance check that           *)
(* RechargeProcessor keeps for transactionLogging, or a negative amount    *)
(* was sent: otherwise every check still holds when its UPDATE runs.       *)
CoveredUnlessCareless ==
  \A w \in Wallet :
    balance[w] < 0 => lapses[w] \cap {"overlap", "unlogged", "negative"} # {}

(* The charges of a wallet in one month stay within the currency's maximum *)
(* but for half a won per charge, which RechargeProcessor loses when it    *)
(* turns credited amounts back into principal, unless two requests met on  *)
(* the wallet or a negative amount was sent.                               *)
CappedUnlessCareless ==
  \A w \in Local, t \in Time :
    lapses[w] \cap {"overlap", "negative"} = {} =>
      2 * principal[w][t] <= 2 * Maximum[w] + charges[w][t]

(* Without faults, and while none of its requests is in service, the last  *)
(* row of a wallet's statement shows its balance, although the columns of  *)
(* the row come from value objects read before the UPDATE; unless two      *)
(* requests met on the wallet or it was charged from itself.               *)
StatedUnlessCareless ==
  faults = 0 => \A w \in Wallet :
    InService(w) = {} /\ lastAfter[w] # balance[w] =>
      lapses[w] \cap {"overlap", "itself"} # {}

(* A member whose cumulated payments from a wallet reached a tier holds    *)
(* its badge, by either strategy, unless two requests met on the wallet.   *)
BadgeForTotalUnlessCareless ==
  \A w \in Local :
    BadgeOf[w] # NoBadge /\ Tier(totalPayment[w]) # "none" /\ "overlap" \notin lapses[w] =>
      badges[Owner[w]][BadgeOf[w]][Tier(totalPayment[w])] > 0

(* No badge is awarded twice, by payments from any of the member's wallets *)
(* and by either strategy, unless two payments for it met.                 *)
BadgeOnceUnlessCareless ==
  \A w \in Wallet, g \in Grade :
    BadgeOf[w] # NoBadge /\ "payments" \notin lapses[w] =>
      badges[Owner[w]][BadgeOf[w]][g] <= 1

=============================================================================
