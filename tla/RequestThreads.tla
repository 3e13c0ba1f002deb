--------------------------- MODULE RequestThreads ---------------------------
(***************************************************************************)
(* The request threads: a thread takes one transfer or payment request,    *)
(* works through the steps of its handler (named by pc) and answers.       *)
(***************************************************************************)
EXTENDS WalletStore

CONSTANTS
  MaxRequests,  \* bound: requests served during the run
  MaxFaults     \* bound: crashes and lock-wait timeouts during the run

ASSUME BoundsAssumption == MaxRequests \in Nat /\ MaxFaults \in Nat

VARIABLES
  pc,      \* the next step of each thread's handler
  req,     \* the request each thread is serving
  reply,   \* the answer each thread gave last, "none" while it is serving
  served,  \* how many requests were received
  faults   \* how many faults happened

threadVars == <<pc, req, reply, served, faults>>
vars == <<storeVars, threadVars>>

TransferLabels == {"charge", "chargeDebit", "chargeCredit", "refund", "refundDebit",
                   "refundCredit", "convert", "convertCharge"}
PaymentLabels  == {"pay", "general", "generalDebit", "generalPost", "generalMerchant",
                   "localPay", "localFinish", "mixed", "mixedLocal", "mixedMain"}
Labels == {"idle", "commit"} \cup TransferLabels \cup PaymentLabels

Errors == {"UNAUTHORIZED_WALLET_ACCESS", "LOCAL_WALLET_EXCEEDS_MONTHLY_MAX",
           "WALLET_BALANCE_NOT_ENOUGH", "LOCAL_CURRENCY_NOT_FOUND",
           "INVALID_PAYMENT_PASSWORD", "INPUT_AMOUNT_EXCEEDS_MERCHANT_AMOUNT",
           "INTERNAL_SERVER_ERROR", "LOCK_FAILURE", "CONNECTION_LOST"}
Replies == {"none", "ok"} \cup Errors

(* Mutant: no processor is found for conversions.                          *)
EntryUnconverted(r) == CASE r.op = "CHARGE" -> "charge"
                         [] r.op = "REFUND" -> "refund"
                         [] r.op \in PaymentOps -> "pay"
                         [] OTHER -> "unsupported"

(* The processor that TransactionServiceImpl picks for the request's type. *)
Entry(r) == CASE r.op = "CHARGE"  -> "charge"
              [] r.op = "REFUND"  -> "refund"
              [] r.op = "CONVERT" -> "convert"
              [] OTHER            -> "pay"

(* A free thread takes request r.                                          *)
Receive(s, r) ==
  /\ pc[s] = "idle"
  /\ served < MaxRequests
  /\ pc' = [pc EXCEPT ![s] = Entry(r)]
  /\ req' = [req EXCEPT ![s] = r]
  /\ reply' = [reply EXCEPT ![s] = "none"]
  /\ served' = served + 1
  /\ UNCHANGED <<storeVars, faults>>

Goto(s, label) ==
  /\ pc' = [pc EXCEPT ![s] = label]
  /\ UNCHANGED <<req, reply, served, faults>>

Answer(s, answer) ==
  /\ pc' = [pc EXCEPT ![s] = "idle"]
  /\ req' = [req EXCEPT ![s] = NoRequest]
  /\ reply' = [reply EXCEPT ![s] = answer]
  /\ UNCHANGED <<served, faults>>

(* Mutant: an exception that Spring does not roll back for.                *)
RefuseCommitting(s, error) == CommitWork(s, req[s]) /\ Answer(s, error)

(* An exception leaves the handler: the open transaction is rolled back.   *)
Refuse(s, error) == RollbackWork(s) /\ Answer(s, error)

(* The handler returns: its transaction commits.                           *)
Commit(s) ==
  /\ pc[s] = "commit"
  /\ CommitWork(s, req[s])
  /\ Answer(s, "ok")

(* Reads made before the first write: nothing but the thread's view moves. *)
Read(s, view) ==
  /\ seen' = [seen EXCEPT ![s] = view]
  /\ UNCHANGED <<committedVars, lock, tx, now>>

(* A statement of an open transaction: work under a row lock.              *)
Write(s, w, work) ==
  /\ Lock(s, w)
  /\ tx' = [tx EXCEPT ![s] = work]
  /\ UNCHANGED <<committedVars, seen, now>>

ThreadInit ==
  /\ pc = [s \in Session |-> "idle"]
  /\ req = [s \in Session |-> NoRequest]
  /\ reply = [s \in Session |-> "none"]
  /\ served = 0
  /\ faults = 0

ThreadTypeOK ==
  /\ pc \in [Session -> Labels]
  /\ req \in [Session -> Requests \cup {NoRequest}]
  /\ reply \in [Session -> Replies]
  /\ served \in 0 .. MaxRequests
  /\ faults \in 0 .. MaxFaults

=============================================================================
