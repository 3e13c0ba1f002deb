---------------------------- MODULE AccountsProofs ----------------------------
(***************************************************************************)
(* Members and wallets come and go safely, for every set of threads,       *)
(* usernames, currencies, opening rows and requests, and for every bound.  *)
(* The invariant says what each thread may rely on at each of its labels:  *)
(* rows it has written are under its locks or not visible yet, and what it *)
(* has checked before still holds, or its username has been raced.         *)
(***************************************************************************)
EXTENDS Accounts, FiniteSetTheorems, WellFoundedInduction, TLAPS

Ops == {"join", "update", "leave", "create", "order", "remove", "move", "pay"}

(* The labels that the handler of an operation passes through.             *)
LabelsOf(op) ==
  CASE op = "join"   -> {"join", "joinMember", "joinWallet", "commit"}
    [] op = "update" -> {"auth", "update", "updateRow"}
    [] op = "leave"  -> {"auth", "leave", "leaveRow"}
    [] op = "create" -> {"auth", "create", "createMax", "createInsert"}
    [] op = "order"  -> {"auth", "order", "orderWrite", "commit"}
    [] op = "remove" -> {"auth", "remove", "removeRow", "renumber", "commit"}
    [] op = "pay"    -> {"auth", "pay", "payCash", "payDebit", "payRow"}
    [] OTHER         -> {"auth", "move", "moveWrite", "commit"}

RequestOK(r) ==
  /\ r.op \in Ops
  /\ r.username \in Username
  /\ r.op = "create" => r.currency \in Currency
  /\ r.op = "order" => \A w \in DOMAIN r.orders : r.orders[w] \in Int
  /\ r.op \in {"move", "pay"} => r.amount \in Int

(* The uncommitted rows of s that are not versions of rows it has locked.  *)
Fresh(s) == DOMAIN tx[s].member \cup (DOMAIN tx[s].wallet \ held[s])

(* The ids that s has read in committed rows.                              *)
Knows(s) ==
  {seen[s].id} \cup
  (IF pc[s] \in {"removeRow", "renumber"} \/ At(s, "remove", "commit")
   THEN {req[s].wallet} ELSE {}) \cup
  (IF pc[s] = "orderWrite" THEN DOMAIN req[s].orders ELSE {}) \cup
  (IF pc[s] \in {"payDebit", "payRow"} THEN {seen[s].cash} ELSE {})

Same(new, old) ==
  new.owner = old.owner /\ new.currency = old.currency /\ new.cash = old.cash

(* The balance has not changed without a row that refers to the wallet.    *)
Accounted(new, old) == new.used \/ (new.balance = old.balance /\ new.used = old.used)

-----------------------------------------------------------------------------
(* What holds of one thread.                                               *)

Shapes ==
  /\ lastId \in Nat
  /\ raced \subseteq Username /\ improper \subseteq Username
  /\ pc = [s \in Session |-> pc[s]]
  /\ req = [s \in Session |-> req[s]]
  /\ reply = [s \in Session |-> reply[s]]
  /\ tx = [s \in Session |-> tx[s]]
  /\ seen = [s \in Session |-> seen[s]]
  /\ held = [s \in Session |-> held[s]]
  /\ gap = [s \in Session |-> gap[s]]

Labelled(s) ==
  \/ pc[s] = "idle"
  \/ RequestOK(req[s]) /\ pc[s] \in LabelsOf(req[s].op)

Typed(s) ==
  /\ tx[s] = [member |-> tx[s].member, wallet |-> tx[s].wallet, gone |-> tx[s].gone]
  /\ seen[s] = [id |-> seen[s].id, order |-> seen[s].order, cash |-> seen[s].cash]
  /\ seen[s].id \in 0 .. lastId
  /\ seen[s].order \in Int
  /\ held[s] \subseteq DOMAIN wallet
  /\ gap[s] \subseteq 1 .. lastId

(* Nothing is open outside a request, and nothing written before a write.  *)
CleanFirst(s) ==
  /\ pc[s] = "idle" => held[s] = {} /\ gap[s] = {} /\ seen[s] = NothingSeen
  /\ pc[s] \notin {"joinWallet", "renumber", "commit"} => tx[s] = NoWork
  /\ pc[s] \in {"join", "joinMember"} => held[s] = {}

CashRow(m) ==
  [owner |-> m, currency |-> NoCurrency, cash |-> TRUE, balance |-> 0, order |-> 1, used |-> FALSE]

Joining(s) ==
  /\ pc[s] \in {"joinMember", "joinWallet"} \/ At(s, "join", "commit") =>
       \A m \in DOMAIN member : member[m] = req[s].username => req[s].username \in raced
  /\ pc[s] = "joinWallet" \/ At(s, "join", "commit") =>
       /\ tx[s].member = [i \in {seen[s].id} |-> req[s].username]
       /\ seen[s].id # 0
       /\ tx[s].gone = {}
       /\ held[s] = {}
  /\ pc[s] = "joinWallet" => tx[s].wallet = NoRows
  /\ At(s, "join", "commit") =>
       \E i \in 1 .. lastId : i # seen[s].id /\ tx[s].wallet = [j \in {i} |-> CashRow(seen[s].id)]

(* A new row is not visible to anybody else.                               *)
Unseen(s) == Fresh(s) \cap (DOMAIN member \cup DOMAIN wallet) = {}

(* Transactions on rows that are there work on rows that they have locked. *)
Writing(s) ==
  pc[s] = "renumber" \/ (pc[s] = "commit" /\ req[s].op # "join") =>
    /\ tx[s].member = NoRows
    /\ \A w \in DOMAIN tx[s].wallet :
         /\ w \in held[s]
         /\ tx[s].wallet[w] \in WalletRow
         /\ Same(tx[s].wallet[w], wallet[w])
         /\ Accounted(tx[s].wallet[w], wallet[w])
         /\ tx[s].wallet[w].order # wallet[w].order => wallet[w].owner = seen[s].id
    /\ pc[s] = "commit" /\ req[s].op # "remove" => tx[s].gone = {}

Authenticated(s) ==
  pc[s] \notin {"idle", "auth"} /\ req[s].op # "join" =>
    /\ seen[s].id # 0
    /\ seen[s].id \in DOMAIN member => member[seen[s].id] = req[s].username

Creating(s) ==
  pc[s] \in {"createMax", "createInsert"} =>
    \A w \in DOMAIN wallet :
      wallet[w].owner = seen[s].id /\ wallet[w].currency = req[s].currency
        => req[s].username \in raced

(* The wallets on a list that has been checked are the member's.           *)
Ordering(s) ==
  pc[s] = "orderWrite" =>
    /\ DOMAIN req[s].orders \subseteq 1 .. lastId
    /\ \A w \in DOMAIN req[s].orders \cap DOMAIN wallet : wallet[w].owner = seen[s].id

(* Nothing can be left in the wallet to delete, unless its member has paid *)
(* a negative amount.                                                      *)
NothingLeft(s) == wallet[req[s].wallet].balance <= 0 \/ req[s].username \in improper

Removing(s) ==
  /\ pc[s] \in {"removeRow", "renumber"} \/ At(s, "remove", "commit") =>
       (req[s].wallet \in DOMAIN wallet => wallet[req[s].wallet].owner = seen[s].id)
  /\ pc[s] = "removeRow" =>
       /\ req[s].wallet \in 1 .. lastId
       /\ req[s].wallet \in DOMAIN wallet =>
            NothingLeft(s) \/ wallet[req[s].wallet].used
  /\ pc[s] = "renumber" \/ At(s, "remove", "commit") =>
       /\ tx[s].gone = {req[s].wallet}
       /\ req[s].wallet \in 1 .. lastId
       /\ req[s].wallet \in DOMAIN wallet =>
            /\ req[s].wallet \in held[s]
            /\ NothingLeft(s)
            /\ ~wallet[req[s].wallet].used
  /\ pc[s] = "renumber" => tx[s].wallet = NoRows
  /\ At(s, "remove", "commit") =>
       /\ gap[s] = {seen[s].id}
       /\ DOMAIN tx[s].wallet = WalletsOf(wallet, seen[s].id) \ tx[s].gone
       /\ { tx[s].wallet[w].order : w \in DOMAIN tx[s].wallet }
            = 1 .. Cardinality(DOMAIN tx[s].wallet)

(* A GENERAL payment changes the CASH wallet of its member, and takes from *)
(* it unless the amount is improper.                                       *)
Paying(s) ==
  /\ Busy(s) /\ req[s].op = "pay" /\ req[s].amount < 0 => req[s].username \in improper
  /\ pc[s] \in {"payDebit", "payRow"} =>
       /\ seen[s].cash \in 1 .. lastId
       /\ seen[s].cash \in DOMAIN wallet => wallet[seen[s].cash].owner = seen[s].id

ThreadOK(s) ==
  /\ Labelled(s)
  /\ Typed(s)
  /\ CleanFirst(s)
  /\ Joining(s)
  /\ Unseen(s)
  /\ Writing(s)
  /\ Authenticated(s)
  /\ Creating(s)
  /\ Ordering(s)
  /\ Removing(s)
  /\ Paying(s)

-----------------------------------------------------------------------------
(* What holds between two threads, and of the tables.                      *)

Apart(s, t) ==
  /\ held[s] \cap held[t] = {}
  /\ Fresh(s) \cap Fresh(t) = {}
  /\ Knows(s) \cap Fresh(t) = {}
  /\ Busy(s) /\ Busy(t) /\ req[s].username = req[t].username => req[s].username \in raced

TablesOK ==
  /\ \A m \in DOMAIN member : m \in 1 .. lastId /\ member[m] \in Username
  /\ \A w \in DOMAIN wallet : /\ w \in 1 .. lastId
                              /\ wallet[w] \in WalletRow
                              /\ wallet[w].owner \in DOMAIN member
  /\ UniqueUsernames
  /\ OneWalletPerCurrency

IInv ==
  /\ Shapes
  /\ TablesOK
  /\ \A s \in Session : ThreadOK(s)
  /\ \A s, t \in Session : s # t => Apart(s, t)

-----------------------------------------------------------------------------
(* What a step of t leaves to the other threads.                           *)

Alike(s) ==
  /\ pc'[s] = pc[s] /\ req'[s] = req[s] /\ tx'[s] = tx[s]
  /\ seen'[s] = seen[s] /\ held'[s] = held[s] /\ gap'[s] = gap[s]

(* A wallet that t makes visible is the new member's own, or is for the    *)
(* member that t has authenticated and whose wallets nobody renumbers.     *)
Rightful(t, owner) ==
  \/ owner \in Fresh(t)
  \/ /\ Busy(t)
     /\ owner \in DOMAIN member /\ member[owner] = req[t].username
     /\ GapFree(t, owner)

(* A GENERAL payment of t takes from the CASH wallet w of its member.      *)
Spent(t, w) ==
  /\ wallet'[w].used = wallet[w].used
  /\ member[wallet[w].owner] = req[t].username
  /\ wallet'[w].balance <= wallet[w].balance \/ req[t].username \in improper

(* How t may change the tables.                                            *)
Grown(t) ==
  /\ lastId' \in Nat /\ lastId <= lastId'
  /\ raced \subseteq raced' /\ improper \subseteq improper'
  /\ \A m \in DOMAIN member' :
       \/ m \in DOMAIN member /\ member'[m] = member[m]
       \/ Busy(t) /\ m \in Fresh(t) /\ member'[m] = req[t].username
  /\ \A w \in DOMAIN wallet \ DOMAIN wallet' :
       w \in held[t] /\ member[wallet[w].owner] = req[t].username
  /\ \A w \in DOMAIN wallet' \cap DOMAIN wallet :
       /\ Same(wallet'[w], wallet[w])
       /\ Accounted(wallet'[w], wallet[w]) \/ Spent(t, w)
       /\ wallet'[w].order # wallet[w].order => member[wallet[w].owner] = req[t].username
       /\ wallet'[w] # wallet[w] => w \in held[t] \/ Free(t, w)
  /\ \A w \in DOMAIN wallet' \ DOMAIN wallet :
       /\ w \in Fresh(t) \/ w > lastId
       /\ Rightful(t, wallet'[w].owner)
       /\ wallet'[w].owner \in Fresh(t) => wallet'[w].currency = NoCurrency

(* Ids are known before they are new to somebody.                          *)
LEMMA FreshIds ==
  ASSUME IInv, NEW s \in Session
  PROVE  Fresh(s) \subseteq 1 .. lastId
  <1>1. ThreadOK(s) /\ lastId \in Nat
    BY DEF IInv, Shapes
  <1>2. CASE pc[s] = "joinWallet"
    BY <1>1, <1>2 DEF ThreadOK, Joining, Typed, Fresh, NoRows
  <1>3. CASE At(s, "join", "commit")
    <2>1. PICK i \in 1 .. lastId : tx[s].wallet = [j \in {i} |-> CashRow(seen[s].id)]
      BY <1>1, <1>3 DEF ThreadOK, Joining
    <2>2. DOMAIN tx[s].wallet = {i} /\ DOMAIN tx[s].member = {seen[s].id} /\ seen[s].id \in 1 .. lastId
      BY <1>1, <1>3, <2>1 DEF ThreadOK, Joining, Typed
    <2> QED BY <2>2 DEF Fresh
  <1>4. CASE pc[s] = "renumber" \/ (pc[s] = "commit" /\ ~At(s, "join", "commit"))
    BY <1>1, <1>4 DEF ThreadOK, Writing, Fresh, NoRows, At
  <1>5. CASE pc[s] \notin {"joinWallet", "renumber", "commit"}
    BY <1>1, <1>5 DEF ThreadOK, CleanFirst, Fresh, NoRows, NoWork
  <1> QED BY <1>2, <1>3, <1>4, <1>5 DEF At

(* What a thread has read has an id that was given before.                 *)
LEMMA KnownIds ==
  ASSUME IInv, NEW s \in Session
  PROVE  Knows(s) \subseteq 0 .. lastId
  <1>1. ThreadOK(s) /\ lastId \in Nat
    BY DEF IInv, Shapes
  <1> QED BY <1>1 DEF ThreadOK, Typed, Removing, Ordering, Paying, Knows, At

(* A thread keeps what it relies on while another one works.               *)
LEMMA Undisturbed ==
  ASSUME IInv, NEW s \in Session, NEW t \in Session, s # t, Alike(s), Grown(t), TablesOK'
  PROVE  ThreadOK(s)'
  <1>1. /\ Labelled(s) /\ Typed(s) /\ CleanFirst(s) /\ Joining(s) /\ Unseen(s)
        /\ Writing(s) /\ Authenticated(s) /\ Creating(s) /\ Ordering(s) /\ Removing(s)
        /\ Paying(s)
    BY DEF IInv, ThreadOK
  <1>2. /\ held[s] \cap held[t] = {}
        /\ Fresh(s) \cap Fresh(t) = {}
        /\ Knows(s) \cap Fresh(t) = {}
        /\ Busy(s) /\ Busy(t) /\ req[s].username = req[t].username => req[s].username \in raced
    BY DEF IInv, Apart
  <1>3. Fresh(s) \subseteq 1 .. lastId /\ Knows(s) \subseteq 0 .. lastId
    BY FreshIds, KnownIds
  <1>4. lastId \in Nat /\ lastId' \in Nat /\ lastId <= lastId' /\ raced \subseteq raced' /\ improper \subseteq improper'
    BY DEF IInv, Shapes, Grown
  <1>5. Labelled(s)'
    BY <1>1 DEF Labelled, Alike
  <1>6. Typed(s)'
    <2>1. held[s] \subseteq DOMAIN wallet'
      BY <1>1, <1>2 DEF Typed, Grown
    <2>2. gap[s] \subseteq 1 .. lastId' /\ seen[s].id \in 0 .. lastId'
      BY <1>1, <1>4 DEF Typed
    <2> QED BY <1>1, <2>1, <2>2 DEF Typed, Alike
  <1>7. CleanFirst(s)'
    BY <1>1 DEF CleanFirst, Alike
  <1>8. Joining(s)'
    <2>1. ASSUME pc[s] \in {"joinMember", "joinWallet"} \/ At(s, "join", "commit"),
                 NEW m \in DOMAIN member', member'[m] = req[s].username
          PROVE  req[s].username \in raced'
      <3>1. CASE m \in DOMAIN member /\ member'[m] = member[m]
        BY <1>1, <1>4, <2>1, <3>1 DEF Joining
      <3>2. CASE Busy(t) /\ member'[m] = req[t].username
        BY <1>2, <1>4, <2>1, <3>2 DEF Busy, At
      <3> QED BY <3>1, <3>2 DEF Grown
    <2>2. ASSUME At(s, "join", "commit")
          PROVE  \E i \in 1 .. lastId' : i # seen[s].id /\ tx[s].wallet = [j \in {i} |-> CashRow(seen[s].id)]
      <3>1. PICK i \in 1 .. lastId : i # seen[s].id /\ tx[s].wallet = [j \in {i} |-> CashRow(seen[s].id)]
        BY <1>1, <2>2 DEF Joining
      <3>2. i \in 1 .. lastId'
        BY <1>4
      <3> QED BY <3>1, <3>2
    <2> QED BY <1>1, <2>1, <2>2 DEF Joining, Alike, At
  <1>9. Unseen(s)'
    <2>1. Fresh(s)' = Fresh(s)
      BY DEF Fresh, Alike
    <2>2. ASSUME NEW i \in Fresh(s) PROVE i \notin DOMAIN member' /\ i \notin DOMAIN wallet'
      BY <1>1, <1>2, <1>3, <1>4 DEF Unseen, Grown
    <2> QED BY <2>1, <2>2 DEF Unseen
  <1>10. Writing(s)'
    <2>1. \A w \in held[s] : w \in DOMAIN wallet /\ wallet'[w] = wallet[w]
      BY <1>1, <1>2 DEF Typed, Grown, Free
    <2> QED BY <1>1, <2>1 DEF Writing, Alike
  <1>11. Authenticated(s)'
    <2>1. seen[s].id \in DOMAIN member' => seen[s].id \in DOMAIN member /\ member'[seen[s].id] = member[seen[s].id]
      BY <1>2 DEF Grown, Knows
    <2> QED BY <1>1, <2>1 DEF Authenticated, Alike
  <1>12. Creating(s)'
    <2> SUFFICES ASSUME pc[s] \in {"createMax", "createInsert"},
                        NEW w \in DOMAIN wallet', wallet'[w].owner = seen[s].id,
                        wallet'[w].currency = req[s].currency
                 PROVE  req[s].username \in raced'
      BY DEF Creating, Alike
    <2>1. CASE w \in DOMAIN wallet
      BY <1>1, <1>4, <2>1 DEF Creating, Grown, Same
    <2>2. CASE w \notin DOMAIN wallet
      <3>1. seen[s].id \notin Fresh(t)
        BY <1>2 DEF Knows
      <3>2. Busy(t) /\ seen[s].id \in DOMAIN member /\ member[seen[s].id] = req[t].username
        BY <2>2, <3>1 DEF Grown, Rightful
      <3>3. req[s].op # "join" /\ Busy(s)
        BY <1>1 DEF Labelled, LabelsOf, Busy
      <3>4. member[seen[s].id] = req[s].username
        BY <1>1, <3>2, <3>3 DEF Authenticated
      <3> QED BY <1>2, <1>4, <3>2, <3>3, <3>4
    <2> QED BY <2>1, <2>2
  <1>13. Removing(s)'
    <2>0. ASSUME pc[s] = "removeRow" \/ pc[s] = "renumber" \/ At(s, "remove", "commit"),
                 req[s].wallet \in DOMAIN wallet, req[s].wallet \in DOMAIN wallet',
                 Spent(t, req[s].wallet), NothingLeft(s)
          PROVE  NothingLeft(s)'
      <3>1. PICK o : o = wallet[req[s].wallet].owner
        OBVIOUS
      <3>2. o = seen[s].id /\ o \in DOMAIN member
        BY <1>1, <2>0, <3>1 DEF Removing, IInv, TablesOK
      <3>3. member[o] = req[s].username
        BY <1>1, <2>0, <3>2 DEF Authenticated, Labelled, LabelsOf, At
      <3>4. req[t].username = req[s].username
        BY <2>0, <3>1, <3>3 DEF Spent
      <3>5. wallet[req[s].wallet].balance \in Int /\ wallet'[req[s].wallet].balance \in Int
        BY <2>0 DEF IInv, TablesOK, WalletRow
      <3> QED BY <1>4, <2>0, <3>4, <3>5 DEF Spent, NothingLeft, Alike
    <2>1. ASSUME pc[s] = "removeRow", req[s].wallet \in DOMAIN wallet'
          PROVE  NothingLeft(s)' \/ wallet'[req[s].wallet].used
      <3>1. req[s].wallet \in 1 .. lastId /\ req[s].wallet \notin Fresh(t)
        BY <1>1, <1>2, <2>1 DEF Removing, Knows
      <3>2. req[s].wallet \in DOMAIN wallet
        BY <1>4, <2>1, <3>1 DEF Grown
      <3>3. CASE Spent(t, req[s].wallet)
        BY <1>1, <2>0, <2>1, <3>2, <3>3 DEF Removing, Spent
      <3>4. CASE Accounted(wallet'[req[s].wallet], wallet[req[s].wallet])
        BY <1>1, <1>4, <2>1, <3>2, <3>4 DEF Removing, Accounted, NothingLeft, Alike
      <3> QED BY <2>1, <3>2, <3>3, <3>4 DEF Grown
    <2>2. ASSUME pc[s] = "renumber" \/ At(s, "remove", "commit"), req[s].wallet \in DOMAIN wallet'
          PROVE  /\ req[s].wallet \in held[s]
                 /\ NothingLeft(s)'
                 /\ ~wallet'[req[s].wallet].used
      <3>1. req[s].wallet \in 1 .. lastId /\ req[s].wallet \notin Fresh(t)
        BY <1>1, <1>2, <2>2 DEF Removing, Knows
      <3>2. req[s].wallet \in DOMAIN wallet
        BY <1>4, <2>2, <3>1 DEF Grown
      <3>3. req[s].wallet \in held[s] /\ req[s].wallet \notin held[t]
        BY <1>1, <1>2, <2>2, <3>2 DEF Removing
      <3>4. wallet'[req[s].wallet] = wallet[req[s].wallet]
        BY <2>2, <3>2, <3>3 DEF Grown, Free
      <3> QED BY <1>1, <1>4, <2>2, <3>2, <3>3, <3>4 DEF Removing, NothingLeft, Alike
    <2>3. ASSUME At(s, "remove", "commit")
          PROVE  WalletsOf(wallet', seen[s].id) \ tx[s].gone = WalletsOf(wallet, seen[s].id) \ tx[s].gone
      <3>1. seen[s].id \in gap[s]
        BY <1>1, <2>3 DEF Removing
      <3>2. seen[s].id \notin Fresh(t)
        BY <1>2 DEF Knows
      <3>3. ASSUME NEW w \in DOMAIN wallet', wallet'[w].owner = seen[s].id
            PROVE  w \in DOMAIN wallet /\ wallet[w].owner = seen[s].id
        BY <3>1, <3>2, <3>3 DEF Grown, Rightful, GapFree, Same
      <3>4. ASSUME NEW w \in DOMAIN wallet, wallet[w].owner = seen[s].id, w \notin tx[s].gone
            PROVE  w \in DOMAIN wallet' /\ wallet'[w].owner = seen[s].id
        <4>1. w \in held[s] /\ w \notin held[t]
          BY <1>1, <1>2, <2>3, <3>4 DEF Removing, Writing, WalletsOf, At
        <4> QED BY <3>4, <4>1 DEF Grown, Same
      <3> QED BY <3>3, <3>4 DEF WalletsOf
    <2>4. pc[s] = "removeRow" \/ pc[s] = "renumber" \/ At(s, "remove", "commit") => req[s].wallet \in 1 .. lastId'
      BY <1>1, <1>4 DEF Removing
    <2>5. ASSUME pc[s] \in {"removeRow", "renumber"} \/ At(s, "remove", "commit"),
                 req[s].wallet \in DOMAIN wallet'
          PROVE  wallet'[req[s].wallet].owner = seen[s].id
      <3>1. req[s].wallet \in 1 .. lastId /\ req[s].wallet \notin Fresh(t)
        BY <1>1, <1>2, <2>5 DEF Removing, Knows
      <3>2. req[s].wallet \in DOMAIN wallet
        BY <1>4, <2>5, <3>1 DEF Grown
      <3> QED BY <1>1, <2>5, <3>2 DEF Removing, Grown, Same
    <2> QED BY <1>1, <2>1, <2>2, <2>3, <2>4, <2>5 DEF Removing, Alike, At
  <1>14. Ordering(s)'
    <2> SUFFICES ASSUME pc[s] = "orderWrite"
                 PROVE  /\ DOMAIN req[s].orders \subseteq 1 .. lastId'
                        /\ \A w \in DOMAIN req[s].orders \cap DOMAIN wallet' : wallet'[w].owner = seen[s].id
      BY DEF Ordering, Alike
    <2>1. DOMAIN req[s].orders \subseteq 1 .. lastId
      BY <1>1 DEF Ordering
    <2>2. ASSUME NEW w \in DOMAIN req[s].orders \cap DOMAIN wallet'
          PROVE  wallet'[w].owner = seen[s].id
      <3>1. w \in 1 .. lastId /\ w \notin Fresh(t)
        BY <1>2, <2>1 DEF Knows
      <3>2. w \in DOMAIN wallet
        BY <1>4, <3>1 DEF Grown
      <3> QED BY <1>1, <3>2 DEF Ordering, Grown, Same
    <2> QED BY <1>4, <2>1, <2>2
  <1>15. Paying(s)'
    <2>1. ASSUME pc[s] \in {"payDebit", "payRow"}, seen[s].cash \in DOMAIN wallet'
          PROVE  wallet'[seen[s].cash].owner = seen[s].id
      <3>1. seen[s].cash \in 1 .. lastId /\ seen[s].cash \notin Fresh(t)
        BY <1>1, <1>2, <2>1 DEF Paying, Knows
      <3>2. seen[s].cash \in DOMAIN wallet
        BY <1>4, <2>1, <3>1 DEF Grown
      <3> QED BY <1>1, <2>1, <3>2 DEF Paying, Grown, Same
    <2>2. pc[s] \in {"payDebit", "payRow"} => seen[s].cash \in 1 .. lastId'
      BY <1>1, <1>4 DEF Paying
    <2> QED BY <1>1, <1>4, <2>1, <2>2 DEF Paying, Alike, Busy
  <1> QED BY <1>5, <1>6, <1>7, <1>8, <1>9, <1>10, <1>11, <1>12, <1>13, <1>14, <1>15 DEF ThreadOK

(* The invariant holds after a step of t when t has done its part.         *)
LEMMA Frame ==
  ASSUME IInv, NEW t \in Session, Shapes', TablesOK', Grown(t), ThreadOK(t)',
         \A s \in Session \ {t} : Alike(s) /\ Apart(s, t)' /\ Apart(t, s)'
  PROVE  IInv'
  <1>1. ASSUME NEW s \in Session PROVE ThreadOK(s)'
    BY Undisturbed
  <1>2. ASSUME NEW a \in Session, NEW b \in Session, a # b PROVE Apart(a, b)'
    <2>1. CASE a = t \/ b = t
      BY <1>2, <2>1
    <2>2. CASE a # t /\ b # t
      <3>1. Apart(a, b) /\ Alike(a) /\ Alike(b) /\ raced \subseteq raced' /\ improper \subseteq improper'
        BY <1>2, <2>2 DEF IInv, Grown
      <3> QED BY <3>1 DEF Apart, Alike, Fresh, Knows, At, Busy
    <2> QED BY <2>1, <2>2
  <1> QED BY <1>1, <1>2 DEF IInv

(* Tables that do not change, while usernames are raced and ids given.     *)
LEMMA QuietTables ==
  ASSUME IInv, NEW t \in Session, UNCHANGED tables, lastId' \in Nat, lastId <= lastId',
         raced \subseteq raced' /\ improper \subseteq improper'
  PROVE  Grown(t) /\ TablesOK'
  <1>1. Grown(t)
    BY DEF Grown, tables, Same, Accounted
  <1>2. TablesOK'
    BY DEF IInv, TablesOK, tables, UniqueUsernames, OneWalletPerCurrency, Shapes
  <1> QED BY <1>1, <1>2

(* What t may do without coming near another thread.                       *)
LEMMA StayApart ==
  ASSUME IInv, NEW s \in Session, NEW t \in Session, s # t, Alike(s), raced \subseteq raced' /\ improper \subseteq improper',
         held[s] \cap held'[t] = {},
         \A i \in Fresh(t)' : i \in Fresh(t) \/ i > lastId,
         \A i \in Knows(t)' : i \in Knows(t) \cup DOMAIN member \cup DOMAIN wallet \cup {0} \/ i > lastId,
         Busy(s) /\ Busy(t)' /\ req[s].username = req'[t].username => req[s].username \in raced'
  PROVE  Apart(s, t)' /\ Apart(t, s)'
  <1>1. Apart(s, t) /\ Apart(t, s) /\ ThreadOK(s) /\ lastId \in Nat
    BY DEF IInv, Shapes
  <1>2. Fresh(s) \subseteq 1 .. lastId /\ Knows(s) \subseteq 0 .. lastId
    BY FreshIds, KnownIds
  <1>3. Fresh(s)' = Fresh(s) /\ Knows(s)' = Knows(s) /\ Busy(s)' = Busy(s)
    BY DEF Fresh, Knows, Alike, At, Busy
  <1>4. held'[s] \cap held'[t] = {}
    BY DEF Alike
  <1>5. Fresh(s) \cap Fresh(t)' = {}
    BY <1>1, <1>2 DEF Apart
  <1>6. Knows(s) \cap Fresh(t)' = {}
    BY <1>1, <1>2 DEF Apart
  <1>7. Knows(t)' \cap Fresh(s) = {}
    BY <1>1, <1>2 DEF Apart, ThreadOK, Unseen
  <1>8. req'[s] = req[s]
    BY DEF Alike
  <1> QED BY <1>3, <1>4, <1>5, <1>6, <1>7, <1>8 DEF Apart

(* A step that leaves the tables alone.                                    *)
LEMMA QuietStep ==
  ASSUME IInv, NEW t \in Session, Shapes', ThreadOK(t)', UNCHANGED tables,
         lastId <= lastId', raced \subseteq raced' /\ improper \subseteq improper',
         \A s \in Session \ {t} :
           /\ Alike(s)
           /\ held[s] \cap held'[t] = {}
           /\ Busy(s) /\ Busy(t)' /\ req[s].username = req'[t].username => req[s].username \in raced',
         \A i \in Fresh(t)' : i \in Fresh(t) \/ i > lastId,
         \A i \in Knows(t)' : i \in Knows(t) \cup DOMAIN member \cup DOMAIN wallet \cup {0} \/ i > lastId
  PROVE  IInv'
  <1>1. lastId' \in Nat
    BY DEF Shapes
  <1>2. Grown(t) /\ TablesOK'
    BY <1>1, QuietTables
  <1>3. ASSUME NEW s \in Session \ {t} PROVE Apart(s, t)' /\ Apart(t, s)'
    BY <1>3, StayApart
  <1> QED BY <1>2, <1>3, Frame

(* A thread without a request, or with one it has not looked at, is fine.  *)
LEMMA Clean ==
  ASSUME NEW t \in Session, lastId' \in Nat, tx'[t] = NoWork, held'[t] = {}, gap'[t] = {},
         seen'[t] = NothingSeen,
         \/ pc'[t] = "idle"
         \/ /\ RequestOK(req'[t])
            /\ pc'[t] = (IF req'[t].op = "join" THEN "join" ELSE "auth")
            /\ req'[t].op = "pay" /\ req'[t].amount < 0 => req'[t].username \in improper'
  PROVE  ThreadOK(t)' /\ Fresh(t)' = {} /\ Knows(t)' = {0}
  <1>1. Fresh(t)' = {}
    BY DEF Fresh, NoWork, NoRows
  <1>2. Knows(t)' = {0}
    BY DEF Knows, At, NothingSeen
  <1>3. Labelled(t)'
    BY DEF Labelled, LabelsOf, RequestOK, Ops
  <1>4. Typed(t)'
    BY DEF Typed, NoWork, NothingSeen
  <1>5. CleanFirst(t)'
    BY DEF CleanFirst
  <1>6. Joining(t)' /\ Writing(t)' /\ Authenticated(t)' /\ Creating(t)' /\ Ordering(t)' /\ Removing(t)'
        /\ Paying(t)'
    BY DEF Joining, Writing, Authenticated, Creating, Ordering, Removing, Paying, At, Busy
  <1>7. Unseen(t)'
    BY <1>1 DEF Unseen
  <1> QED BY <1>1, <1>2, <1>3, <1>4, <1>5, <1>6, <1>7 DEF ThreadOK

(* A request ends without any work of it being seen.                       *)
LEMMA Ends ==
  ASSUME IInv, NEW t \in Session, NEW answer, Released(t),
         pc' = [pc EXCEPT ![t] = "idle"], req' = [req EXCEPT ![t] = NoRequest],
         reply' = [reply EXCEPT ![t] = answer], UNCHANGED <<tables, lastId, raced, improper>>
  PROVE  IInv'
  <1>1. Shapes'
    BY DEF IInv, Shapes, Released
  <1>2. /\ pc'[t] = "idle" /\ tx'[t] = NoWork /\ held'[t] = {} /\ gap'[t] = {}
        /\ seen'[t] = NothingSeen /\ lastId' \in Nat
    BY DEF IInv, Shapes, Released
  <1>3. ThreadOK(t)' /\ Fresh(t)' = {} /\ Knows(t)' = {0}
    BY <1>2, Clean
  <1>4. ASSUME NEW s \in Session \ {t} PROVE Alike(s)
    BY <1>4 DEF IInv, Shapes, Released, Alike
  <1>5. lastId <= lastId'
    BY <1>1 DEF Shapes
  <1> QED BY <1>1, <1>2, <1>3, <1>4, <1>5, QuietStep DEF Busy

(* A SELECT by a thread that has not written yet.                          *)
LEMMA Reads ==
  ASSUME IInv, NEW t \in Session, NEW what, NEW l, Note(t, what), Goto(t, l), Busy(t),
         pc[t] \notin {"joinWallet", "renumber", "commit"},
         l \notin {"idle", "join", "auth", "joinWallet", "renumber", "commit", "payRow"},
         l \in LabelsOf(req[t].op),
         what = [id |-> what.id, order |-> what.order, cash |-> what.cash], what.order \in Int,
         what.id = seen[t].id \/ what.id \in DOMAIN member \/ what.id = 0,
         l = "joinMember" => held[t] = {} /\ \A m \in DOMAIN member : member[m] # req[t].username,
         req[t].op # "join" =>
           what.id # 0 /\ (what.id \in DOMAIN member => member[what.id] = req[t].username),
         l \in {"createMax", "createInsert"} =>
           \A w \in DOMAIN wallet :
             wallet[w].owner = what.id /\ wallet[w].currency = req[t].currency
               => req[t].username \in raced,
         l = "orderWrite" => DOMAIN req[t].orders \subseteq WalletsOf(wallet, what.id),
         l = "removeRow" => /\ req[t].wallet \in WalletsOf(wallet, what.id)
                            /\ wallet[req[t].wallet].balance = 0,
         l = "payDebit" => what.cash \in WalletsOf(wallet, what.id)
  PROVE  IInv'
  <1> USE DEF Note, Goto
  <1>1. Shapes /\ TablesOK /\ ThreadOK(t)
    BY DEF IInv
  <1>2. Shapes'
    BY <1>1 DEF Shapes, tables, locks
  <1>3. /\ pc'[t] = l /\ req'[t] = req[t] /\ tx'[t] = tx[t] /\ seen'[t] = what
        /\ held'[t] = held[t] /\ gap'[t] = gap[t] /\ tx[t] = NoWork
        /\ UNCHANGED <<member, wallet, lastId, raced, improper>>
    BY <1>1 DEF Shapes, tables, locks, ThreadOK, CleanFirst
  <1>4. ASSUME NEW s \in Session \ {t} PROVE Alike(s) /\ held[s] \cap held'[t] = {}
    BY <1>1, <1>3, <1>4 DEF Shapes, Alike, locks, IInv, Apart
  <1>5. Fresh(t)' = {} /\ Fresh(t) = {}
    BY <1>3 DEF Fresh, NoWork, NoRows
  <1>6. what.id \in 0 .. lastId
    BY <1>1 DEF TablesOK, ThreadOK, Typed, Shapes
  <1>7. ThreadOK(t)'
    <2>1. Labelled(t)'
      BY <1>1, <1>3 DEF ThreadOK, Labelled, Busy
    <2>2. Typed(t)'
      BY <1>1, <1>3, <1>6 DEF ThreadOK, Typed
    <2>3. CleanFirst(t)'
      BY <1>3 DEF CleanFirst
    <2>4. Joining(t)'
      BY <1>3 DEF Joining, At
    <2>5. Unseen(t)'
      BY <1>5 DEF Unseen
    <2>6. Writing(t)'
      BY <1>3 DEF Writing
    <2>7. Authenticated(t)'
      BY <1>3 DEF Authenticated
    <2>8. Creating(t)'
      BY <1>3 DEF Creating
    <2>9. Removing(t)'
      BY <1>1, <1>3 DEF Removing, NothingLeft, At, TablesOK, WalletsOf
    <2>10. Ordering(t)'
      BY <1>1, <1>3 DEF Ordering, TablesOK, WalletsOf
    <2>11. Paying(t)'
      BY <1>1, <1>3 DEF ThreadOK, Paying, Busy, TablesOK, WalletsOf
    <2> QED BY <2>1, <2>2, <2>3, <2>4, <2>5, <2>6, <2>7, <2>8, <2>9, <2>10, <2>11 DEF ThreadOK
  <1>8. \A i \in Knows(t)' : i \in Knows(t) \cup DOMAIN member \cup DOMAIN wallet \cup {0}
    BY <1>3 DEF Knows, At, WalletsOf
  <1>9. ASSUME NEW s \in Session \ {t}
        PROVE  Busy(s) /\ Busy(t)' /\ req[s].username = req'[t].username => req[s].username \in raced'
    BY <1>3, <1>9 DEF IInv, Apart
  <1>10. lastId <= lastId' /\ raced \subseteq raced' /\ improper \subseteq improper'
    BY <1>1, <1>3 DEF Shapes
  <1> QED BY <1>2, <1>3, <1>4, <1>5, <1>7, <1>8, <1>9, <1>10, QuietStep DEF tables

-----------------------------------------------------------------------------
(* Steps that read.                                                        *)

(* Any refusal, rollback or answer without work.                           *)
LEMMA Returns ==
  ASSUME IInv, NEW t \in Session, NEW answer, Return(t, answer)
  PROVE  IInv'
  BY Ends DEF Return, Answer

(* The lookup of the token's member.                                       *)
LEMMA AuthenticateOK ==
  ASSUME IInv, NEW t \in Session, Authenticate(t, req[t].op)
  PROVE  IInv'
  <1>1. CASE Refuse(t, "INTERNAL_SERVER_ERROR")
    BY <1>1, Returns DEF Refuse
  <1>2. ASSUME NEW m \in MembersOf(req[t].username), pc[t] = "auth",
               Note(t, [NothingSeen EXCEPT !.id = m]), Goto(t, req[t].op)
        PROVE  IInv'
    <2> DEFINE what == [NothingSeen EXCEPT !.id = m]
    <2>1. Labelled(t) /\ m \in DOMAIN member /\ member[m] = req[t].username /\ m # 0
      BY <1>2 DEF IInv, ThreadOK, MembersOf, TablesOK
    <2>2. req[t].op \in {"update", "leave", "create", "order", "remove", "move", "pay"}
      BY <1>2, <2>1 DEF Labelled, RequestOK, Ops, LabelsOf
    <2>3. req[t].op \in LabelsOf(req[t].op)
      BY <2>2 DEF LabelsOf
    <2>4. what = [id |-> m, order |-> 0, cash |-> 0]
      BY DEF NothingSeen
    <2> HIDE DEF what
    <2> QED BY <1>2, <2>1, <2>2, <2>3, <2>4, Reads DEF Busy, what
  <1> QED BY <1>1, <1>2 DEF Authenticate

(* The lookup of the username before a join.                               *)
LEMMA JoinCheckOK ==
  ASSUME IInv, NEW t \in Session, JoinCheck(t)
  PROVE  IInv'
  <1>1. CASE Refuse(t, "DUPLICATED_USERNAME") \/ Refuse(t, "INTERNAL_SERVER_ERROR")
    BY <1>1, Returns DEF Refuse
  <1>2. CASE pc[t] = "join" /\ MembersOf(req[t].username) = {} /\ Note(t, NothingSeen) /\ Goto(t, "joinMember")
    <2>1. Labelled(t) /\ CleanFirst(t)
      BY DEF IInv, ThreadOK
    <2>2. req[t].op = "join" /\ held[t] = {}
      BY <1>2, <2>1 DEF Labelled, RequestOK, Ops, LabelsOf, CleanFirst
    <2>3. \A m \in DOMAIN member : member[m] # req[t].username
      BY <1>2 DEF MembersOf
    <2>4. NothingSeen = [id |-> NothingSeen.id, order |-> NothingSeen.order, cash |-> NothingSeen.cash]
          /\ NothingSeen.id = 0 /\ NothingSeen.order \in Int
      BY DEF NothingSeen
    <2> QED BY <1>2, <2>2, <2>3, <2>4, Reads DEF Busy, LabelsOf
  <1> QED BY <1>1, <1>2 DEF JoinCheck

(* A thread that goes on with what it knew.                                *)
LEMMA ReadsMore ==
  ASSUME IInv, NEW t \in Session, NEW l, Note(t, seen[t]), Goto(t, l), pc[t] # "auth",
         Busy(t), pc[t] \notin {"joinWallet", "renumber", "commit"},
         l \in {"updateRow", "leaveRow", "createMax", "orderWrite", "removeRow", "moveWrite", "payCash"},
         l \in LabelsOf(req[t].op), req[t].op # "join",
         l = "createMax" =>
           \A w \in DOMAIN wallet : ~(wallet[w].owner = seen[t].id /\ wallet[w].currency = req[t].currency),
         l = "orderWrite" => DOMAIN req[t].orders \subseteq WalletsOf(wallet, seen[t].id),
         l = "removeRow" => /\ req[t].wallet \in WalletsOf(wallet, seen[t].id)
                            /\ wallet[req[t].wallet].balance = 0
  PROVE  IInv'
  <1>1. Typed(t) /\ Authenticated(t)
    BY DEF IInv, ThreadOK
  <1>2. seen[t] = [id |-> seen[t].id, order |-> seen[t].order, cash |-> seen[t].cash] /\ seen[t].order \in Int
    BY <1>1 DEF Typed
  <1>3. seen[t].id # 0 /\ (seen[t].id \in DOMAIN member => member[seen[t].id] = req[t].username)
    BY <1>1 DEF Authenticated, Busy
  <1> QED BY <1>2, <1>3, Reads

(* validateMember of update and delete.                                    *)
LEMMA ValidateOK ==
  ASSUME IInv, NEW t \in Session, NEW from, NEW to, Validate(t, from, to),
         <<from, to>> \in {<<"update", "updateRow">>, <<"leave", "leaveRow">>}
  PROVE  IInv'
  <1>1. CASE Refuse(t, "USER_NOT_FOUND") \/ Refuse(t, "INTERNAL_SERVER_ERROR")
    BY <1>1, Returns DEF Refuse
  <1>2. CASE pc[t] = from /\ Note(t, seen[t]) /\ Goto(t, to)
    <2>1. Labelled(t)
      BY DEF IInv, ThreadOK
    <2>2. req[t].op \in {"update", "leave"} /\ to \in LabelsOf(req[t].op)
      BY <1>2, <2>1 DEF Labelled, RequestOK, Ops, LabelsOf
    <2> QED BY <1>2, <2>2, ReadsMore DEF Busy
  <1> QED BY <1>1, <1>2 DEF Validate

(* The lookup of a wallet of the currency.                                 *)
LEMMA CreateFindOK ==
  ASSUME IInv, NEW t \in Session, CreateFind(t)
  PROVE  IInv'
  <1> DEFINE same == { w \in WalletsOf(wallet, seen[t].id) :
                         wallet[w].currency = req[t].currency /\ req[t].currency # NoCurrency }
  <1>1. CASE Refuse(t, "DUPLICATED_LOCAL_CURRENCY_WALLET") \/ Refuse(t, "INTERNAL_SERVER_ERROR")
    BY <1>1, Returns DEF Refuse
  <1>2. CASE pc[t] = "create" /\ same = {} /\ Note(t, seen[t]) /\ Goto(t, "createMax")
    <2>1. Labelled(t)
      BY DEF IInv, ThreadOK
    <2>2. req[t].op = "create" /\ "createMax" \in LabelsOf(req[t].op) /\ req[t].currency \in Currency
      BY <1>2, <2>1 DEF Labelled, RequestOK, Ops, LabelsOf
    <2>3. \A w \in DOMAIN wallet : ~(wallet[w].owner = seen[t].id /\ wallet[w].currency = req[t].currency)
      BY <1>2, <2>2, AccountsAssumption DEF WalletsOf
    <2> QED BY <1>2, <2>2, <2>3, ReadsMore DEF Busy
  <1> QED BY <1>1, <1>2 DEF CreateFind

(* The display order of the new wallet is computed.                        *)
LEMMA CreateMaxOK ==
  ASSUME IInv, NEW t \in Session, CreateMax(t), HighestOrder(wallet, seen[t].id) \in Int
  PROVE  IInv'
  <1> DEFINE what == [seen[t] EXCEPT !.order = NewOrder(t)]
  <1>1. Labelled(t) /\ Typed(t) /\ Authenticated(t) /\ Creating(t)
    BY DEF IInv, ThreadOK
  <1>2. pc[t] = "createMax" /\ Note(t, what) /\ Goto(t, "createInsert")
    BY DEF CreateMax
  <1>3. req[t].op = "create" /\ "createInsert" \in LabelsOf(req[t].op)
    BY <1>1, <1>2 DEF Labelled, RequestOK, Ops, LabelsOf
  <1>4. NewOrder(t) \in Int
    BY DEF NewOrder
  <1>5. what = [id |-> what.id, order |-> what.order, cash |-> what.cash] /\ what.id = seen[t].id /\ what.order \in Int
    BY <1>1, <1>4 DEF Typed
  <1>6. what.id # 0 /\ (what.id \in DOMAIN member => member[what.id] = req[t].username)
    BY <1>1, <1>2, <1>3, <1>5 DEF Authenticated
  <1>7. \A w \in DOMAIN wallet :
          wallet[w].owner = what.id /\ wallet[w].currency = req[t].currency => req[t].username \in raced
    BY <1>1, <1>2, <1>5 DEF Creating
  <1> HIDE DEF what
  <1> QED BY <1>2, <1>3, <1>5, <1>6, <1>7, Reads DEF Busy

(* The check of the listed wallets.                                        *)
LEMMA OrderCheckOK ==
  ASSUME IInv, NEW t \in Session, OrderCheck(t)
  PROVE  IInv'
  <1>1. CASE Refuse(t, "UNAUTHORIZED_WALLET_ACCESS") \/ Refuse(t, "INTERNAL_SERVER_ERROR")
    BY <1>1, Returns DEF Refuse
  <1>2. CASE /\ pc[t] = "order" /\ Note(t, seen[t]) /\ Goto(t, "orderWrite")
             /\ DOMAIN req[t].orders \subseteq LocalWallets(seen[t].id)
    <2>1. Labelled(t)
      BY DEF IInv, ThreadOK
    <2>2. req[t].op = "order" /\ "orderWrite" \in LabelsOf(req[t].op)
      BY <1>2, <2>1 DEF Labelled, RequestOK, Ops, LabelsOf
    <2>3. DOMAIN req[t].orders \subseteq WalletsOf(wallet, seen[t].id)
      BY <1>2 DEF LocalWallets
    <2> QED BY <1>2, <2>2, <2>3, ReadsMore DEF Busy
  <1> QED BY <1>1, <1>2 DEF OrderCheck

(* The balance check of a deletion.                                        *)
LEMMA RemoveCheckOK ==
  ASSUME IInv, NEW t \in Session, RemoveCheck(t)
  PROVE  IInv'
  <1>1. ASSUME NEW verdict, Refuse(t, verdict) PROVE IInv'
    BY <1>1, Returns DEF Refuse
  <1>2. CASE /\ pc[t] = "remove" /\ Note(t, seen[t]) /\ Goto(t, "removeRow")
             /\ req[t].wallet \in WalletsOf(wallet, seen[t].id) /\ wallet[req[t].wallet].balance = 0
    <2>1. Labelled(t)
      BY DEF IInv, ThreadOK
    <2>2. req[t].op = "remove" /\ "removeRow" \in LabelsOf(req[t].op)
      BY <1>2, <2>1 DEF Labelled, RequestOK, Ops, LabelsOf
    <2> QED BY <1>2, <2>2, ReadsMore DEF Busy
  <1> QED BY <1>1, <1>2 DEF RemoveCheck, WalletsOf

(* The balance check of a transfer or a payment.                           *)
LEMMA MoveCheckOK ==
  ASSUME IInv, NEW t \in Session, MoveCheck(t)
  PROVE  IInv'
  <1>1. CASE Refuse(t, "UNAUTHORIZED_WALLET_ACCESS") \/ Refuse(t, "WALLET_BALANCE_NOT_ENOUGH")
    BY <1>1, Returns DEF Refuse
  <1>2. CASE pc[t] = "move" /\ Note(t, seen[t]) /\ Goto(t, "moveWrite")
    <2>1. Labelled(t)
      BY DEF IInv, ThreadOK
    <2>2. req[t].op = "move" /\ "moveWrite" \in LabelsOf(req[t].op)
      BY <1>2, <2>1 DEF Labelled, RequestOK, Ops, LabelsOf
    <2> QED BY <1>2, <2>2, ReadsMore DEF Busy
  <1> QED BY <1>1, <1>2 DEF MoveCheck

(* The checks of a GENERAL payment's context.                              *)
LEMMA PayContextOK ==
  ASSUME IInv, NEW t \in Session, PayContext(t)
  PROVE  IInv'
  <1>1. ASSUME NEW verdict, Refuse(t, verdict) PROVE IInv'
    BY <1>1, Returns DEF Refuse
  <1>2. CASE pc[t] = "pay" /\ Note(t, seen[t]) /\ Goto(t, "payCash")
    <2>1. Labelled(t)
      BY DEF IInv, ThreadOK
    <2>2. req[t].op = "pay" /\ "payCash" \in LabelsOf(req[t].op)
      BY <1>2, <2>1 DEF Labelled, RequestOK, Ops, LabelsOf
    <2> QED BY <1>2, <2>2, ReadsMore DEF Busy
  <1> QED BY <1>1, <1>2 DEF PayContext

(* The CASH wallet that a GENERAL payment finds is the member's.           *)
LEMMA PayCashOK ==
  ASSUME IInv, NEW t \in Session, PayCash(t)
  PROVE  IInv'
  <1> DEFINE found == { w \in WalletsOf(wallet, seen[t].id) : wallet[w].cash }
  <1>1. ASSUME NEW verdict, Refuse(t, verdict) PROVE IInv'
    BY <1>1, Returns DEF Refuse
  <1>2. ASSUME NEW w \in found, pc[t] = "payCash", Note(t, [seen[t] EXCEPT !.cash = w]), Goto(t, "payDebit")
        PROVE  IInv'
    <2> DEFINE what == [seen[t] EXCEPT !.cash = w]
    <2>1. Labelled(t) /\ Typed(t) /\ Authenticated(t)
      BY DEF IInv, ThreadOK
    <2>2. req[t].op = "pay" /\ "payDebit" \in LabelsOf(req[t].op)
      BY <1>2, <2>1 DEF Labelled, RequestOK, Ops, LabelsOf
    <2>3. /\ what = [id |-> what.id, order |-> what.order, cash |-> what.cash]
          /\ what.id = seen[t].id /\ what.order \in Int /\ what.cash = w
      BY <2>1 DEF Typed
    <2>4. what.id # 0 /\ (what.id \in DOMAIN member => member[what.id] = req[t].username)
      BY <1>2, <2>1, <2>2, <2>3 DEF Authenticated
    <2>5. what.cash \in WalletsOf(wallet, what.id)
      BY <2>3
    <2>6. Note(t, what)
      BY <1>2
    <2> HIDE DEF what
    <2> QED BY <1>2, <2>2, <2>3, <2>4, <2>5, <2>6, Reads DEF Busy
  <1> QED BY <1>1, <1>2 DEF PayCash

-----------------------------------------------------------------------------
(* Steps that write.                                                       *)

(* A thread that was not outside a request keeps its rivals' usernames raced. *)
LEMMA StillRaced ==
  ASSUME IInv, NEW t \in Session, NEW s \in Session \ {t}, Busy(t), req'[t] = req[t], raced' = raced /\ improper' = improper
  PROVE  Busy(s) /\ Busy(t)' /\ req[s].username = req'[t].username => req[s].username \in raced'
  BY DEF IInv, Apart

(* The row of the new member is written.                                   *)
LEMMA JoinMemberOK ==
  ASSUME IInv, NEW t \in Session, JoinMember(t)
  PROVE  IInv'
  <1>1. Shapes /\ TablesOK /\ ThreadOK(t)
    BY DEF IInv
  <1>2. pc[t] = "joinMember" /\ req[t].op = "join" /\ tx[t] = NoWork
    BY <1>1 DEF JoinMember, ThreadOK, Labelled, RequestOK, Ops, LabelsOf, CleanFirst
  <1>3. held[t] = {}
    BY <1>1, <1>2 DEF ThreadOK, CleanFirst
  <1>4. /\ pc'[t] = "joinWallet" /\ req'[t] = req[t] /\ held'[t] = {} /\ gap'[t] = gap[t]
        /\ UNCHANGED <<member, wallet, raced, improper>> /\ lastId' = lastId + 1 /\ lastId \in Nat
    BY <1>1, <1>3 DEF JoinMember, Goto, Shapes, tables, locks
  <1>5. tx'[t] = [NoWork EXCEPT !.member = [i \in {lastId + 1} |-> req[t].username]]
    BY <1>1, <1>2 DEF JoinMember, Shapes
  <1>6. /\ tx'[t] = [member |-> tx'[t].member, wallet |-> tx'[t].wallet, gone |-> tx'[t].gone]
        /\ tx'[t].member = [i \in {lastId + 1} |-> req[t].username]
        /\ tx'[t].wallet = NoRows /\ tx'[t].gone = {}
    BY <1>5 DEF NoWork
  <1>7. seen'[t] = [id |-> lastId + 1, order |-> seen[t].order, cash |-> seen[t].cash] /\ seen[t].order \in Int
    BY <1>1 DEF JoinMember, Shapes, ThreadOK, Typed
  <1>8. Shapes'
    <2>1. tx' = [s \in Session |-> tx'[s]]
      BY <1>1 DEF JoinMember, Shapes
    <2>2. seen' = [s \in Session |-> seen'[s]] /\ pc' = [s \in Session |-> pc'[s]]
      BY <1>1 DEF JoinMember, Goto, Shapes
    <2> QED BY <1>1, <1>4, <2>1, <2>2 DEF JoinMember, Goto, Shapes, locks
  <1>9. ASSUME NEW s \in Session \ {t} PROVE Alike(s) /\ held[s] \cap held'[t] = {}
    BY <1>1, <1>4, <1>9 DEF JoinMember, Goto, Shapes, Alike, locks
  <1>10. Fresh(t)' = {lastId + 1} /\ Knows(t)' = {lastId + 1}
    BY <1>4, <1>6, <1>7 DEF Fresh, Knows, NoRows, At
  <1>11. ThreadOK(t)'
    <2>1. Labelled(t)'
      BY <1>1, <1>2, <1>4 DEF ThreadOK, Labelled, LabelsOf
    <2>2. Typed(t)'
      BY <1>1, <1>4, <1>6, <1>7 DEF ThreadOK, Typed
    <2>3. CleanFirst(t)'
      BY <1>4 DEF CleanFirst
    <2>4. Joining(t)'
      BY <1>1, <1>2, <1>4, <1>6, <1>7 DEF ThreadOK, Joining, At
    <2>5. Unseen(t)'
      BY <1>1, <1>4, <1>10 DEF Unseen, TablesOK
    <2>6. Writing(t)' /\ Authenticated(t)' /\ Creating(t)' /\ Ordering(t)' /\ Removing(t)' /\ Paying(t)'
      BY <1>2, <1>4 DEF Writing, Authenticated, Creating, Ordering, Removing, Paying, At
    <2> QED BY <2>1, <2>2, <2>3, <2>4, <2>5, <2>6 DEF ThreadOK
  <1>12. UNCHANGED tables /\ lastId <= lastId' /\ raced \subseteq raced' /\ improper \subseteq improper'
    BY <1>4 DEF tables
  <1>13. \A i \in {lastId + 1} : i > lastId
    BY <1>4
  <1>14. Busy(t) /\ raced' = raced /\ improper' = improper
    BY <1>2, <1>4 DEF Busy
  <1> QED BY <1>4, <1>8, <1>9, <1>10, <1>11, <1>12, <1>13, <1>14, StillRaced, QuietStep

(* The row of the CASH wallet is written.                                  *)
LEMMA JoinWalletOK ==
  ASSUME IInv, NEW t \in Session, JoinWallet(t)
  PROVE  IInv'
  <1>1. Shapes /\ TablesOK /\ ThreadOK(t)
    BY DEF IInv
  <1>2. pc[t] = "joinWallet" /\ req[t].op = "join"
    BY <1>1 DEF JoinWallet, ThreadOK, Labelled, RequestOK, Ops, LabelsOf
  <1>3. /\ held[t] = {} /\ seen[t].id \in 1 .. lastId
        /\ tx[t].member = [i \in {seen[t].id} |-> req[t].username] /\ tx[t].gone = {}
        /\ tx[t].wallet = NoRows
    BY <1>1, <1>2 DEF ThreadOK, Joining, Typed
  <1>4. /\ pc'[t] = "commit" /\ req'[t] = req[t] /\ held'[t] = {} /\ gap'[t] = gap[t]
        /\ seen'[t] = seen[t]
        /\ UNCHANGED <<member, wallet, raced, improper>> /\ lastId' = lastId + 1 /\ lastId \in Nat
    BY <1>1, <1>3 DEF JoinWallet, Goto, Shapes, tables, locks
  <1>5. tx'[t] = [tx[t] EXCEPT !.wallet = [i \in {lastId + 1} |-> CashRow(seen[t].id)]]
    BY <1>1 DEF JoinWallet, Shapes, CashRow
  <1>6. /\ tx'[t] = [member |-> tx'[t].member, wallet |-> tx'[t].wallet, gone |-> tx'[t].gone]
        /\ tx'[t].member = tx[t].member
        /\ tx'[t].wallet = [i \in {lastId + 1} |-> CashRow(seen[t].id)] /\ tx'[t].gone = {}
    BY <1>1, <1>3, <1>5 DEF ThreadOK, Typed
  <1>8. Shapes'
    <2>1. tx' = [s \in Session |-> tx'[s]]
      BY <1>1 DEF JoinWallet, Shapes
    <2>2. seen' = [s \in Session |-> seen'[s]] /\ pc' = [s \in Session |-> pc'[s]]
      BY <1>1 DEF JoinWallet, Goto, Shapes
    <2> QED BY <1>1, <1>4, <2>1, <2>2 DEF JoinWallet, Goto, Shapes, locks
  <1>9. ASSUME NEW s \in Session \ {t} PROVE Alike(s) /\ held[s] \cap held'[t] = {}
    BY <1>1, <1>4, <1>9 DEF JoinWallet, Goto, Shapes, Alike, locks
  <1>10. Fresh(t)' = Fresh(t) \cup {lastId + 1} /\ Knows(t)' = Knows(t)
    BY <1>2, <1>3, <1>4, <1>6 DEF Fresh, Knows, NoRows, At
  <1>11. ThreadOK(t)'
    <2>1. Labelled(t)'
      BY <1>1, <1>2, <1>4 DEF ThreadOK, Labelled, LabelsOf
    <2>2. Typed(t)'
      BY <1>1, <1>4, <1>6 DEF ThreadOK, Typed
    <2>3. CleanFirst(t)'
      BY <1>4 DEF CleanFirst
    <2>4. Joining(t)'
      <3>1. lastId' \in 1 .. lastId' /\ lastId' # seen[t].id
        BY <1>3, <1>4
      <3>2. \A m \in DOMAIN member : member[m] = req[t].username => req[t].username \in raced
        BY <1>1, <1>2 DEF ThreadOK, Joining
      <3> QED BY <1>3, <1>4, <1>6, <3>1, <3>2 DEF Joining, At
    <2>5. Unseen(t)'
      <3>1. Unseen(t) /\ lastId + 1 \notin DOMAIN member /\ lastId + 1 \notin DOMAIN wallet
        BY <1>1, <1>4 DEF TablesOK, ThreadOK
      <3> QED BY <1>4, <1>10, <3>1 DEF Unseen
    <2>6. Writing(t)' /\ Authenticated(t)' /\ Creating(t)' /\ Ordering(t)' /\ Removing(t)' /\ Paying(t)'
      BY <1>2, <1>4 DEF Writing, Authenticated, Creating, Ordering, Removing, Paying, At
    <2> QED BY <2>1, <2>2, <2>3, <2>4, <2>5, <2>6 DEF ThreadOK
  <1>12. UNCHANGED tables /\ lastId <= lastId' /\ raced \subseteq raced' /\ improper \subseteq improper'
    BY <1>4 DEF tables
  <1>13. \A i \in Fresh(t)' : i \in Fresh(t) \/ i > lastId
    BY <1>4, <1>10
  <1>14. Busy(t) /\ raced' = raced /\ improper' = improper
    BY <1>2, <1>4 DEF Busy
  <1> QED BY <1>4, <1>8, <1>9, <1>10, <1>11, <1>12, <1>13, <1>14, StillRaced, QuietStep

(* A statement on rows that t has, or takes, the locks of.                 *)
LEMMA Writes ==
  ASSUME IInv, NEW t \in Session, NEW rows, NEW work, Busy(t),
         held' = [held EXCEPT ![t] = @ \cup rows], tx' = [tx EXCEPT ![t] = work],
         Shapes', UNCHANGED <<tables, lastId, seen, req, raced, improper>>,
         \A s \in Session \ {t} : pc'[s] = pc[s] /\ gap'[s] = gap[s],
         \A w \in rows : Free(t, w),
         ThreadOK(t)', Fresh(t)' = {}, Knows(t)' \subseteq Knows(t)
  PROVE  IInv'
  <1>1. Shapes /\ lastId \in Nat
    BY DEF IInv, Shapes
  <1>2. ASSUME NEW s \in Session \ {t} PROVE Alike(s) /\ held[s] \cap held'[t] = {}
    <2>1. held[s] \cap held[t] = {}
      BY <1>2 DEF IInv, Apart
    <2>2. held[s] \cap rows = {}
      BY <1>2 DEF Free
    <2> QED BY <1>1, <1>2, <2>1, <2>2 DEF Alike, Shapes
  <1>3. ASSUME NEW s \in Session \ {t}
        PROVE  Busy(s) /\ Busy(t)' /\ req[s].username = req'[t].username => req[s].username \in raced'
    BY <1>3, StillRaced
  <1>4. lastId <= lastId' /\ raced \subseteq raced' /\ improper \subseteq improper' /\ UNCHANGED tables
    BY <1>1
  <1> QED BY <1>2, <1>3, <1>4, QuietStep

(* One of the rows that a statement needs is locked.                       *)
LEMMA LockRowOK ==
  ASSUME IInv, NEW t \in Session, LockRow(t)
  PROVE  IInv'
  <1>1. Shapes /\ TablesOK /\ ThreadOK(t)
    BY DEF IInv
  <1>2. PICK w \in Needs(t) \ held[t] :
          Free(t, w) /\ Work(t, {w}, tx[t]) /\ UNCHANGED <<pc, req, reply, served, faults, raced, improper>>
    BY DEF LockRow
  <1>3. w \in DOMAIN wallet /\ pc[t] \in {"orderWrite", "removeRow", "moveWrite", "renumber", "payDebit", "payRow"}
    BY <1>2 DEF Needs, WalletsOf
  <1>4. /\ pc'[t] = pc[t] /\ req'[t] = req[t] /\ tx'[t] = tx[t] /\ seen'[t] = seen[t]
        /\ held'[t] = held[t] \cup {w} /\ gap'[t] = gap[t]
        /\ UNCHANGED <<member, wallet, lastId, raced, improper>>
    BY <1>1, <1>2 DEF Work, Shapes, tables
  <1>5. Shapes'
    BY <1>1, <1>2 DEF Work, Shapes
  <1>6. \A v \in DOMAIN tx[t].wallet : v \in held[t]
    BY <1>1, <1>3 DEF ThreadOK, Writing, CleanFirst, NoWork, NoRows
  <1>7. DOMAIN tx[t].member = {}
    BY <1>1, <1>3 DEF ThreadOK, Writing, CleanFirst, NoWork, NoRows
  <1>8. Fresh(t)' = {}
    BY <1>4, <1>6, <1>7 DEF Fresh
  <1>9. Knows(t)' = Knows(t)
    BY <1>4 DEF Knows, At
  <1>10. ThreadOK(t)'
    <2>1. Labelled(t)'
      BY <1>1, <1>4 DEF ThreadOK, Labelled
    <2>2. Typed(t)'
      BY <1>1, <1>3, <1>4 DEF ThreadOK, Typed
    <2>3. CleanFirst(t)'
      BY <1>1, <1>3, <1>4 DEF ThreadOK, CleanFirst
    <2>4. Joining(t)'
      BY <1>3, <1>4 DEF Joining, At
    <2>5. Unseen(t)'
      BY <1>8 DEF Unseen
    <2>6. Writing(t)'
      BY <1>1, <1>4 DEF ThreadOK, Writing
    <2>7. Authenticated(t)'
      BY <1>1, <1>4 DEF ThreadOK, Authenticated
    <2>8. Creating(t)'
      BY <1>3, <1>4 DEF Creating
    <2>9. Removing(t)'
      BY <1>1, <1>3, <1>4 DEF ThreadOK, Removing, NothingLeft, At
    <2>10. Ordering(t)'
      BY <1>1, <1>4 DEF ThreadOK, Ordering
    <2>11. Paying(t)'
      BY <1>1, <1>4 DEF ThreadOK, Paying, Busy
    <2> QED BY <2>1, <2>2, <2>3, <2>4, <2>5, <2>6, <2>7, <2>8, <2>9, <2>10, <2>11 DEF ThreadOK
  <1>11. Busy(t) /\ \A v \in {w} : Free(t, v)
    BY <1>2, <1>3 DEF Busy
  <1>12. /\ held' = [held EXCEPT ![t] = @ \cup {w}] /\ tx' = [tx EXCEPT ![t] = tx[t]]
         /\ UNCHANGED <<tables, lastId, seen, req, raced, improper>>
    BY <1>2 DEF Work
  <1>13. \A s \in Session \ {t} : pc'[s] = pc[s] /\ gap'[s] = gap[s]
    BY <1>2 DEF Work
  <1>14. Knows(t)' \subseteq Knows(t)
    BY <1>9
  <1> QED BY <1>5, <1>8, <1>10, <1>11, <1>12, <1>13, <1>14, Writes

(* What a row becomes when only its place changes.                         *)
LEMMA Replaced ==
  ASSUME NEW f, NEW orders, NEW w \in DOMAIN f, f[w] \in WalletRow,
         w \in DOMAIN orders => orders[w] \in Int
  PROVE  LET new == Reordered(f, orders)[w]
         IN  /\ new \in WalletRow /\ Same(new, f[w]) /\ Accounted(new, f[w])
             /\ w \in DOMAIN orders => new.order = orders[w]
             /\ w \notin DOMAIN orders => new.order = f[w].order
  BY DEF Reordered, WalletRow, Same, Accounted

(* The listed wallets take their new places.                               *)
LEMMA OrderWriteOK ==
  ASSUME IInv, NEW t \in Session, OrderWrite(t)
  PROVE  IInv'
  <1>1. Shapes /\ TablesOK /\ ThreadOK(t)
    BY DEF IInv
  <1>2. pc[t] = "orderWrite" /\ LastLock(t) /\ Goto(t, "commit")
    BY DEF OrderWrite
  <1>3. req[t].op = "order" /\ (\A w \in DOMAIN req[t].orders : req[t].orders[w] \in Int)
    BY <1>1, <1>2 DEF ThreadOK, Labelled, RequestOK, Ops, LabelsOf
  <1>4. tx[t] = NoWork /\ Needs(t) \subseteq DOMAIN wallet
    BY <1>1, <1>2 DEF ThreadOK, CleanFirst, Needs
  <1> DEFINE new == Reordered(Restrict(wallet, Needs(t)), req[t].orders)
             work == [tx[t] EXCEPT !.wallet = new]
  <1>5. Work(t, Needs(t), work)
    BY DEF OrderWrite
  <1>6. DOMAIN new = Needs(t)
    BY DEF Reordered, Restrict
  <1>7. work.member = NoRows /\ work.wallet = new /\ work.gone = {}
        /\ work = [member |-> work.member, wallet |-> work.wallet, gone |-> work.gone]
    BY <1>4 DEF NoWork
  <1>8. ASSUME NEW w \in Needs(t)
        PROVE  /\ new[w] \in WalletRow /\ Same(new[w], wallet[w]) /\ Accounted(new[w], wallet[w])
               /\ wallet[w].owner = seen[t].id
    <2> DEFINE f == Restrict(wallet, Needs(t))
    <2>1. w \in DOMAIN f /\ f[w] = wallet[w] /\ wallet[w] \in WalletRow
      BY <1>1, <1>4, <1>8 DEF Restrict, TablesOK
    <2> HIDE DEF f
    <2>2. LET n == Reordered(f, req[t].orders)[w] IN n \in WalletRow /\ Same(n, f[w]) /\ Accounted(n, f[w])
      BY <1>3, <2>1, Replaced
    <2>3. wallet[w].owner = seen[t].id
      BY <1>1, <1>2, <1>8 DEF ThreadOK, Ordering, Needs
    <2> QED BY <2>1, <2>2, <2>3 DEF f
  <1> HIDE DEF new
  <1>9. /\ pc'[t] = "commit" /\ req'[t] = req[t] /\ tx'[t] = work /\ seen'[t] = seen[t]
        /\ held'[t] = held[t] \cup Needs(t) /\ gap'[t] = gap[t]
        /\ UNCHANGED <<member, wallet, lastId, raced, improper>>
    BY <1>1, <1>2, <1>5 DEF Work, Goto, Shapes, tables
  <1> HIDE DEF work
  <1>10. Shapes'
    BY <1>1, <1>2, <1>5 DEF Work, Goto, Shapes
  <1>11. Fresh(t)' = {}
    BY <1>6, <1>7, <1>9 DEF Fresh, NoRows
  <1>12. Knows(t)' \subseteq Knows(t)
    BY <1>3, <1>9 DEF Knows, At
  <1>13. ThreadOK(t)'
    <2>1. Labelled(t)'
      BY <1>1, <1>2, <1>3, <1>9 DEF ThreadOK, Labelled, LabelsOf
    <2>2. Typed(t)'
      BY <1>1, <1>4, <1>7, <1>9 DEF ThreadOK, Typed
    <2>3. CleanFirst(t)'
      BY <1>9 DEF CleanFirst
    <2>4. Joining(t)'
      BY <1>3, <1>9 DEF Joining, At
    <2>5. Unseen(t)'
      BY <1>11 DEF Unseen
    <2>6. Writing(t)'
      BY <1>3, <1>6, <1>7, <1>8, <1>9 DEF Writing
    <2>7. Authenticated(t)'
      BY <1>1, <1>2, <1>9 DEF ThreadOK, Authenticated
    <2>8. Creating(t)'
      BY <1>9 DEF Creating
    <2>9. Removing(t)'
      BY <1>3, <1>9 DEF Removing, At
    <2>10. Ordering(t)' /\ Paying(t)'
      BY <1>3, <1>9 DEF Ordering, Paying
    <2> QED BY <2>1, <2>2, <2>3, <2>4, <2>5, <2>6, <2>7, <2>8, <2>9, <2>10 DEF ThreadOK
  <1>14. Busy(t) /\ \A v \in Needs(t) : Free(t, v)
    BY <1>2 DEF Busy, LastLock, Granted
  <1>15. /\ held' = [held EXCEPT ![t] = @ \cup Needs(t)] /\ tx' = [tx EXCEPT ![t] = work]
         /\ UNCHANGED <<tables, lastId, seen, req, raced, improper, gap>>
         /\ \A s \in Session \ {t} : pc'[s] = pc[s]
    BY <1>1, <1>2, <1>5 DEF Work, Goto, Shapes
  <1> QED BY <1>10, <1>11, <1>12, <1>13, <1>14, <1>15, Writes

(* What a row becomes when money moves.                                    *)
LEMMA Moved ==
  ASSUME NEW old \in WalletRow, NEW amount \in Int
  PROVE  LET new == [old EXCEPT !.balance = @ + amount, !.used = TRUE]
         IN  new \in WalletRow /\ Same(new, old) /\ new.used /\ new.order = old.order
  <1> DEFINE new == [old EXCEPT !.balance = @ + amount, !.used = TRUE]
  <1>1. old.balance + amount \in Int
    BY DEF WalletRow
  <1>2. new \in WalletRow
    BY <1>1 DEF WalletRow
  <1>3. new.owner = old.owner /\ new.currency = old.currency /\ new.cash = old.cash
    BY DEF WalletRow
  <1>4. new.used = TRUE /\ new.order = old.order
    BY DEF WalletRow
  <1> HIDE DEF new
  <1>5. new \in WalletRow /\ Same(new, old) /\ new.used /\ new.order = old.order
    BY <1>2, <1>3, <1>4 DEF Same
  <1> QED BY <1>5 DEF new

(* The balance changes, with a row that refers to the wallet.              *)
LEMMA MoveWriteOK ==
  ASSUME IInv, NEW t \in Session, MoveWrite(t)
  PROVE  IInv'
  <1> DEFINE w == req[t].wallet
             row == [wallet[w] EXCEPT !.balance = @ + req[t].amount, !.used = TRUE]
             work == [tx[t] EXCEPT !.wallet = [i \in {w} |-> row]]
  <1>0. CASE Refuse(t, "INTERNAL_SERVER_ERROR")
    BY <1>0, Returns DEF Refuse
  <1>1. CASE pc[t] = "moveWrite" /\ Granted(t) /\ w \in DOMAIN wallet /\ Work(t, {w}, work) /\ Goto(t, "commit")
    <2>1. Shapes /\ TablesOK /\ ThreadOK(t)
      BY DEF IInv
    <2>2. req[t].op = "move" /\ req[t].amount \in Int
      BY <1>1, <2>1 DEF ThreadOK, Labelled, RequestOK, Ops, LabelsOf
    <2>3. tx[t] = NoWork /\ Needs(t) = {w}
      BY <1>1, <2>1 DEF ThreadOK, CleanFirst, Needs
    <2>4. row \in WalletRow /\ Same(row, wallet[w]) /\ row.used /\ row.order = wallet[w].order
      <3>1. wallet[w] \in WalletRow
        BY <1>1, <2>1 DEF TablesOK
      <3> QED BY <2>2, <3>1, Moved
    <2> HIDE DEF row
    <2>5. work.member = NoRows /\ work.wallet = [i \in {w} |-> row] /\ work.gone = {}
          /\ work = [member |-> work.member, wallet |-> work.wallet, gone |-> work.gone]
      BY <2>3 DEF NoWork
    <2>6. /\ pc'[t] = "commit" /\ req'[t] = req[t] /\ tx'[t] = work /\ seen'[t] = seen[t]
          /\ held'[t] = held[t] \cup {w} /\ gap'[t] = gap[t]
          /\ UNCHANGED <<member, wallet, lastId, raced, improper>>
      BY <1>1, <2>1 DEF Work, Goto, Shapes, tables
    <2>7. Shapes'
      BY <1>1, <2>1 DEF Work, Goto, Shapes
    <2>8. /\ held' = [held EXCEPT ![t] = @ \cup {w}] /\ tx' = [tx EXCEPT ![t] = work]
          /\ UNCHANGED <<tables, lastId, seen, req, raced, improper, gap>>
          /\ \A s \in Session \ {t} : pc'[s] = pc[s]
      BY <1>1, <2>1 DEF Work, Goto, Shapes
    <2> HIDE DEF work
    <2>9. Fresh(t)' = {} /\ Knows(t)' \subseteq Knows(t)
      BY <2>2, <2>5, <2>6 DEF Fresh, NoRows, Knows, At
    <2>10. ThreadOK(t)'
      <3>1. Labelled(t)'
        BY <1>1, <2>1, <2>2, <2>6 DEF ThreadOK, Labelled, LabelsOf
      <3>2. Typed(t)'
        BY <1>1, <2>1, <2>5, <2>6 DEF ThreadOK, Typed
      <3>3. CleanFirst(t)' /\ Creating(t)' /\ Ordering(t)' /\ Paying(t)'
        BY <2>2, <2>6 DEF CleanFirst, Creating, Ordering, Paying
      <3>4. Joining(t)' /\ Removing(t)'
        BY <2>2, <2>6 DEF Joining, Removing, At
      <3>5. Unseen(t)'
        BY <2>9 DEF Unseen
      <3>6. Writing(t)'
        BY <2>4, <2>5, <2>6 DEF Writing, Accounted
      <3>7. Authenticated(t)'
        BY <1>1, <2>1, <2>6 DEF ThreadOK, Authenticated
      <3> QED BY <3>1, <3>2, <3>3, <3>4, <3>5, <3>6, <3>7 DEF ThreadOK
    <2>11. Busy(t) /\ \A v \in {w} : Free(t, v)
      BY <1>1, <2>3 DEF Busy, Granted
    <2> HIDE DEF w
    <2> QED BY <2>7, <2>8, <2>9, <2>10, <2>11, Writes
  <1> QED BY <1>0, <1>1 DEF MoveWrite

(* The row to delete is locked: nothing is left in it, and so it stays.    *)
LEMMA RemoveRowOK ==
  ASSUME IInv, NEW t \in Session, RemoveRow(t)
  PROVE  IInv'
  <1> DEFINE w == req[t].wallet
             work == [tx[t] EXCEPT !.gone = {w}]
  <1>0. CASE Refuse(t, "INTERNAL_SERVER_ERROR")
    BY <1>0, Returns DEF Refuse
  <1>1. CASE /\ pc[t] = "removeRow" /\ Granted(t) /\ (w \in DOMAIN wallet => ~wallet[w].used)
             /\ Work(t, Needs(t), work) /\ Goto(t, "renumber")
    <2>1. Shapes /\ TablesOK /\ ThreadOK(t)
      BY DEF IInv
    <2>2. req[t].op = "remove"
      BY <1>1, <2>1 DEF ThreadOK, Labelled, RequestOK, Ops, LabelsOf
    <2>3. tx[t] = NoWork /\ Needs(t) = {w} \cap DOMAIN wallet
      BY <1>1, <2>1 DEF ThreadOK, CleanFirst, Needs
    <2>5. work.member = NoRows /\ work.wallet = NoRows /\ work.gone = {w}
          /\ work = [member |-> work.member, wallet |-> work.wallet, gone |-> work.gone]
      BY <2>3 DEF NoWork
    <2>6. /\ pc'[t] = "renumber" /\ req'[t] = req[t] /\ tx'[t] = work /\ seen'[t] = seen[t]
          /\ held'[t] = held[t] \cup ({w} \cap DOMAIN wallet) /\ gap'[t] = gap[t]
          /\ UNCHANGED <<member, wallet, lastId, raced, improper>>
      BY <1>1, <2>1, <2>3 DEF Work, Goto, Shapes, tables
    <2>7. Shapes'
      BY <1>1, <2>1 DEF Work, Goto, Shapes
    <2>8. /\ held' = [held EXCEPT ![t] = @ \cup Needs(t)] /\ tx' = [tx EXCEPT ![t] = work]
          /\ UNCHANGED <<tables, lastId, seen, req, raced, improper, gap>>
          /\ \A s \in Session \ {t} : pc'[s] = pc[s]
      BY <1>1, <2>1 DEF Work, Goto, Shapes
    <2> HIDE DEF work
    <2>9. Fresh(t)' = {} /\ Knows(t)' \subseteq Knows(t)
      BY <1>1, <2>5, <2>6 DEF Fresh, NoRows, Knows, At
    <2>10. ThreadOK(t)'
      <3>1. Labelled(t)'
        BY <1>1, <2>1, <2>2, <2>6 DEF ThreadOK, Labelled, LabelsOf
      <3>2. Typed(t)'
        BY <1>1, <2>1, <2>5, <2>6 DEF ThreadOK, Typed
      <3>3. CleanFirst(t)' /\ Creating(t)' /\ Ordering(t)' /\ Paying(t)'
        BY <2>2, <2>6 DEF CleanFirst, Creating, Ordering, Paying
      <3>4. Joining(t)'
        BY <2>6 DEF Joining, At
      <3>5. Unseen(t)'
        BY <2>9 DEF Unseen
      <3>6. Writing(t)'
        BY <2>5, <2>6 DEF Writing, NoRows
      <3>7. Authenticated(t)'
        BY <1>1, <2>1, <2>6 DEF ThreadOK, Authenticated
      <3>8. Removing(t)'
        <4>1. w \in 1 .. lastId /\ (w \in DOMAIN wallet => NothingLeft(t) /\ wallet[w].owner = seen[t].id)
          BY <1>1, <2>1 DEF ThreadOK, Removing
        <4> QED BY <1>1, <2>5, <2>6, <4>1 DEF Removing, NothingLeft, At
      <3> QED BY <3>1, <3>2, <3>3, <3>4, <3>5, <3>6, <3>7, <3>8 DEF ThreadOK
    <2>11. Busy(t) /\ \A v \in Needs(t) : Free(t, v)
      BY <1>1 DEF Busy, Granted
    <2> HIDE DEF w
    <2> QED BY <2>7, <2>8, <2>9, <2>10, <2>11, Writes
  <1> QED BY <1>0, <1>1 DEF RemoveRow

(* Some of the rows that are there.                                        *)
LEMMA FewRows ==
  ASSUME Shapes, TablesOK, NEW S \in SUBSET DOMAIN wallet
  PROVE  IsFiniteSet(S) /\ Cardinality(S) \in Nat
  <1>1. S \in SUBSET (1 .. lastId) /\ 1 \in Int /\ lastId \in Int
    BY DEF Shapes, TablesOK
  <1>2. IsFiniteSet(1 .. lastId)
    BY <1>1, FS_Interval
  <1>3. IsFiniteSet(S)
    BY <1>1, <1>2, FS_Subset
  <1> QED BY <1>3, FS_CardinalityType

(* The other wallets are numbered from 1.                                  *)
LEMMA RenumberOK ==
  ASSUME IInv, NEW t \in Session, Renumber(t)
  PROVE  IInv'
  <1> DEFINE left == WalletsOf(Rows(t), seen[t].id)
  <1>1. Shapes /\ TablesOK /\ ThreadOK(t)
    BY DEF IInv
  <1>2. pc[t] = "renumber" /\ LastLock(t) /\ Goto(t, "commit")
    BY DEF Renumber
  <1>3. req[t].op = "remove" /\ seen[t].id # 0
    BY <1>1, <1>2 DEF ThreadOK, Labelled, RequestOK, Ops, LabelsOf, Authenticated
  <1>4. tx[t].member = NoRows /\ tx[t].wallet = NoRows /\ Needs(t) = WalletsOf(wallet, seen[t].id)
    BY <1>1, <1>2 DEF ThreadOK, Writing, Removing, Needs
  <1>5. left = WalletsOf(wallet, seen[t].id) \ tx[t].gone
    <2>1. DOMAIN Rows(t) = DOMAIN wallet \ tx[t].gone
      BY <1>4 DEF Rows, Restrict, NoRows
    <2>2. \A i \in DOMAIN Rows(t) : Rows(t)[i] = wallet[i]
      BY <1>4 DEF Rows, Restrict, Over, NoRows
    <2> QED BY <2>1, <2>2 DEF WalletsOf
  <1>6. PICK f \in Bijection(left, 1 .. Cardinality(left)) :
          tx' = [tx EXCEPT ![t].wallet = Reordered(Restrict(wallet, left), f)]
    BY DEF Renumber
  <1>7. left \in SUBSET DOMAIN wallet /\ left \subseteq Needs(t)
    BY <1>4, <1>5 DEF WalletsOf
  <1> HIDE DEF left
  <1>8. Cardinality(left) \in Nat
    BY <1>1, <1>7, FewRows
  <1>9. /\ f \in [left -> 1 .. Cardinality(left)]
        /\ \A n \in 1 .. Cardinality(left) : \E w \in left : f[w] = n
    BY DEF Bijection, Surjection
  <1> DEFINE new == Reordered(Restrict(wallet, left), f)
             work == [tx[t] EXCEPT !.wallet = new]
  <1>10. DOMAIN new = left
    BY DEF Reordered, Restrict
  <1>11. ASSUME NEW w \in left
         PROVE  /\ new[w] \in WalletRow /\ Same(new[w], wallet[w]) /\ Accounted(new[w], wallet[w])
                /\ new[w].order = f[w] /\ wallet[w].owner = seen[t].id
    <2> DEFINE g == Restrict(wallet, left)
    <2>1. w \in DOMAIN g /\ g[w] = wallet[w] /\ wallet[w] \in WalletRow
      BY <1>1, <1>7, <1>11 DEF Restrict, TablesOK
    <2>2. w \in DOMAIN f /\ f[w] \in Int
      BY <1>8, <1>9, <1>11
    <2> HIDE DEF g
    <2>3. LET n == Reordered(g, f)[w]
          IN  n \in WalletRow /\ Same(n, g[w]) /\ Accounted(n, g[w]) /\ n.order = f[w]
      BY <2>1, <2>2, Replaced
    <2>4. wallet[w].owner = seen[t].id
      BY <1>5, <1>11 DEF WalletsOf
    <2> QED BY <2>1, <2>3, <2>4 DEF g
  <1> HIDE DEF new
  <1>12. { new[w].order : w \in left } = 1 .. Cardinality(left)
    <2>1. \A w \in left : new[w].order \in 1 .. Cardinality(left)
      BY <1>9, <1>11
    <2>2. \A n \in 1 .. Cardinality(left) : \E w \in left : new[w].order = n
      BY <1>9, <1>11
    <2> QED BY <2>1, <2>2
  <1>13. work.member = NoRows /\ work.wallet = new /\ work.gone = tx[t].gone
         /\ work = [member |-> work.member, wallet |-> work.wallet, gone |-> work.gone]
    BY <1>1, <1>4 DEF ThreadOK, Typed
  <1>14. /\ held' = [held EXCEPT ![t] = @ \cup Needs(t)] /\ gap' = [gap EXCEPT ![t] = {seen[t].id}]
         /\ UNCHANGED <<tables, lastId, seen, req, raced, improper>>
    BY DEF Renumber, Goto
  <1>15. tx' = [tx EXCEPT ![t] = work]
    BY <1>6 DEF new
  <1> HIDE DEF work
  <1>16. /\ pc'[t] = "commit" /\ req'[t] = req[t] /\ tx'[t] = work /\ seen'[t] = seen[t]
         /\ held'[t] = held[t] \cup Needs(t) /\ gap'[t] = {seen[t].id}
         /\ UNCHANGED <<member, wallet, lastId, raced, improper>>
         /\ \A s \in Session \ {t} : pc'[s] = pc[s] /\ gap'[s] = gap[s]
    BY <1>1, <1>2, <1>14, <1>15 DEF Goto, Shapes, tables
  <1>17. Shapes'
    BY <1>1, <1>2, <1>14, <1>15 DEF Goto, Shapes
  <1>18. Fresh(t)' = {} /\ Knows(t)' \subseteq Knows(t)
    BY <1>2, <1>7, <1>10, <1>13, <1>16 DEF Fresh, NoRows, Knows, At
  <1>19. ThreadOK(t)'
    <2>1. Labelled(t)'
      BY <1>1, <1>2, <1>3, <1>16 DEF ThreadOK, Labelled, LabelsOf
    <2>2. Typed(t)'
      BY <1>1, <1>3, <1>4, <1>13, <1>16 DEF ThreadOK, Typed, Shapes, WalletsOf
    <2>3. CleanFirst(t)' /\ Creating(t)' /\ Ordering(t)' /\ Paying(t)'
      BY <1>3, <1>16 DEF CleanFirst, Creating, Ordering, Paying
    <2>4. Joining(t)'
      BY <1>3, <1>16 DEF Joining, At
    <2>5. Unseen(t)'
      BY <1>18 DEF Unseen
    <2>6. Writing(t)'
      BY <1>3, <1>7, <1>10, <1>11, <1>13, <1>16 DEF Writing
    <2>7. Authenticated(t)'
      BY <1>1, <1>2, <1>16 DEF ThreadOK, Authenticated
    <2>8. Removing(t)'
      <3>1. /\ tx[t].gone = {req[t].wallet} /\ req[t].wallet \in 1 .. lastId
            /\ req[t].wallet \in DOMAIN wallet =>
                 /\ req[t].wallet \in held[t]
                 /\ NothingLeft(t)
                 /\ ~wallet[req[t].wallet].used
                 /\ wallet[req[t].wallet].owner = seen[t].id
        BY <1>1, <1>2 DEF ThreadOK, Removing
      <3>2. { work.wallet[w].order : w \in DOMAIN work.wallet } = 1 .. Cardinality(DOMAIN work.wallet)
        BY <1>10, <1>12, <1>13
      <3>3. DOMAIN work.wallet = WalletsOf(wallet, seen[t].id) \ work.gone
        BY <1>5, <1>10, <1>13
      <3> QED BY <1>13, <1>16, <3>1, <3>2, <3>3 DEF Removing, NothingLeft
    <2> QED BY <2>1, <2>2, <2>3, <2>4, <2>5, <2>6, <2>7, <2>8 DEF ThreadOK
  <1>20. Busy(t) /\ \A v \in Needs(t) : Free(t, v)
    BY <1>2 DEF Busy, LastLock, Granted
  <1> QED BY <1>14, <1>15, <1>16, <1>17, <1>18, <1>19, <1>20, Writes

-----------------------------------------------------------------------------
(* The highest display order.                                              *)

(* A set of natural numbers has a least one.                               *)
LEMMA LeastNat ==
  ASSUME NEW U \in SUBSET Nat, U # {}
  PROVE  \E n \in U : \A k \in U : n <= k
  <1>1. IsWellFoundedOn(OpToRel(<, Nat), Nat)
    BY NatLessThanWellFounded
  <1>2. \A x, y \in Nat : x < y => <<x, y>> \in OpToRel(<, Nat)
    BY DEF OpToRel
  <1>3. PICK R : IsWellFoundedOn(R, Nat) /\ \A x, y \in Nat : x < y => <<x, y>> \in R
    BY <1>1, <1>2
  <1>4. PICK n \in U : \A y \in U : <<y, n>> \notin R
    <2>1. IsWellFoundedOn(R, Nat) /\ U \subseteq Nat
      BY <1>3
    <2> QED BY <2>1, WFMin
  <1>5. ASSUME NEW k \in U PROVE n <= k
    <2>1. ~(k < n)
      BY <1>3, <1>4
    <2> QED BY <2>1
  <1> QED BY <1>5

(* A finite set of integers has a greatest one: the one with the fewest    *)
(* others above it.                                                        *)
LEMMA GreatestInt ==
  ASSUME NEW S \in SUBSET Int, IsFiniteSet(S), S # {}
  PROVE  \E n \in S : \A k \in S : k <= n
  <1> DEFINE Above(x) == { y \in S : x < y }
             U == { Cardinality(Above(x)) : x \in S }
  <1>1. ASSUME NEW x \in S PROVE IsFiniteSet(Above(x)) /\ Cardinality(Above(x)) \in Nat
    <2>1. Above(x) \in SUBSET S
      OBVIOUS
    <2>2. IsFiniteSet(Above(x))
      BY <2>1, FS_Subset
    <2> QED BY <2>2, FS_CardinalityType
  <1>2. U \in SUBSET Nat /\ U # {}
    BY <1>1
  <1>3. PICK c \in U : \A k \in U : c <= k
    BY <1>2, LeastNat
  <1>4. PICK n \in S : c = Cardinality(Above(n))
    OBVIOUS
  <1>5. ASSUME NEW k \in S, n < k PROVE FALSE
    <2>1. Above(k) \in SUBSET Above(n) /\ Above(k) # Above(n)
      <3>1. k \in Above(n) /\ k \notin Above(k)
        BY <1>5
      <3>2. \A y \in Above(k) : y \in Above(n)
        BY <1>5
      <3> QED BY <3>1, <3>2
    <2>2. Cardinality(Above(k)) <= c /\ Cardinality(Above(k)) # c
      BY <1>1, <1>4, <2>1, FS_Subset
    <2>3. c <= Cardinality(Above(k)) /\ c \in Nat /\ Cardinality(Above(k)) \in Nat
      BY <1>1, <1>2, <1>3
    <2> HIDE DEF Above
    <2> QED BY <2>2, <2>3
  <1> QED BY <1>5

(* createWallet finds a highest order.                                     *)
LEMMA HighestIsInt ==
  ASSUME Shapes, TablesOK, NEW m
  PROVE  /\ HighestOrder(wallet, m) \in Int
         /\ \A w \in WalletsOf(wallet, m) : wallet[w].order <= HighestOrder(wallet, m)
  <1> DEFINE mine == WalletsOf(wallet, m)
             orders == { wallet[w].order : w \in mine } \cup {0}
  <1>1. mine \in SUBSET DOMAIN wallet
    BY DEF WalletsOf
  <1>2. IsFiniteSet(mine)
    BY <1>1, FewRows
  <1>3. IsFiniteSet({ wallet[w].order : w \in mine })
    <2> DEFINE f == [w \in mine |-> wallet[w].order]
               T == { wallet[w].order : w \in mine }
    <2>1. f \in Surjection(mine, T)
      BY DEF Surjection
    <2> HIDE DEF f
    <2> QED BY <1>2, <2>1, FS_Surjection
  <1>4. IsFiniteSet(orders)
    BY <1>3, FS_AddElement
  <1>5. \A w \in mine : wallet[w].order \in Int
    BY <1>1 DEF TablesOK, WalletRow
  <1>6. orders \in SUBSET Int /\ orders # {}
    BY <1>5
  <1>7. \E n \in orders : \A k \in orders : k <= n
    BY <1>4, <1>6, GreatestInt
  <1>8. HighestOrder(wallet, m) = CHOOSE n \in orders : \A k \in orders : k <= n
    BY DEF HighestOrder
  <1>9. HighestOrder(wallet, m) \in orders /\ \A k \in orders : k <= HighestOrder(wallet, m)
    BY <1>7, <1>8
  <1> QED BY <1>6, <1>9

-----------------------------------------------------------------------------
(* Steps that others see.                                                  *)

(* A request that leaves the tables as they may be.                        *)
LEMMA Finishes ==
  ASSUME IInv, NEW t \in Session, NEW answer, Released(t), Answer(t, answer), TablesOK', Grown(t)
  PROVE  IInv'
  <1>1. Shapes /\ Shapes'
    BY DEF IInv, Shapes, Released, Answer, Grown
  <1>2. /\ pc'[t] = "idle" /\ tx'[t] = NoWork /\ held'[t] = {} /\ gap'[t] = {}
        /\ seen'[t] = NothingSeen /\ lastId' \in Nat
    BY <1>1 DEF Shapes, Released, Answer
  <1>3. ThreadOK(t)' /\ Fresh(t)' = {} /\ Knows(t)' = {0}
    BY <1>2, Clean
  <1>4. ASSUME NEW s \in Session \ {t} PROVE Alike(s)
    BY <1>1, <1>4 DEF Shapes, Released, Answer, Alike
  <1>5. raced \subseteq raced' /\ improper \subseteq improper' /\ ~Busy(t)'
    BY <1>2 DEF Answer, Busy
  <1>6. ASSUME NEW s \in Session \ {t} PROVE Apart(s, t)' /\ Apart(t, s)'
    BY <1>2, <1>3, <1>4, <1>5, <1>6, StayApart
  <1> QED BY <1>1, <1>3, <1>4, <1>6, Frame

(* The new wallet is there.                                                *)
LEMMA CreateInsertOK ==
  ASSUME IInv, NEW t \in Session, CreateInsert(t)
  PROVE  IInv' /\ (UNCHANGED tables \/ Grown(t))
  <1> DEFINE i == lastId + 1
             row == NewWallet(t)
             id == seen[t].id
  <1>0. CASE Refuse(t, "INTERNAL_SERVER_ERROR")
    BY <1>0, Returns DEF Refuse, Return
  <1>1. CASE /\ pc[t] = "createInsert" /\ GapFree(t, id) /\ id \in DOMAIN member
             /\ lastId' = lastId + 1 /\ wallet' = Over([j \in {i} |-> row], wallet)
             /\ Released(t) /\ Answer(t, "ok") /\ UNCHANGED member
    <2>1. Shapes /\ TablesOK /\ ThreadOK(t)
      BY DEF IInv
    <2>2. req[t].op = "create" /\ req[t].currency \in Currency
      BY <1>1, <2>1 DEF ThreadOK, Labelled, RequestOK, Ops, LabelsOf
    <2>3. member[id] = req[t].username
      BY <1>1, <2>1, <2>2 DEF ThreadOK, Authenticated
    <2>4. row \in WalletRow /\ row.owner = id /\ row.currency = req[t].currency
      BY <2>1, <2>2 DEF ThreadOK, Typed, Shapes, NewWallet, WalletRow
    <2> HIDE DEF row
    <2>5. lastId \in Nat /\ i \notin DOMAIN wallet
      BY <2>1 DEF Shapes, TablesOK
    <2>6. DOMAIN wallet' = DOMAIN wallet \cup {i}
      BY <1>1 DEF Over
    <2>7. wallet'[i] = row /\ \A w \in DOMAIN wallet : wallet'[w] = wallet[w]
      BY <1>1, <2>5 DEF Over
    <2>8. id \notin Fresh(t)
      BY <1>1, <2>1 DEF ThreadOK, Unseen
    <2>9. Grown(t)
      <3>1. Rightful(t, wallet'[i].owner) /\ wallet'[i].owner \notin Fresh(t)
        BY <1>1, <2>3, <2>4, <2>7, <2>8 DEF Rightful, Busy
      <3>2. raced' = raced /\ improper' = improper
        BY <1>1 DEF Answer
      <3> QED BY <1>1, <2>5, <2>6, <2>7, <3>1, <3>2 DEF Grown, Same, Accounted
    <2>10. TablesOK'
      <3>1. \A m \in DOMAIN member' : m \in 1 .. lastId' /\ member'[m] \in Username
        BY <1>1, <2>1, <2>5 DEF TablesOK
      <3>2. ASSUME NEW w \in DOMAIN wallet'
            PROVE  w \in 1 .. lastId' /\ wallet'[w] \in WalletRow /\ wallet'[w].owner \in DOMAIN member'
        BY <1>1, <2>1, <2>4, <2>5, <2>6, <2>7, <3>2 DEF TablesOK
      <3>3. UniqueUsernames'
        BY <1>1, <2>1 DEF TablesOK, UniqueUsernames, Answer
      <3>4. ASSUME NEW w \in DOMAIN wallet, wallet[w].owner = row.owner, wallet[w].currency = row.currency
            PROVE  member[row.owner] \in raced
        BY <1>1, <2>1, <2>3, <2>4, <3>4 DEF ThreadOK, Creating
      <3>5. OneWalletPerCurrency'
        <4> SUFFICES ASSUME NEW v \in DOMAIN wallet', NEW w \in DOMAIN wallet', v # w,
                            wallet'[v].owner = wallet'[w].owner, wallet'[v].currency = wallet'[w].currency
                     PROVE  member[wallet'[v].owner] \in raced
          BY <1>1 DEF OneWalletPerCurrency, Answer
        <4>1. CASE v \in DOMAIN wallet /\ w \in DOMAIN wallet
          BY <2>1, <2>7, <4>1 DEF TablesOK, OneWalletPerCurrency
        <4>2. CASE v = i \/ w = i
          BY <2>6, <2>7, <3>4, <4>2
        <4> QED BY <2>6, <4>1, <4>2
      <3> QED BY <3>1, <3>2, <3>3, <3>5 DEF TablesOK
    <2> QED BY <1>1, <2>9, <2>10, Finishes
  <1> QED BY <1>0, <1>1 DEF CreateInsert

(* A member without wallets is gone.                                       *)
LEMMA LeaveRowOK ==
  ASSUME IInv, NEW t \in Session, LeaveRow(t)
  PROVE  IInv' /\ (UNCHANGED tables \/ Grown(t))
  <1> DEFINE mine == MembersOf(req[t].username)
  <1>0. CASE Refuse(t, "INTERNAL_SERVER_ERROR")
    BY <1>0, Returns DEF Refuse, Return
  <1>1. CASE /\ \A m \in mine : WalletsOf(wallet, m) = {}
             /\ member' = [m \in DOMAIN member \ mine |-> member[m]]
             /\ Released(t) /\ Answer(t, "ok") /\ UNCHANGED <<wallet, lastId>>
    <2>1. Shapes /\ TablesOK
      BY DEF IInv
    <2> HIDE DEF mine
    <2>2. /\ DOMAIN member' = DOMAIN member \ mine
          /\ \A m \in DOMAIN member' : m \in DOMAIN member /\ member'[m] = member[m]
          /\ UNCHANGED <<wallet, lastId, raced, improper>>
      BY <1>1 DEF Answer
    <2>3. \A w \in DOMAIN wallet : wallet[w].owner \in DOMAIN member'
      BY <1>1, <2>1, <2>2 DEF TablesOK, WalletsOf
    <2>4. Grown(t)
      BY <2>1, <2>2 DEF Shapes, Grown, Same, Accounted
    <2>5. TablesOK'
      BY <2>1, <2>2, <2>3 DEF TablesOK, UniqueUsernames, OneWalletPerCurrency
    <2> QED BY <1>1, <2>4, <2>5, Finishes
  <1> QED BY <1>0, <1>1 DEF LeaveRow

(* A join becomes visible: a member and its CASH wallet.                   *)
LEMMA CommitJoinOK ==
  ASSUME IInv, NEW t \in Session, Commit(t), req[t].op = "join"
  PROVE  /\ TablesOK' /\ Grown(t)
         /\ DOMAIN member' = DOMAIN member \cup {seen[t].id}
         /\ \E i \in 1 .. lastId :
              /\ i \notin DOMAIN wallet
              /\ DOMAIN wallet' = DOMAIN wallet \cup {i}
              /\ wallet'[i] = CashRow(seen[t].id)
              /\ \A w \in DOMAIN wallet : wallet'[w] = wallet[w]
  <1> DEFINE id == seen[t].id
  <1>1. Shapes /\ TablesOK /\ ThreadOK(t)
    BY DEF IInv
  <1>2. At(t, "join", "commit")
    BY DEF Commit, At
  <1>3. PICK i \in 1 .. lastId : i # id /\ tx[t].wallet = [j \in {i} |-> CashRow(id)]
    BY <1>1, <1>2 DEF ThreadOK, Joining
  <1>4. /\ tx[t].member = [j \in {id} |-> req[t].username] /\ tx[t].gone = {} /\ held[t] = {}
        /\ id \in 1 .. lastId
        /\ \A m \in DOMAIN member : member[m] = req[t].username => req[t].username \in raced
    BY <1>1, <1>2 DEF ThreadOK, Joining, Typed
  <1>5. Fresh(t) = {id, i} /\ id \notin DOMAIN member /\ i \notin DOMAIN wallet
    <2>1. Fresh(t) = {id, i}
      BY <1>3, <1>4 DEF Fresh
    <2> QED BY <1>1, <2>1 DEF ThreadOK, Unseen
  <1>6. /\ DOMAIN member' = DOMAIN member \cup {id}
        /\ member'[id] = req[t].username
        /\ \A m \in DOMAIN member : member'[m] = member[m]
    BY <1>4, <1>5 DEF Commit, Over
  <1>7. DOMAIN wallet' = DOMAIN wallet \cup {i}
    BY <1>3, <1>4 DEF Commit, Rows, Restrict
  <1>8. wallet'[i] = CashRow(id) /\ \A w \in DOMAIN wallet : wallet'[w] = wallet[w]
    BY <1>3, <1>4, <1>5 DEF Commit, Rows, Restrict, Over
  <1>9. lastId' = lastId /\ raced' = raced /\ improper' = improper /\ lastId \in Nat /\ req[t].username \in Username
    BY <1>1, <1>2 DEF Commit, Answer, Shapes, ThreadOK, Labelled, RequestOK, At
  <1>10. /\ CashRow(id) \in WalletRow
         /\ CashRow(id).owner = id /\ CashRow(id).currency = NoCurrency
    BY <1>4, <1>9 DEF CashRow, WalletRow
  <1>11. Grown(t)
    <2>1. Rightful(t, wallet'[i].owner) /\ wallet'[i].currency = NoCurrency
      BY <1>5, <1>8, <1>10 DEF Rightful
    <2>2. Busy(t)
      BY <1>2 DEF At, Busy
    <2> QED BY <1>5, <1>6, <1>7, <1>8, <1>9, <2>1, <2>2 DEF Grown, Same, Accounted
  <1>12. TablesOK'
    <2>1. ASSUME NEW m \in DOMAIN member' PROVE m \in 1 .. lastId' /\ member'[m] \in Username
      BY <1>1, <1>4, <1>6, <1>9, <2>1 DEF TablesOK
    <2>2. ASSUME NEW w \in DOMAIN wallet'
          PROVE  w \in 1 .. lastId' /\ wallet'[w] \in WalletRow /\ wallet'[w].owner \in DOMAIN member'
      BY <1>1, <1>3, <1>6, <1>7, <1>8, <1>9, <1>10, <2>2 DEF TablesOK
    <2>3. UniqueUsernames'
      BY <1>1, <1>4, <1>6, <1>9 DEF TablesOK, UniqueUsernames
    <2>4. OneWalletPerCurrency'
      <3> SUFFICES ASSUME NEW v \in DOMAIN wallet', NEW w \in DOMAIN wallet', v # w,
                          wallet'[v].owner = wallet'[w].owner, wallet'[v].currency = wallet'[w].currency
                   PROVE  member'[wallet'[v].owner] \in raced
        BY <1>9 DEF OneWalletPerCurrency
      <3>1. CASE v \in DOMAIN wallet /\ w \in DOMAIN wallet
        BY <1>1, <1>6, <1>8, <3>1 DEF TablesOK, OneWalletPerCurrency
      <3>2. \A u \in DOMAIN wallet : wallet'[u].owner # id
        BY <1>1, <1>5, <1>8 DEF TablesOK
      <3> QED BY <1>7, <1>8, <1>10, <3>1, <3>2
    <2> QED BY <2>1, <2>2, <2>3, <2>4 DEF TablesOK
  <1> QED BY <1>3, <1>5, <1>6, <1>7, <1>8, <1>11, <1>12

(* What a CASH wallet becomes when a GENERAL payment takes from it.        *)
LEMMA Debited ==
  ASSUME NEW old \in WalletRow, NEW amount \in Int
  PROVE  LET new == [old EXCEPT !.balance = @ - amount]
         IN  /\ new \in WalletRow /\ Same(new, old) /\ new.used = old.used /\ new.order = old.order
             /\ amount >= 0 => new.balance <= old.balance
  <1> DEFINE new == [old EXCEPT !.balance = @ - amount]
  <1>1. old.balance \in Int /\ new.balance = old.balance - amount
    BY DEF WalletRow
  <1>2. new \in WalletRow
    BY <1>1 DEF WalletRow
  <1>3. Same(new, old) /\ new.used = old.used /\ new.order = old.order
    BY DEF WalletRow, Same
  <1>4. amount >= 0 => new.balance <= old.balance
    BY <1>1
  <1> HIDE DEF new
  <1>5. /\ new \in WalletRow /\ Same(new, old) /\ new.used = old.used /\ new.order = old.order
        /\ amount >= 0 => new.balance <= old.balance
    BY <1>2, <1>3, <1>4
  <1> QED BY <1>5 DEF new

(* The UPDATE of a GENERAL payment commits: its CASH wallet has less.      *)
LEMMA PayDebitOK ==
  ASSUME IInv, NEW t \in Session, PayDebit(t)
  PROVE  IInv' /\ Grown(t)
  <1>0. PICK w : w = seen[t].cash
    OBVIOUS
  <1>1. Shapes /\ TablesOK /\ ThreadOK(t)
    BY DEF IInv
  <1>2. /\ pc[t] = "payDebit" /\ Goto(t, "payRow") /\ Granted(t)
        /\ UNCHANGED <<member, lastId, locks, tx, seen>>
    BY DEF PayDebit
  <1>3. req[t].op = "pay" /\ req[t].amount \in Int
    BY <1>1, <1>2 DEF ThreadOK, Labelled, RequestOK, Ops, LabelsOf
  <1>4. w \in DOMAIN wallet => Free(t, w)
    BY <1>0, <1>2 DEF Granted, Needs
  <1>5. DOMAIN wallet' = DOMAIN wallet /\ \A v \in DOMAIN wallet : v # w => wallet'[v] = wallet[v]
    BY <1>0 DEF PayDebit
  <1>6. w \in DOMAIN wallet =>
          /\ wallet'[w] \in WalletRow /\ Same(wallet'[w], wallet[w])
          /\ wallet'[w].used = wallet[w].used /\ wallet'[w].order = wallet[w].order
          /\ req[t].amount >= 0 => wallet'[w].balance <= wallet[w].balance
    <2> SUFFICES ASSUME w \in DOMAIN wallet
                 PROVE  /\ wallet'[w] \in WalletRow /\ Same(wallet'[w], wallet[w])
                        /\ wallet'[w].used = wallet[w].used /\ wallet'[w].order = wallet[w].order
                        /\ req[t].amount >= 0 => wallet'[w].balance <= wallet[w].balance
      OBVIOUS
    <2>1. wallet'[w] = [wallet[w] EXCEPT !.balance = @ - req[t].amount]
      BY <1>0 DEF PayDebit
    <2>2. wallet[w] \in WalletRow
      BY <1>1 DEF TablesOK
    <2> QED BY <1>3, <2>1, <2>2, Debited
  <1>7. w \in DOMAIN wallet => Spent(t, w)
    <2> SUFFICES ASSUME w \in DOMAIN wallet
                 PROVE  Spent(t, w)
      OBVIOUS
    <2>1. wallet[w].owner = seen[t].id /\ seen[t].id \in DOMAIN member
      BY <1>0, <1>1, <1>2 DEF ThreadOK, Paying, TablesOK
    <2>2. member[seen[t].id] = req[t].username
      BY <1>1, <1>2, <1>3, <2>1 DEF ThreadOK, Authenticated
    <2>3. req[t].amount >= 0 \/ req[t].username \in improper
      BY <1>1, <1>2, <1>3 DEF ThreadOK, Paying, Busy
    <2> QED BY <1>6, <2>1, <2>2, <2>3 DEF Spent
  <1>8. /\ pc'[t] = "payRow" /\ req'[t] = req[t] /\ tx'[t] = tx[t] /\ seen'[t] = seen[t]
        /\ held'[t] = held[t] /\ gap'[t] = gap[t] /\ tx[t] = NoWork
        /\ UNCHANGED <<member, lastId, raced, improper>> /\ lastId \in Nat
    BY <1>1, <1>2 DEF Goto, Shapes, locks, ThreadOK, CleanFirst
  <1>9. Grown(t)
    <2>1. ASSUME NEW v \in DOMAIN wallet
          PROVE  /\ Same(wallet'[v], wallet[v])
                 /\ Accounted(wallet'[v], wallet[v]) \/ Spent(t, v)
                 /\ wallet'[v].order = wallet[v].order
                 /\ wallet'[v] # wallet[v] => Free(t, v)
      <3>1. CASE v = w
        BY <1>4, <1>6, <1>7, <2>1, <3>1
      <3>2. CASE v # w
        BY <1>5, <2>1, <3>2 DEF Same, Accounted
      <3> QED BY <3>1, <3>2
    <2> QED BY <1>5, <1>8, <2>1 DEF Grown
  <1>10. TablesOK'
    <2>1. ASSUME NEW v \in DOMAIN wallet'
          PROVE  v \in DOMAIN wallet /\ wallet'[v] \in WalletRow /\ Same(wallet'[v], wallet[v])
      <3>1. CASE v = w
        BY <1>5, <1>6, <2>1, <3>1
      <3>2. CASE v # w
        BY <1>1, <1>5, <2>1, <3>2 DEF TablesOK, Same
      <3> QED BY <3>1, <3>2
    <2>2. ASSUME NEW v \in DOMAIN wallet'
          PROVE  v \in 1 .. lastId' /\ wallet'[v].owner \in DOMAIN member'
      BY <1>1, <1>8, <2>1, <2>2 DEF TablesOK, Same
    <2>3. UniqueUsernames'
      BY <1>1, <1>8 DEF TablesOK, UniqueUsernames
    <2>4. OneWalletPerCurrency'
      BY <1>1, <1>8, <2>1 DEF TablesOK, OneWalletPerCurrency, Same
    <2> QED BY <1>1, <1>8, <2>1, <2>2, <2>3, <2>4 DEF TablesOK
  <1>11. Shapes'
    BY <1>1, <1>2 DEF Goto, Shapes, locks
  <1>12. Fresh(t)' = {} /\ Fresh(t) = {} /\ Knows(t)' = Knows(t)
    BY <1>2, <1>8 DEF Fresh, Knows, NoWork, NoRows, At
  <1>13. ThreadOK(t)'
    <2>1. Labelled(t)'
      BY <1>1, <1>2, <1>3, <1>8 DEF ThreadOK, Labelled, LabelsOf
    <2>2. Typed(t)'
      BY <1>1, <1>5, <1>8 DEF ThreadOK, Typed
    <2>3. CleanFirst(t)' /\ Creating(t)' /\ Ordering(t)'
      BY <1>8 DEF CleanFirst, Creating, Ordering
    <2>4. Joining(t)' /\ Removing(t)' /\ Writing(t)'
      BY <1>8 DEF Joining, Removing, Writing, At
    <2>5. Unseen(t)'
      BY <1>12 DEF Unseen
    <2>6. Authenticated(t)'
      BY <1>1, <1>2, <1>3, <1>8 DEF ThreadOK, Authenticated
    <2>7. Paying(t)'
      <3>1. Paying(t)
        BY <1>1 DEF ThreadOK
      <3>2. seen[t].cash \in DOMAIN wallet' => wallet'[seen[t].cash].owner = seen[t].id
        BY <1>0, <1>2, <1>5, <1>6, <3>1 DEF Paying, Same
      <3> QED BY <1>2, <1>8, <3>1, <3>2 DEF Paying, Busy
    <2> QED BY <2>1, <2>2, <2>3, <2>4, <2>5, <2>6, <2>7 DEF ThreadOK
  <1>14. ASSUME NEW s \in Session \ {t} PROVE Alike(s) /\ Apart(s, t)' /\ Apart(t, s)'
    <2>1. Alike(s)
      BY <1>1, <1>2, <1>14 DEF Goto, Shapes, locks, Alike
    <2>2. held[s] \cap held'[t] = {}
      BY <1>8, <1>14 DEF IInv, Apart
    <2>3. Busy(s) /\ Busy(t)' /\ req[s].username = req'[t].username => req[s].username \in raced'
      BY <1>2, <1>8, <1>14, StillRaced DEF Busy
    <2> QED BY <1>8, <1>12, <2>1, <2>2, <2>3, StayApart
  <1> QED BY <1>9, <1>10, <1>11, <1>13, <1>14, Frame

(* The row of a GENERAL payment refers to its CASH wallet.                 *)
LEMMA PayRowOK ==
  ASSUME IInv, NEW t \in Session, PayRow(t)
  PROVE  IInv' /\ (UNCHANGED tables \/ Grown(t))
  <1>0. CASE Refuse(t, "INTERNAL_SERVER_ERROR")
    BY <1>0, Returns DEF Refuse, Return
  <1>1. CASE /\ pc[t] = "payRow" /\ Granted(t) /\ seen[t].cash \in DOMAIN wallet
             /\ wallet' = [wallet EXCEPT ![seen[t].cash].used = TRUE]
             /\ Released(t) /\ Answer(t, "ok") /\ UNCHANGED <<member, lastId>>
    <2>0. PICK w \in DOMAIN wallet : w = seen[t].cash
      BY <1>1
    <2>1. Shapes /\ TablesOK
      BY DEF IInv
    <2>2. Free(t, w)
      BY <1>1, <2>0 DEF Granted, Needs
    <2>3. DOMAIN wallet' = DOMAIN wallet /\ \A v \in DOMAIN wallet : v # w => wallet'[v] = wallet[v]
      BY <1>1, <2>0
    <2>4. /\ wallet'[w] \in WalletRow /\ Same(wallet'[w], wallet[w])
          /\ wallet'[w].used /\ wallet'[w].order = wallet[w].order
      <3>1. wallet'[w] = [wallet[w] EXCEPT !.used = TRUE]
        BY <1>1, <2>0
      <3>2. wallet[w] \in WalletRow
        BY <2>1 DEF TablesOK
      <3> QED BY <3>1, <3>2 DEF WalletRow, Same
    <2>5. UNCHANGED <<raced, improper>> /\ lastId \in Nat
      BY <1>1, <2>1 DEF Answer, Shapes
    <2>6. ASSUME NEW v \in DOMAIN wallet
          PROVE  /\ wallet'[v] \in WalletRow /\ Same(wallet'[v], wallet[v])
                 /\ Accounted(wallet'[v], wallet[v])
                 /\ wallet'[v].order = wallet[v].order
                 /\ wallet'[v] # wallet[v] => Free(t, v)
      <3>1. CASE v = w
        BY <2>2, <2>4, <3>1 DEF Accounted
      <3>2. CASE v # w
        BY <2>1, <2>3, <2>6, <3>2 DEF TablesOK, Same, Accounted
      <3> QED BY <3>1, <3>2
    <2>7. Grown(t)
      <3>1. member' = member /\ lastId' = lastId
        BY <1>1
      <3> QED BY <2>3, <2>5, <2>6, <3>1 DEF Grown
    <2>8. TablesOK'
      <3>1. ASSUME NEW v \in DOMAIN wallet'
            PROVE  v \in 1 .. lastId' /\ wallet'[v].owner \in DOMAIN member'
        BY <1>1, <2>1, <2>3, <2>6, <3>1 DEF TablesOK, Same
      <3>2. UniqueUsernames'
        BY <1>1, <2>1, <2>5 DEF TablesOK, UniqueUsernames
      <3>3. OneWalletPerCurrency'
        BY <1>1, <2>1, <2>3, <2>5, <2>6 DEF TablesOK, OneWalletPerCurrency, Same
      <3> QED BY <1>1, <2>1, <2>3, <2>6, <3>1, <3>2, <3>3 DEF TablesOK
    <2> QED BY <1>1, <2>7, <2>8, Finishes
  <1> QED BY <1>0, <1>1 DEF PayRow

(* Any other work becomes visible: rows that were locked.                  *)
LEMMA CommitOtherOK ==
  ASSUME IInv, NEW t \in Session, Commit(t), req[t].op # "join"
  PROVE  /\ TablesOK' /\ Grown(t)
         /\ DOMAIN member' = DOMAIN member
         /\ DOMAIN wallet' = DOMAIN wallet \ tx[t].gone
         /\ \A w \in DOMAIN wallet' :
              wallet'[w] = IF w \in DOMAIN tx[t].wallet THEN tx[t].wallet[w] ELSE wallet[w]
         /\ \A w \in DOMAIN wallet \ DOMAIN wallet' : w = req[t].wallet /\ req[t].op = "remove"
  <1>1. Shapes /\ TablesOK /\ ThreadOK(t)
    BY DEF IInv
  <1>2. pc[t] = "commit"
    BY DEF Commit
  <1>3. /\ tx[t].member = NoRows
        /\ \A w \in DOMAIN tx[t].wallet :
             /\ w \in held[t]
             /\ tx[t].wallet[w] \in WalletRow
             /\ Same(tx[t].wallet[w], wallet[w])
             /\ Accounted(tx[t].wallet[w], wallet[w])
             /\ tx[t].wallet[w].order # wallet[w].order => wallet[w].owner = seen[t].id
        /\ req[t].op # "remove" => tx[t].gone = {}
    BY <1>1, <1>2 DEF ThreadOK, Writing
  <1>4. held[t] \subseteq DOMAIN wallet
    BY <1>1 DEF ThreadOK, Typed
  <1>5. req[t].op = "remove" =>
          /\ tx[t].gone = {req[t].wallet}
          /\ req[t].wallet \in DOMAIN wallet =>
               req[t].wallet \in held[t] /\ wallet[req[t].wallet].owner = seen[t].id
    BY <1>1, <1>2 DEF ThreadOK, Removing, At
  <1>6. DOMAIN member' = DOMAIN member /\ \A m \in DOMAIN member : member'[m] = member[m]
    BY <1>3 DEF Commit, Over, NoRows
  <1>7. DOMAIN wallet' = DOMAIN wallet \ tx[t].gone
    BY <1>3, <1>4 DEF Commit, Rows, Restrict
  <1>8. ASSUME NEW w \in DOMAIN wallet'
        PROVE  wallet'[w] = IF w \in DOMAIN tx[t].wallet THEN tx[t].wallet[w] ELSE wallet[w]
    BY <1>3, <1>4, <1>7, <1>8 DEF Commit, Rows, Restrict, Over
  <1>9. lastId' = lastId /\ raced' = raced /\ improper' = improper /\ lastId \in Nat
    BY <1>1 DEF Commit, Answer, Shapes
  <1>10. ASSUME NEW w \in DOMAIN wallet'
         PROVE  /\ w \in DOMAIN wallet /\ Same(wallet'[w], wallet[w]) /\ Accounted(wallet'[w], wallet[w])
                /\ wallet'[w] \in WalletRow
                /\ wallet'[w] # wallet[w] => w \in held[t]
                /\ wallet'[w].order # wallet[w].order => wallet[w].owner = seen[t].id
    BY <1>1, <1>3, <1>7, <1>8, <1>10 DEF TablesOK, Same, Accounted
  <1>11. \A w \in DOMAIN wallet \ DOMAIN wallet' :
           /\ w = req[t].wallet /\ req[t].op = "remove" /\ w \in held[t]
           /\ wallet[w].owner = seen[t].id
    BY <1>3, <1>5, <1>7
  <1>14. \A w \in DOMAIN wallet : wallet[w].owner = seen[t].id => member[wallet[w].owner] = req[t].username
    BY <1>1, <1>2 DEF ThreadOK, Authenticated, TablesOK
  <1>12. Grown(t)
    BY <1>6, <1>9, <1>10, <1>11, <1>14 DEF Grown
  <1>13. TablesOK'
    <2>1. \A m \in DOMAIN member' : m \in 1 .. lastId' /\ member'[m] \in Username
      BY <1>1, <1>6, <1>9 DEF TablesOK
    <2>2. ASSUME NEW w \in DOMAIN wallet'
          PROVE  w \in 1 .. lastId' /\ wallet'[w] \in WalletRow /\ wallet'[w].owner \in DOMAIN member'
      BY <1>1, <1>6, <1>9, <1>10, <2>2 DEF TablesOK, Same
    <2>3. UniqueUsernames'
      BY <1>1, <1>6, <1>9 DEF TablesOK, UniqueUsernames
    <2>4. OneWalletPerCurrency'
      BY <1>1, <1>6, <1>9, <1>10 DEF TablesOK, OneWalletPerCurrency, Same
    <2> QED BY <2>1, <2>2, <2>3, <2>4 DEF TablesOK
  <1> QED BY <1>6, <1>7, <1>8, <1>11, <1>12, <1>13

(* Work becomes visible.                                                   *)
LEMMA CommitOK ==
  ASSUME IInv, NEW t \in Session, Commit(t)
  PROVE  IInv'
  <1>1. TablesOK' /\ Grown(t)
    BY CommitJoinOK, CommitOtherOK
  <1>2. Released(t) /\ Answer(t, "ok")
    BY DEF Commit
  <1> QED BY <1>1, <1>2, Finishes

-----------------------------------------------------------------------------
(* Requests come, and threads and the server fail.                         *)

(* What clients send.                                                      *)
LEMMA RequestsOK ==
  ASSUME IInv, NEW r \in Requests \cup OrderRequests
  PROVE  RequestOK(r)
  <1>1. CASE r \in Requests
    BY <1>1, RequestAssumption DEF RequestOK, Ops
  <1>2. CASE r \in OrderRequests
    <2>1. PICK m \in DOMAIN member : \E f \in Arrangements(m) :
            r = [op |-> "order", username |-> member[m], orders |-> f]
      BY <1>2 DEF OrderRequests
    <2>2. PICK f \in Arrangements(m) : r = [op |-> "order", username |-> member[m], orders |-> f]
      BY <2>1
    <2>3. \A w \in DOMAIN f : f[w] \in Int
      <3> DEFINE mine == LocalWallets(m)
      <3>1. f \in [mine -> { wallet[w].order : w \in mine }]
        BY DEF Arrangements
      <3>2. \A w \in mine : wallet[w].order \in Int
        BY DEF LocalWallets, WalletsOf, IInv, TablesOK, WalletRow
      <3> HIDE DEF mine
      <3> QED BY <3>1, <3>2
    <2>4. member[m] \in Username
      BY DEF IInv, TablesOK
    <2> QED BY <2>2, <2>3, <2>4 DEF RequestOK, Ops
  <1> QED BY <1>1, <1>2

(* A request gets a thread.                                                *)
LEMMA ReceiveOK ==
  ASSUME IInv, NEW t \in Session, NEW r \in Requests \cup OrderRequests, Receive(t, r)
  PROVE  IInv'
  <1>1. Shapes /\ ThreadOK(t) /\ RequestOK(r)
    BY RequestsOK DEF IInv
  <1>2. /\ pc[t] = "idle" /\ tx[t] = NoWork /\ held[t] = {} /\ gap[t] = {} /\ seen[t] = NothingSeen
    BY <1>1 DEF Receive, ThreadOK, CleanFirst
  <1>3. /\ pc'[t] = (IF r.op = "join" THEN "join" ELSE "auth") /\ req'[t] = r
        /\ UNCHANGED <<tables, lastId, held, gap, tx, seen>>
    BY <1>1 DEF Receive, Shapes, locks
  <1>4. /\ raced' \subseteq Username /\ improper' \subseteq Username
        /\ raced \subseteq raced' /\ improper \subseteq improper'
    BY <1>1 DEF Receive, Shapes, RequestOK
  <1>5. Shapes'
    BY <1>1, <1>3, <1>4 DEF Receive, Shapes
  <1>9. r.op = "pay" /\ r.amount < 0 => r.username \in improper'
    BY DEF Receive, Improper
  <1>6. ThreadOK(t)' /\ Fresh(t)' = {} /\ Knows(t)' = {0}
    BY <1>1, <1>2, <1>3, <1>5, <1>9, Clean DEF Shapes
  <1>7. ASSUME NEW s \in Session \ {t}
        PROVE  /\ Alike(s) /\ held[s] \cap held'[t] = {}
               /\ Busy(s) /\ Busy(t)' /\ req[s].username = req'[t].username => req[s].username \in raced'
    BY <1>1, <1>2, <1>3, <1>7 DEF Receive, Shapes, Alike, Busy
  <1>8. lastId <= lastId'
    BY <1>1, <1>3 DEF Shapes
  <1> QED BY <1>3, <1>4, <1>5, <1>6, <1>7, <1>8, QuietStep

(* The server process dies.                                                *)
LEMMA CrashOK ==
  ASSUME IInv, Crash
  PROVE  IInv'
  <1>1. Shapes /\ TablesOK
    BY DEF IInv
  <1>2. Shapes' /\ lastId' \in Nat
    BY <1>1 DEF Crash, Shapes
  <1>3. TablesOK'
    BY <1>1 DEF Crash, tables, TablesOK, UniqueUsernames, OneWalletPerCurrency
  <1>4. ASSUME NEW s \in Session
        PROVE  /\ pc'[s] = "idle" /\ tx'[s] = NoWork /\ held'[s] = {} /\ gap'[s] = {}
               /\ seen'[s] = NothingSeen
    BY DEF Crash
  <1>5. ASSUME NEW s \in Session PROVE ThreadOK(s)' /\ Fresh(s)' = {} /\ Knows(s)' = {0}
    BY <1>2, <1>4, Clean
  <1>6. ASSUME NEW s \in Session, NEW t \in Session PROVE Apart(s, t)'
    BY <1>4, <1>5 DEF Apart, Busy
  <1> QED BY <1>2, <1>3, <1>5, <1>6 DEF IInv

-----------------------------------------------------------------------------
(* All steps.                                                              *)

(* The rows at the start of the run.                                       *)
LEMMA InitOK ==
  ASSUME Init
  PROVE  IInv
  <1> DEFINE ids == DOMAIN OpeningMember \cup DOMAIN OpeningWallet
  <1>1. ids = 1 .. lastId /\ lastId \in Nat
    <2>1. Cardinality(ids) \in Nat
      BY AccountsAssumption, FS_CardinalityType
    <2> QED BY <2>1, AccountsAssumption DEF Init
  <1>2. Shapes
    BY <1>1 DEF Init, Shapes
  <1>3. TablesOK
    <2>1. \A m \in DOMAIN member : m \in 1 .. lastId /\ member[m] \in Username
      BY <1>1, AccountsAssumption DEF Init
    <2>2. ASSUME NEW w \in DOMAIN wallet
          PROVE  w \in 1 .. lastId /\ wallet[w] \in WalletRow /\ wallet[w].owner \in DOMAIN member
      BY <1>1, <2>2, AccountsAssumption DEF Init
    <2>3. UniqueUsernames
      BY OpeningAssumption DEF Init, UniqueUsernames
    <2>4. OneWalletPerCurrency
      BY OpeningAssumption DEF Init, OneWalletPerCurrency
    <2> QED BY <2>1, <2>2, <2>3, <2>4 DEF TablesOK
  <1>4. ASSUME NEW s \in Session
        PROVE  /\ pc[s] = "idle" /\ tx[s] = NoWork /\ held[s] = {} /\ gap[s] = {}
               /\ seen[s] = NothingSeen
    BY DEF Init
  <1>5. ASSUME NEW s \in Session PROVE ThreadOK(s) /\ Fresh(s) = {} /\ Knows(s) = {0}
    <2>1. Fresh(s) = {}
      BY <1>4 DEF Fresh, NoWork, NoRows
    <2>2. Knows(s) = {0}
      BY <1>4 DEF Knows, At, NothingSeen
    <2>3. Labelled(s) /\ CleanFirst(s)
      BY <1>4 DEF Labelled, CleanFirst
    <2>4. Typed(s)
      BY <1>1, <1>4 DEF Typed, NoWork, NothingSeen
    <2>5. Joining(s) /\ Writing(s) /\ Authenticated(s) /\ Creating(s) /\ Ordering(s) /\ Removing(s)
          /\ Paying(s)
      BY <1>4 DEF Joining, Writing, Authenticated, Creating, Ordering, Removing, Paying, At, Busy
    <2>6. Unseen(s)
      BY <2>1 DEF Unseen
    <2> QED BY <2>1, <2>2, <2>3, <2>4, <2>5, <2>6 DEF ThreadOK
  <1>6. ASSUME NEW s \in Session, NEW t \in Session PROVE Apart(s, t)
    BY <1>4, <1>5 DEF Apart, Busy
  <1> QED BY <1>2, <1>3, <1>5, <1>6 DEF IInv

(* A step of a handler keeps the invariant.                                *)
LEMMA StepOK ==
  ASSUME IInv, NEW t \in Session, Step(t)
  PROVE  IInv'
  <1>1. CASE Authenticate(t, req[t].op)
    BY <1>1, AuthenticateOK
  <1>2. CASE AccountStep(t)
    <2>1. CASE WrongPassword(t)
      BY <2>1, Returns DEF WrongPassword, Refuse
    <2>2. CASE UpdateMember(t)
      BY <2>2, Returns DEF UpdateMember, Refuse
    <2>3. CASE Validate(t, "update", "updateRow") \/ Validate(t, "leave", "leaveRow")
      BY <2>3, ValidateOK
    <2> QED BY <1>2, <2>1, <2>2, <2>3, JoinCheckOK, JoinMemberOK, JoinWalletOK, LeaveRowOK
            DEF AccountStep
  <1>3. CASE RegistryStep(t)
    <2>1. CASE CreateMax(t)
      BY <2>1, HighestIsInt, CreateMaxOK DEF IInv
    <2> QED BY <1>3, <2>1, CreateFindOK, CreateInsertOK, OrderCheckOK, LockRowOK, OrderWriteOK,
               RemoveCheckOK, RemoveRowOK, RenumberOK, MoveCheckOK, MoveWriteOK,
               PayContextOK, PayCashOK, PayDebitOK, PayRowOK
            DEF RegistryStep
  <1> QED BY <1>1, <1>2, <1>3, CommitOK DEF Step

(* Every step keeps the invariant.                                         *)
LEMMA NextOK ==
  ASSUME IInv, [Next]_vars
  PROVE  IInv'
  <1>1. CASE UNCHANGED vars
    <2>1. Shapes' /\ TablesOK'
      BY <1>1 DEF IInv, vars, tables, locks, Shapes, TablesOK, UniqueUsernames, OneWalletPerCurrency
    <2>2. ASSUME NEW s \in Session PROVE ThreadOK(s)'
      <3>1. UNCHANGED <<member, wallet, lastId, held, gap, tx, seen, pc, req, raced, improper>> /\ ThreadOK(s)
        BY <1>1 DEF IInv, vars, tables, locks
      <3>2. Labelled(s)' /\ Typed(s)' /\ CleanFirst(s)' /\ Joining(s)' /\ Unseen(s)'
        BY <3>1 DEF ThreadOK, Labelled, Typed, CleanFirst, Joining, Unseen, Fresh, At
      <3>3. Writing(s)' /\ Authenticated(s)' /\ Creating(s)' /\ Ordering(s)' /\ Removing(s)' /\ Paying(s)'
        BY <3>1 DEF ThreadOK, Writing, Authenticated, Creating, Ordering, Removing, NothingLeft, Paying, Busy, At, WalletsOf
      <3> QED BY <3>2, <3>3 DEF ThreadOK
    <2>3. ASSUME NEW s \in Session, NEW t \in Session, s # t PROVE Apart(s, t)'
      BY <1>1, <2>3 DEF IInv, vars, tables, locks, Apart, Fresh, Knows, At, Busy
    <2> QED BY <2>1, <2>2, <2>3 DEF IInv
  <1>2. CASE \E s \in Session : \E r \in Requests \cup OrderRequests : Receive(s, r)
    BY <1>2, ReceiveOK
  <1>3. CASE \E s \in Session : Step(s)
    BY <1>3, StepOK
  <1>4. CASE \E s \in Session : DeadlockAbort(s)
    BY <1>4, Returns DEF DeadlockAbort, Refuse
  <1>5. CASE \E s \in Session : LockWaitTimeout(s)
    <2>1. PICK s \in Session : LockWaitTimeout(s)
      BY <1>5
    <2> QED BY <2>1, Ends DEF LockWaitTimeout
  <1>6. CASE Crash
    BY <1>6, CrashOK
  <1>7. CASE Drained
    BY <1>1, <1>7 DEF Drained
  <1> QED BY <1>1, <1>2, <1>3, <1>4, <1>5, <1>6, <1>7 DEF Next

(* What a thread has checked or written stays so until it commits, unless  *)
(* its username is raced: the rows it relies on are locked or still its    *)
(* own, and what it reads without a lock only its username's threads write. *)
THEOREM Invariance == Spec => []IInv
  BY InitOK, NextOK, PTL DEF Spec

-----------------------------------------------------------------------------
(* What follows.                                                           *)

(* Every variable has its shape, and every wallet has a member.            *)
THEOREM TypesHold == Spec => []TypeOK
  <1>1. IInv => TypeOK
    BY DEF IInv, Shapes, TablesOK, ThreadOK, Typed, TypeOK
  <1> QED BY <1>1, Invariance, PTL

(* A username that was never raced belongs to one member.                  *)
THEOREM NamesStayUnique == Spec => []UniqueUsernames
  <1>1. IInv => UniqueUsernames
    BY DEF IInv, TablesOK
  <1> QED BY <1>1, Invariance, PTL

(* A member that was never raced has one wallet per currency.              *)
THEOREM OneWalletEach == Spec => []OneWalletPerCurrency
  <1>1. IInv => OneWalletPerCurrency
    BY DEF IInv, TablesOK
  <1> QED BY <1>1, Invariance, PTL

(* What the steps of a thread are, by what others see of them.             *)
LEMMA StepKinds ==
  ASSUME IInv, NEW t \in Session, Step(t)
  PROVE  \/ UNCHANGED tables /\ UNCHANGED <<pc, reply>>
         \/ UNCHANGED tables /\ \E l : l # "idle" /\ Goto(t, l)
         \/ UNCHANGED tables /\ \E error : error # "ok" /\ Answer(t, error)
         \/ pc[t] = "updateRow" /\ UNCHANGED tables /\ Answer(t, "ok")
         \/ CreateInsert(t) \/ LeaveRow(t) \/ Commit(t) \/ PayDebit(t) \/ PayRow(t)
  <1>1. ThreadOK(t)
    BY DEF IInv
  <1>2. CASE Authenticate(t, req[t].op)
    <2>1. pc[t] = "auth"
      BY <1>2 DEF Authenticate
    <2>2. req[t].op # "idle"
      BY <1>1, <2>1 DEF ThreadOK, Labelled, RequestOK, Ops
    <2> QED BY <1>2, <2>2 DEF Authenticate, Note, Refuse, Return
  <1>3. CASE JoinCheck(t)
    BY <1>3 DEF JoinCheck, Note, Refuse, Return
  <1>4. CASE JoinMember(t) \/ JoinWallet(t)
    BY <1>4 DEF JoinMember, JoinWallet
  <1>5. CASE WrongPassword(t) \/ UpdateMember(t)
    BY <1>5 DEF WrongPassword, UpdateMember, Refuse, Return
  <1>6. CASE Validate(t, "update", "updateRow") \/ Validate(t, "leave", "leaveRow")
    BY <1>6 DEF Validate, Note, Refuse, Return
  <1>7. CASE CreateFind(t) \/ CreateMax(t)
    BY <1>7 DEF CreateFind, CreateMax, Note, Refuse, Return
  <1>8. CASE OrderCheck(t)
    BY <1>8 DEF OrderCheck, Note, Refuse, Return
  <1>9. CASE LockRow(t)
    BY <1>9 DEF LockRow, Work
  <1>10. CASE OrderWrite(t)
    BY <1>10 DEF OrderWrite, Work
  <1>11. CASE RemoveCheck(t)
    <2>1. CASE \E verdict : verdict # "ok" /\ Refuse(t, verdict)
      BY <2>1 DEF Refuse, Return
    <2>2. CASE Note(t, seen[t]) /\ Goto(t, "removeRow")
      BY <2>2 DEF Note
    <2> QED BY <1>11, <2>1, <2>2 DEF RemoveCheck
  <1>12. CASE RemoveRow(t)
    BY <1>12 DEF RemoveRow, Work, Refuse, Return
  <1>13. CASE Renumber(t)
    BY <1>13 DEF Renumber
  <1>14. CASE MoveCheck(t)
    BY <1>14 DEF MoveCheck, Note, Refuse, Return
  <1>15. CASE MoveWrite(t)
    BY <1>15 DEF MoveWrite, Work, Refuse, Return
  <1>16. CASE PayContext(t)
    <2>1. CASE \E verdict : verdict # "ok" /\ Refuse(t, verdict)
      BY <2>1 DEF Refuse, Return
    <2>2. CASE Note(t, seen[t]) /\ Goto(t, "payCash")
      BY <2>2 DEF Note
    <2> QED BY <1>16, <2>1, <2>2 DEF PayContext
  <1>17. CASE PayCash(t)
    BY <1>17 DEF PayCash, Note, Refuse, Return
  <1> QED BY <1>2, <1>3, <1>4, <1>5, <1>6, <1>7, <1>8, <1>9, <1>10, <1>11, <1>12, <1>13, <1>14, <1>15,
             <1>16, <1>17
          DEF Step, AccountStep, RegistryStep

(* The steps that change the tables.                                       *)
LEMMA TableSteps ==
  ASSUME IInv, [Next]_vars
  PROVE  \/ UNCHANGED tables
         \/ \E t \in Session :
              CreateInsert(t) \/ LeaveRow(t) \/ Commit(t) \/ PayDebit(t) \/ PayRow(t)
  <1>1. CASE UNCHANGED vars \/ Crash \/ Drained
    BY <1>1 DEF vars, Crash, Drained
  <1>2. CASE \E s \in Session : \E r \in Requests \cup OrderRequests : Receive(s, r)
    BY <1>2 DEF Receive
  <1>3. CASE \E s \in Session : Step(s)
    BY <1>3, StepKinds
  <1>4. CASE \E s \in Session : DeadlockAbort(s) \/ LockWaitTimeout(s)
    BY <1>4 DEF DeadlockAbort, LockWaitTimeout, Refuse, Return
  <1> QED BY <1>1, <1>2, <1>3, <1>4 DEF Next

(* Creating a wallet adds it, deleting a member deletes nothing else, and  *)
(* a payment without a transaction only changes a wallet.                  *)
LEMMA QuietRows ==
  ASSUME NEW t, CreateInsert(t) \/ LeaveRow(t) \/ PayDebit(t) \/ PayRow(t)
  PROVE  DOMAIN wallet \subseteq DOMAIN wallet' /\ DOMAIN member' \subseteq DOMAIN member
  <1>1. CASE CreateInsert(t)
    BY <1>1 DEF CreateInsert, Refuse, Return, tables, Over
  <1>2. CASE LeaveRow(t)
    BY <1>2 DEF LeaveRow, Refuse, Return, tables
  <1>3. CASE PayDebit(t) \/ PayRow(t)
    BY <1>3 DEF PayDebit, PayRow, Refuse, Return, tables
  <1> QED BY <1>1, <1>2, <1>3

(* A wallet disappears only while nothing refers to it and nothing is left *)
(* in it.  Money that moved in a transaction after the balance check has   *)
(* left a row that makes the DELETE fail; what a GENERAL payment changes   *)
(* before its row is there is less by a non-negative amount, unless its    *)
(* member pays negative ones; after the DELETE the row is locked.          *)
THEOREM NoMoneyIsDeleted == Spec => MoneyNeverDeleted
  <1>1. ASSUME IInv, [Next]_vars, NEW w \in DOMAIN wallet \ DOMAIN wallet'
        PROVE  /\ ~wallet[w].used
               /\ wallet[w].balance <= 0 \/ member[wallet[w].owner] \in improper
    <2>1. PICK t \in Session : Commit(t)
      BY <1>1, TableSteps, QuietRows DEF tables
    <2>2. req[t].op # "join"
      BY <1>1, <2>1, CommitJoinOK
    <2>3. w = req[t].wallet /\ req[t].op = "remove"
      BY <1>1, <2>1, <2>2, CommitOtherOK
    <2>4. Removing(t) /\ Authenticated(t) /\ pc[t] = "commit"
      BY <1>1, <2>1 DEF IInv, ThreadOK, Commit
    <2>5. /\ NothingLeft(t) /\ ~wallet[w].used
          /\ wallet[w].owner = seen[t].id /\ seen[t].id \in DOMAIN member
      BY <1>1, <2>3, <2>4 DEF Removing, At, IInv, TablesOK
    <2>6. member[wallet[w].owner] = req[t].username
      BY <2>3, <2>4, <2>5 DEF Authenticated
    <2> QED BY <2>3, <2>5, <2>6 DEF NothingLeft
  <1>2. IInv /\ [Next]_vars =>
          [\A w \in DOMAIN wallet \ DOMAIN wallet' :
             /\ ~wallet[w].used
             /\ wallet[w].balance <= 0 \/ member[wallet[w].owner] \in improper]_vars
    BY <1>1
  <1> QED BY <1>2, Invariance, PTL DEF Spec, MoneyNeverDeleted

(* A member appears together with one CASH wallet.                         *)
THEOREM MembersHaveCash == Spec => JoinIsWhole
  <1>1. ASSUME IInv, [Next]_vars, NEW m \in DOMAIN member' \ DOMAIN member
        PROVE  Cardinality({ w \in WalletsOf(wallet', m) : wallet'[w].cash }) = 1
    <2>1. PICK t \in Session : Commit(t)
      BY <1>1, TableSteps, QuietRows DEF tables
    <2>2. req[t].op = "join"
      BY <1>1, <2>1, CommitOtherOK
    <2>3. m = seen[t].id
      BY <1>1, <2>1, <2>2, CommitJoinOK
    <2>4. PICK i : /\ i \notin DOMAIN wallet /\ DOMAIN wallet' = DOMAIN wallet \cup {i}
                   /\ wallet'[i] = CashRow(m)
                   /\ \A w \in DOMAIN wallet : wallet'[w] = wallet[w]
      BY <1>1, <2>1, <2>2, <2>3, CommitJoinOK
    <2>5. \A w \in DOMAIN wallet : wallet'[w].owner # m
      BY <1>1, <2>4 DEF IInv, TablesOK
    <2>6. CashRow(m).owner = m /\ CashRow(m).cash
      BY DEF CashRow
    <2>7. { w \in WalletsOf(wallet', m) : wallet'[w].cash } = {i}
      BY <2>4, <2>5, <2>6 DEF WalletsOf
    <2> QED BY <2>7, FS_Singleton
  <1>2. IInv /\ [Next]_vars => [\A m \in DOMAIN member' \ DOMAIN member :
          Cardinality({ w \in WalletsOf(wallet', m) : wallet'[w].cash }) = 1]_vars
    BY <1>1
  <1> QED BY <1>2, Invariance, PTL DEF Spec, JoinIsWhole

(* A deletion that is answered with ok has just committed.                 *)
LEMMA OkIsCommit ==
  ASSUME IInv, [Next]_vars, NEW s \in Session, Answers(s, "ok"), req[s].op = "remove"
  PROVE  Commit(s)
  <1>1. Shapes /\ Labelled(s) /\ pc[s] # "idle" /\ pc'[s] = "idle" /\ reply'[s] = "ok"
    BY DEF IInv, ThreadOK, Answers, Busy
  <1>2. pc[s] \notin {"updateRow", "createInsert", "leaveRow", "payDebit", "payRow"}
    BY <1>1 DEF Labelled, LabelsOf
  <1>3. CASE UNCHANGED vars \/ Crash \/ Drained
    BY <1>1, <1>3 DEF vars, Crash, Drained, Busy
  <1>4. CASE \E t \in Session : \E r \in Requests \cup OrderRequests : Receive(t, r)
    BY <1>1, <1>4 DEF Receive, Shapes
  <1>5. CASE \E t \in Session : DeadlockAbort(t) \/ LockWaitTimeout(t)
    BY <1>1, <1>5 DEF DeadlockAbort, LockWaitTimeout, Refuse, Return, Answer, Shapes
  <1>6. ASSUME NEW t \in Session, Step(t) PROVE Commit(s)
    <2>1. CASE UNCHANGED <<pc, reply>>
      BY <1>1, <2>1
    <2>2. CASE \E l : l # "idle" /\ Goto(t, l)
      BY <1>1, <2>2 DEF Goto, Shapes
    <2>3. CASE \E error : error # "ok" /\ Answer(t, error)
      BY <1>1, <2>3 DEF Answer, Shapes
    <2>4. CASE pc[t] = "updateRow" /\ Answer(t, "ok")
      BY <1>1, <1>2, <2>4 DEF Answer, Shapes
    <2>5. CASE CreateInsert(t)
      BY <1>1, <1>2, <2>5 DEF CreateInsert, Refuse, Return, Answer, Shapes
    <2>6. CASE LeaveRow(t)
      BY <1>1, <1>2, <2>6 DEF LeaveRow, Refuse, Return, Answer, Shapes
    <2>7. CASE Commit(t)
      BY <1>1, <2>7 DEF Commit, Answer, Shapes
    <2>8. CASE PayDebit(t)
      BY <1>1, <2>8 DEF PayDebit, Goto, Shapes
    <2>9. CASE PayRow(t)
      BY <1>1, <1>2, <2>9 DEF PayRow, Refuse, Return, Answer, Shapes
    <2> QED BY <1>6, <2>1, <2>2, <2>3, <2>4, <2>5, <2>6, <2>7, <2>8, <2>9, StepKinds
  <1> QED BY <1>3, <1>4, <1>5, <1>6 DEF Next

(* After a deletion the member's wallets are numbered from 1, because the  *)
(* range lock has kept new wallets of the member away since the numbering. *)
THEOREM DeletionNumbers == Spec => NumberedAfterDelete
  <1>1. ASSUME IInv, [Next]_vars, NEW s \in Session, Answers(s, "ok"), req[s].op = "remove"
        PROVE  LET left == WalletsOf(wallet', seen[s].id)
               IN { wallet'[w].order : w \in left } = 1 .. Cardinality(left)
    <2> DEFINE id == seen[s].id
               new == tx[s].wallet
    <2>1. Commit(s) /\ pc[s] = "commit"
      BY <1>1, OkIsCommit DEF Commit
    <2>2. /\ DOMAIN wallet' = DOMAIN wallet \ tx[s].gone
          /\ \A w \in DOMAIN wallet' : wallet'[w] = IF w \in DOMAIN new THEN new[w] ELSE wallet[w]
      BY <1>1, <2>1, CommitOtherOK
    <2>3. /\ DOMAIN new = WalletsOf(wallet, id) \ tx[s].gone
          /\ { new[w].order : w \in DOMAIN new } = 1 .. Cardinality(DOMAIN new)
      BY <1>1, <2>1 DEF IInv, ThreadOK, Removing, At
    <2>4. \A w \in DOMAIN new : new[w].owner = wallet[w].owner
      BY <1>1, <2>1 DEF IInv, ThreadOK, Writing, Same
    <2>5. WalletsOf(wallet', id) = DOMAIN new
      <3>1. \A w \in DOMAIN new : w \in DOMAIN wallet' /\ wallet'[w].owner = id
        BY <2>2, <2>3, <2>4 DEF WalletsOf
      <3>2. \A w \in DOMAIN wallet' : wallet'[w].owner = id => w \in DOMAIN new
        BY <2>2, <2>3 DEF WalletsOf
      <3> QED BY <3>1, <3>2 DEF WalletsOf
    <2>6. \A w \in DOMAIN new : wallet'[w] = new[w]
      BY <2>2, <2>3 DEF WalletsOf
    <2> HIDE DEF new
    <2>7. { wallet'[w].order : w \in DOMAIN new } = 1 .. Cardinality(DOMAIN new)
      BY <2>3, <2>6
    <2> QED BY <2>5, <2>7
  <1>2. IInv /\ [Next]_vars => [\A s \in Session :
          Answers(s, "ok") /\ req[s].op = "remove" =>
            LET left == WalletsOf(wallet', seen[s].id)
            IN { wallet'[w].order : w \in left } = 1 .. Cardinality(left)]_vars
    BY <1>1
  <1> QED BY <1>2, Invariance, PTL DEF Spec, NumberedAfterDelete

-----------------------------------------------------------------------------
(* Wallets stay in different places.                                       *)

(* updateWalletOrder goes on with the list f of the member m.              *)
Accepted(m, f) == DOMAIN f # {} /\ DOMAIN f \subseteq LocalWallets(m)

(* f puts the local wallets of m in the places they are in, rearranged.    *)
Arranged(m, f) ==
  /\ DOMAIN f = LocalWallets(m)
  /\ \A v, w \in DOMAIN f : v # w => f[v] # f[w]
  /\ \A w \in DOMAIN f : \E v \in DOMAIN f : f[w] = wallet[v].order

(* The place of w when s has committed.                                    *)
OrderAfter(s, w) == IF w \in DOMAIN tx[s].wallet THEN tx[s].wallet[w].order ELSE wallet[w].order

(* s serves a member who does one thing at a time, on the screens.         *)
Quiet(s) == Busy(s) /\ req[s].username \notin raced \cup improper

(* What the thread of a member who does one thing at a time relies on.     *)
Listing(s) ==
  pc[s] \in {"auth", "order"} /\ req[s].op = "order" /\ Quiet(s) =>
    \A m \in MembersOf(req[s].username) :
      Accepted(m, req[s].orders) => Arranged(m, req[s].orders)

Placing(s) ==
  Quiet(s) /\ seen[s].id \in DOMAIN member =>
    /\ pc[s] = "orderWrite" => Arranged(seen[s].id, req[s].orders)
    /\ pc[s] = "createInsert" =>
         \A w \in WalletsOf(wallet, seen[s].id) : wallet[w].order < seen[s].order
    /\ pc[s] = "commit" /\ req[s].op # "join" =>
         \A v, w \in WalletsOf(wallet, seen[s].id) \ tx[s].gone :
           v # w => OrderAfter(s, v) # OrderAfter(s, w)

OrdersInv ==
  /\ DistinctOrders
  /\ \A s \in Session : Listing(s) /\ Placing(s)

(* What the places depend on, besides the tables.                          *)
Resting(s) == pc'[s] = pc[s] /\ req'[s] = req[s] /\ tx'[s] = tx[s] /\ seen'[s] = seen[s]

PlacedLabels == {"auth", "order", "orderWrite", "createInsert", "commit"}

(* At the other labels there is nothing to keep.                           *)
LEMMA NotPlaced ==
  ASSUME NEW s \in Session, pc'[s] \notin PlacedLabels
  PROVE  Listing(s)' /\ Placing(s)'
  BY DEF Listing, Placing, PlacedLabels

(* Nothing happens to the tables, nor to what s knows.                     *)
LEMMA PlacedQuietly ==
  ASSUME NEW s \in Session, Resting(s), UNCHANGED tables, raced \subseteq raced' /\ improper \subseteq improper',
         Listing(s), Placing(s)
  PROVE  Listing(s)' /\ Placing(s)'
  <1>1. member' = member /\ wallet' = wallet
    BY DEF tables
  <1>2. Quiet(s)' => Quiet(s)
    BY DEF Quiet, Resting, Busy
  <1>3. MembersOf(req[s].username)' = MembersOf(req[s].username)
    BY <1>1 DEF Resting, MembersOf
  <1>4. \A m : LocalWallets(m)' = LocalWallets(m) /\ WalletsOf(wallet', m) = WalletsOf(wallet, m)
    BY <1>1 DEF LocalWallets, WalletsOf
  <1>5. \A m, f : (Arranged(m, f)' <=> Arranged(m, f)) /\ (Accepted(m, f)' <=> Accepted(m, f))
    BY <1>1, <1>4 DEF Arranged, Accepted
  <1>6. \A w : OrderAfter(s, w)' = OrderAfter(s, w)
    BY <1>1 DEF OrderAfter, Resting
  <1>7. Listing(s)'
    BY <1>2, <1>3, <1>5 DEF Listing, Resting
  <1>8. Placing(s)'
    BY <1>1, <1>2, <1>4, <1>5, <1>6 DEF Placing, Resting
  <1> QED BY <1>7, <1>8

(* A step of t leaves the wallets of members of other names in place.      *)
LEMMA Elsewhere ==
  ASSUME IInv, NEW t \in Session, Grown(t), NEW m \in DOMAIN member', member'[m] # req[t].username
  PROVE  /\ m \in DOMAIN member /\ member'[m] = member[m]
         /\ WalletsOf(wallet', m) = WalletsOf(wallet, m)
         /\ LocalWallets(m)' = LocalWallets(m)
         /\ \A w \in WalletsOf(wallet, m) : wallet'[w].order = wallet[w].order
  <1>1. m \in DOMAIN member /\ member'[m] = member[m]
    BY DEF Grown
  <1>2. m \notin Fresh(t)
    BY <1>1 DEF IInv, ThreadOK, Unseen
  <1>3. ASSUME NEW w \in DOMAIN wallet', wallet'[w].owner = m
        PROVE  w \in DOMAIN wallet /\ wallet[w].owner = m
    BY <1>1, <1>2, <1>3 DEF Grown, Rightful, Same
  <1>4. ASSUME NEW w \in DOMAIN wallet, wallet[w].owner = m
        PROVE  /\ w \in DOMAIN wallet' /\ wallet'[w].owner = m
               /\ wallet'[w].order = wallet[w].order /\ wallet'[w].cash = wallet[w].cash
    BY <1>1, <1>4 DEF Grown, Same
  <1>5. WalletsOf(wallet', m) = WalletsOf(wallet, m)
    BY <1>3, <1>4 DEF WalletsOf
  <1>6. LocalWallets(m)' = LocalWallets(m)
    BY <1>4, <1>5 DEF LocalWallets, WalletsOf
  <1> QED BY <1>1, <1>4, <1>5, <1>6 DEF WalletsOf

(* What another thread does to the tables is no business of s.             *)
LEMMA PlacedElsewhere ==
  ASSUME IInv, NEW s \in Session, NEW t \in Session, s # t, Resting(s), Busy(t), Grown(t),
         Listing(s), Placing(s)
  PROVE  Listing(s)' /\ Placing(s)'
  <1>1. raced \subseteq raced' /\ improper \subseteq improper'
    BY DEF Grown
  <1>2. Quiet(s)' => Quiet(s) /\ req[s].username # req[t].username
    BY <1>1 DEF IInv, Apart, Quiet, Resting, Busy
  <1>3. ASSUME NEW m \in DOMAIN member', member'[m] = req[s].username, Quiet(s)'
        PROVE  /\ m \in DOMAIN member /\ member[m] = req[s].username
               /\ WalletsOf(wallet', m) = WalletsOf(wallet, m)
               /\ LocalWallets(m)' = LocalWallets(m)
               /\ \A w \in WalletsOf(wallet, m) : wallet'[w].order = wallet[w].order
    BY <1>2, <1>3, Elsewhere
  <1>4. ASSUME NEW m \in DOMAIN member', member'[m] = req[s].username, Quiet(s)',
               Arranged(m, req[s].orders)
        PROVE  Arranged(m, req[s].orders)'
    <2>1. DOMAIN req[s].orders = LocalWallets(m)' /\ LocalWallets(m) \subseteq WalletsOf(wallet, m)
      BY <1>3, <1>4 DEF Arranged, LocalWallets
    <2>2. \A w \in DOMAIN req[s].orders : wallet'[w].order = wallet[w].order
      BY <1>3, <1>4, <2>1 DEF Arranged
    <2> QED BY <1>4, <2>1, <2>2 DEF Arranged, Resting
  <1>5. Listing(s)'
    <2> SUFFICES ASSUME pc[s] \in {"auth", "order"}, req[s].op = "order", Quiet(s)',
                        NEW m \in DOMAIN member', member'[m] = req[s].username,
                        Accepted(m, req[s].orders)'
                 PROVE  Arranged(m, req[s].orders)'
      BY DEF Listing, Resting, MembersOf
    <2>1. Accepted(m, req[s].orders) /\ m \in MembersOf(req[s].username)
      BY <1>3 DEF Accepted, Resting, MembersOf
    <2> QED BY <1>2, <1>4, <2>1 DEF Listing
  <1>6. ASSUME seen[s].id \in DOMAIN member', Quiet(s)', pc[s] \in {"orderWrite", "createInsert", "commit"},
               req[s].op # "join"
        PROVE  seen[s].id \in DOMAIN member /\ member'[seen[s].id] = req[s].username
    <2>1. seen[s].id \notin Fresh(t)
      BY DEF IInv, Apart, Knows
    <2>2. seen[s].id \in DOMAIN member /\ member'[seen[s].id] = member[seen[s].id]
      BY <1>6, <2>1 DEF Grown
    <2> QED BY <1>6, <2>2 DEF IInv, ThreadOK, Authenticated
  <1>7. pc[s] \in {"orderWrite", "createInsert"} => req[s].op # "join"
    BY DEF IInv, ThreadOK, Labelled, LabelsOf
  <1>8. Placing(s)'
    <2> SUFFICES ASSUME Quiet(s)', seen[s].id \in DOMAIN member',
                        pc[s] \in {"orderWrite", "createInsert", "commit"}, req[s].op # "join"
                 PROVE  Placing(s)'
      BY <1>7 DEF Placing, Resting
    <2>0. PICK m : m = seen[s].id
      OBVIOUS
    <2>1. m \in DOMAIN member /\ m \in DOMAIN member' /\ member'[m] = req[s].username /\ Quiet(s)
      BY <1>2, <1>6, <2>0
    <2>2. /\ WalletsOf(wallet', m) = WalletsOf(wallet, m)
          /\ \A w \in WalletsOf(wallet, m) : wallet'[w].order = wallet[w].order
      BY <1>3, <2>1
    <2>3. pc[s] = "orderWrite" => Arranged(m, req[s].orders)'
      BY <1>4, <2>0, <2>1 DEF Placing
    <2>4. pc[s] = "createInsert" => \A w \in WalletsOf(wallet', m) : wallet'[w].order < seen[s].order
      BY <2>0, <2>1, <2>2 DEF Placing
    <2>5. \A w \in WalletsOf(wallet, m) : OrderAfter(s, w)' = OrderAfter(s, w)
      BY <2>2 DEF OrderAfter, Resting
    <2>6. pc[s] = "commit" =>
            \A v, w \in WalletsOf(wallet', m) \ tx[s].gone : v # w => OrderAfter(s, v)' # OrderAfter(s, w)'
      BY <2>0, <2>1, <2>2, <2>5 DEF Placing
    <2> QED BY <2>0, <2>3, <2>4, <2>6 DEF Placing, Resting, Arranged
  <1> QED BY <1>5, <1>8

(* The ways in which a step of t ends.                                     *)
LEMMA Rests ==
  ASSUME Shapes, NEW t \in Session, NEW s \in Session \ {t},
         \/ \E answer : Return(t, answer)
         \/ \E answer : Released(t) /\ Answer(t, answer)
         \/ \E what, l : Note(t, what) /\ Goto(t, l)
         \/ \E rows, work : Work(t, rows, work) /\ UNCHANGED <<pc, req>>
         \/ \E rows, work, l : Work(t, rows, work) /\ Goto(t, l)
  PROVE  Resting(s)
  <1>1. CASE \E answer : Return(t, answer)
    BY <1>1 DEF Return, Released, Answer, Shapes, Resting
  <1>2. CASE \E answer : Released(t) /\ Answer(t, answer)
    BY <1>2 DEF Released, Answer, Shapes, Resting
  <1>3. CASE \E what, l : Note(t, what) /\ Goto(t, l)
    BY <1>3 DEF Note, Goto, Shapes, Resting
  <1>4. CASE \E rows, work : Work(t, rows, work) /\ UNCHANGED <<pc, req>>
    BY <1>4 DEF Work, Shapes, Resting
  <1>5. CASE \E rows, work, l : Work(t, rows, work) /\ Goto(t, l)
    BY <1>5 DEF Work, Goto, Shapes, Resting
  <1> QED BY <1>1, <1>2, <1>3, <1>4, <1>5

(* A step of t is no step of the other threads.                            *)
LEMMA OthersRest ==
  ASSUME IInv, NEW t \in Session, NEW s \in Session \ {t},
         \/ Step(t) \/ DeadlockAbort(t) \/ LockWaitTimeout(t)
         \/ \E r \in Requests \cup OrderRequests : Receive(t, r)
  PROVE  Resting(s)
  <1>1. Shapes
    BY DEF IInv
  <1>2. CASE Authenticate(t, req[t].op) \/ DeadlockAbort(t)
    BY <1>1, <1>2, Rests DEF Authenticate, DeadlockAbort, Refuse
  <1>3. CASE LockWaitTimeout(t) \/ \E r \in Requests \cup OrderRequests : Receive(t, r)
    BY <1>1, <1>3 DEF LockWaitTimeout, Receive, Released, Shapes, Resting
  <1>4. CASE JoinCheck(t) \/ WrongPassword(t) \/ UpdateMember(t)
    BY <1>1, <1>4, Rests DEF JoinCheck, WrongPassword, UpdateMember, Refuse
  <1>5. CASE JoinMember(t) \/ JoinWallet(t)
    BY <1>1, <1>5 DEF JoinMember, JoinWallet, Goto, Shapes, Resting
  <1>6. CASE Validate(t, "update", "updateRow") \/ Validate(t, "leave", "leaveRow")
    BY <1>1, <1>6, Rests DEF Validate, Refuse
  <1>7. CASE LeaveRow(t) \/ Commit(t) \/ CreateInsert(t)
    BY <1>1, <1>7, Rests DEF LeaveRow, Commit, CreateInsert, Refuse
  <1>8. CASE CreateFind(t) \/ CreateMax(t) \/ OrderCheck(t)
    BY <1>1, <1>8, Rests DEF CreateFind, CreateMax, OrderCheck, Refuse
  <1>9. CASE LockRow(t) \/ OrderWrite(t)
    BY <1>1, <1>9, Rests DEF LockRow, OrderWrite
  <1>10. CASE RemoveCheck(t)
    BY <1>1, <1>10, Rests DEF RemoveCheck, Refuse
  <1>11. CASE RemoveRow(t) \/ MoveWrite(t)
    BY <1>1, <1>11, Rests DEF RemoveRow, MoveWrite, Refuse
  <1>12. CASE Renumber(t)
    BY <1>1, <1>12 DEF Renumber, Goto, Shapes, Resting
  <1>13. CASE MoveCheck(t) \/ PayContext(t) \/ PayCash(t) \/ PayRow(t)
    BY <1>1, <1>13, Rests DEF MoveCheck, PayContext, PayCash, PayRow, Refuse
  <1>14. CASE PayDebit(t)
    BY <1>1, <1>14 DEF PayDebit, Goto, Shapes, Resting
  <1> QED BY <1>2, <1>3, <1>4, <1>5, <1>6, <1>7, <1>8, <1>9, <1>10, <1>11, <1>12, <1>13, <1>14
          DEF Step, AccountStep, RegistryStep

(* Where a thread goes when it ends a request or looks something up.       *)
LEMMA Goes ==
  ASSUME Shapes, NEW t \in Session
  PROVE  /\ \A answer : Return(t, answer) \/ Answer(t, answer) => pc'[t] = "idle"
         /\ \A l : Goto(t, l) => pc'[t] = l
  BY DEF Return, Answer, Goto, Shapes

(* The steps after which a thread relies on places.                        *)
LEMMA StepsToPlaces ==
  ASSUME IInv, NEW t \in Session, Step(t)
  PROVE  \/ pc'[t] \notin PlacedLabels
         \/ Authenticate(t, "order") \/ OrderCheck(t) \/ LockRow(t) \/ OrderWrite(t)
         \/ CreateMax(t) \/ Renumber(t) \/ MoveWrite(t) \/ JoinWallet(t)
  <1>1. Shapes /\ Labelled(t)
    BY DEF IInv, ThreadOK
  <1>2. CASE Authenticate(t, req[t].op)
    <2>1. pc[t] = "auth"
      BY <1>2 DEF Authenticate
    <2>2. req[t].op \in Ops
      BY <1>1, <2>1 DEF Labelled, RequestOK
    <2>3. CASE req[t].op = "order"
      BY <1>2, <2>3
    <2>4. CASE req[t].op # "order"
      <3>1. pc'[t] = "idle" \/ pc'[t] = req[t].op
        BY <1>1, <1>2, Goes DEF Authenticate, Refuse
      <3> QED BY <2>2, <2>4, <3>1 DEF PlacedLabels, Ops
    <2> QED BY <2>3, <2>4
  <1>3. CASE JoinCheck(t) \/ WrongPassword(t) \/ UpdateMember(t) \/ JoinMember(t)
    BY <1>1, <1>3, Goes DEF JoinCheck, WrongPassword, UpdateMember, JoinMember, Refuse, PlacedLabels
  <1>4. CASE Validate(t, "update", "updateRow") \/ Validate(t, "leave", "leaveRow")
    BY <1>1, <1>4, Goes DEF Validate, Refuse, PlacedLabels
  <1>5. CASE LeaveRow(t) \/ Commit(t) \/ CreateInsert(t) \/ CreateFind(t)
    BY <1>1, <1>5, Goes DEF LeaveRow, Commit, CreateInsert, CreateFind, Refuse, PlacedLabels
  <1>6. CASE RemoveCheck(t) \/ MoveCheck(t)
    BY <1>1, <1>6, Goes DEF RemoveCheck, MoveCheck, Refuse, PlacedLabels
  <1>7. CASE RemoveRow(t)
    BY <1>1, <1>7, Goes DEF RemoveRow, Refuse, PlacedLabels
  <1>8. CASE PayContext(t) \/ PayCash(t) \/ PayDebit(t) \/ PayRow(t)
    BY <1>1, <1>8, Goes DEF PayContext, PayCash, PayDebit, PayRow, Refuse, PlacedLabels
  <1> QED BY <1>2, <1>3, <1>4, <1>5, <1>6, <1>7, <1>8 DEF Step, AccountStep, RegistryStep

(* The member whom t has authenticated has places of its own.              *)
LEMMA OwnPlaces ==
  ASSUME IInv, DistinctOrders, NEW t \in Session, Quiet(t), pc[t] # "auth", req[t].op # "join",
         seen[t].id \in DOMAIN member
  PROVE  /\ member[seen[t].id] = req[t].username
         /\ \A v, w \in WalletsOf(wallet, seen[t].id) : v # w => wallet[v].order # wallet[w].order
  <1>1. member[seen[t].id] = req[t].username
    BY DEF IInv, ThreadOK, Authenticated, Quiet, Busy
  <1> QED BY <1>1 DEF DistinctOrders, WalletsOf, Quiet

(* A list that comes and is not improper is a screen of the tables as they *)
(* are, or will be refused.                                                *)
LEMMA ReceivePlaced ==
  ASSUME IInv, NEW t \in Session, NEW r, Receive(t, r)
  PROVE  Listing(t)' /\ Placing(t)'
  <1>1. /\ pc'[t] \in {"join", "auth"} /\ req'[t] = r /\ UNCHANGED <<member, wallet>>
    BY DEF IInv, Shapes, Receive, tables
  <1>2. Placing(t)'
    BY <1>1 DEF Placing
  <1>3. r.username \notin improper' => ~Improper(r)
    BY DEF Receive
  <1>4. \A m : LocalWallets(m)' = LocalWallets(m)
    BY <1>1 DEF LocalWallets, WalletsOf
  <1>5. ASSUME NEW m \in MembersOf(r.username), r.op = "order", r.username \notin improper',
               Accepted(m, r.orders)
        PROVE  Arranged(m, r.orders)'
    <2>1. r.orders \in Arrangements(m)
      BY <1>3, <1>5 DEF Improper, Accepted
    <2>2. Arranged(m, r.orders)
      BY <2>1 DEF Arrangements, Arranged, IsInjective
    <2> QED BY <1>1, <1>4, <2>2 DEF Arranged
  <1>6. Listing(t)'
    <2> SUFFICES ASSUME r.op = "order", r.username \notin improper',
                        NEW m \in MembersOf(r.username), Accepted(m, r.orders)
                 PROVE  Arranged(m, r.orders)'
      BY <1>1, <1>4 DEF Listing, Quiet, MembersOf, Accepted
    <2> QED BY <1>5
  <1> QED BY <1>2, <1>6

(* The list has only wallets of the member, so it is not refused, and it   *)
(* has all of them.                                                        *)
LEMMA OrderCheckPlaced ==
  ASSUME IInv, NEW t \in Session, Listing(t), OrderCheck(t)
  PROVE  Listing(t)' /\ Placing(t)'
  <1>1. Shapes /\ ThreadOK(t)
    BY DEF IInv
  <1>2. CASE Refuse(t, "UNAUTHORIZED_WALLET_ACCESS") \/ Refuse(t, "INTERNAL_SERVER_ERROR")
    BY <1>1, <1>2, Goes, NotPlaced DEF Refuse, PlacedLabels
  <1>3. CASE /\ pc[t] = "order" /\ Note(t, seen[t]) /\ Goto(t, "orderWrite")
             /\ DOMAIN req[t].orders # {} /\ DOMAIN req[t].orders \subseteq LocalWallets(seen[t].id)
    <2>1. /\ pc'[t] = "orderWrite" /\ req'[t] = req[t] /\ seen'[t] = seen[t]
          /\ UNCHANGED <<member, wallet, raced, improper>>
      BY <1>1, <1>3 DEF Note, Goto, Shapes, tables
    <2>2. req[t].op = "order"
      BY <1>1, <1>3 DEF ThreadOK, Labelled, RequestOK, Ops, LabelsOf
    <2>3. Accepted(seen[t].id, req[t].orders)
      BY <1>3 DEF Accepted
    <2>4. ASSUME Quiet(t)', seen[t].id \in DOMAIN member
          PROVE  Arranged(seen[t].id, req[t].orders)
      <3>1. Quiet(t)
        BY <1>3, <2>1, <2>4 DEF Quiet, Busy
      <3>2. member[seen[t].id] = req[t].username
        BY <1>1, <1>3, <2>2, <2>4 DEF ThreadOK, Authenticated
      <3> QED BY <1>3, <2>2, <2>3, <2>4, <3>1, <3>2 DEF Listing, MembersOf
    <2>5. Arranged(seen[t].id, req[t].orders) => Arranged(seen[t].id, req[t].orders)'
      BY <2>1 DEF Arranged, LocalWallets, WalletsOf
    <2>6. Placing(t)'
      BY <2>1, <2>4, <2>5 DEF Placing
    <2>7. Listing(t)'
      BY <2>1 DEF Listing
    <2> QED BY <2>6, <2>7
  <1> QED BY <1>2, <1>3 DEF OrderCheck

(* The order after the highest is behind all others.                       *)
LEMMA CreateMaxPlaced ==
  ASSUME IInv, NEW t \in Session, CreateMax(t)
  PROVE  Listing(t)' /\ Placing(t)'
  <1>1. Shapes /\ TablesOK /\ ThreadOK(t)
    BY DEF IInv
  <1>2. pc[t] = "createMax" /\ Note(t, [seen[t] EXCEPT !.order = NewOrder(t)]) /\ Goto(t, "createInsert")
    BY DEF CreateMax
  <1>3. req[t].currency \in Currency
    BY <1>1, <1>2 DEF ThreadOK, Labelled, RequestOK, Ops, LabelsOf
  <1>4. NewOrder(t) = HighestOrder(wallet, seen[t].id) + 1
    BY <1>3, AccountsAssumption DEF NewOrder
  <1>5. /\ pc'[t] = "createInsert" /\ wallet' = wallet
        /\ seen'[t].id = seen[t].id /\ seen'[t].order = NewOrder(t)
    BY <1>1, <1>2 DEF Note, Goto, Shapes, ThreadOK, Typed, tables
  <1>6. \A w \in WalletsOf(wallet, seen[t].id) : wallet[w].order \in Int
    BY <1>1 DEF TablesOK, WalletRow, WalletsOf
  <1>7. \A w \in WalletsOf(wallet, seen[t].id) : wallet[w].order < NewOrder(t)
    BY <1>1, <1>4, <1>6, HighestIsInt
  <1>8. Placing(t)'
    BY <1>5, <1>7 DEF Placing, WalletsOf
  <1>9. Listing(t)'
    BY <1>5 DEF Listing
  <1> QED BY <1>8, <1>9

(* A thread comes to its commit.                                           *)
LEMMA CommitPlaced ==
  ASSUME NEW t \in Session, pc'[t] = "commit", req'[t] = req[t], seen'[t] = seen[t],
         UNCHANGED <<member, wallet, raced, improper>>, Busy(t),
         Quiet(t) /\ seen[t].id \in DOMAIN member =>
           \A v, w \in WalletsOf(wallet, seen[t].id) \ tx'[t].gone :
             v # w => OrderAfter(t, v)' # OrderAfter(t, w)'
  PROVE  Listing(t)' /\ Placing(t)'
  <1>1. Quiet(t)' => Quiet(t)
    BY DEF Quiet
  <1>2. Placing(t)'
    BY <1>1 DEF Placing, WalletsOf
  <1>3. Listing(t)'
    BY DEF Listing
  <1> QED BY <1>2, <1>3

(* The listed wallets are all local ones, and they exchange their places.  *)
LEMMA OrderWritePlaced ==
  ASSUME IInv, DistinctOrders, NEW t \in Session, Placing(t), OrderWrite(t)
  PROVE  Listing(t)' /\ Placing(t)'
  <1>1. Shapes /\ ThreadOK(t)
    BY DEF IInv
  <1>2. pc[t] = "orderWrite" /\ Goto(t, "commit") /\ Needs(t) = DOMAIN req[t].orders \cap DOMAIN wallet
    BY DEF OrderWrite, Needs
  <1>3. req[t].op = "order" /\ tx[t] = NoWork
    BY <1>1, <1>2 DEF ThreadOK, CleanFirst, Labelled, RequestOK, Ops, LabelsOf
  <1> DEFINE old == Restrict(wallet, Needs(t))
             new == Reordered(old, req[t].orders)
  <1>4. /\ pc'[t] = "commit" /\ req'[t] = req[t] /\ seen'[t] = seen[t]
        /\ UNCHANGED <<member, wallet, raced, improper>>
        /\ tx'[t].wallet = new
    BY <1>1, <1>2, <1>3 DEF OrderWrite, Work, Goto, Shapes, tables, NoWork
  <1>5. DOMAIN new = Needs(t) /\ \A w \in Needs(t) : new[w].order = req[t].orders[w]
    <2>1. DOMAIN old = Needs(t) /\ \A w \in Needs(t) : old[w] \in WalletRow
      BY <1>2 DEF Restrict, IInv, TablesOK
    <2> QED BY <1>2, <2>1 DEF Reordered, WalletRow
  <1> HIDE DEF new
  <1>6. \A w : OrderAfter(t, w)' = IF w \in Needs(t) THEN req[t].orders[w] ELSE wallet[w].order
    BY <1>4, <1>5 DEF OrderAfter
  <1>7. ASSUME Quiet(t), seen[t].id \in DOMAIN member,
               NEW v \in WalletsOf(wallet, seen[t].id), NEW w \in WalletsOf(wallet, seen[t].id), v # w
        PROVE  OrderAfter(t, v)' # OrderAfter(t, w)'
    <2>1. /\ DOMAIN req[t].orders = LocalWallets(seen[t].id)
          /\ \A a, b \in DOMAIN req[t].orders : a # b => req[t].orders[a] # req[t].orders[b]
          /\ \A a \in DOMAIN req[t].orders : \E b \in DOMAIN req[t].orders : req[t].orders[a] = wallet[b].order
      BY <1>2, <1>7 DEF Placing, Arranged
    <2>2. Needs(t) = DOMAIN req[t].orders /\ Needs(t) \subseteq WalletsOf(wallet, seen[t].id)
      BY <1>2, <2>1 DEF LocalWallets, WalletsOf
    <2>3. \A a, b \in WalletsOf(wallet, seen[t].id) : a # b => wallet[a].order # wallet[b].order
      BY <1>2, <1>3, <1>7, OwnPlaces
    <2>4. CASE v \in Needs(t) /\ w \in Needs(t)
      BY <1>6, <1>7, <2>1, <2>2, <2>4
    <2>5. CASE v \notin Needs(t) /\ w \notin Needs(t)
      BY <1>6, <1>7, <2>3, <2>5
    <2>6. CASE v \in Needs(t) /\ w \notin Needs(t)
      <3>1. PICK b \in Needs(t) : req[t].orders[v] = wallet[b].order
        BY <2>1, <2>2, <2>6
      <3> QED BY <1>6, <1>7, <2>2, <2>3, <2>6, <3>1
    <2>7. CASE v \notin Needs(t) /\ w \in Needs(t)
      <3>1. PICK b \in Needs(t) : req[t].orders[w] = wallet[b].order
        BY <2>1, <2>2, <2>7
      <3> QED BY <1>6, <1>7, <2>2, <2>3, <2>7, <3>1
    <2> QED BY <2>4, <2>5, <2>6, <2>7
  <1>8. Busy(t)
    BY <1>2 DEF Busy
  <1> QED BY <1>4, <1>7, <1>8, CommitPlaced

(* The wallets that are left get a number each.                            *)
LEMMA RenumberPlaced ==
  ASSUME IInv, NEW t \in Session, Renumber(t)
  PROVE  Listing(t)' /\ Placing(t)'
  <1> DEFINE left == WalletsOf(Rows(t), seen[t].id)
  <1>1. Shapes /\ TablesOK /\ ThreadOK(t)
    BY DEF IInv
  <1>2. pc[t] = "renumber" /\ Goto(t, "commit") /\ UNCHANGED <<tables, lastId, seen>>
    BY DEF Renumber
  <1>3. tx[t].wallet = NoRows
    BY <1>1, <1>2 DEF ThreadOK, Removing
  <1>4. left = WalletsOf(wallet, seen[t].id) \ tx[t].gone
    <2>1. DOMAIN Rows(t) = DOMAIN wallet \ tx[t].gone
      BY <1>3 DEF Rows, Restrict, NoRows
    <2>2. \A i \in DOMAIN Rows(t) : Rows(t)[i] = wallet[i]
      BY <1>3 DEF Rows, Restrict, Over, NoRows
    <2> QED BY <2>1, <2>2 DEF WalletsOf
  <1>5. PICK f \in Bijection(left, 1 .. Cardinality(left)) :
          tx' = [tx EXCEPT ![t].wallet = Reordered(Restrict(wallet, left), f)]
    BY DEF Renumber
  <1>6. DOMAIN f = left /\ \A v, w \in left : v # w => f[v] # f[w]
    BY DEF Bijection, Injection, IsInjective
  <1>7. left \subseteq DOMAIN wallet
    BY <1>4 DEF WalletsOf
  <1> HIDE DEF left
  <1> DEFINE old == Restrict(wallet, left)
             new == Reordered(old, f)
  <1>8. DOMAIN new = left /\ \A w \in left : new[w].order = f[w]
    <2>1. DOMAIN old = left /\ \A w \in left : old[w] \in WalletRow
      BY <1>1, <1>7 DEF Restrict, TablesOK
    <2> QED BY <1>6, <2>1 DEF Reordered, WalletRow
  <1>9. /\ pc'[t] = "commit" /\ req'[t] = req[t] /\ seen'[t] = seen[t]
        /\ UNCHANGED <<member, wallet, raced, improper>>
        /\ tx'[t].wallet = new /\ tx'[t].gone = tx[t].gone
    BY <1>1, <1>2, <1>5 DEF Goto, Shapes, tables, ThreadOK, Typed
  <1> HIDE DEF new
  <1>10. \A w \in left : OrderAfter(t, w)' = f[w]
    BY <1>8, <1>9 DEF OrderAfter
  <1>11. \A v, w \in WalletsOf(wallet, seen[t].id) \ tx'[t].gone :
           v # w => OrderAfter(t, v)' # OrderAfter(t, w)'
    BY <1>4, <1>6, <1>9, <1>10
  <1>12. Busy(t)
    BY <1>2 DEF Busy
  <1> QED BY <1>9, <1>11, <1>12, CommitPlaced

(* A transfer or a payment leaves the wallet where it is.                  *)
LEMMA MoveWritePlaced ==
  ASSUME IInv, DistinctOrders, NEW t \in Session, MoveWrite(t)
  PROVE  Listing(t)' /\ Placing(t)'
  <1>1. Shapes /\ TablesOK /\ ThreadOK(t)
    BY DEF IInv
  <1>2. CASE Refuse(t, "INTERNAL_SERVER_ERROR")
    BY <1>1, <1>2, Goes, NotPlaced DEF Refuse, PlacedLabels
  <1> DEFINE x == req[t].wallet
             row == [wallet[x] EXCEPT !.balance = @ + req[t].amount, !.used = TRUE]
             work == [tx[t] EXCEPT !.wallet = [i \in {x} |-> row]]
  <1>3. CASE pc[t] = "moveWrite" /\ x \in DOMAIN wallet /\ Work(t, {x}, work) /\ Goto(t, "commit")
    <2>1. tx[t] = NoWork /\ req[t].op = "move"
      BY <1>1, <1>3 DEF ThreadOK, CleanFirst, Labelled, RequestOK, Ops, LabelsOf
    <2>2. row.order = wallet[x].order
      BY <1>1, <1>3 DEF TablesOK, WalletRow
    <2> HIDE DEF row
    <2>3. work.wallet = [i \in {x} |-> row]
      BY <2>1 DEF NoWork
    <2>4. /\ pc'[t] = "commit" /\ req'[t] = req[t] /\ seen'[t] = seen[t] /\ tx'[t] = work
          /\ UNCHANGED <<member, wallet, raced, improper>>
      BY <1>1, <1>3 DEF Work, Goto, Shapes, tables
    <2> HIDE DEF work
    <2>5. \A w : OrderAfter(t, w)' = wallet[w].order
      BY <2>2, <2>3, <2>4 DEF OrderAfter
    <2>6. Quiet(t) /\ seen[t].id \in DOMAIN member =>
            \A v, w \in WalletsOf(wallet, seen[t].id) : v # w => wallet[v].order # wallet[w].order
      BY <1>3, <2>1, OwnPlaces
    <2>7. Busy(t)
      BY <1>3 DEF Busy
    <2> QED BY <2>4, <2>5, <2>6, <2>7, CommitPlaced
  <1> QED BY <1>2, <1>3 DEF MoveWrite

(* The other steps of a thread keep what it relies on.                     *)
LEMMA OwnStepPlaced ==
  ASSUME IInv, OrdersInv, NEW t \in Session, Step(t)
  PROVE  Listing(t)' /\ Placing(t)'
  <1>1. Shapes /\ ThreadOK(t) /\ DistinctOrders /\ Listing(t) /\ Placing(t)
    BY DEF IInv, OrdersInv
  <1>2. CASE pc'[t] \notin PlacedLabels
    BY <1>2, NotPlaced
  <1>3. CASE Authenticate(t, "order")
    <2>1. CASE Refuse(t, "INTERNAL_SERVER_ERROR")
      BY <1>1, <2>1, Goes, NotPlaced DEF Refuse, PlacedLabels
    <2>2. CASE pc[t] = "auth" /\ \E what : Note(t, what) /\ Goto(t, "order")
      <3>1. pc'[t] = "order" /\ UNCHANGED <<member, wallet, req, raced, improper>>
        BY <1>1, <2>2, Goes DEF Note, Goto, tables
      <3>2. Placing(t)'
        BY <3>1 DEF Placing
      <3>3. \A m, f : (Arranged(m, f) => Arranged(m, f)') /\ (Accepted(m, f)' => Accepted(m, f))
        BY <3>1 DEF Arranged, Accepted, LocalWallets, WalletsOf
      <3>4. Quiet(t)' => Quiet(t)
        BY <2>2, <3>1 DEF Quiet, Busy
      <3>5. Listing(t)'
        <4>1. MembersOf(req[t].username)' = MembersOf(req[t].username)
          BY <3>1 DEF MembersOf
        <4> QED BY <1>1, <2>2, <3>1, <3>3, <3>4, <4>1 DEF Listing
      <3> QED BY <3>2, <3>5
    <2> QED BY <1>3, <2>1, <2>2 DEF Authenticate
  <1>4. CASE LockRow(t)
    <2>1. Resting(t) /\ UNCHANGED tables /\ UNCHANGED <<raced, improper>>
      BY <1>1, <1>4 DEF LockRow, Work, Shapes, Resting
    <2> QED BY <1>1, <2>1, PlacedQuietly
  <1>5. CASE JoinWallet(t)
    <2>1. pc'[t] = "commit" /\ req' = req /\ pc[t] = "joinWallet"
      BY <1>1, <1>5, Goes DEF JoinWallet, Goto
    <2>2. req[t].op = "join"
      BY <1>1, <2>1 DEF ThreadOK, Labelled, RequestOK, Ops, LabelsOf
    <2> QED BY <2>1, <2>2 DEF Listing, Placing
  <1> QED BY <1>1, <1>2, <1>3, <1>4, <1>5, StepsToPlaces, OrderCheckPlaced, OrderWritePlaced,
             CreateMaxPlaced, RenumberPlaced, MoveWritePlaced

(* Ids are given once, and a raced username stays one.                     *)
LEMMA OnlyGrow ==
  ASSUME IInv, [Next]_vars
  PROVE  lastId' \in Nat /\ lastId <= lastId' /\ raced \subseteq raced' /\ improper \subseteq improper'
  <1>1. Shapes /\ lastId' \in Nat
    BY NextOK DEF IInv, Shapes
  <1>2. lastId \in Nat
    BY <1>1 DEF Shapes
  <1>3. CASE UNCHANGED <<lastId, raced, improper>>
    BY <1>1, <1>2, <1>3
  <1>4. CASE lastId' = lastId + 1 /\ UNCHANGED <<raced, improper>>
    BY <1>1, <1>2, <1>4
  <1>5. CASE \E s \in Session : \E r \in Requests \cup OrderRequests : Receive(s, r)
    BY <1>1, <1>2, <1>5 DEF Receive
  <1>6. CASE UNCHANGED vars \/ Crash \/ Drained \/ \E s \in Session : DeadlockAbort(s) \/ LockWaitTimeout(s)
    <2>1. UNCHANGED <<lastId, raced, improper>>
      BY <1>6 DEF vars, Crash, Drained, DeadlockAbort, LockWaitTimeout, Refuse, Return, Answer
    <2> QED BY <1>3, <2>1
  <1>7. ASSUME NEW t \in Session, Step(t)
        PROVE  UNCHANGED <<lastId, raced, improper>> \/ (lastId' = lastId + 1 /\ UNCHANGED <<raced, improper>>)
    <2>1. CASE Authenticate(t, req[t].op)
      BY <2>1 DEF Authenticate, Refuse, Return, Answer, Note, Goto
    <2>2. CASE AccountStep(t)
      <3>1. CASE JoinCheck(t) \/ WrongPassword(t) \/ UpdateMember(t)
        BY <3>1 DEF JoinCheck, WrongPassword, UpdateMember, Refuse, Return, Answer, Note, Goto
      <3>2. CASE JoinMember(t) \/ JoinWallet(t)
        BY <3>2 DEF JoinMember, JoinWallet, Goto
      <3>3. CASE Validate(t, "update", "updateRow") \/ Validate(t, "leave", "leaveRow")
        BY <3>3 DEF Validate, Refuse, Return, Answer, Note, Goto
      <3>4. CASE LeaveRow(t)
        BY <3>4 DEF LeaveRow, Refuse, Return, Answer
      <3> QED BY <2>2, <3>1, <3>2, <3>3, <3>4 DEF AccountStep
    <2>3. CASE RegistryStep(t)
      <3>1. CASE CreateFind(t) \/ CreateMax(t) \/ OrderCheck(t) \/ MoveCheck(t)
        BY <3>1 DEF CreateFind, CreateMax, OrderCheck, MoveCheck, Refuse, Return, Answer, Note, Goto
      <3>2. CASE CreateInsert(t)
        BY <3>2 DEF CreateInsert, Refuse, Return, Answer
      <3>3. CASE LockRow(t) \/ OrderWrite(t) \/ RemoveRow(t) \/ MoveWrite(t)
        BY <3>3 DEF LockRow, OrderWrite, RemoveRow, MoveWrite, Refuse, Return, Answer, Work, Goto
      <3>4. CASE RemoveCheck(t)
        BY <3>4 DEF RemoveCheck, Refuse, Return, Answer, Note, Goto
      <3>5. CASE Renumber(t) \/ PayDebit(t)
        BY <3>5 DEF Renumber, PayDebit, Goto
      <3>6. CASE PayContext(t)
        BY <3>6 DEF PayContext, Refuse, Return, Answer, Note, Goto
      <3>7. CASE PayCash(t)
        BY <3>7 DEF PayCash, Refuse, Return, Answer, Note, Goto
      <3>8. CASE PayRow(t)
        BY <3>8 DEF PayRow, Refuse, Return, Answer
      <3> QED BY <2>3, <3>1, <3>2, <3>3, <3>4, <3>5, <3>6, <3>7, <3>8 DEF RegistryStep
    <2>4. CASE Commit(t)
      BY <2>4 DEF Commit, Answer
    <2> QED BY <1>7, <2>1, <2>2, <2>3, <2>4 DEF Step
  <1> QED BY <1>3, <1>4, <1>5, <1>6, <1>7 DEF Next

(* A change of the tables is one of these, by a thread with a request.     *)
LEMMA TablesGrow ==
  ASSUME IInv, NEW t \in Session,
         CreateInsert(t) \/ LeaveRow(t) \/ Commit(t) \/ PayDebit(t) \/ PayRow(t)
  PROVE  Busy(t) /\ (UNCHANGED tables \/ Grown(t))
  <1>1. Busy(t)
    BY DEF CreateInsert, LeaveRow, Commit, PayDebit, PayRow, Busy
  <1>2. UNCHANGED tables \/ Grown(t)
    BY CreateInsertOK, LeaveRowOK, CommitJoinOK, CommitOtherOK, PayDebitOK, PayRowOK
  <1> QED BY <1>1, <1>2

(* Two wallets of one member do not come to the same place.                *)
LEMMA PlacesKept ==
  ASSUME IInv, OrdersInv, NEW t \in Session, Grown(t), IInv',
         CreateInsert(t) \/ LeaveRow(t) \/ Commit(t) \/ PayDebit(t) \/ PayRow(t)
  PROVE  DistinctOrders'
  <1> SUFFICES ASSUME NEW v \in DOMAIN wallet', NEW w \in DOMAIN wallet', v # w,
                      wallet'[v].owner = wallet'[w].owner, wallet'[v].order = wallet'[w].order,
                      member'[wallet'[v].owner] \notin raced' \cup improper'
               PROVE  FALSE
    BY DEF DistinctOrders
  <1>0. PICK o : o = wallet'[v].owner
    OBVIOUS
  <1>1. /\ o \in DOMAIN member' /\ wallet'[w].owner = o /\ member'[o] \notin raced'
        /\ member'[o] \notin raced \cup improper
    BY <1>0 DEF IInv, TablesOK, Grown
  <1>2. Shapes /\ TablesOK /\ ThreadOK(t) /\ DistinctOrders /\ Placing(t) /\ Busy(t)
    BY TablesGrow DEF IInv, OrdersInv
  <1>3. ASSUME NEW a \in DOMAIN wallet, NEW b \in DOMAIN wallet, a # b, o \in DOMAIN member,
               member[o] = member'[o], wallet[a].owner = o, wallet[b].owner = o
        PROVE  wallet[a].order # wallet[b].order
    BY <1>1, <1>2, <1>3 DEF DistinctOrders
  <1>4. CASE member'[o] # req[t].username
    <2>1. /\ o \in DOMAIN member /\ member'[o] = member[o]
          /\ WalletsOf(wallet', o) = WalletsOf(wallet, o)
          /\ \A u \in WalletsOf(wallet, o) : wallet'[u].order = wallet[u].order
      BY <1>1, <1>4, Elsewhere
    <2>2. v \in WalletsOf(wallet, o) /\ w \in WalletsOf(wallet, o)
      BY <1>0, <1>1, <2>1 DEF WalletsOf
    <2> QED BY <1>3, <2>1, <2>2 DEF WalletsOf
  <1>5. CASE member'[o] = req[t].username
    <2>1. Quiet(t)
      BY <1>1, <1>2, <1>5 DEF Quiet
    <2>2. ASSUME o \in DOMAIN member, member[o] = member'[o], seen[t].id \in DOMAIN member, req[t].op # "join",
                 pc[t] # "auth"
          PROVE  o = seen[t].id
      <3>1. member[seen[t].id] = req[t].username
        BY <1>2, <2>1, <2>2 DEF ThreadOK, Authenticated, Busy
      <3> QED BY <1>1, <1>2, <1>5, <2>2, <3>1 DEF TablesOK, UniqueUsernames
    <2>3. CASE LeaveRow(t)
      <3>1. wallet' = wallet /\ (member' = member \/ member' = [m \in DOMAIN member \ MembersOf(req[t].username) |-> member[m]])
        BY <2>3 DEF LeaveRow, Refuse, Return, tables
      <3>2. o \in DOMAIN member /\ member[o] = member'[o]
        BY <1>1, <3>1
      <3> QED BY <1>0, <1>1, <1>3, <3>1, <3>2
    <2>4. CASE CreateInsert(t)
      <3>1. CASE UNCHANGED tables
        BY <1>0, <1>1, <1>3, <3>1 DEF tables
      <3>2. CASE /\ member' = member /\ seen[t].id \in DOMAIN member
                 /\ wallet' = Over([j \in {lastId + 1} |-> NewWallet(t)], wallet)
        <4>1. PICK i : i = lastId + 1
          OBVIOUS
        <4>2. pc[t] = "createInsert" /\ req[t].op # "join"
          BY <1>2, <2>4 DEF CreateInsert, ThreadOK, Labelled, LabelsOf
        <4>3. o = seen[t].id
          BY <1>1, <2>2, <3>2, <4>2
        <4>4. \A u \in WalletsOf(wallet, o) : wallet[u].order < seen[t].order /\ wallet[u].order \in Int
          BY <1>2, <2>1, <3>2, <4>2, <4>3 DEF Placing, TablesOK, WalletRow, WalletsOf
        <4>5. i \notin DOMAIN wallet
          BY <1>2, <4>1 DEF Shapes, TablesOK
        <4>6. /\ DOMAIN wallet' = DOMAIN wallet \cup {i} /\ wallet'[i] = NewWallet(t)
              /\ \A u \in DOMAIN wallet : wallet'[u] = wallet[u]
          BY <3>2, <4>1, <4>5 DEF Over
        <4>7. NewWallet(t).order = seen[t].order /\ seen[t].order \in Int
          BY <1>2 DEF NewWallet, ThreadOK, Typed
        <4>8. CASE v \in DOMAIN wallet /\ w \in DOMAIN wallet
          BY <1>0, <1>1, <1>3, <3>2, <4>3, <4>6, <4>8
        <4>9. CASE v = i /\ w \in DOMAIN wallet
          <5>1. wallet[w].order < seen[t].order /\ wallet[w].order \in Int
            BY <1>1, <4>4, <4>6, <4>9 DEF WalletsOf
          <5>2. wallet[w].order = seen[t].order
            BY <4>6, <4>7, <4>9
          <5> QED BY <4>7, <5>1, <5>2
        <4>10. CASE w = i /\ v \in DOMAIN wallet
          <5>1. wallet[v].order < seen[t].order /\ wallet[v].order \in Int
            BY <1>0, <4>4, <4>6, <4>10 DEF WalletsOf
          <5>2. wallet[v].order = seen[t].order
            BY <4>6, <4>7, <4>10
          <5> QED BY <4>7, <5>1, <5>2
        <4> QED BY <4>6, <4>8, <4>9, <4>10
      <3> QED BY <2>4, <3>1, <3>2 DEF CreateInsert, Refuse, Return
    <2>5. CASE Commit(t) /\ req[t].op = "join"
      <3>1. DOMAIN member' = DOMAIN member \cup {seen[t].id}
        BY <2>5, CommitJoinOK
      <3>2. PICK i : /\ i \notin DOMAIN wallet /\ DOMAIN wallet' = DOMAIN wallet \cup {i}
                     /\ wallet'[i] = CashRow(seen[t].id)
                     /\ \A u \in DOMAIN wallet : wallet'[u] = wallet[u]
        BY <2>5, CommitJoinOK
      <3>3. At(t, "join", "commit")
        BY <2>5 DEF Commit, At
      <3>4. /\ tx[t].member = [j \in {seen[t].id} |-> req[t].username]
            /\ \A m \in DOMAIN member : member[m] = req[t].username => req[t].username \in raced
        BY <1>2, <3>3 DEF ThreadOK, Joining
      <3>5. seen[t].id \notin DOMAIN member
        BY <1>2, <3>4 DEF ThreadOK, Unseen, Fresh
      <3>6. \A m \in DOMAIN member : member'[m] = member[m]
        BY <2>5, <3>4, <3>5 DEF Commit, Over
      <3>7. o = seen[t].id
        BY <1>1, <1>5, <3>1, <3>4, <3>6
      <3>8. \A u \in DOMAIN wallet : wallet'[u].owner # o
        BY <1>2, <3>2, <3>5, <3>7 DEF TablesOK
      <3> QED BY <1>0, <1>1, <3>2, <3>8
    <2>6. CASE Commit(t) /\ req[t].op # "join"
      <3>1. pc[t] = "commit" /\ DOMAIN member' = DOMAIN member
        BY <2>6, CommitOtherOK DEF Commit
      <3>2. /\ DOMAIN wallet' = DOMAIN wallet \ tx[t].gone
            /\ \A u \in DOMAIN wallet' :
                 wallet'[u] = IF u \in DOMAIN tx[t].wallet THEN tx[t].wallet[u] ELSE wallet[u]
        BY <2>6, CommitOtherOK
      <3>3. \A u \in DOMAIN wallet' : wallet'[u].owner = wallet[u].owner /\ wallet'[u].order = OrderAfter(t, u)
        BY <3>2 DEF OrderAfter, Grown, Same
      <3>4. o \in DOMAIN member /\ member[o] = member'[o]
        <4>1. tx[t].member = NoRows
          BY <1>2, <2>6, <3>1 DEF ThreadOK, Writing
        <4> QED BY <1>1, <2>6, <3>1, <4>1 DEF Commit, Over, NoRows
      <3>5. v \in WalletsOf(wallet, o) \ tx[t].gone /\ w \in WalletsOf(wallet, o) \ tx[t].gone
        BY <1>0, <1>1, <3>2, <3>3 DEF WalletsOf
      <3>6. CASE seen[t].id \in DOMAIN member
        <4>1. o = seen[t].id
          BY <2>2, <2>6, <3>1, <3>4, <3>6
        <4>2. OrderAfter(t, v) # OrderAfter(t, w)
          BY <1>2, <2>1, <2>6, <3>1, <3>5, <3>6, <4>1 DEF Placing
        <4> QED BY <3>3, <4>2
      <3>7. CASE seen[t].id \notin DOMAIN member
        <4>1. \A u \in DOMAIN tx[t].wallet : tx[t].wallet[u].order # wallet[u].order => wallet[u].owner = seen[t].id
          BY <1>2, <2>6, <3>1 DEF ThreadOK, Writing
        <4>2. \A u \in WalletsOf(wallet, o) : OrderAfter(t, u) = wallet[u].order
          BY <3>4, <3>7, <4>1 DEF OrderAfter, WalletsOf
        <4>3. wallet[v].order = wallet[w].order
          BY <3>3, <3>5, <4>2
        <4> QED BY <1>3, <3>4, <3>5, <4>3 DEF WalletsOf
      <3> QED BY <3>6, <3>7
    <2>7. CASE PayDebit(t) \/ PayRow(t)
      <3>1. /\ member' = member /\ DOMAIN wallet' = DOMAIN wallet
            /\ \A u \in DOMAIN wallet : wallet'[u].order = wallet[u].order
        <4>1. CASE PayDebit(t)
          <5>1. PICK x : x = seen[t].cash
            OBVIOUS
          <5>2. wallet' = IF x \in DOMAIN wallet THEN [wallet EXCEPT ![x].balance = @ - req[t].amount] ELSE wallet
            BY <4>1, <5>1 DEF PayDebit
          <5> QED BY <4>1, <5>2 DEF PayDebit
        <4>2. CASE PayRow(t)
          <5>1. CASE Refuse(t, "INTERNAL_SERVER_ERROR")
            BY <5>1 DEF Refuse, Return, tables
          <5>2. CASE member' = member /\ wallet' = [wallet EXCEPT ![seen[t].cash].used = TRUE]
            <6>1. PICK x : x = seen[t].cash
              OBVIOUS
            <6>2. wallet' = [wallet EXCEPT ![x].used = TRUE]
              BY <5>2, <6>1
            <6> QED BY <5>2, <6>2
          <5> QED BY <4>2, <5>1, <5>2 DEF PayRow
        <4> QED BY <2>7, <4>1, <4>2
      <3>2. \A u \in DOMAIN wallet' : wallet'[u].owner = wallet[u].owner
        BY <3>1 DEF Grown, Same
      <3> QED BY <1>0, <1>1, <1>3, <3>1, <3>2
    <2> QED BY <2>3, <2>4, <2>5, <2>6, <2>7
  <1> QED BY <1>4, <1>5

(* The opening wallets are in places of their own, and nobody is busy.     *)
LEMMA InitOrders ==
  ASSUME Init
  PROVE  OrdersInv
  <1>2. DistinctOrders
    BY OpeningAssumption DEF Init, DistinctOrders
  <1>4. ASSUME NEW s \in Session PROVE Listing(s) /\ Placing(s)
    BY DEF Init, Listing, Placing, Quiet, Busy
  <1> QED BY <1>2, <1>4 DEF OrdersInv

(* Every step of a thread keeps what the threads rely on.                  *)
LEMMA StepPlaced ==
  ASSUME IInv, OrdersInv, [Next]_vars, NEW t \in Session, Step(t), NEW s \in Session
  PROVE  Listing(s)' /\ Placing(s)'
  <1>1. CASE s = t
    BY <1>1, OwnStepPlaced
  <1>2. CASE s # t
    <2>1. Resting(s)
      BY <1>2, OthersRest
    <2>2. Listing(s) /\ Placing(s) /\ raced \subseteq raced' /\ improper \subseteq improper'
      BY OnlyGrow DEF OrdersInv
    <2>3. CASE UNCHANGED tables
      BY <2>1, <2>2, <2>3, PlacedQuietly
    <2>4. CASE CreateInsert(t) \/ LeaveRow(t) \/ Commit(t) \/ PayDebit(t) \/ PayRow(t)
      <3>1. Busy(t) /\ (UNCHANGED tables \/ Grown(t))
        BY <2>4, TablesGrow
      <3> QED BY <1>2, <2>1, <2>2, <2>3, <3>1, PlacedElsewhere
    <2> QED BY <2>3, <2>4, StepKinds
  <1> QED BY <1>1, <1>2

(* Every step keeps the wallets in different places.                       *)
LEMMA NextOrders ==
  ASSUME IInv, OrdersInv, [Next]_vars
  PROVE  OrdersInv'
  <1>1. IInv' /\ raced \subseteq raced' /\ improper \subseteq improper'
    BY NextOK, OnlyGrow
  <1>2. DistinctOrders'
    <2>1. CASE UNCHANGED tables
      BY <1>1, <2>1 DEF OrdersInv, DistinctOrders, tables
    <2>2. CASE \E t \in Session :
                 CreateInsert(t) \/ LeaveRow(t) \/ Commit(t) \/ PayDebit(t) \/ PayRow(t)
      BY <1>1, <2>1, <2>2, TablesGrow, PlacesKept
    <2> QED BY <2>1, <2>2, TableSteps
  <1>4. ASSUME NEW s \in Session PROVE Listing(s)' /\ Placing(s)'
    <2>1. Listing(s) /\ Placing(s) /\ Shapes
      BY DEF OrdersInv, IInv
    <2>2. CASE UNCHANGED vars
      BY <1>1, <2>1, <2>2, PlacedQuietly DEF vars, Resting
    <2>3. CASE \E t \in Session : \E r \in Requests \cup OrderRequests : Receive(t, r)
      <3>1. PICK t \in Session, r \in Requests \cup OrderRequests : Receive(t, r)
        BY <2>3
      <3>2. CASE s = t
        BY <3>1, <3>2, ReceivePlaced
      <3>3. CASE s # t
        <4>1. Resting(s) /\ UNCHANGED tables
          BY <3>1, <3>3, OthersRest DEF Receive
        <4> QED BY <1>1, <2>1, <4>1, PlacedQuietly
      <3> QED BY <3>2, <3>3
    <2>4. CASE \E t \in Session : Step(t)
      BY <2>4, StepPlaced
    <2>5. CASE \E t \in Session : DeadlockAbort(t) \/ LockWaitTimeout(t)
      <3>1. PICK t \in Session : DeadlockAbort(t) \/ LockWaitTimeout(t)
        BY <2>5
      <3>2. CASE s = t
        <4>1. pc'[t] = "idle"
          BY <2>1, <3>1 DEF DeadlockAbort, LockWaitTimeout, Refuse, Return, Answer, Shapes
        <4> QED BY <3>2, <4>1, NotPlaced DEF PlacedLabels
      <3>3. CASE s # t
        <4>1. Resting(s) /\ UNCHANGED tables
          BY <3>1, <3>3, OthersRest DEF DeadlockAbort, LockWaitTimeout, Refuse, Return
        <4> QED BY <1>1, <2>1, <4>1, PlacedQuietly
      <3> QED BY <3>2, <3>3
    <2>6. CASE Crash
      BY <2>6, NotPlaced DEF Crash, PlacedLabels
    <2>7. CASE Drained
      BY <2>2, <2>7 DEF Drained
    <2> QED BY <2>2, <2>3, <2>4, <2>5, <2>6, <2>7 DEF Next
  <1> QED BY <1>2, <1>4 DEF OrdersInv

(* A member's wallets are in different places unless two of the member's   *)
(* requests were in service at once or the member sent what no screen      *)
(* sends: updateWalletOrder checks neither that a list has all of the      *)
(* member's wallets nor that its places differ.                            *)
THEOREM WalletsInDifferentPlaces == Spec => []DistinctOrders
  <1>1. Init => OrdersInv
    BY InitOrders
  <1>2. IInv /\ OrdersInv /\ [Next]_vars => OrdersInv'
    BY NextOrders
  <1>3. OrdersInv => DistinctOrders
    BY DEF OrdersInv
  <1> QED BY <1>1, <1>2, <1>3, Invariance, PTL DEF Spec

=============================================================================
