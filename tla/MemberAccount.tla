---------------------------- MODULE MemberAccount ----------------------------
(***************************************************************************)
(* MemberServiceImpl: join, update and delete, and the lookup of the       *)
(* member that precedes every request with a token.  Passwords are the     *)
(* client's input: a request may turn out to have the wrong one.           *)
(***************************************************************************)
EXTENDS AccountStore

(* JwtAuthenticationFilter loads the member by the username of the token;  *)
(* nothing handles the exception when there is none, or more than one.     *)
Authenticate(s, handler) ==
  LET found == MembersOf(req[s].username) IN
  /\ pc[s] = "auth"
  /\ \/ /\ Cardinality(found) # 1
        /\ Refuse(s, "INTERNAL_SERVER_ERROR")
     \/ \E m \in found :
          /\ found = {m}
          /\ Note(s, [NothingSeen EXCEPT !.id = m])
          /\ Goto(s, handler)

-----------------------------------------------------------------------------
(* join: one transaction, with createWallet called inside it.              *)

(* Mutant: the username is not looked up.                                  *)
JoinUnchecked(s) ==
  /\ pc[s] = "join"
  /\ Note(s, NothingSeen)
  /\ Goto(s, "joinMember")

JoinCheck(s) ==
  LET taken == MembersOf(req[s].username) IN
  /\ pc[s] = "join"
  /\ \/ /\ Cardinality(taken) = 1
        /\ Refuse(s, "DUPLICATED_USERNAME")
     \/ /\ Cardinality(taken) > 1
        /\ Refuse(s, "INTERNAL_SERVER_ERROR")
     \/ /\ taken = {}
        /\ Note(s, NothingSeen)
        /\ Goto(s, "joinMember")

(* Mutant: without the transaction the member is there before its wallet.  *)
JoinMemberAlone(s) ==
  /\ pc[s] = "joinMember"
  /\ lastId' = lastId + 1
  /\ member' = Over([i \in {lastId + 1} |-> req[s].username], member)
  /\ seen' = [seen EXCEPT ![s].id = lastId + 1]
  /\ Goto(s, "joinWallet")
  /\ UNCHANGED <<wallet, locks, tx>>

JoinMember(s) ==
  /\ pc[s] = "joinMember"
  /\ lastId' = lastId + 1
  /\ tx' = [tx EXCEPT ![s].member = [i \in {lastId + 1} |-> req[s].username]]
  /\ seen' = [seen EXCEPT ![s].id = lastId + 1]
  /\ Goto(s, "joinWallet")
  /\ UNCHANGED <<tables, locks>>

(* createWallet of the CASH wallet: its lookup compares with NULL and      *)
(* finds nothing, its display order is 1.                                  *)
JoinWallet(s) ==
  /\ pc[s] = "joinWallet"
  /\ lastId' = lastId + 1
  /\ tx' = [tx EXCEPT ![s].wallet = [i \in {lastId + 1} |->
       [owner |-> seen[s].id, currency |-> NoCurrency, cash |-> TRUE,
        balance |-> 0, order |-> 1, used |-> FALSE]]]
  /\ Goto(s, "commit")
  /\ UNCHANGED <<tables, locks, seen>>

-----------------------------------------------------------------------------
(* update and delete.                                                      *)

WrongPassword(s) ==
  /\ pc[s] \in {"update", "leave"}
  /\ Cardinality(MembersOf(req[s].username)) = 1
  /\ Refuse(s, "INVALID_PASSWORD")

(* validateMember with the right password.                                 *)
Validate(s, from, to) ==
  LET found == MembersOf(req[s].username) IN
  /\ pc[s] = from
  /\ \/ /\ found = {}
        /\ Refuse(s, "USER_NOT_FOUND")
     \/ /\ Cardinality(found) > 1
        /\ Refuse(s, "INTERNAL_SERVER_ERROR")
     \/ /\ Cardinality(found) = 1
        /\ Note(s, seen[s])
        /\ Goto(s, to)

(* UPDATE and DELETE find the username without an index: they read every   *)
(* member row and wait for the uncommitted ones.                           *)
ScanWaitsFor(s) == { t \in Session \ {s} : DOMAIN tx[t].member # {} }

(* The name is written, which no other part of the model reads, and the    *)
(* member is read again for the answer.                                    *)
UpdateMember(s) ==
  /\ pc[s] = "updateRow"
  /\ ScanWaitsFor(s) = {}
  /\ \/ /\ Cardinality(MembersOf(req[s].username)) = 1
        /\ Return(s, "ok")
     \/ /\ Cardinality(MembersOf(req[s].username)) # 1
        /\ Refuse(s, "INTERNAL_SERVER_ERROR")

(* The foreign key of wallet refuses the DELETE, after waiting for wallet  *)
(* rows of the member that are being changed.                              *)
LeaveWaitsFor(s) ==
  ScanWaitsFor(s) \cup
  { t \in Session \ {s} :
      \E m \in MembersOf(req[s].username) : held[t] \cap WalletsOf(wallet, m) # {} }

(* Mutant: a schema without the foreign key.                               *)
LeaveOrphaning(s) ==
  LET mine == MembersOf(req[s].username) IN
  /\ pc[s] = "leaveRow"
  /\ LeaveWaitsFor(s) = {}
  /\ member' = [m \in DOMAIN member \ mine |-> member[m]]
  /\ Released(s)
  /\ Answer(s, "ok")
  /\ UNCHANGED <<wallet, lastId>>

LeaveRow(s) ==
  LET mine == MembersOf(req[s].username) IN
  /\ pc[s] = "leaveRow"
  /\ LeaveWaitsFor(s) = {}
  /\ \/ /\ \E m \in mine : WalletsOf(wallet, m) # {}
        /\ Refuse(s, "INTERNAL_SERVER_ERROR")
     \/ /\ \A m \in mine : WalletsOf(wallet, m) = {}
        /\ member' = [m \in DOMAIN member \ mine |-> member[m]]
        /\ Released(s)
        /\ Answer(s, "ok")
        /\ UNCHANGED <<wallet, lastId>>

AccountStep(s) ==
  \/ JoinCheck(s) \/ JoinMember(s) \/ JoinWallet(s)
  \/ WrongPassword(s)
  \/ Validate(s, "update", "updateRow") \/ UpdateMember(s)
  \/ Validate(s, "leave", "leaveRow") \/ LeaveRow(s)

=============================================================================
