---------------------------- MODULE MerchantBatch ----------------------------
(***************************************************************************)
(* The nightly import of merchants: a job launched at midnight cuts the    *)
(* local currencies into partitions, threads of a pool work through the    *)
(* partitions in chunks, and each chunk asks the public service which      *)
(* merchants take its currencies, leaves out those the table has, asks     *)
(* Kakao where the others are and inserts them in one transaction.         *)
(*                                                                         *)
(* A merchant stands for a name and an address.  What the services answer  *)
(* is up to them, but the list of a currency is the same every night.      *)
(***************************************************************************)
EXTENDS Naturals, Sequences, FiniteSets, Functions

CONSTANTS
  Currencies,      \* the rows of local_currency, in some order
  Merchant,
  Nameless,        \* a list entry without a name or an address
  Listing,         \* Listing[c]: what the public service lists for currency c
  NumOfRows,       \* rows of the one page that is asked for (100)
  PartitionSize,   \* PARTITION_SIZE (10)
  ChunkSize,       \* items of a chunk (10)
  Worker,          \* threads that the pool might have
  CorePoolSize, MaxPoolSize, QueueCapacity,
  NoSnapshot,      \* the chunk has not looked at the table yet
  MaxNights,       \* bound: jobs launched
  MaxCrashes       \* bound: restarts of the server

Currency == Range(Currencies)

ASSUME BatchAssumption ==
  /\ Currencies \in Seq(Currency) /\ Currencies # <<>> /\ IsInjective(Currencies)
  /\ Nameless \notin Merchant
  /\ \A c \in Currency : Listing[c] \in Seq(Merchant \cup {Nameless})
  /\ {NumOfRows, PartitionSize, ChunkSize, CorePoolSize, QueueCapacity} \subseteq Nat \ {0}
  /\ MaxPoolSize >= CorePoolSize
  /\ {MaxNights, MaxCrashes} \subseteq Nat

VARIABLES
  rows,      \* rows[m][c]: how often merchant m is stored with currency c
  queue,     \* partitions that wait for a thread
  worker,    \* worker[w]: the partition that thread w works on
  night,     \* jobs launched so far
  open,      \* open[n]: partitions that job n still waits for
  failed,    \* jobs with a failed partition, or ended by a crash
  unlocated, \* history, unlocated[n]: merchants that Kakao did not find for job n
  crashes

vars == <<rows, queue, worker, night, open, failed, unlocated, crashes>>

Night == 1 .. MaxNights
NoRows == [m \in Merchant |-> [c \in Currency |-> 0]]
Stored == { m \in Merchant : \E c \in Currency : rows[m][c] > 0 }

Idle == [stage |-> "idle", job |-> 0, left |-> <<>>, chunk |-> <<>>,
         seen |-> NoSnapshot, out |-> NoRows]

-----------------------------------------------------------------------------
(* Partitions.                                                             *)

Least(a, b) == IF a < b THEN a ELSE b

(* Mutant: the quotient is rounded down.                                   *)
PartitionCountFloor == Len(Currencies) \div PartitionSize

PartitionCount == (Len(Currencies) + PartitionSize - 1) \div PartitionSize

Partition(i) ==
  SubSeq(Currencies, i * PartitionSize + 1, Least((i + 1) * PartitionSize, Len(Currencies)))

(* The partitions are the values of a HashMap: they come in any order.     *)
Orders == { f \in [1 .. PartitionCount -> 0 .. PartitionCount - 1] : IsInjective(f) }

(* Midnight: the launcher starts the job and comes back at once, whether   *)
(* or not the last one has ended; a failed one is not taken up again.      *)
RunJob ==
  /\ night < MaxNights
  /\ night' = night + 1
  /\ \E f \in Orders :
       queue' = queue \o [i \in 1 .. PartitionCount |-> [job |-> night', left |-> Partition(f[i])]]
  /\ open' = [open EXCEPT ![night'] = PartitionCount]
  /\ UNCHANGED <<rows, worker, failed, unlocated, crashes>>

(* Mutant: the pool grows to its greatest size.                            *)
PoolSizeGreatest == MaxPoolSize

(* Threads beyond the core are started only when the queue is full.        *)
PoolSize == IF Len(queue) < QueueCapacity THEN CorePoolSize ELSE MaxPoolSize

Busy == { w \in Worker : worker[w].stage # "idle" }

Take(w) ==
  /\ queue # <<>>
  /\ w \notin Busy
  /\ Cardinality(Busy) < PoolSize
  /\ worker' = [worker EXCEPT ![w] =
       [Idle EXCEPT !.stage = "read", !.job = Head(queue).job, !.left = Head(queue).left]]
  /\ queue' = Tail(queue)
  /\ UNCHANGED <<rows, night, open, failed, unlocated, crashes>>

-----------------------------------------------------------------------------
(* Chunks.                                                                 *)

(* The items of a chunk are read one after the other.                      *)
Read(w) ==
  LET left == worker[w].left
      n == Least(ChunkSize, Len(left))
  IN /\ worker[w].stage = "read" /\ left # <<>>
     /\ worker' = [worker EXCEPT ![w] =
          [@ EXCEPT !.stage = "process", !.left = SubSeq(left, n + 1, Len(left)),
                    !.chunk = SubSeq(left, 1, n), !.seen = NoSnapshot, !.out = NoRows]]
     /\ UNCHANGED <<rows, queue, night, open, failed, unlocated, crashes>>

(* How often merchant m is on the page that is asked for.                  *)
Listed(c, m) ==
  Cardinality({ i \in 1 .. Least(NumOfRows, Len(Listing[c])) : Listing[c][i] = m })

(* Merchants the transaction of the chunk sees in the table: its snapshot  *)
(* is that of its first query.                                             *)
Existing(w) == IF worker[w].seen = NoSnapshot THEN Stored ELSE worker[w].seen

(* How often c names each merchant that is not in the table yet.           *)
New(w, c) == [m \in Merchant |-> IF m \in Existing(w) THEN 0 ELSE Listed(c, m)]

(* A page without a usable entry is done before the table is queried.      *)
SeenAfter(w, c) ==
  IF \A m \in Merchant : Listed(c, m) = 0 THEN worker[w].seen ELSE Existing(w)

(* One currency: its list, the table, and Kakao for every new entry, which *)
(* finds it or not, one call after the other.                              *)
Process(w) ==
  /\ worker[w].stage = "process" /\ worker[w].chunk # <<>>
  /\ LET c == Head(worker[w].chunk)
         new == New(w, c)
         out == worker[w].out
     IN \E found \in [Merchant -> 0 .. NumOfRows] :
          /\ \A m \in Merchant : found[m] <= new[m]
          /\ worker' = [worker EXCEPT ![w] =
               [@ EXCEPT !.chunk = Tail(worker[w].chunk), !.seen = SeenAfter(w, c),
                         !.out = [m \in Merchant |-> [out[m] EXCEPT ![c] = out[m][c] + found[m]]]]]
          /\ unlocated' = [unlocated EXCEPT ![worker[w].job] =
               @ \cup { m \in Merchant : found[m] < new[m] }]
  /\ UNCHANGED <<rows, queue, night, open, failed, crashes>>

(* The rows of the chunk are inserted and committed.                       *)
Write(w) ==
  /\ worker[w].stage = "process" /\ worker[w].chunk = <<>>
  /\ rows' = [m \in Merchant |-> [c \in Currency |-> rows[m][c] + worker[w].out[m][c]]]
  /\ worker' = [worker EXCEPT ![w].stage = "read"]
  /\ UNCHANGED <<queue, night, open, failed, unlocated, crashes>>

Closed(w) == open' = [open EXCEPT ![worker[w].job] = @ - 1]

(* read() returns null: the partition is done.                             *)
Finish(w) ==
  /\ worker[w].stage = "read" /\ worker[w].left = <<>>
  /\ worker' = [worker EXCEPT ![w] = Idle]
  /\ Closed(w)
  /\ UNCHANGED <<rows, queue, night, failed, unlocated, crashes>>

(* Mutant: the partition goes on after the chunk that failed.              *)
FailOnce(w) ==
  /\ worker[w].stage = "process"
  /\ worker' = [worker EXCEPT ![w].stage = "read"]
  /\ Closed(w)
  /\ failed' = failed \cup {worker[w].job}
  /\ UNCHANGED <<rows, queue, night, unlocated, crashes>>

(* A service or the database throws, and nothing is retried or skipped:    *)
(* the chunk is rolled back and the partition has failed.                  *)
Fail(w) ==
  /\ worker[w].stage = "process"
  /\ worker' = [worker EXCEPT ![w] = Idle]
  /\ Closed(w)
  /\ failed' = failed \cup {worker[w].job}
  /\ UNCHANGED <<rows, queue, night, unlocated, crashes>>

(* The server restarts: what was committed stays, the rest is forgotten.   *)
Crash ==
  /\ crashes < MaxCrashes
  /\ crashes' = crashes + 1
  /\ queue' = <<>>
  /\ worker' = [w \in Worker |-> Idle]
  /\ failed' = failed \cup { n \in Night : open[n] > 0 }
  /\ open' = [n \in Night |-> 0]
  /\ UNCHANGED <<rows, night, unlocated>>

-----------------------------------------------------------------------------
Init ==
  /\ rows = NoRows
  /\ queue = <<>>
  /\ worker = [w \in Worker |-> Idle]
  /\ night = 0
  /\ open = [n \in Night |-> 0]
  /\ failed = {}
  /\ unlocated = [n \in Night |-> {}]
  /\ crashes = 0

(* The last night of the bound is over.                                    *)
Over ==
  /\ night = MaxNights
  /\ queue = <<>> /\ Busy = {}
  /\ UNCHANGED vars

Next ==
  \/ RunJob
  \/ \E w \in Worker : Take(w) \/ Read(w) \/ Process(w) \/ Write(w) \/ Finish(w) \/ Fail(w)
  \/ Crash
  \/ Over

Spec == Init /\ [][Next]_vars

-----------------------------------------------------------------------------
(* Properties.                                                             *)

(* Every variable has the shape the job gives it.                          *)
TypeOK ==
  /\ rows \in [Merchant -> [Currency -> Nat]]
  /\ queue \in Seq([job : Night, left : Seq(Currency)])
  /\ worker \in [Worker -> [stage : {"idle", "read", "process"}, job : 0 .. MaxNights,
                            left : Seq(Currency), chunk : Seq(Currency),
                            seen : (SUBSET Merchant) \cup {NoSnapshot},
                            out : [Merchant -> [Currency -> Nat]]]]
  /\ night \in 0 .. MaxNights
  /\ open \in [Night -> 0 .. PartitionCount]
  /\ failed \subseteq Night
  /\ unlocated \in [Night -> SUBSET Merchant]
  /\ crashes \in 0 .. MaxCrashes

(* The currencies of chunk j of partition i.                               *)
ChunkOf(i, j) ==
  Range(SubSeq(Partition(i), j * ChunkSize + 1, Least((j + 1) * ChunkSize, Len(Partition(i)))))

(* All rows of a merchant come from one chunk: what a chunk, a night or a  *)
(* failed job has stored is never stored again.  There is no unique key;   *)
(* this rests on the lookup before the insert, and on the pool never       *)
(* having a second thread.  (Within a chunk a merchant may be stored as    *)
(* often as the lists of the chunk name it.)                               *)
StoredByOneChunk ==
  \A m \in Merchant : \E i \in 0 .. PartitionCount - 1, j \in 0 .. PartitionSize :
    \A c \in Currency :
      rows[m][c] <= IF c \in ChunkOf(i, j) THEN Listed(c, m) ELSE 0

(* When a job has completed, the table has every merchant of the pages it  *)
(* asked for but those that Kakao did not find, whatever failed jobs and   *)
(* restarts of earlier nights have left behind.                            *)
CompletedJobStoresAll ==
  \A n \in 1 .. night : open[n] = 0 /\ n \notin failed =>
    \A c \in Currency, m \in Merchant :
      Listed(c, m) > 0 => m \in Stored \cup unlocated[n]

=============================================================================
