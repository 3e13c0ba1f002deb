------------------------- MODULE MerchantBatchProofs -------------------------
(***************************************************************************)
(* The nightly import stores every merchant, and stores none twice, for    *)
(* every list of currencies and of merchants, every size of pages,         *)
(* partitions and chunks, and every number of nights and restarts.  Two    *)
(* invariants: every currency of a job that has not failed waits, is being *)
(* worked on or is done; and, with one thread, what a chunk is about to    *)
(* insert is of a partition's next currencies and not in the table.        *)
(***************************************************************************)
EXTENDS MerchantBatch, FiniteSetTheorems, SequenceTheorems, TLAPS

-----------------------------------------------------------------------------
(* Partitions.                                                             *)

(* Integer division, with its rounding.                                    *)
LEMMA Quotient ==
  ASSUME NEW a \in Nat, NEW d \in Nat \ {0}
  PROVE  /\ a \div d \in Nat
         /\ (a \div d) * d <= a
         /\ a < (a \div d) * d + d
  OBVIOUS

(* Factors of a product can be compared.                                   *)
LEMMA Times ==
  ASSUME NEW a \in Nat, NEW b \in Nat, NEW d \in Nat, a <= b
  PROVE  a * d \in Nat /\ b * d \in Nat /\ a * d <= b * d
  OBVIOUS

(* One more of a factor adds the other factor.                             *)
LEMMA OneMore ==
  ASSUME NEW a \in Nat, NEW d \in Nat
  PROVE  a * d \in Nat /\ (a + 1) * d = a * d + d
  OBVIOUS

(* The number of partitions is the number of currencies divided by the     *)
(* size of a partition, rounded up.                                        *)
LEMMA EnoughPartitions ==
  /\ Len(Currencies) \in Nat \ {0}
  /\ PartitionCount \in Nat \ {0}
  /\ Len(Currencies) <= PartitionCount * PartitionSize
  <1> DEFINE n == Len(Currencies)
             p == PartitionSize
  <1>1. n \in Nat \ {0} /\ p \in Nat \ {0}
    BY BatchAssumption, EmptySeq DEF BatchAssumption
  <1>2. n + p - 1 \in Nat /\ PartitionCount = (n + p - 1) \div p
    BY <1>1 DEF PartitionCount
  <1> HIDE DEF n, p
  <1>3. /\ PartitionCount \in Nat
        /\ n + p - 1 < PartitionCount * p + p
    BY <1>1, <1>2, Quotient
  <1> DEFINE k == PartitionCount * p
  <1>4. k \in Int
    BY <1>1, <1>3
  <1>5. n <= k
    <2> HIDE DEF k
    <2> QED BY <1>1, <1>4, <1>3 DEF k
  <1>6. PartitionCount # 0
    <2>1. 0 * p = 0
      BY <1>1
    <2> QED BY <2>1, <1>1, <1>5
  <1> QED BY <1>1, <1>3, <1>5, <1>6 DEF n, p

(* The least of two numbers.                                               *)
LEMMA LeastOf ==
  ASSUME NEW a \in Int, NEW b \in Int
  PROVE  Least(a, b) \in {a, b} /\ Least(a, b) <= a /\ Least(a, b) <= b
  BY DEF Least

(* A part of a list whose entries differ has entries that differ.          *)
LEMMA PartOfList ==
  ASSUME NEW S, NEW s \in Seq(S), NEW m \in Nat \ {0}, NEW n \in Int, n <= Len(s)
  PROVE  /\ SubSeq(s, m, n) \in Seq(S)
         /\ Len(SubSeq(s, m, n)) = IF m <= n THEN n - m + 1 ELSE 0
         /\ \A k \in 1 .. n - m + 1 : SubSeq(s, m, n)[k] = s[m + k - 1]
         /\ IsInjective(s) => IsInjective(SubSeq(s, m, n))
  <1>1. /\ Len(s) \in Nat
        /\ DOMAIN s = 1 .. Len(s)
        /\ \A k \in m .. n : s[k] \in S
    BY LenProperties, ElementOfSeq
  <1>2. /\ SubSeq(s, m, n) \in Seq(S)
        /\ Len(SubSeq(s, m, n)) = IF m <= n THEN n - m + 1 ELSE 0
        /\ \A k \in 1 .. n - m + 1 : SubSeq(s, m, n)[k] = s[m + k - 1]
    BY <1>1, SubSeqProperties
  <1> DEFINE t == SubSeq(s, m, n)
  <1>3. DOMAIN t = 1 .. Len(t)
    BY <1>2, LenProperties
  <1> HIDE DEF t
  <1>4. ASSUME IsInjective(s), NEW a \in DOMAIN t, NEW b \in DOMAIN t, t[a] = t[b]
        PROVE  a = b
    <2>1. /\ a \in 1 .. n - m + 1
          /\ b \in 1 .. n - m + 1
      BY <1>2, <1>3 DEF t
    <2>2. s[m + a - 1] = s[m + b - 1]
      BY <2>1, <1>2, <1>4 DEF t
    <2>3. m + a - 1 \in DOMAIN s /\ m + b - 1 \in DOMAIN s
      BY <1>1, <2>1
    <2>4. m + a - 1 = m + b - 1
      BY <2>2, <2>3, <1>4 DEF IsInjective
    <2> QED BY <2>1, <2>4
  <1>5. IsInjective(s) => IsInjective(t)
    BY <1>4 DEF IsInjective
  <1> QED BY <1>2, <1>5 DEF t

(* A partition is a list of different currencies, as long as it may be.    *)
LEMMA PartitionIs ==
  ASSUME NEW i \in Nat
  PROVE  /\ Partition(i) \in Seq(Currency)
         /\ Len(Partition(i)) \in 0 .. PartitionSize
         /\ IsInjective(Partition(i))
  <1> DEFINE m == i * PartitionSize
             e == (i + 1) * PartitionSize
             n == Least(e, Len(Currencies))
  <1>1. PartitionSize \in Nat \ {0} /\ Len(Currencies) \in Nat
    BY BatchAssumption, EnoughPartitions DEF BatchAssumption
  <1>2. m \in Nat /\ e = m + PartitionSize
    BY <1>1
  <1>3. Partition(i) = SubSeq(Currencies, m + 1, n)
    BY DEF Partition
  <1> HIDE DEF m, e
  <1>4. n \in Int /\ n <= e /\ n <= Len(Currencies)
    BY <1>1, <1>2, LeastOf
  <1> HIDE DEF n
  <1>5. m + 1 \in Nat \ {0}
    BY <1>2
  <1>6. Currencies \in Seq(Currency) /\ IsInjective(Currencies)
    BY BatchAssumption DEF BatchAssumption
  <1>7. /\ Partition(i) \in Seq(Currency)
        /\ Len(Partition(i)) = IF m + 1 <= n THEN n - (m + 1) + 1 ELSE 0
        /\ IsInjective(Partition(i))
    BY <1>3, <1>4, <1>5, <1>6, PartOfList
  <1> QED BY <1>1, <1>2, <1>4, <1>7

(* Every currency is in a partition.                                       *)
LEMMA PartitionsCover ==
  ASSUME NEW c \in Currency
  PROVE  \E i \in 0 .. PartitionCount - 1 : c \in Range(Partition(i))
  <1>1. Currencies \in Seq(Currency) /\ PartitionSize \in Nat \ {0}
    BY BatchAssumption DEF BatchAssumption
  <1>2. Len(Currencies) \in Nat /\ DOMAIN Currencies = 1 .. Len(Currencies)
    BY <1>1, LenProperties
  <1>3. PICK k \in 1 .. Len(Currencies) : c = Currencies[k]
    BY <1>2 DEF Currency, Range
  <1> DEFINE i == (k - 1) \div PartitionSize
             m == i * PartitionSize
             e == (i + 1) * PartitionSize
             n == Least(e, Len(Currencies))
  <1>4. k - 1 \in Nat /\ k \in Nat
    BY <1>2, <1>3
  <1>5. i \in Nat /\ m <= k - 1 /\ k - 1 < m + PartitionSize
    BY <1>1, <1>4, Quotient
  <1> HIDE DEF i
  <1>6. m \in Nat /\ e = m + PartitionSize
    BY <1>1, <1>5
  <1>7. i \in 0 .. PartitionCount - 1
    <2> SUFFICES ASSUME PartitionCount <= i PROVE FALSE
      BY <1>5, EnoughPartitions
    <2>1. PartitionCount * PartitionSize <= m /\ PartitionCount * PartitionSize \in Nat
      BY <1>1, <1>5, EnoughPartitions, Times
    <2>2. Len(Currencies) <= PartitionCount * PartitionSize
      BY EnoughPartitions
    <2> DEFINE q == PartitionCount * PartitionSize
    <2> HIDE DEF m, q
    <2> QED BY <2>1, <2>2, <1>2, <1>3, <1>4, <1>5, <1>6 DEF q
  <1>8. Partition(i) = SubSeq(Currencies, m + 1, n)
    BY DEF Partition
  <1> HIDE DEF m, e
  <1>9. n \in Int /\ n <= Len(Currencies) /\ n \in {e, Len(Currencies)}
    BY <1>1, <1>2, <1>6, LeastOf
  <1> HIDE DEF n
  <1>10. m + 1 \in Nat \ {0} /\ k - m \in 1 .. n - (m + 1) + 1
    <2>1. k <= Len(Currencies) /\ k <= e
      BY <1>1, <1>2, <1>4, <1>5, <1>6
    <2>2. k <= n
      BY <2>1, <1>9
    <2> QED BY <2>2, <1>4, <1>5, <1>6, <1>9
  <1>11. /\ Partition(i) \in Seq(Currency)
         /\ Len(Partition(i)) = IF m + 1 <= n THEN n - (m + 1) + 1 ELSE 0
         /\ \A j \in 1 .. n - (m + 1) + 1 : Partition(i)[j] = Currencies[m + 1 + j - 1]
    BY <1>1, <1>8, <1>9, <1>10, PartOfList
  <1>12. Partition(i)[k - m] = c
    <2>1. m + 1 + (k - m) - 1 = k
      BY <1>4, <1>6
    <2> QED BY <2>1, <1>3, <1>10, <1>11
  <1>13. k - m \in DOMAIN Partition(i)
    <2>1. DOMAIN Partition(i) = 1 .. Len(Partition(i))
      BY <1>11, LenProperties
    <2> QED BY <2>1, <1>6, <1>9, <1>10, <1>11
  <1> QED BY <1>7, <1>12, <1>13 DEF Range

(* In whatever order the partitions come, all of them do.                  *)
LEMMA AllPartitionsCome ==
  ASSUME NEW f \in Orders, NEW i \in 0 .. PartitionCount - 1
  PROVE  \E k \in 1 .. PartitionCount : f[k] = i
  <1> DEFINE S == 1 .. PartitionCount
             T == 0 .. PartitionCount - 1
  <1>1. PartitionCount \in Nat \ {0}
    BY EnoughPartitions
  <1>2. f \in [S -> T] /\ IsInjective(f)
    BY DEF Orders
  <1>3. f \in Injection(S, T)
    BY <1>2 DEF Injection, IsInjective
  <1>4. IsFiniteSet(T) /\ IsFiniteSet(S) /\ Cardinality(S) = Cardinality(T)
    BY <1>1, FS_Interval
  <1> HIDE DEF S, T
  <1>5. f \in Surjection(S, T)
    BY <1>3, <1>4, FS_Injection
  <1> QED BY <1>5 DEF Surjection, S, T

-----------------------------------------------------------------------------
(* Jobs and their partitions.                                              *)

WorkerState ==
  [stage : {"idle", "read", "process"}, job : 0 .. MaxNights,
   left : Seq(Currency), chunk : Seq(Currency),
   seen : (SUBSET Merchant) \cup {NoSnapshot},
   out : [Merchant -> [Currency -> Nat]]]

(* The partitions of job n that wait, and the threads that work for it.    *)
Queued(n) == { k \in 1 .. Len(queue) : queue[k].job = n }
BusyOn(n) == { w \in Worker : worker[w].stage # "idle" /\ worker[w].job = n }

(* Only jobs that were launched have work.                                 *)
Launched ==
  /\ \A k \in 1 .. Len(queue) : queue[k].job <= night
  /\ \A w \in Worker : worker[w].stage # "idle" => worker[w].job \in 1 .. night

(* A job waits for as many partitions as are in the queue and in work.     *)
OpenCount ==
  \A n \in Night :
    /\ IsFiniteSet(BusyOn(n))
    /\ open[n] = Cardinality(Queued(n)) + Cardinality(BusyOn(n))

JobInv == TypeOK /\ Launched /\ OpenCount

(* The shapes of a thread's state, and of what is put there.               *)
LEMMA Shapes ==
  /\ NoRows \in [Merchant -> [Currency -> Nat]]
  /\ Idle \in WorkerState
  /\ TypeOK => worker \in [Worker -> WorkerState]
  /\ \A c \in Currency, m \in Merchant : Listed(c, m) \in Nat
  <1>1. NoRows \in [Merchant -> [Currency -> Nat]]
    BY DEF NoRows
  <1>2. Idle \in WorkerState
    BY <1>1, BatchAssumption, EmptySeq DEF Idle, WorkerState, BatchAssumption
  <1>3. TypeOK => worker \in [Worker -> WorkerState]
    BY DEF TypeOK, WorkerState
  <1>4. ASSUME NEW c \in Currency, NEW m \in Merchant
        PROVE  Listed(c, m) \in Nat
    <2> DEFINE n == Least(NumOfRows, Len(Listing[c]))
               S == { i \in 1 .. n : Listing[c][i] = m }
    <2>1. n \in Int
      <3>1. NumOfRows \in Nat /\ Listing[c] \in Seq(Merchant \cup {Nameless})
        BY BatchAssumption DEF BatchAssumption
      <3>2. Len(Listing[c]) \in Nat
        BY <3>1, LenProperties
      <3> QED BY <3>1, <3>2 DEF Least
    <2> HIDE DEF n
    <2>2. IsFiniteSet(1 .. n)
      BY <2>1, FS_Interval
    <2>3. S \in SUBSET (1 .. n)
      OBVIOUS
    <2> HIDE DEF S
    <2>4. IsFiniteSet(S)
      BY <2>2, <2>3, FS_Subset
    <2>5. Cardinality(S) \in Nat
      BY <2>4, FS_CardinalityType
    <2> QED BY <2>5 DEF Listed, S, n
  <1> QED BY <1>1, <1>2, <1>3, <1>4

(* The places of a job in the queue can be counted.                        *)
LEMMA QueuedFinite ==
  ASSUME TypeOK, NEW n
  PROVE  Len(queue) \in Nat /\ IsFiniteSet(Queued(n)) /\ Cardinality(Queued(n)) \in Nat
  <1>1. Len(queue) \in Nat
    BY LenProperties DEF TypeOK
  <1>2. IsFiniteSet(1 .. Len(queue))
    BY <1>1, FS_Interval
  <1>3. Queued(n) \in SUBSET (1 .. Len(queue))
    BY DEF Queued
  <1>4. IsFiniteSet(Queued(n))
    BY <1>2, <1>3, FS_Subset
  <1> QED BY <1>1, <1>4, FS_CardinalityType

(* A job for which a thread works is open.                                 *)
LEMMA BusyIsOpen ==
  ASSUME JobInv, NEW w \in Worker, worker[w].stage # "idle"
  PROVE  /\ worker[w].job \in Night
         /\ night \in 0 .. MaxNights
         /\ w \in BusyOn(worker[w].job)
         /\ open[worker[w].job] \in 1 .. PartitionCount
  <1> DEFINE n == worker[w].job
  <1>1. night \in 0 .. MaxNights /\ MaxNights \in Nat /\ PartitionCount \in Nat
    BY BatchAssumption, EnoughPartitions DEF JobInv, TypeOK, BatchAssumption
  <1>2. n \in Night
    BY <1>1 DEF JobInv, Launched, Night
  <1>3. w \in BusyOn(n)
    BY DEF BusyOn
  <1>4. /\ IsFiniteSet(BusyOn(n))
        /\ open[n] = Cardinality(Queued(n)) + Cardinality(BusyOn(n))
        /\ open[n] \in 0 .. PartitionCount
    BY <1>2 DEF JobInv, OpenCount, TypeOK
  <1> HIDE DEF n
  <1>5. Cardinality(Queued(n)) \in Nat
    BY QueuedFinite DEF JobInv
  <1>6. Cardinality(BusyOn(n)) \in Nat /\ Cardinality(BusyOn(n)) # 0
    BY <1>3, <1>4, FS_CardinalityType, FS_EmptySet
  <1> QED BY <1>1, <1>2, <1>3, <1>4, <1>5, <1>6 DEF n

(* A job that waits for nothing has nothing in the queue and nothing in    *)
(* work.                                                                   *)
LEMMA ClosedIsIdle ==
  ASSUME JobInv, NEW n \in Night, open[n] = 0
  PROVE  Queued(n) = {} /\ BusyOn(n) = {}
  <1>1. /\ IsFiniteSet(BusyOn(n))
        /\ 0 = Cardinality(Queued(n)) + Cardinality(BusyOn(n))
    BY DEF JobInv, OpenCount
  <1>2. IsFiniteSet(Queued(n)) /\ Cardinality(Queued(n)) \in Nat
    BY QueuedFinite DEF JobInv
  <1>3. Cardinality(BusyOn(n)) \in Nat
    BY <1>1, FS_CardinalityType
  <1>4. Cardinality(BusyOn(n)) = 0 /\ Cardinality(Queued(n)) = 0
    BY <1>1, <1>2, <1>3
  <1> QED BY <1>1, <1>2, <1>4, FS_EmptySet
-----------------------------------------------------------------------------
(* What the steps of a thread do to the counts.                            *)

(* A step that keeps a thread at its job leaves the counts alone.          *)
LEMMA WorkGoesOn ==
  ASSUME JobInv, NEW w \in Worker, NEW st \in WorkerState,
         worker[w].stage # "idle", st.stage # "idle", st.job = worker[w].job,
         worker' = [worker EXCEPT ![w] = st],
         UNCHANGED <<queue, night, open>>
  PROVE  Launched' /\ OpenCount'
  <1>1. worker \in [Worker -> WorkerState]
    BY Shapes DEF JobInv
  <1>2. ASSUME NEW v \in Worker
        PROVE  worker'[v].stage # "idle" <=> worker[v].stage # "idle"
    BY <1>1
  <1>3. ASSUME NEW v \in Worker
        PROVE  worker'[v].job = worker[v].job
    BY <1>1
  <1>4. \A n : BusyOn(n)' = BusyOn(n) /\ Queued(n)' = Queued(n)
    BY <1>2, <1>3 DEF BusyOn, Queued
  <1>5. Launched'
    BY <1>2, <1>3 DEF JobInv, Launched
  <1>6. OpenCount'
    BY <1>4 DEF JobInv, OpenCount
  <1> QED BY <1>5, <1>6

(* A thread that gives its partition back closes it.                       *)
LEMMA WorkEnds ==
  ASSUME JobInv, NEW w \in Worker, worker[w].stage # "idle", Closed(w),
         worker' = [worker EXCEPT ![w] = Idle],
         UNCHANGED <<queue, night>>
  PROVE  /\ Launched' /\ OpenCount'
         /\ open' \in [Night -> 0 .. PartitionCount]
  <1> DEFINE j == worker[w].job
  <1>1. worker \in [Worker -> WorkerState] /\ open \in [Night -> 0 .. PartitionCount]
    BY Shapes DEF JobInv, TypeOK
  <1>2. ASSUME NEW v \in Worker, v # w
        PROVE  worker'[v] = worker[v]
    BY <1>1, <1>2
  <1>3. worker'[w].stage = "idle"
    BY <1>1 DEF Idle
  <1>4. j \in Night /\ w \in BusyOn(j) /\ open[j] \in 1 .. PartitionCount
    BY BusyIsOpen
  <1>5. open' = [open EXCEPT ![j] = open[j] - 1]
    BY DEF Closed
  <1>6. open' \in [Night -> 0 .. PartitionCount]
    BY <1>1, <1>4, <1>5, EnoughPartitions
  <1>7. Launched'
    BY <1>2, <1>3 DEF JobInv, Launched
  <1>8. \A n : n = j => BusyOn(n)' = BusyOn(n) \ {w}
    BY <1>2, <1>3 DEF BusyOn
  <1>9. \A n : n # j => BusyOn(n)' = BusyOn(n)
    BY <1>2, <1>3 DEF BusyOn
  <1>10. \A n : Queued(n)' = Queued(n)
    BY DEF Queued
  <1>11. ASSUME NEW n \in Night
         PROVE  /\ IsFiniteSet(BusyOn(n))'
                /\ open'[n] = Cardinality(Queued(n))' + Cardinality(BusyOn(n))'
    <2>1. /\ IsFiniteSet(BusyOn(n))
          /\ open[n] = Cardinality(Queued(n)) + Cardinality(BusyOn(n))
      BY DEF JobInv, OpenCount
    <2>2. CASE n # j
      BY <2>1, <2>2, <1>1, <1>5, <1>9, <1>10
    <2>3. CASE n = j
      <3> HIDE DEF j
      <3>1. Cardinality(Queued(n)) \in Nat /\ Cardinality(BusyOn(n)) \in Nat
        BY <2>1, QueuedFinite, FS_CardinalityType DEF JobInv
      <3>2. /\ IsFiniteSet(BusyOn(n) \ {w})
            /\ Cardinality(BusyOn(n) \ {w}) = Cardinality(BusyOn(n)) - 1
        BY <2>1, <2>3, <1>4, FS_RemoveElement
      <3>3. open'[n] = open[n] - 1
        BY <2>3, <1>1, <1>4, <1>5
      <3> QED BY <3>1, <3>2, <3>3, <2>1, <2>3, <1>8, <1>10
    <2> QED BY <2>2, <2>3
  <1> QED BY <1>6, <1>7, <1>11 DEF OpenCount

(* The partition that a thread takes goes from the queue into work.        *)
LEMMA TakeCounts ==
  ASSUME JobInv, NEW w \in Worker, Take(w)
  PROVE  /\ Launched' /\ OpenCount'
         /\ queue' \in Seq([job : Night, left : Seq(Currency)])
         /\ worker' \in [Worker -> WorkerState]
         /\ Len(queue') = Len(queue) - 1
         /\ \A k \in 1 .. Len(queue') : queue'[k] = queue[k + 1]
         /\ worker' = [worker EXCEPT ![w] = worker'[w]]
         /\ worker[w].stage = "idle"
         /\ worker'[w].stage = "read"
         /\ 1 \in 1 .. Len(queue)
         /\ worker'[w].job = queue[1].job
         /\ worker'[w].left = queue[1].left
         /\ worker'[w].seen = NoSnapshot
  <1> DEFINE q == Head(queue)
             st == [Idle EXCEPT !.stage = "read", !.job = q.job, !.left = q.left]
  <1>1. /\ worker \in [Worker -> WorkerState]
        /\ queue \in Seq([job : Night, left : Seq(Currency)])
        /\ queue # <<>> /\ queue' = Tail(queue)
        /\ worker[w].stage = "idle"
        /\ worker' = [worker EXCEPT ![w] = st]
        /\ UNCHANGED <<night, open>>
    BY Shapes DEF JobInv, TypeOK, Take, Busy
  <1>2. /\ Len(queue) \in Nat \ {0}
        /\ q \in [job : Night, left : Seq(Currency)]
        /\ queue' \in Seq([job : Night, left : Seq(Currency)])
        /\ Len(queue') = Len(queue) - 1
        /\ \A k \in 1 .. Len(queue') : queue'[k] = queue[k + 1]
    BY <1>1, HeadTailProperties, EmptySeq
  <1>3. q = queue[1]
    BY <1>1, <1>2
  <1> HIDE DEF q
  <1>4. q.job \in 0 .. MaxNights /\ q.left \in Seq(Currency) /\ q.job \in Night
    BY <1>2 DEF Night
  <1>5. /\ st \in WorkerState
        /\ st.stage = "read" /\ st.job = q.job /\ st.left = q.left
        /\ st.seen = NoSnapshot
    BY <1>4, Shapes DEF Idle, WorkerState
  <1> HIDE DEF st
  <1>6. worker' \in [Worker -> WorkerState] /\ worker'[w] = st
    BY <1>1, <1>5
  <1>7. ASSUME NEW v \in Worker, v # w
        PROVE  worker'[v] = worker[v]
    BY <1>1, <1>7
  <1>8. Launched'
    <2>1. q.job \in 1 .. night
      <3>1. q.job <= night
        BY <1>2, <1>3 DEF JobInv, Launched
      <3>2. night \in Nat
        BY BatchAssumption DEF JobInv, TypeOK, BatchAssumption
      <3> QED BY <3>1, <3>2, <1>4 DEF Night
    <2>2. \A v \in Worker : worker'[v].stage # "idle" => worker'[v].job \in 1 .. night
      BY <2>1, <1>5, <1>6, <1>7 DEF JobInv, Launched
    <2>3. ASSUME NEW k \in 1 .. Len(queue')
          PROVE  queue'[k].job <= night
      <3>1. k + 1 \in 1 .. Len(queue) /\ queue'[k] = queue[k + 1]
        BY <1>2
      <3> QED BY <3>1 DEF JobInv, Launched
    <2> QED BY <2>2, <2>3, <1>1 DEF Launched
  <1>9. \A n : n = q.job => BusyOn(n)' = BusyOn(n) \cup {w} /\ w \notin BusyOn(n)
    BY <1>1, <1>5, <1>6, <1>7 DEF BusyOn
  <1>10. \A n : n # q.job => BusyOn(n)' = BusyOn(n)
    BY <1>1, <1>5, <1>6, <1>7 DEF BusyOn
  <1>11. ASSUME NEW n
         PROVE  /\ n # q.job => Cardinality(Queued(n)') = Cardinality(Queued(n))
                /\ n = q.job => Cardinality(Queued(n)') = Cardinality(Queued(n)) - 1
    <2> DEFINE A == Queued(n)'
               B == Queued(n) \ {1}
               f == [k \in A |-> k + 1]
    <2>1. A = { k \in 1 .. Len(queue) - 1 : queue[k + 1].job = n }
      BY <1>2 DEF Queued
    <2>2. B = { k \in 2 .. Len(queue) : queue[k].job = n }
      BY <1>2 DEF Queued
    <2>3. f \in Bijection(A, B)
      <3>1. f \in [A -> B]
        BY <2>1, <2>2, <1>2
      <3>2. \A x, y \in A : f[x] = f[y] => x = y
        BY <2>1, <1>2
      <3>3. ASSUME NEW k \in B PROVE \E x \in A : f[x] = k
        <4>1. k - 1 \in A
          BY <2>1, <2>2, <1>2
        <4>2. f[k - 1] = k
          BY <4>1, <2>2, <1>2
        <4> QED BY <4>1, <4>2
      <3> HIDE DEF f, A, B
      <3>4. f \in Injection(A, B)
        BY <3>1, <3>2 DEF Injection, IsInjective
      <3>5. f \in Surjection(A, B)
        BY <3>1, <3>3 DEF Surjection
      <3> QED BY <3>4, <3>5 DEF Bijection
    <2>4. IsFiniteSet(Queued(n)) /\ Cardinality(Queued(n)) \in Nat
      BY QueuedFinite DEF JobInv
    <2>5. IsFiniteSet(B) /\ Cardinality(B) =
            IF 1 \in Queued(n) THEN Cardinality(Queued(n)) - 1 ELSE Cardinality(Queued(n))
      BY <2>4, FS_RemoveElement
    <2>6. Cardinality(A) = Cardinality(B)
      <3>1. ExistsBijection(A, B)
        BY <2>3 DEF ExistsBijection
      <3>2. IsFiniteSet(A)
        <4>1. f \in Injection(A, B)
          BY <2>3 DEF Bijection
        <4> HIDE DEF f, A, B
        <4> QED BY <4>1, <2>5, FS_Injection
      <3> HIDE DEF A, B, f
      <3> QED BY <3>1, <3>2, FS_Bijection
    <2>7. 1 \in Queued(n) <=> n = q.job
      BY <1>2, <1>3 DEF Queued
    <2> QED BY <2>5, <2>6, <2>7
  <1>12. ASSUME NEW n \in Night
         PROVE  /\ IsFiniteSet(BusyOn(n))'
                /\ open'[n] = Cardinality(Queued(n))' + Cardinality(BusyOn(n))'
    <2>1. /\ IsFiniteSet(BusyOn(n))
          /\ open[n] = Cardinality(Queued(n)) + Cardinality(BusyOn(n))
      BY DEF JobInv, OpenCount
    <2>2. Cardinality(Queued(n)) \in Nat /\ Cardinality(BusyOn(n)) \in Nat
      BY <2>1, QueuedFinite, FS_CardinalityType DEF JobInv
    <2>3. CASE n # q.job
      BY <2>1, <2>3, <1>1, <1>10, <1>11
    <2>4. CASE n = q.job
      <3>1. /\ IsFiniteSet(BusyOn(n) \cup {w})
            /\ Cardinality(BusyOn(n) \cup {w}) = Cardinality(BusyOn(n)) + 1
        BY <2>1, <2>4, <1>9, FS_AddElement
      <3>2. Cardinality(Queued(n)') = Cardinality(Queued(n)) - 1
        BY <2>4, <1>11
      <3>3. open'[n] = open[n]
        BY <1>1
      <3>4. BusyOn(n)' = BusyOn(n) \cup {w}
        BY <2>4, <1>9
      <3> QED BY <3>1, <3>2, <3>3, <3>4, <2>1, <2>2
    <2> QED BY <2>3, <2>4
  <1>13. worker' = [worker EXCEPT ![w] = worker'[w]]
    BY <1>1, <1>6
  <1>14. 1 \in 1 .. Len(queue)
    BY <1>2
  <1> QED BY <1>1, <1>2, <1>3, <1>5, <1>6, <1>8, <1>12, <1>13, <1>14 DEF OpenCount

(* A list given by what is at each of its places.                          *)
LEMMA ListOf ==
  ASSUME NEW S, NEW n \in Nat, NEW g \in [1 .. n -> S]
  PROVE  g \in Seq(S) /\ Len(g) = n
  <1>1. g \in Seq(S)
    BY SeqDef
  <1>2. Len(g) \in Nat /\ 1 .. Len(g) = 1 .. n
    BY <1>1, LenProperties
  <1>3. Len(g) = n
    <2>1. CASE Len(g) > n
      <3>1. Len(g) \in 1 .. Len(g) /\ Len(g) \notin 1 .. n
        BY <2>1, <1>2
      <3> QED BY <3>1, <1>2
    <2>2. CASE Len(g) < n
      <3>1. n \in 1 .. n /\ n \notin 1 .. Len(g)
        BY <2>2, <1>2
      <3> QED BY <3>1, <1>2
    <2> QED BY <2>1, <2>2, <1>2
  <1> QED BY <1>1, <1>3

(* The new job: its partitions come behind those of the earlier ones.      *)
LEMMA RunJobCounts ==
  ASSUME JobInv, RunJob
  PROVE  /\ Launched' /\ OpenCount'
         /\ night' = night + 1 /\ night' \in Night
         /\ open' \in [Night -> 0 .. PartitionCount]
         /\ queue' \in Seq([job : Night, left : Seq(Currency)])
         /\ Len(queue') = Len(queue) + PartitionCount
         /\ \A k \in 1 .. Len(queue) : k \in 1 .. Len(queue') /\ queue'[k] = queue[k]
         /\ \A i \in 0 .. PartitionCount - 1 : \E k \in 1 .. Len(queue') :
              queue'[k].job = night' /\ queue'[k].left = Partition(i)
         /\ \A k \in Len(queue) + 1 .. Len(queue') : \E i \in 0 .. PartitionCount - 1 :
              queue'[k].left = Partition(i)
  <1> DEFINE Entry == [job : Night, left : Seq(Currency)]
             n1 == night + 1
  <1>1. /\ night < MaxNights /\ night' = n1
        /\ open' = [open EXCEPT ![n1] = PartitionCount]
        /\ UNCHANGED worker
    BY DEF RunJob
  <1>2. /\ night \in 0 .. MaxNights /\ MaxNights \in Nat
        /\ queue \in Seq(Entry)
        /\ open \in [Night -> 0 .. PartitionCount]
    BY BatchAssumption DEF JobInv, TypeOK, BatchAssumption
  <1>3. n1 \in Night /\ n1 > night /\ night \in Nat
    BY <1>1, <1>2 DEF Night
  <1>4. PartitionCount \in Nat \ {0}
    BY EnoughPartitions
  <1>5. PICK f \in Orders :
          queue' = queue \o [i \in 1 .. PartitionCount |-> [job |-> n1, left |-> Partition(f[i])]]
    BY <1>1 DEF RunJob
  <1> DEFINE g == [i \in 1 .. PartitionCount |-> [job |-> n1, left |-> Partition(f[i])]]
  <1>6. ASSUME NEW i \in 1 .. PartitionCount
        PROVE  /\ f[i] \in 0 .. PartitionCount - 1
               /\ g[i] \in Entry /\ g[i].job = n1 /\ g[i].left = Partition(f[i])
    <2>1. f[i] \in 0 .. PartitionCount - 1 /\ f[i] \in Nat
      BY <1>4 DEF Orders
    <2>2. Partition(f[i]) \in Seq(Currency)
      BY <2>1, PartitionIs
    <2> QED BY <2>1, <2>2, <1>3
  <1>7. g \in Seq(Entry) /\ Len(g) = PartitionCount
    <2>1. g \in [1 .. PartitionCount -> Entry]
      BY <1>6
    <2> HIDE DEF g, Entry
    <2> QED BY <2>1, <1>4, ListOf
  <1>8. queue' = queue \o g
    BY <1>5
  <1> HIDE DEF g, Entry
  <1> DEFINE l == Len(queue)
  <1>9. l \in Nat
    BY <1>2, LenProperties
  <1>10. /\ queue' \in Seq(Entry)
         /\ Len(queue') = l + PartitionCount
         /\ \A k \in 1 .. l + PartitionCount :
              queue'[k] = IF k <= l THEN queue[k] ELSE g[k - l]
    BY <1>2, <1>7, <1>8, ConcatProperties
  <1> HIDE DEF l
  <1>11. \A k \in 1 .. l : k \in 1 .. Len(queue') /\ queue'[k] = queue[k]
    BY <1>4, <1>9, <1>10
  <1>12. ASSUME NEW i \in 1 .. PartitionCount
         PROVE  /\ l + i \in 1 .. Len(queue')
                /\ queue'[l + i] = g[i]
    <2>1. PICK k \in Int : k = l + i
      BY <1>4, <1>9
    <2>2. k \in 1 .. l + PartitionCount /\ ~(k <= l) /\ k - l = i
      BY <2>1, <1>4, <1>9
    <2>3. queue'[k] = g[k - l] /\ k \in 1 .. Len(queue')
      BY <2>2, <1>10
    <2>4. queue'[k] = g[i]
      BY <2>2, <2>3
    <2> QED BY <2>1, <2>3, <2>4
  <1>13. \A k \in 1 .. Len(queue') : k \in 1 .. l \/ (k - l \in 1 .. PartitionCount /\ k = l + (k - l))
    BY <1>4, <1>9, <1>10
  <1>14. Queued(n1) = {} /\ BusyOn(n1) = {}
    <2>1. \A k \in 1 .. l : queue[k].job # n1
      BY <1>3 DEF JobInv, Launched, l
    <2>2. \A w \in Worker : worker[w].stage # "idle" => worker[w].job # n1
      BY <1>3 DEF JobInv, Launched
    <2> QED BY <2>1, <2>2 DEF Queued, BusyOn, l
  <1>15. \A n : n # n1 => Queued(n)' = Queued(n)
    <2> SUFFICES ASSUME NEW n, n # n1 PROVE Queued(n)' = Queued(n)
      OBVIOUS
    <2>1. \A k \in 1 .. Len(queue') : queue'[k].job = n => k \in 1 .. l
      BY <1>6, <1>12, <1>13
    <2> QED BY <2>1, <1>11 DEF Queued, l
  <1>16. \A n : n = n1 => Queued(n)' = l + 1 .. l + PartitionCount
    <2> SUFFICES ASSUME NEW n, n = n1 PROVE Queued(n)' = l + 1 .. l + PartitionCount
      OBVIOUS
    <2>1. \A k \in 1 .. l : queue'[k].job # n
      <3>1. \A k \in 1 .. l : queue[k].job <= night
        BY DEF JobInv, Launched, l
      <3> QED BY <3>1, <1>3, <1>11
    <2>2. \A k \in l + 1 .. l + PartitionCount : k \in 1 .. Len(queue') /\ queue'[k].job = n
      <3> SUFFICES ASSUME NEW k \in l + 1 .. l + PartitionCount
                   PROVE  k \in 1 .. Len(queue') /\ queue'[k].job = n
        OBVIOUS
      <3>1. k - l \in 1 .. PartitionCount /\ l + (k - l) = k
        BY <1>4, <1>9
      <3> QED BY <3>1, <1>6, <1>12
    <2>3. \A k \in 1 .. Len(queue') : k \in 1 .. l \/ k \in l + 1 .. l + PartitionCount
      BY <1>4, <1>9, <1>10
    <2> QED BY <2>1, <2>2, <2>3 DEF Queued
  <1>17. \A n : BusyOn(n)' = BusyOn(n)
    BY <1>1 DEF BusyOn
  <1>18. ASSUME NEW n \in Night
         PROVE  /\ IsFiniteSet(BusyOn(n))'
                /\ open'[n] = Cardinality(Queued(n))' + Cardinality(BusyOn(n))'
    <2>1. /\ IsFiniteSet(BusyOn(n))
          /\ open[n] = Cardinality(Queued(n)) + Cardinality(BusyOn(n))
      BY DEF JobInv, OpenCount
    <2>2. CASE n # n1
      BY <2>1, <2>2, <1>1, <1>2, <1>15, <1>17
    <2>3. CASE n = n1
      <3>1. open'[n] = PartitionCount
        BY <2>3, <1>1, <1>2, <1>3
      <3>2. Cardinality(l + 1 .. l + PartitionCount) = PartitionCount
        BY <1>4, <1>9, FS_Interval
      <3>3. BusyOn(n)' = {} /\ Cardinality({}) = 0
        BY <2>3, <1>14, <1>17, FS_EmptySet
      <3>4. Queued(n)' = l + 1 .. l + PartitionCount
        BY <2>3, <1>16
      <3> QED BY <3>1, <3>2, <3>3, <3>4, <1>4, FS_EmptySet
    <2> QED BY <2>2, <2>3
  <1>19. Launched'
    <2>1. \A k \in 1 .. Len(queue') : queue'[k].job <= n1
      <3> SUFFICES ASSUME NEW k \in 1 .. Len(queue') PROVE queue'[k].job <= n1
        OBVIOUS
      <3>1. CASE k \in 1 .. l
        <4>1. queue[k] \in Entry /\ queue[k].job <= night
          BY <3>1, <1>2, ElementOfSeq DEF JobInv, Launched, l
        <4>2. queue[k].job \in Night
          BY <4>1 DEF Entry
        <4>3. queue[k].job \in Nat
          BY <4>2 DEF Night
        <4>4. queue'[k] = queue[k]
          BY <3>1, <1>11
        <4> QED BY <4>1, <4>3, <4>4, <1>3
      <3>2. CASE k - l \in 1 .. PartitionCount /\ k = l + (k - l)
        BY <3>2, <1>3, <1>6, <1>12
      <3> QED BY <3>1, <3>2, <1>13
    <2>2. \A w \in Worker : worker'[w].stage # "idle" => worker'[w].job \in 1 .. n1
      BY <1>1, <1>3 DEF JobInv, Launched
    <2> QED BY <2>1, <2>2, <1>1 DEF Launched
  <1>20. open' \in [Night -> 0 .. PartitionCount]
    BY <1>1, <1>2, <1>3, <1>4
  <1>21. ASSUME NEW i \in 0 .. PartitionCount - 1
         PROVE  \E k \in 1 .. Len(queue') : queue'[k].job = night' /\ queue'[k].left = Partition(i)
    <2>1. PICK k \in 1 .. PartitionCount : f[k] = i
      BY AllPartitionsCome
    <2>2. l + k \in 1 .. Len(queue') /\ queue'[l + k] = g[k]
      BY <1>12
    <2> QED BY <2>1, <2>2, <1>1, <1>6
  <1>22. ASSUME NEW k \in l + 1 .. Len(queue')
         PROVE  \E i \in 0 .. PartitionCount - 1 : queue'[k].left = Partition(i)
    <2>1. k - l \in 1 .. PartitionCount /\ l + (k - l) = k
      BY <1>4, <1>9, <1>10
    <2>2. queue'[k] = g[k - l]
      BY <2>1, <1>12
    <2> QED BY <2>1, <2>2, <1>6
  <1> QED
    BY <1>1, <1>3, <1>10, <1>11, <1>18, <1>19, <1>20, <1>21, <1>22 DEF OpenCount, l, Entry

(* A restart leaves no work.                                               *)
LEMMA CrashCounts ==
  ASSUME JobInv, Crash
  PROVE  /\ Launched' /\ OpenCount'
         /\ open' \in [Night -> 0 .. PartitionCount]
         /\ queue' = <<>>
         /\ \A w \in Worker : worker'[w] = Idle
         /\ \A n : Queued(n)' = {} /\ BusyOn(n)' = {}
  <1>1. queue' = <<>> /\ open' = [n \in Night |-> 0] /\ worker' = [w \in Worker |-> Idle]
    BY DEF Crash
  <1>2. Len(queue') = 0
    BY <1>1, EmptySeq
  <1>3. \A w \in Worker : worker'[w] = Idle /\ worker'[w].stage = "idle"
    BY <1>1 DEF Idle
  <1>4. \A n : Queued(n)' = {} /\ BusyOn(n)' = {}
    BY <1>2, <1>3 DEF Queued, BusyOn
  <1>5. Launched'
    BY <1>2, <1>3 DEF Launched
  <1>6. OpenCount'
    <2> SUFFICES ASSUME NEW n \in Night
                 PROVE  /\ IsFiniteSet(BusyOn(n))'
                        /\ open'[n] = Cardinality(Queued(n))' + Cardinality(BusyOn(n))'
      BY DEF OpenCount
    <2>1. open'[n] = 0 /\ Queued(n)' = {} /\ BusyOn(n)' = {}
      BY <1>1, <1>4
    <2> QED BY <2>1, FS_EmptySet
  <1>7. open' \in [Night -> 0 .. PartitionCount]
    BY <1>1, EnoughPartitions
  <1> QED BY <1>1, <1>3, <1>4, <1>5, <1>6, <1>7

-----------------------------------------------------------------------------
(* What the steps of a chunk do.                                           *)

(* A chunk is the next currencies of the partition.                        *)
LEMMA ReadIs ==
  ASSUME TypeOK, NEW w \in Worker, Read(w)
  PROVE  LET left == worker[w].left
             n == Least(ChunkSize, Len(left))
         IN /\ worker[w].stage = "read"
            /\ left \in Seq(Currency) /\ Len(left) \in Nat \ {0}
            /\ n \in 1 .. Len(left) /\ n <= ChunkSize /\ n \in {ChunkSize, Len(left)}
            /\ worker'[w] \in WorkerState
            /\ worker' = [worker EXCEPT ![w] = worker'[w]]
            /\ worker'[w].stage = "process" /\ worker'[w].job = worker[w].job
            /\ worker'[w].left = SubSeq(left, n + 1, Len(left))
            /\ worker'[w].chunk = SubSeq(left, 1, n)
            /\ worker'[w].seen = NoSnapshot
            /\ worker'[w].out = NoRows
  <1> DEFINE left == worker[w].left
             n == Least(ChunkSize, Len(left))
             a == SubSeq(left, n + 1, Len(left))
             b == SubSeq(left, 1, n)
             st == [worker[w] EXCEPT !.stage = "process", !.left = a, !.chunk = b,
                                     !.seen = NoSnapshot, !.out = NoRows]
  <1>1. worker \in [Worker -> WorkerState]
    BY Shapes
  <1>2. worker[w].stage = "read" /\ left # <<>> /\ worker' = [worker EXCEPT ![w] = st]
    BY <1>1 DEF Read
  <1>3. left \in Seq(Currency)
    BY <1>1 DEF WorkerState
  <1>4. Len(left) \in Nat \ {0} /\ ChunkSize \in Nat \ {0}
    BY <1>2, <1>3, EmptySeq, BatchAssumption DEF BatchAssumption
  <1>5. n \in 1 .. Len(left) /\ n <= ChunkSize /\ n \in {ChunkSize, Len(left)}
    <2> HIDE DEF left
    <2> QED BY <1>4 DEF Least
  <1>6. a \in Seq(Currency) /\ b \in Seq(Currency)
    <2> HIDE DEF left, n
    <2>1. n + 1 \in Nat \ {0} /\ 1 \in Nat \ {0} /\ n \in Int /\ n <= Len(left) /\ Len(left) \in Int
      BY <1>4, <1>5
    <2> QED BY <2>1, <1>3, <1>4, PartOfList
  <1> HIDE DEF left, n, a, b
  <1>7. /\ st \in WorkerState
        /\ st.stage = "process" /\ st.job = worker[w].job /\ st.left = a /\ st.chunk = b
        /\ st.seen = NoSnapshot /\ st.out = NoRows
    BY <1>1, <1>6, Shapes DEF WorkerState
  <1> HIDE DEF st
  <1>8. worker'[w] = st
    BY <1>1, <1>2
  <1> QED BY <1>2, <1>3, <1>4, <1>5, <1>7, <1>8 DEF left, n, a, b

(* A currency adds to what the chunk will insert those entries of its page *)
(* that are new and that Kakao finds.                                      *)
LEMMA ProcessIs ==
  ASSUME TypeOK, NEW w \in Worker, Process(w)
  PROVE  LET c == Head(worker[w].chunk) IN
         /\ worker[w].stage = "process"
         /\ worker[w].chunk \in Seq(Currency) /\ worker[w].chunk # <<>>
         /\ c \in Currency
         /\ worker[w].seen \in SUBSET Merchant \/ worker[w].seen = NoSnapshot
         /\ Existing(w) \in SUBSET Merchant
         /\ worker'[w] \in WorkerState
         /\ worker' = [worker EXCEPT ![w] = worker'[w]]
         /\ worker'[w].stage = "process" /\ worker'[w].job = worker[w].job
         /\ worker'[w].left = worker[w].left
         /\ worker'[w].chunk = Tail(worker[w].chunk)
         /\ worker'[w].seen \in {worker[w].seen, Existing(w)}
         /\ worker[w].out \in [Merchant -> [Currency -> Nat]]
         /\ worker'[w].out \in [Merchant -> [Currency -> Nat]]
         /\ \E found \in [Merchant -> Nat] :
              /\ \A m \in Merchant : found[m] <= IF m \in Existing(w) THEN 0 ELSE Listed(c, m)
              /\ \A m \in Merchant, d \in Currency :
                   worker'[w].out[m][d] = worker[w].out[m][d] + IF d = c THEN found[m] ELSE 0
              /\ unlocated' = [unlocated EXCEPT ![worker[w].job] = @ \cup
                   { m \in Merchant : found[m] < IF m \in Existing(w) THEN 0 ELSE Listed(c, m) }]
  <1> DEFINE c == Head(worker[w].chunk)
             new == New(w, c)
             t == Tail(worker[w].chunk)
             e == Existing(w)
             z == SeenAfter(w, c)
             o == worker[w].out
  <1>1. worker \in [Worker -> WorkerState]
    BY Shapes
  <1>2. worker[w].stage = "process" /\ worker[w].chunk # <<>>
    BY DEF Process
  <1>3. /\ worker[w].chunk \in Seq(Currency)
        /\ o \in [Merchant -> [Currency -> Nat]]
        /\ worker[w].seen \in SUBSET Merchant \/ worker[w].seen = NoSnapshot
    BY <1>1 DEF WorkerState
  <1>4. c \in Currency /\ t \in Seq(Currency)
    BY <1>2, <1>3, HeadTailProperties
  <1>5. e \in SUBSET Merchant
    BY <1>3 DEF Existing, Stored
  <1>6. PICK found \in [Merchant -> 0 .. NumOfRows] :
          /\ \A m \in Merchant : found[m] <= new[m]
          /\ worker' = [worker EXCEPT ![w] =
               [worker[w] EXCEPT !.chunk = t, !.seen = z,
                  !.out = [m \in Merchant |-> [o[m] EXCEPT ![c] = o[m][c] + found[m]]]]]
          /\ unlocated' = [unlocated EXCEPT ![worker[w].job] =
               @ \cup { m \in Merchant : found[m] < new[m] }]
    <2> HIDE DEF c, new, t, e, z, o
    <2>1. worker[w] \in WorkerState
      BY <1>1
    <2> QED BY <2>1, <1>1, <1>3, <1>4 DEF Process, c, new, t, e, z, o, WorkerState
  <1>7. \A m \in Merchant : new[m] = IF m \in e THEN 0 ELSE Listed(c, m)
    BY DEF New
  <1>8. found \in [Merchant -> Nat]
    <2>1. NumOfRows \in Nat
      BY BatchAssumption DEF BatchAssumption
    <2> QED BY <2>1, <1>6
  <1> DEFINE p == [m \in Merchant |-> [o[m] EXCEPT ![c] = o[m][c] + found[m]]]
             st == [worker[w] EXCEPT !.chunk = t, !.seen = z, !.out = p]
  <1>9. worker' = [worker EXCEPT ![w] = st]
    BY <1>6
  <1>19. z \in {worker[w].seen, e}
    BY DEF SeenAfter
  <1> HIDE DEF c, new, t, e, z, o
  <1>10. /\ p \in [Merchant -> [Currency -> Nat]]
         /\ \A m \in Merchant, d \in Currency :
              p[m][d] = o[m][d] + IF d = c THEN found[m] ELSE 0
    BY <1>3, <1>4, <1>8
  <1> HIDE DEF p
  <1>11. /\ st \in WorkerState
         /\ st.stage = worker[w].stage /\ st.job = worker[w].job /\ st.left = worker[w].left
         /\ st.chunk = t /\ st.seen = z /\ st.out = p
    BY <1>1, <1>3, <1>4, <1>5, <1>10, <1>19 DEF WorkerState
  <1> HIDE DEF st
  <1>12. worker'[w] = st
    BY <1>1, <1>9
  <1>13. { m \in Merchant : found[m] < new[m] } =
           { m \in Merchant : found[m] < IF m \in e THEN 0 ELSE Listed(c, m) }
    BY <1>7
  <1>14. \A m \in Merchant : found[m] <= IF m \in e THEN 0 ELSE Listed(c, m)
    BY <1>6, <1>7
  <1>15. unlocated' = [unlocated EXCEPT ![worker[w].job] = @ \cup
           { m \in Merchant : found[m] < IF m \in e THEN 0 ELSE Listed(c, m) }]
    BY <1>6, <1>13
  <1>16. \E fnd \in [Merchant -> Nat] :
           /\ \A m \in Merchant : fnd[m] <= IF m \in e THEN 0 ELSE Listed(c, m)
           /\ \A m \in Merchant, d \in Currency :
                worker'[w].out[m][d] = o[m][d] + IF d = c THEN fnd[m] ELSE 0
           /\ unlocated' = [unlocated EXCEPT ![worker[w].job] = @ \cup
                { m \in Merchant : fnd[m] < IF m \in e THEN 0 ELSE Listed(c, m) }]
    <2>1. \A m \in Merchant, d \in Currency :
            worker'[w].out[m][d] = o[m][d] + IF d = c THEN found[m] ELSE 0
      BY <1>10, <1>11, <1>12
    <2> QED BY <2>1, <1>8, <1>14, <1>15
  <1>17. worker' = [worker EXCEPT ![w] = worker'[w]]
    BY <1>9, <1>12
  <1>18. worker'[w].out \in [Merchant -> [Currency -> Nat]]
    BY <1>10, <1>11, <1>12
  <1> QED
    BY <1>2, <1>3, <1>4, <1>5, <1>11, <1>12, <1>16, <1>17, <1>18, <1>19 DEF c, t, e, o

(* The chunk's rows are in the table, and the thread reads on.             *)
LEMMA WriteIs ==
  ASSUME TypeOK, NEW w \in Worker, Write(w)
  PROVE  /\ worker[w].stage = "process" /\ worker[w].chunk = <<>>
         /\ worker'[w] \in WorkerState
         /\ worker' = [worker EXCEPT ![w] = worker'[w]]
         /\ worker'[w].stage = "read" /\ worker'[w].job = worker[w].job
         /\ worker'[w].left = worker[w].left /\ worker'[w].seen = worker[w].seen
         /\ worker[w].out \in [Merchant -> [Currency -> Nat]]
         /\ rows' \in [Merchant -> [Currency -> Nat]]
         /\ \A m \in Merchant, c \in Currency : rows'[m][c] = rows[m][c] + worker[w].out[m][c]
         /\ Stored' = Stored \cup { m \in Merchant : \E c \in Currency : worker[w].out[m][c] > 0 }
  <1> DEFINE st == [worker[w] EXCEPT !.stage = "read"]
  <1>1. worker \in [Worker -> WorkerState] /\ rows \in [Merchant -> [Currency -> Nat]]
    BY Shapes DEF TypeOK
  <1>2. worker[w].stage = "process" /\ worker[w].chunk = <<>> /\ worker' = [worker EXCEPT ![w] = st]
    BY <1>1 DEF Write
  <1>3. /\ st \in WorkerState /\ st.stage = "read" /\ st.job = worker[w].job
        /\ st.left = worker[w].left /\ st.seen = worker[w].seen
    BY <1>1 DEF WorkerState
  <1> HIDE DEF st
  <1>4. worker'[w] = st
    BY <1>1, <1>2
  <1> DEFINE o == worker[w].out
  <1>5. o \in [Merchant -> [Currency -> Nat]]
    BY <1>1 DEF WorkerState
  <1>6. rows' = [m \in Merchant |-> [c \in Currency |-> rows[m][c] + o[m][c]]]
    BY DEF Write
  <1> HIDE DEF o
  <1>7. /\ rows' \in [Merchant -> [Currency -> Nat]]
        /\ \A m \in Merchant, c \in Currency : rows'[m][c] = rows[m][c] + o[m][c]
    BY <1>1, <1>5, <1>6
  <1>8. ASSUME NEW m \in Merchant
        PROVE  m \in Stored' <=> m \in Stored \/ \E c \in Currency : o[m][c] > 0
    <2>1. \A c \in Currency : rows[m][c] \in Nat /\ o[m][c] \in Nat
      BY <1>1, <1>5
    <2>2. \A c \in Currency : rows'[m][c] > 0 <=> rows[m][c] > 0 \/ o[m][c] > 0
      BY <2>1, <1>7
    <2> QED BY <2>2 DEF Stored
  <1>9. Stored' = Stored \cup { m \in Merchant : \E c \in Currency : o[m][c] > 0 }
    BY <1>8 DEF Stored
  <1> QED BY <1>2, <1>3, <1>4, <1>5, <1>7, <1>9 DEF o

-----------------------------------------------------------------------------
(* The jobs add up.                                                        *)

(* What a chunk has seen in the table is still there: nothing is deleted.  *)
Snapshots ==
  \A w \in Worker : worker[w].seen = NoSnapshot \/ worker[w].seen \subseteq Stored

(* At the start there are no jobs.                                         *)
LEMMA JobInit == Init => JobInv /\ Snapshots
  <1> SUFFICES ASSUME Init PROVE JobInv /\ Snapshots
    OBVIOUS
  <1>1. MaxNights \in Nat /\ MaxCrashes \in Nat
    BY BatchAssumption DEF BatchAssumption
  <1>2. Len(queue) = 0 /\ queue \in Seq([job : Night, left : Seq(Currency)])
    BY EmptySeq DEF Init
  <1>3. worker \in [Worker -> WorkerState] /\ \A w \in Worker : worker[w].stage = "idle"
    BY Shapes DEF Init, Idle
  <1>4. TypeOK
    <2>1. open \in [Night -> 0 .. PartitionCount]
      BY EnoughPartitions DEF Init
    <2> QED BY <2>1, <1>1, <1>2, <1>3, Shapes DEF Init, TypeOK, WorkerState
  <1>5. Launched
    BY <1>2, <1>3 DEF Launched
  <1>6. \A n : Queued(n) = {} /\ BusyOn(n) = {}
    BY <1>2, <1>3 DEF Queued, BusyOn
  <1>7. OpenCount
    <2> SUFFICES ASSUME NEW n \in Night
                 PROVE  /\ IsFiniteSet(BusyOn(n))
                        /\ open[n] = Cardinality(Queued(n)) + Cardinality(BusyOn(n))
      BY DEF OpenCount
    <2>1. open[n] = 0 /\ Queued(n) = {} /\ BusyOn(n) = {}
      BY <1>6 DEF Init
    <2> QED BY <2>1, FS_EmptySet
  <1>8. Snapshots
    BY DEF Init, Idle, Snapshots
  <1> QED BY <1>4, <1>5, <1>7, <1>8 DEF JobInv

(* Every step of a thread keeps the shapes and the counts.                 *)
LEMMA WorkerJob ==
  ASSUME JobInv, NEW w \in Worker,
         Take(w) \/ Read(w) \/ Process(w) \/ Write(w) \/ Finish(w) \/ Fail(w)
  PROVE  JobInv'
  <1>1. /\ TypeOK /\ worker \in [Worker -> WorkerState]
        /\ MaxNights \in Nat /\ MaxCrashes \in Nat
    BY Shapes, BatchAssumption DEF JobInv, BatchAssumption
  <1>2. CASE Take(w)
    <2>1. /\ Launched' /\ OpenCount'
          /\ queue' \in Seq([job : Night, left : Seq(Currency)])
          /\ worker' \in [Worker -> WorkerState]
      BY <1>2, TakeCounts
    <2>2. UNCHANGED <<rows, night, open, failed, unlocated, crashes>>
      BY <1>2 DEF Take
    <2>3. TypeOK'
      BY <1>1, <2>1, <2>2 DEF TypeOK, WorkerState
    <2> QED BY <2>1, <2>3 DEF JobInv
  <1>3. CASE Read(w)
    <2> DEFINE st == worker'[w]
    <2>1. /\ worker[w].stage = "read" /\ st \in WorkerState
          /\ worker' = [worker EXCEPT ![w] = st]
          /\ st.stage = "process" /\ st.job = worker[w].job
      BY <1>1, <1>3, ReadIs
    <2>2. UNCHANGED <<rows, queue, night, open, failed, unlocated, crashes>>
      BY <1>3 DEF Read
    <2> HIDE DEF st
    <2>3. Launched' /\ OpenCount'
      BY <2>1, <2>2, WorkGoesOn
    <2>4. worker' \in [Worker -> WorkerState]
      BY <1>1, <2>1
    <2>5. TypeOK'
      BY <1>1, <2>2, <2>4 DEF TypeOK, WorkerState
    <2> QED BY <2>3, <2>5 DEF JobInv
  <1>4. CASE Process(w)
    <2> DEFINE st == worker'[w]
               j == worker[w].job
    <2>1. /\ worker[w].stage = "process" /\ st \in WorkerState
          /\ worker' = [worker EXCEPT ![w] = st]
          /\ st.stage = "process" /\ st.job = j
      BY <1>1, <1>4, ProcessIs
    <2>2. UNCHANGED <<rows, queue, night, open, failed, crashes>>
      BY <1>4 DEF Process
    <2>3. \E M \in SUBSET Merchant : unlocated' = [unlocated EXCEPT ![j] = @ \cup M]
      <3>1. PICK found \in [Merchant -> Nat] : unlocated' = [unlocated EXCEPT ![j] = @ \cup
              { m \in Merchant : found[m] < IF m \in Existing(w) THEN 0
                                            ELSE Listed(Head(worker[w].chunk), m) }]
        BY <1>1, <1>4, ProcessIs
      <3> QED BY <3>1
    <2> HIDE DEF st, j
    <2>4. Launched' /\ OpenCount'
      BY <2>1, <2>2, WorkGoesOn DEF j
    <2>5. worker' \in [Worker -> WorkerState]
      BY <1>1, <2>1
    <2>6. unlocated' \in [Night -> SUBSET Merchant]
      BY <1>1, <2>3 DEF TypeOK
    <2>7. TypeOK'
      BY <1>1, <2>2, <2>5, <2>6 DEF TypeOK, WorkerState
    <2> QED BY <2>4, <2>7 DEF JobInv
  <1>5. CASE Write(w)
    <2> DEFINE st == worker'[w]
    <2>1. /\ worker[w].stage = "process" /\ st \in WorkerState
          /\ worker' = [worker EXCEPT ![w] = st]
          /\ st.stage = "read" /\ st.job = worker[w].job
          /\ rows' \in [Merchant -> [Currency -> Nat]]
      BY <1>1, <1>5, WriteIs
    <2>2. UNCHANGED <<queue, night, open, failed, unlocated, crashes>>
      BY <1>5 DEF Write
    <2> HIDE DEF st
    <2>3. Launched' /\ OpenCount'
      BY <2>1, <2>2, WorkGoesOn
    <2>4. worker' \in [Worker -> WorkerState]
      BY <1>1, <2>1
    <2>5. TypeOK'
      BY <1>1, <2>1, <2>2, <2>4 DEF TypeOK, WorkerState
    <2> QED BY <2>3, <2>5 DEF JobInv
  <1>6. CASE Finish(w) \/ Fail(w)
    <2>1. /\ worker[w].stage # "idle" /\ Closed(w)
          /\ worker' = [worker EXCEPT ![w] = Idle]
          /\ failed' = failed \/ failed' = failed \cup {worker[w].job}
          /\ UNCHANGED <<rows, queue, night, unlocated, crashes>>
      BY <1>6 DEF Finish, Fail
    <2>2. Launched' /\ OpenCount' /\ open' \in [Night -> 0 .. PartitionCount]
      BY <2>1, WorkEnds
    <2>3. worker[w].job \in Night
      BY <2>1, BusyIsOpen
    <2>4. worker' \in [Worker -> WorkerState]
      BY <1>1, <2>1, Shapes
    <2>5. TypeOK'
      BY <1>1, <2>1, <2>2, <2>3, <2>4 DEF TypeOK, WorkerState
    <2> QED BY <2>2, <2>5 DEF JobInv
  <1> QED BY <1>2, <1>3, <1>4, <1>5, <1>6

(* Every step of a thread keeps what the chunks have seen in the table.    *)
LEMMA WorkerSnapshots ==
  ASSUME JobInv, Snapshots, NEW w \in Worker,
         Take(w) \/ Read(w) \/ Process(w) \/ Write(w) \/ Finish(w) \/ Fail(w)
  PROVE  Snapshots' /\ Stored \subseteq Stored'
  <1>1. TypeOK /\ worker \in [Worker -> WorkerState]
    BY Shapes DEF JobInv
  <1>2. Stored \subseteq Stored'
    <2>1. CASE Write(w)
      BY <1>1, <2>1, WriteIs
    <2>2. CASE Take(w) \/ Read(w) \/ Process(w) \/ Finish(w) \/ Fail(w)
      BY <2>2 DEF Take, Read, Process, Finish, Fail, Stored
    <2> QED BY <2>1, <2>2
  <1>3. \A v \in Worker : v # w => worker'[v] = worker[v]
    BY <1>1 DEF Take, Read, Process, Write, Finish, Fail
  <1>4. worker'[w].seen = NoSnapshot \/ worker'[w].seen \subseteq Stored'
    <2>1. CASE Take(w)
      BY <2>1, TakeCounts
    <2>2. CASE Read(w)
      BY <1>1, <2>2, ReadIs
    <2>3. CASE Process(w)
      <3>1. worker'[w].seen \in {worker[w].seen, Existing(w)}
        BY <1>1, <2>3, ProcessIs
      <3>2. Existing(w) \subseteq Stored
        BY DEF Existing, Snapshots
      <3> QED BY <3>1, <3>2, <1>2 DEF Snapshots
    <2>4. CASE Write(w)
      BY <1>1, <1>2, <2>4, WriteIs DEF Snapshots
    <2>5. CASE Finish(w) \/ Fail(w)
      BY <1>1, <2>5 DEF Finish, Fail, Idle
    <2> QED BY <2>1, <2>2, <2>3, <2>4, <2>5
  <1>5. Snapshots'
    BY <1>2, <1>3, <1>4 DEF Snapshots
  <1> QED BY <1>2, <1>5

(* So does every other step.                                               *)
LEMMA OtherJob ==
  ASSUME JobInv, Snapshots, RunJob \/ Crash \/ UNCHANGED vars
  PROVE  JobInv' /\ Snapshots'
  <1>1. /\ TypeOK /\ worker \in [Worker -> WorkerState]
        /\ MaxNights \in Nat /\ MaxCrashes \in Nat
    BY Shapes, BatchAssumption DEF JobInv, BatchAssumption
  <1>2. CASE RunJob
    <2>1. /\ Launched' /\ OpenCount'
          /\ night' \in Night
          /\ open' \in [Night -> 0 .. PartitionCount]
          /\ queue' \in Seq([job : Night, left : Seq(Currency)])
      BY <1>2, RunJobCounts
    <2>2. UNCHANGED <<rows, worker, failed, unlocated, crashes>>
      BY <1>2 DEF RunJob
    <2>3. night' \in 0 .. MaxNights
      BY <1>1, <2>1 DEF Night
    <2>4. TypeOK'
      BY <1>1, <2>1, <2>2, <2>3 DEF TypeOK, WorkerState
    <2>5. Snapshots'
      BY <2>2 DEF Snapshots, Stored
    <2> QED BY <2>1, <2>4, <2>5 DEF JobInv
  <1>3. CASE Crash
    <2>1. /\ Launched' /\ OpenCount'
          /\ open' \in [Night -> 0 .. PartitionCount]
          /\ queue' = <<>>
          /\ \A w \in Worker : worker'[w] = Idle
      BY <1>3, CrashCounts
    <2>2. /\ UNCHANGED <<rows, night, unlocated>>
          /\ worker' = [w \in Worker |-> Idle]
          /\ failed' = failed \cup { n \in Night : open[n] > 0 }
          /\ crashes < MaxCrashes /\ crashes' = crashes + 1
      BY <1>3 DEF Crash
    <2>3. crashes' \in 0 .. MaxCrashes
      BY <1>1, <2>2 DEF TypeOK
    <2>4. worker' \in [Worker -> WorkerState]
      BY <2>2, Shapes
    <2>5. queue' \in Seq([job : Night, left : Seq(Currency)])
      BY <2>1, EmptySeq
    <2>6. TypeOK'
      BY <1>1, <2>1, <2>2, <2>3, <2>4, <2>5 DEF TypeOK, WorkerState
    <2>7. Snapshots'
      BY <2>1 DEF Snapshots, Idle
    <2> QED BY <2>1, <2>6, <2>7 DEF JobInv
  <1>4. CASE UNCHANGED vars
    <2>1. TypeOK'
      BY <1>1, <1>4 DEF TypeOK, vars
    <2>2. Launched' /\ Snapshots' /\ OpenCount'
      BY <1>4 DEF JobInv, Launched, Snapshots, Stored, OpenCount, Queued, BusyOn, vars
    <2> QED BY <2>1, <2>2 DEF JobInv
  <1> QED BY <1>2, <1>3, <1>4

(* Every step keeps the shapes, the counts and what the chunks have seen.  *)
LEMMA JobStep == JobInv /\ Snapshots /\ [Next]_vars => JobInv' /\ Snapshots'
  BY WorkerJob, WorkerSnapshots, OtherJob DEF Next, Over

(* Every variable has its shape, and the counts of the jobs are those of   *)
(* their partitions, however many nights and restarts there are.           *)
THEOREM BatchTypes == Spec => []TypeOK
  <1>1. JobInv /\ Snapshots => TypeOK
    BY DEF JobInv
  <1> QED BY <1>1, JobInit, JobStep, PTL DEF Spec

-----------------------------------------------------------------------------
(* Nothing is left out.                                                    *)

(* A list cut in two, at a place or behind its head, and the empty list.   *)
LEMMA CutList ==
  ASSUME NEW S, NEW s \in Seq(S), NEW x \in Range(s)
  PROVE  /\ s # <<>>
         /\ \A n \in 1 .. Len(s) :
              x \in Range(SubSeq(s, 1, n)) \/ x \in Range(SubSeq(s, n + 1, Len(s)))
         /\ x = Head(s) \/ x \in Range(Tail(s))
  <1>1. /\ Range(s) = { s[k] : k \in 1 .. Len(s) } /\ Len(s) \in Nat
        /\ s = <<>> => Len(s) = 0
    BY RangeEquality, LenProperties, EmptySeq
  <1>2. PICK k \in 1 .. Len(s) : x = s[k]
    BY <1>1
  <1>3. s # <<>>
    BY <1>1, <1>2
  <1>4. ASSUME NEW n \in 1 .. Len(s)
        PROVE  x \in Range(SubSeq(s, 1, n)) \/ x \in Range(SubSeq(s, n + 1, Len(s)))
    <2> DEFINE a == SubSeq(s, 1, n)
               b == SubSeq(s, n + 1, Len(s))
    <2>1. n \in Int /\ n <= Len(s) /\ n + 1 \in Nat \ {0} /\ Len(s) \in Int /\ 1 \in Nat \ {0}
      BY <1>1
    <2>2. /\ a \in Seq(S) /\ Len(a) = IF 1 <= n THEN n - 1 + 1 ELSE 0
          /\ \A j \in 1 .. n - 1 + 1 : a[j] = s[1 + j - 1]
      BY <2>1, PartOfList
    <2>3. /\ b \in Seq(S) /\ Len(b) = IF n + 1 <= Len(s) THEN Len(s) - (n + 1) + 1 ELSE 0
          /\ \A j \in 1 .. Len(s) - (n + 1) + 1 : b[j] = s[n + 1 + j - 1]
      BY <2>1, PartOfList
    <2> HIDE DEF a, b
    <2>4. CASE k <= n
      <3>1. k \in 1 .. Len(a) /\ a[k] = x
        BY <2>1, <2>2, <2>4, <1>1, <1>2
      <3> QED BY <3>1, <2>2, RangeEquality DEF a
    <2>5. CASE k > n
      <3>1. PICK j \in Int : j = k - n
        BY <1>1
      <3>2. /\ j \in 1 .. Len(b) /\ j \in 1 .. Len(s) - (n + 1) + 1
            /\ n + 1 + j - 1 = k
        BY <3>1, <2>1, <2>3, <2>5, <1>1, <1>2
      <3>3. b[j] = s[n + 1 + j - 1]
        BY <3>2, <2>3
      <3>4. b[j] = x
        BY <3>2, <3>3, <1>2
      <3> QED BY <3>2, <3>4, <2>3, RangeEquality DEF b
    <2> QED BY <2>4, <2>5, <1>1, <1>2
  <1>5. x = Head(s) \/ x \in Range(Tail(s))
    <2>1. /\ Tail(s) \in Seq(S) /\ Len(Tail(s)) = Len(s) - 1
          /\ \A j \in 1 .. Len(Tail(s)) : Tail(s)[j] = s[j + 1]
      BY <1>3, HeadTailProperties
    <2>2. CASE k = 1
      BY <2>2, <1>2, <1>3
    <2>3. CASE k # 1
      <3>1. k - 1 \in 1 .. Len(Tail(s)) /\ k - 1 + 1 = k
        BY <2>1, <2>3, <1>1, <1>2
      <3>2. Tail(s)[k - 1] = x
        BY <3>1, <2>1, <1>2
      <3> QED BY <3>1, <3>2, <2>1, RangeEquality
    <2> QED BY <2>2, <2>3
  <1> QED BY <1>3, <1>4, <1>5

(* For job n the list of currency c: is done with; is in a partition that  *)
(* waits; or is in the hands of thread w, to be read, in the chunk, or     *)
(* already among what the chunk will insert.                               *)
Done(n, c) ==
  \A m \in Merchant : Listed(c, m) > 0 => m \in Stored \cup unlocated[n]

Waits(n, c) == \E k \in 1 .. Len(queue) : queue[k].job = n /\ c \in Range(queue[k].left)

Found(w, n, c) ==
  \A m \in Merchant : Listed(c, m) > 0 =>
    m \in Stored \cup unlocated[n] \/ \E d \in Currency : worker[w].out[m][d] > 0

Works(w, n, c) ==
  /\ worker[w].stage # "idle" /\ worker[w].job = n
  /\ \/ c \in Range(worker[w].left)
     \/ worker[w].stage = "process" /\ (c \in Range(worker[w].chunk) \/ Found(w, n, c))

Handled(n, c) == Waits(n, c) \/ (\E w \in Worker : Works(w, n, c)) \/ Done(n, c)

(* A job that has not failed has forgotten no currency.                    *)
NothingForgotten ==
  \A n \in 1 .. night : n \notin failed => \A c \in Currency : Handled(n, c)

(* What is in the table or not located stays so, and so does what a chunk  *)
(* has found.                                                              *)
LEMMA StaysDone ==
  ASSUME NEW n, NEW c, Done(n, c), Stored \subseteq Stored', unlocated[n] \subseteq unlocated'[n]
  PROVE  Done(n, c)'
  BY DEF Done, Listed

(* A thread that does not move keeps what it has of a currency.            *)
LEMMA StaysAtWork ==
  ASSUME NEW v, NEW n, NEW c, Works(v, n, c), worker'[v] = worker[v],
         Stored \subseteq Stored', unlocated[n] \subseteq unlocated'[n]
  PROVE  Works(v, n, c)'
  <1>1. Found(v, n, c) => Found(v, n, c)'
    BY DEF Found, Listed
  <1> QED BY <1>1 DEF Works

(* A partition that a thread takes is in its hands.                        *)
LEMMA TakeKeeps ==
  ASSUME JobInv, NEW w \in Worker, Take(w), NEW n, NEW c, Handled(n, c)
  PROVE  Handled(n, c)'
  <1>1. /\ worker' = [worker EXCEPT ![w] = worker'[w]]
        /\ worker[w].stage = "idle" /\ worker'[w].stage = "read"
        /\ Len(queue') = Len(queue) - 1
        /\ \A k \in 1 .. Len(queue') : queue'[k] = queue[k + 1]
        /\ worker'[w].job = queue[1].job /\ worker'[w].left = queue[1].left
    BY TakeCounts
  <1>2. UNCHANGED <<rows, unlocated>> /\ Stored' = Stored
    BY DEF Take, Stored
  <1>3. worker \in [Worker -> WorkerState] /\ Len(queue) \in Nat
    BY Shapes, QueuedFinite DEF JobInv
  <1>4. CASE Done(n, c)
    BY <1>2, <1>4, StaysDone DEF Handled
  <1>5. ASSUME NEW v \in Worker, Works(v, n, c)
        PROVE  Works(v, n, c)'
    <2>1. v # w
      BY <1>1, <1>5 DEF Works
    <2>2. worker'[v] = worker[v]
      BY <2>1, <1>1, <1>3
    <2> QED BY <2>2, <1>2, <1>5, StaysAtWork
  <1>6. ASSUME NEW k \in 1 .. Len(queue), queue[k].job = n, c \in Range(queue[k].left)
        PROVE  Handled(n, c)'
    <2>1. CASE k = 1
      <3>1. Works(w, n, c)'
        BY <2>1, <1>1, <1>6 DEF Works
      <3> QED BY <3>1 DEF Handled
    <2>2. CASE k # 1
      <3>1. k - 1 \in 1 .. Len(queue') /\ k - 1 + 1 = k
        BY <2>2, <1>1, <1>3
      <3>2. queue'[k - 1] = queue[k]
        BY <3>1, <1>1
      <3>3. Waits(n, c)'
        BY <3>1, <3>2, <1>6 DEF Waits
      <3> QED BY <3>3 DEF Handled
    <2> QED BY <2>1, <2>2
  <1> QED BY <1>4, <1>5, <1>6 DEF Handled, Waits

(* What is not in the chunk is left for the next one.                      *)
LEMMA ReadKeeps ==
  ASSUME JobInv, NEW w \in Worker, Read(w), NEW n, NEW c, Handled(n, c)
  PROVE  Handled(n, c)'
  <1> DEFINE left == worker[w].left
             e == Least(ChunkSize, Len(left))
  <1>1. /\ worker[w].stage = "read"
        /\ left \in Seq(Currency)
        /\ e \in 1 .. Len(left)
        /\ worker' = [worker EXCEPT ![w] = worker'[w]]
        /\ worker'[w].stage = "process" /\ worker'[w].job = worker[w].job
        /\ worker'[w].left = SubSeq(left, e + 1, Len(left))
        /\ worker'[w].chunk = SubSeq(left, 1, e)
    BY ReadIs DEF JobInv
  <1>2. UNCHANGED <<rows, queue, unlocated>> /\ Stored' = Stored
    BY DEF Read, Stored
  <1>3. worker \in [Worker -> WorkerState]
    BY Shapes DEF JobInv
  <1>4. CASE Done(n, c)
    BY <1>2, <1>4, StaysDone DEF Handled
  <1>5. CASE Waits(n, c)
    BY <1>2, <1>5 DEF Handled, Waits
  <1>6. ASSUME NEW v \in Worker, Works(v, n, c)
        PROVE  Works(v, n, c)'
    <2>1. CASE v # w
      <3>1. worker'[v] = worker[v]
        BY <2>1, <1>1, <1>3
      <3> QED BY <3>1, <1>2, <1>6, StaysAtWork
    <2>2. CASE v = w
      <3>1. worker[w].job = n /\ c \in Range(left)
        BY <2>2, <1>1, <1>6 DEF Works
      <3> HIDE DEF left, e
      <3>2. c \in Range(SubSeq(left, 1, e)) \/ c \in Range(SubSeq(left, e + 1, Len(left)))
        BY <3>1, <1>1, CutList
      <3> QED BY <3>1, <3>2, <2>2, <1>1 DEF Works
    <2> QED BY <2>1, <2>2
  <1> QED BY <1>4, <1>5, <1>6 DEF Handled

(* What a currency lists is in the table, found or not located.            *)
LEMMA ProcessKeeps ==
  ASSUME JobInv, Snapshots, NEW w \in Worker, Process(w), NEW n \in Night, NEW c \in Currency,
         Handled(n, c)
  PROVE  Handled(n, c)'
  <1> DEFINE h == Head(worker[w].chunk)
             j == worker[w].job
             new(d, m) == IF m \in Existing(w) THEN 0 ELSE Listed(d, m)
             o == worker[w].out
             p == worker'[w].out
  <1>1. /\ worker[w].stage = "process"
        /\ worker[w].chunk \in Seq(Currency)
        /\ worker' = [worker EXCEPT ![w] = worker'[w]]
        /\ worker'[w].stage = "process" /\ worker'[w].job = j
        /\ worker'[w].left = worker[w].left
        /\ worker'[w].chunk = Tail(worker[w].chunk)
        /\ o \in [Merchant -> [Currency -> Nat]]
        /\ h \in Currency
    BY ProcessIs DEF JobInv
  <1>2. PICK found \in [Merchant -> Nat] :
          /\ \A m \in Merchant : found[m] <= new(h, m)
          /\ \A m \in Merchant, d \in Currency : p[m][d] = o[m][d] + IF d = h THEN found[m] ELSE 0
          /\ unlocated' = [unlocated EXCEPT ![j] = @ \cup
               { m \in Merchant : found[m] < new(h, m) }]
    BY ProcessIs DEF JobInv
  <1>3. UNCHANGED <<rows, queue>> /\ Stored' = Stored
    BY DEF Process, Stored
  <1>4. worker \in [Worker -> WorkerState] /\ unlocated \in [Night -> SUBSET Merchant]
    BY Shapes DEF JobInv, TypeOK
  <1>5. j \in Night
    BY <1>1, BusyIsOpen
  <1>6. unlocated[n] \subseteq unlocated'[n]
    <2> HIDE DEF j, h, new
    <2> QED BY <1>2, <1>4, <1>5
  <1>7. CASE Done(n, c)
    BY <1>3, <1>6, <1>7, StaysDone DEF Handled
  <1>8. CASE Waits(n, c)
    BY <1>3, <1>8 DEF Handled, Waits
  <1>9. ASSUME NEW v \in Worker, Works(v, n, c)
        PROVE  Works(v, n, c)'
    <2>1. CASE v # w
      <3>1. worker'[v] = worker[v]
        BY <2>1, <1>1, <1>4
      <3> QED BY <3>1, <1>3, <1>6, <1>9, StaysAtWork
    <2>2. CASE v = w
      <3>1. j = n
        BY <2>2, <1>9 DEF Works
      <3>2. CASE c \in Range(worker[w].left)
        BY <3>1, <3>2, <2>2, <1>1 DEF Works
      <3>3. CASE c \in Range(worker[w].chunk) /\ c # h
        <4>1. c \in Range(Tail(worker[w].chunk))
          BY <3>3, <1>1, CutList
        <4> QED BY <4>1, <3>1, <2>2, <1>1 DEF Works
      <3>4. CASE Found(w, n, c)
        <4>1. \A m \in Merchant : (\E d \in Currency : o[m][d] > 0) => \E d \in Currency : p[m][d] > 0
          <5> HIDE DEF h, new, o, p
          <5> SUFFICES ASSUME NEW m \in Merchant, NEW d \in Currency, o[m][d] > 0
                       PROVE  p[m][d] > 0
            OBVIOUS
          <5>1. o[m][d] \in Nat /\ found[m] \in Nat
            BY <1>1, <1>2
          <5>2. p[m][d] = o[m][d] + IF d = h THEN found[m] ELSE 0
            BY <1>2
          <5> QED BY <5>1, <5>2
        <4>2. Found(w, n, c)'
          BY <4>1, <3>4, <1>3, <1>6 DEF Found, Listed
        <4> QED BY <4>2, <3>1, <2>2, <1>1 DEF Works
      <3>5. CASE c = h
        <4>1. ASSUME NEW m \in Merchant, Listed(c, m) > 0
              PROVE  m \in Stored \cup unlocated'[n] \/ \E d \in Currency : p[m][d] > 0
          <5>1. CASE m \in Existing(w)
            BY <5>1 DEF Existing, Snapshots
          <5>2. CASE m \notin Existing(w) /\ found[m] < Listed(c, m)
            <6>1. m \in { x \in Merchant : found[x] < new(h, x) }
              BY <5>2, <3>5
            <6>2. m \in unlocated'[n]
              <7> DEFINE M == { x \in Merchant : found[x] < new(h, x) }
              <7>1. unlocated' = [unlocated EXCEPT ![j] = @ \cup M] /\ m \in M
                BY <1>2, <6>1
              <7> HIDE DEF M, j
              <7> QED BY <7>1, <3>1, <1>4, <1>5
            <6> QED BY <6>2
          <5>3. CASE m \notin Existing(w) /\ ~(found[m] < Listed(c, m))
            <6>1. found[m] > 0 /\ found[m] \in Nat
              <7>1. Listed(c, m) \in Nat
                BY Shapes
              <7> QED BY <7>1, <5>3, <4>1
            <6>2. p[m][c] = o[m][c] + found[m] /\ o[m][c] \in Nat
              <7> HIDE DEF o, p, h, new
              <7> QED BY <3>5, <1>1, <1>2
            <6> QED BY <6>1, <6>2
          <5> QED BY <5>1, <5>2, <5>3
        <4>2. Found(w, n, c)'
          BY <4>1, <1>3 DEF Found, Listed
        <4> QED BY <4>2, <3>1, <2>2, <1>1 DEF Works
      <3> QED BY <3>2, <3>3, <3>4, <3>5, <2>2, <1>9 DEF Works
    <2> QED BY <2>1, <2>2
  <1> QED BY <1>7, <1>8, <1>9 DEF Handled

(* What the chunk has found is in the table when the chunk is forgotten.   *)
LEMMA WriteKeeps ==
  ASSUME JobInv, NEW w \in Worker, Write(w), NEW n, NEW c, Handled(n, c)
  PROVE  Handled(n, c)'
  <1>1. /\ worker[w].stage = "process" /\ worker[w].chunk = <<>>
        /\ worker' = [worker EXCEPT ![w] = worker'[w]]
        /\ worker'[w].stage = "read" /\ worker'[w].job = worker[w].job
        /\ worker'[w].left = worker[w].left
        /\ Stored' = Stored \cup { m \in Merchant : \E d \in Currency : worker[w].out[m][d] > 0 }
    BY WriteIs DEF JobInv
  <1>2. UNCHANGED <<queue, unlocated>>
    BY DEF Write
  <1>3. worker \in [Worker -> WorkerState]
    BY Shapes DEF JobInv
  <1>4. CASE Done(n, c)
    BY <1>1, <1>2, <1>4, StaysDone DEF Handled
  <1>5. CASE Waits(n, c)
    BY <1>2, <1>5 DEF Handled, Waits
  <1>6. ASSUME NEW v \in Worker, Works(v, n, c)
        PROVE  Works(v, n, c)' \/ Done(n, c)'
    <2>1. CASE v # w
      <3>1. worker'[v] = worker[v]
        BY <2>1, <1>1, <1>3
      <3> QED BY <3>1, <1>1, <1>2, <1>6, StaysAtWork
    <2>2. CASE v = w
      <3>1. c \notin Range(worker[w].chunk)
        BY <1>1, CutList, EmptySeq
      <3>2. CASE c \in Range(worker[w].left)
        BY <3>2, <2>2, <1>1, <1>6 DEF Works
      <3>3. CASE Found(w, n, c)
        <4>1. Done(n, c)'
          BY <3>3, <1>1, <1>2 DEF Found, Done, Listed
        <4> QED BY <4>1
      <3> QED BY <3>1, <3>2, <3>3, <2>2, <1>6 DEF Works
    <2> QED BY <2>1, <2>2
  <1> QED BY <1>4, <1>5, <1>6 DEF Handled

(* A thread that ends takes with it only what is done, or a job's success. *)
LEMMA EndKeeps ==
  ASSUME JobInv, NEW w \in Worker, Finish(w) \/ Fail(w),
         NEW n, n \notin failed', NEW c, Handled(n, c)
  PROVE  Handled(n, c)'
  <1>1. worker \in [Worker -> WorkerState]
    BY Shapes DEF JobInv
  <1>2. /\ UNCHANGED <<rows, queue, unlocated>> /\ Stored' = Stored
        /\ worker' = [worker EXCEPT ![w] = Idle]
    BY DEF Finish, Fail, Stored
  <1>3. CASE Done(n, c)
    BY <1>2, <1>3, StaysDone DEF Handled
  <1>4. CASE Waits(n, c)
    BY <1>2, <1>4 DEF Handled, Waits
  <1>5. ASSUME NEW v \in Worker, Works(v, n, c)
        PROVE  Works(v, n, c)'
    <2>1. CASE v # w
      <3>1. worker'[v] = worker[v]
        BY <2>1, <1>1, <1>2
      <3> QED BY <3>1, <1>2, <1>5, StaysAtWork
    <2>2. CASE v = w /\ Finish(w)
      <3>1. worker[w].stage = "read" /\ worker[w].left = <<>>
        BY <2>2 DEF Finish
      <3>2. c \notin Range(worker[w].left)
        <4>1. worker[w].left \in Seq(Currency)
          BY <3>1, EmptySeq
        <4> QED BY <3>1, <4>1, CutList
      <3> QED BY <3>1, <3>2, <2>2, <1>5 DEF Works
    <2>3. CASE v = w /\ Fail(w)
      BY <2>3, <1>5 DEF Works, Fail
    <2> QED BY <2>1, <2>2, <2>3
  <1> QED BY <1>3, <1>4, <1>5 DEF Handled

(* The currencies of a new job are all in its partitions.                  *)
LEMMA RunJobHandles ==
  ASSUME JobInv, RunJob, NothingForgotten
  PROVE  NothingForgotten'
  <1>1. /\ night' = night + 1
        /\ \A k \in 1 .. Len(queue) : k \in 1 .. Len(queue') /\ queue'[k] = queue[k]
        /\ \A i \in 0 .. PartitionCount - 1 : \E k \in 1 .. Len(queue') :
             queue'[k].job = night' /\ queue'[k].left = Partition(i)
    BY RunJobCounts
  <1>2. UNCHANGED <<rows, worker, failed, unlocated>> /\ Stored' = Stored
    BY DEF RunJob, Stored
  <1>3. night \in Nat
    BY BatchAssumption DEF JobInv, TypeOK, BatchAssumption
  <1>4. ASSUME NEW n \in 1 .. night', n \notin failed', NEW c \in Currency
        PROVE  Handled(n, c)'
    <2>1. CASE n = night'
      <3>1. PICK i \in 0 .. PartitionCount - 1 : c \in Range(Partition(i))
        BY PartitionsCover
      <3>2. Waits(n, c)'
        BY <3>1, <2>1, <1>1 DEF Waits
      <3> QED BY <3>2 DEF Handled
    <2>2. CASE n # night'
      <3>1. Handled(n, c)
        <4>1. n \in 1 .. night
          BY <2>2, <1>1, <1>3
        <4> QED BY <4>1, <1>2, <1>4 DEF NothingForgotten
      <3>2. Done(n, c) => Done(n, c)'
        BY <1>2, StaysDone
      <3>3. Waits(n, c) => Waits(n, c)'
        BY <1>1 DEF Waits
      <3>4. \A v \in Worker : Works(v, n, c) => Works(v, n, c)'
        BY <1>2, StaysAtWork
      <3> QED BY <3>1, <3>2, <3>3, <3>4 DEF Handled
    <2> QED BY <2>1, <2>2
  <1> QED BY <1>4 DEF NothingForgotten

(* A job that does not fail in a restart has done all its currencies.      *)
LEMMA CrashHandles ==
  ASSUME JobInv, Crash, NothingForgotten
  PROVE  NothingForgotten'
  <1>1. /\ UNCHANGED <<rows, night, unlocated>> /\ Stored' = Stored
        /\ failed' = failed \cup { n \in Night : open[n] > 0 }
    BY DEF Crash, Stored
  <1>2. night \in 0 .. MaxNights /\ MaxNights \in Nat /\ open \in [Night -> 0 .. PartitionCount]
    BY BatchAssumption DEF JobInv, TypeOK, BatchAssumption
  <1>3. ASSUME NEW n \in 1 .. night', n \notin failed', NEW c \in Currency
        PROVE  Handled(n, c)'
    <2>1. n \in 1 .. night /\ n \in Night /\ n \notin failed
      BY <1>1, <1>2, <1>3 DEF Night
    <2>2. open[n] = 0
      BY <2>1, <1>1, <1>2, <1>3, EnoughPartitions
    <2>3. Queued(n) = {} /\ BusyOn(n) = {}
      BY <2>1, <2>2, ClosedIsIdle
    <2>4. Handled(n, c)
      BY <2>1 DEF NothingForgotten
    <2>5. Done(n, c)
      BY <2>3, <2>4 DEF Handled, Waits, Works, Queued, BusyOn
    <2>6. Done(n, c)'
      BY <2>5, <1>1, StaysDone
    <2> QED BY <2>6 DEF Handled
  <1> QED BY <1>3 DEF NothingForgotten

(* No step forgets a currency.                                             *)
LEMMA HandledStep ==
  ASSUME JobInv, Snapshots, NothingForgotten, [Next]_vars
  PROVE  NothingForgotten'
  <1>1. night \in 0 .. MaxNights /\ MaxNights \in Nat
    BY BatchAssumption DEF JobInv, TypeOK, BatchAssumption
  <1>2. ASSUME NEW w \in Worker,
               Take(w) \/ Read(w) \/ Process(w) \/ Write(w) \/ Finish(w) \/ Fail(w)
        PROVE  NothingForgotten'
    <2>1. night' = night /\ failed \subseteq failed'
      BY <1>2 DEF Take, Read, Process, Write, Finish, Fail
    <2> SUFFICES ASSUME NEW n \in 1 .. night, n \notin failed', NEW c \in Currency
                 PROVE  Handled(n, c)'
      BY <2>1 DEF NothingForgotten
    <2>2. Handled(n, c) /\ n \in Night
      BY <2>1, <1>1 DEF NothingForgotten, Night
    <2> QED BY <1>2, <2>2, TakeKeeps, ReadKeeps, ProcessKeeps, WriteKeeps, EndKeeps
  <1>3. CASE Over \/ UNCHANGED vars
    <2>1. UNCHANGED vars
      BY <1>3 DEF Over
    <2> QED BY <2>1 DEF NothingForgotten, Handled, Waits, Works, Found, Done, Stored, Listed, vars
  <1> QED BY <1>2, <1>3, RunJobHandles, CrashHandles DEF Next

(* When a job has completed, the table has every merchant of the pages it  *)
(* asked for but those that Kakao did not find, for any number of threads, *)
(* of failed jobs and of restarts.                                         *)
THEOREM CompletedJobsStoreAll == Spec => []CompletedJobStoresAll
  <1>1. Init => NothingForgotten
    BY DEF Init, NothingForgotten
  <1>2. JobInv /\ Snapshots /\ NothingForgotten /\ [Next]_vars => NothingForgotten'
    BY HandledStep
  <1>3. JobInv /\ NothingForgotten => CompletedJobStoresAll
    <2> SUFFICES ASSUME JobInv, NothingForgotten,
                        NEW n \in 1 .. night, open[n] = 0, n \notin failed,
                        NEW c \in Currency
                 PROVE  Done(n, c)
      BY DEF CompletedJobStoresAll, Done
    <2>1. n \in Night
      BY BatchAssumption DEF JobInv, TypeOK, BatchAssumption, Night
    <2>2. Queued(n) = {} /\ BusyOn(n) = {}
      BY <2>1, ClosedIsIdle
    <2> QED BY <2>2 DEF NothingForgotten, Handled, Waits, Works, Queued, BusyOn
  <1> QED BY <1>1, <1>2, <1>3, JobInit, JobStep, PTL DEF Spec

-----------------------------------------------------------------------------
(* Nothing is stored twice.                                                *)

(* The pool of BatchConfig: one core thread, and a queue that is never     *)
(* full (its capacity is the default of ThreadPoolTaskExecutor).           *)
OnePoolThread == CorePoolSize = 1 /\ MaxNights * PartitionCount < QueueCapacity

(* A thread that reads has the rest of a partition behind its chunk j.     *)
ReadsOn(w) ==
  \E i \in 0 .. PartitionCount - 1, j \in Nat :
    worker[w].left = SubSeq(Partition(i), j * ChunkSize + 1, Len(Partition(i)))

(* A thread in chunk j of partition i will insert what the currencies that *)
(* it has looked up list, and no merchant that the table has.              *)
InChunk(w, i, j) ==
  /\ worker[w].left = SubSeq(Partition(i), (j + 1) * ChunkSize + 1, Len(Partition(i)))
  /\ worker[w].chunk \in Seq(Currency) /\ IsInjective(worker[w].chunk)
  /\ Range(worker[w].chunk) \subseteq ChunkOf(i, j)
  /\ worker[w].seen \in {NoSnapshot, Stored}
  /\ \A m \in Merchant, c \in Currency :
       worker[w].out[m][c] <=
         IF c \in ChunkOf(i, j) \ Range(worker[w].chunk) /\ m \notin Stored
         THEN Listed(c, m) ELSE 0

OneThreadInv ==
  /\ Len(queue) <= night * PartitionCount
  /\ \A k \in 1 .. Len(queue) : \E i \in 0 .. PartitionCount - 1 : queue[k].left = Partition(i)
  /\ \A v, w \in Busy : v = w
  /\ \A w \in Worker : worker[w].stage = "read" => ReadsOn(w)
  /\ \A w \in Worker : worker[w].stage = "process" =>
       \E i \in 0 .. PartitionCount - 1, j \in 0 .. PartitionSize : InChunk(w, i, j)
  /\ StoredByOneChunk

(* The first n entries of a list, what is left of it behind the first a,   *)
(* and the part of that up to entry b.                                     *)
Upto(s, n) == SubSeq(s, 1, n)
Rest(s, a) == SubSeq(s, a + 1, Len(s))
Piece(s, a, b) == SubSeq(s, a + 1, Least(b, Len(s)))

(* The next chunk of a partition of which the first a entries are read.    *)
LEMMA NextChunk ==
  ASSUME NEW S, NEW s \in Seq(S), IsInjective(s), NEW a \in Nat, NEW d \in Nat \ {0},
         NEW left, left = Rest(s, a), left # <<>>,
         NEW n, n = Least(d, Len(left)), NEW b, b = a + d
  PROVE  /\ a < Len(s)
         /\ Upto(left, n) = Piece(s, a, b)
         /\ Rest(left, n) = Rest(s, b)
         /\ SubSeq(left, 1, n) \in Seq(S) /\ IsInjective(SubSeq(left, 1, n))
  <1> DEFINE l == Len(s)
             k == Len(left)
  <1>0. left = SubSeq(s, a + 1, l)
    BY DEF Rest
  <1>1. l \in Nat
    BY LenProperties
  <1>2. a < l
    <2> SUFFICES ASSUME l <= a PROVE FALSE
      BY <1>1
    <2> QED BY <1>0, <1>1, SubSeqEmpty
  <1>3. left \in Seq(S) /\ k = l - a /\ IsInjective(left)
    <2>1. a + 1 \in Nat \ {0} /\ l \in Int /\ l <= Len(s)
      BY <1>1
    <2> HIDE DEF l
    <2>2. left = SubSeq(s, a + 1, l)
      BY <1>0
    <2>3. SubSeq(s, a + 1, l) \in Seq(S)
      BY <2>1, PartOfList
    <2>4. Len(SubSeq(s, a + 1, l)) = IF a + 1 <= l THEN l - (a + 1) + 1 ELSE 0
      BY <2>1, PartOfList
    <2>5. IsInjective(SubSeq(s, a + 1, l))
      BY <2>1, PartOfList
    <2> QED BY <2>2, <2>3, <2>4, <2>5, <1>1, <1>2
  <1>4. n \in 1 .. k /\ n \in {d, k} /\ n <= d /\ k \in Nat
    <2>1. k \in Nat \ {0} /\ n = Least(d, k)
      BY <1>1, <1>2, <1>3
    <2> HIDE DEF k
    <2> QED BY <2>1 DEF Least
  <1>5. a + n = Least(a + d, l)
    BY <1>1, <1>2, <1>3, <1>4 DEF Least
  <1>6. /\ a + 1 \in 1 .. l /\ l \in 1 .. l
        /\ 1 \in 1 .. l - (a + 1) + 1 /\ n \in 1 .. l - (a + 1) + 1
        /\ k \in 1 .. l - (a + 1) + 1
    BY <1>1, <1>2, <1>3, <1>4
  <1>7. SubSeq(left, 1, n) = SubSeq(s, a + 1, Least(a + d, l))
    <2>1. SubSeq(SubSeq(s, a + 1, l), 1, n) = SubSeq(s, a + 1 + 1 - 1, a + 1 + n - 1)
      BY <1>6, SubSeqOfSubSeq
    <2>2. a + 1 + 1 - 1 = a + 1 /\ a + 1 + n - 1 = a + n
      BY <1>3, <1>4
    <2> QED BY <2>1, <2>2, <1>0, <1>5
  <1>8. SubSeq(left, n + 1, k) = SubSeq(s, a + d + 1, l)
    <2>1. CASE n = k
      <3>1. SubSeq(left, n + 1, k) = <<>>
        BY <2>1, <1>4, SubSeqEmpty
      <3>2. a + d + 1 \in Int /\ l \in Int /\ l < a + d + 1
        BY <2>1, <1>1, <1>3, <1>4
      <3> HIDE DEF l
      <3>3. SubSeq(s, a + d + 1, l) = <<>>
        BY <3>2, SubSeqEmpty
      <3> QED BY <3>1, <3>3
    <2>2. CASE n < k
      <3> HIDE DEF l, k
      <3>1. PICK e \in Int : e = n + 1
        BY <1>4
      <3>2. n = d /\ e \in 1 .. l - (a + 1) + 1
        BY <2>2, <3>1, <1>1, <1>3, <1>4
      <3>3. SubSeq(SubSeq(s, a + 1, l), e, k) = SubSeq(s, a + 1 + e - 1, a + 1 + k - 1)
        BY <3>2, <1>6, SubSeqOfSubSeq
      <3>4. a + 1 + e - 1 = a + d + 1 /\ a + 1 + k - 1 = l
        BY <3>1, <3>2, <1>1, <1>3, <1>4
      <3>5. left = SubSeq(s, a + 1, l)
        BY <1>0
      <3> QED BY <3>1, <3>3, <3>4, <3>5
    <2> QED BY <2>1, <2>2, <1>4
  <1>9. SubSeq(left, 1, n) \in Seq(S) /\ IsInjective(SubSeq(left, 1, n))
    <2>1. 1 \in Nat \ {0} /\ n \in Int /\ n <= Len(left)
      BY <1>4
    <2> QED BY <2>1, <1>3, PartOfList
  <1> QED BY <1>2, <1>7, <1>8, <1>9 DEF Upto, Rest, Piece

(* The head of a list whose entries differ is not in its tail.             *)
LEMMA HeadOnce ==
  ASSUME NEW S, NEW s \in Seq(S), s # <<>>, IsInjective(s)
  PROVE  /\ IsInjective(Tail(s)) /\ Tail(s) \in Seq(S)
         /\ Range(Tail(s)) \subseteq Range(s) /\ Head(s) \in Range(s)
         /\ Head(s) \notin Range(Tail(s))
  <1> DEFINE t == Tail(s)
  <1>1. /\ t \in Seq(S) /\ Len(t) = Len(s) - 1
        /\ \A k \in 1 .. Len(t) : t[k] = s[k + 1]
        /\ Len(s) \in Nat \ {0} /\ Head(s) = s[1]
    BY HeadTailProperties, EmptySeq
  <1>2. DOMAIN s = 1 .. Len(s) /\ DOMAIN t = 1 .. Len(t)
    BY <1>1, LenProperties
  <1> HIDE DEF t
  <1>3. \A k \in 1 .. Len(t) : k + 1 \in 1 .. Len(s) /\ k + 1 # 1 /\ t[k] = s[k + 1]
    BY <1>1
  <1>4. 1 \in 1 .. Len(s)
    BY <1>1
  <1>5. IsInjective(t)
    <2> SUFFICES ASSUME NEW a \in 1 .. Len(t), NEW b \in 1 .. Len(t), t[a] = t[b] PROVE a = b
      BY <1>2 DEF IsInjective
    <2>1. s[a + 1] = s[b + 1] /\ a + 1 \in DOMAIN s /\ b + 1 \in DOMAIN s
      BY <1>2, <1>3
    <2>2. a + 1 = b + 1
      BY <2>1 DEF IsInjective
    <2> QED BY <2>2, <1>1
  <1>6. Range(t) \subseteq Range(s) /\ Head(s) \in Range(s)
    BY <1>1, <1>2, <1>3, <1>4 DEF Range
  <1>7. Head(s) \notin Range(t)
    <2> SUFFICES ASSUME NEW k \in 1 .. Len(t), t[k] = s[1] PROVE FALSE
      BY <1>1, <1>2 DEF Range
    <2>1. s[k + 1] = s[1] /\ k + 1 \in DOMAIN s /\ 1 \in DOMAIN s /\ k + 1 # 1
      BY <1>2, <1>3, <1>4
    <2> QED BY <2>1 DEF IsInjective
  <1> QED BY <1>1, <1>5, <1>6, <1>7 DEF t

(* Threads that wait: the table and the other threads are as before.       *)
LEMMA OthersIdle ==
  ASSUME JobInv, OneThreadInv, NEW w \in Worker, worker[w].stage # "idle",
         worker' = [worker EXCEPT ![w] = worker'[w]]
  PROVE  /\ \A v \in Worker : v # w => worker'[v].stage = "idle" /\ worker'[v] = worker[v]
         /\ \A u, v \in Busy' : u = v
  <1>1. worker \in [Worker -> WorkerState]
    BY Shapes DEF JobInv
  <1>2. \A v \in Worker : v # w => worker[v].stage = "idle" /\ worker'[v] = worker[v]
    BY <1>1 DEF OneThreadInv, Busy
  <1> QED BY <1>2 DEF Busy

(* A second thread is never started.                                       *)
LEMMA TakeOne ==
  ASSUME OnePoolThread, JobInv, OneThreadInv, NEW w \in Worker, Take(w)
  PROVE  OneThreadInv'
  <1>1. /\ worker \in [Worker -> WorkerState]
        /\ worker' = [worker EXCEPT ![w] = worker'[w]]
        /\ Len(queue') = Len(queue) - 1
        /\ \A k \in 1 .. Len(queue') : queue'[k] = queue[k + 1]
        /\ worker'[w].stage = "read" /\ worker'[w].left = queue[1].left
        /\ 1 \in 1 .. Len(queue)
    BY TakeCounts, Shapes DEF JobInv
  <1>2. UNCHANGED <<rows, night>> /\ Cardinality(Busy) < PoolSize
    BY DEF Take
  <1>3. /\ Len(queue) \in Nat /\ night \in 0 .. MaxNights /\ MaxNights \in Nat
        /\ PartitionCount \in Nat /\ CorePoolSize \in Nat /\ QueueCapacity \in Nat
    BY QueuedFinite, EnoughPartitions, BatchAssumption DEF JobInv, TypeOK, BatchAssumption
  <1>4. PoolSize = 1
    <2> DEFINE a == night * PartitionCount
               b == MaxNights * PartitionCount
    <2>1. a \in Nat /\ b \in Nat /\ a <= b
      BY <1>3, Times
    <2>2. Len(queue) <= a /\ b < QueueCapacity
      BY DEF OneThreadInv, OnePoolThread
    <2> HIDE DEF a, b
    <2>3. Len(queue) < QueueCapacity
      BY <2>1, <2>2, <1>3
    <2> QED BY <2>3 DEF PoolSize, OnePoolThread
  <1>5. Busy = {}
    <2> SUFFICES ASSUME NEW v \in Busy PROVE FALSE
      OBVIOUS
    <2>1. Busy = {v}
      BY DEF OneThreadInv
    <2>2. Cardinality(Busy) = 1
      BY <2>1, FS_Singleton
    <2> QED BY <2>2, <1>2, <1>4
  <1>6. \A v \in Worker : v # w => worker'[v].stage = "idle"
    BY <1>1, <1>5 DEF Busy
  <1>7. \A u, v \in Busy' : u = v
    BY <1>6 DEF Busy
  <1>8. ASSUME NEW k \in 1 .. Len(queue')
        PROVE  \E i \in 0 .. PartitionCount - 1 : queue'[k].left = Partition(i)
    <2>1. k + 1 \in 1 .. Len(queue) /\ queue'[k] = queue[k + 1]
      BY <1>1, <1>3
    <2> QED BY <2>1 DEF OneThreadInv
  <1>9. ReadsOn(w)'
    <2>1. PICK i \in 0 .. PartitionCount - 1 : worker'[w].left = Partition(i)
      BY <1>1 DEF OneThreadInv
    <2>2. i \in Nat
      BY <1>3
    <2>3. Partition(i) = SubSeq(Partition(i), 1, Len(Partition(i)))
      BY <2>2, PartitionIs, SubSeqFull
    <2>4. 0 * ChunkSize + 1 = 1
      BY BatchAssumption DEF BatchAssumption
    <2>5. worker'[w].left = SubSeq(Partition(i), 0 * ChunkSize + 1, Len(Partition(i)))
      BY <2>1, <2>3, <2>4
    <2> QED BY <2>5 DEF ReadsOn
  <1>10. Len(queue') <= night' * PartitionCount
    <2> DEFINE a == night * PartitionCount
    <2>1. a \in Nat /\ Len(queue) <= a
      BY <1>3 DEF OneThreadInv
    <2> HIDE DEF a
    <2>2. Len(queue') <= a
      BY <2>1, <1>1, <1>3
    <2> QED BY <2>2, <1>2 DEF a
  <1>11. StoredByOneChunk'
    BY <1>2 DEF OneThreadInv, StoredByOneChunk, ChunkOf, Listed
  <1>12. \A v \in Worker : worker'[v].stage = "read" => ReadsOn(v)'
    BY <1>6, <1>9
  <1>13. \A v \in Worker : worker'[v].stage # "process"
    BY <1>1, <1>6
  <1> QED BY <1>7, <1>8, <1>10, <1>11, <1>12, <1>13 DEF OneThreadInv

(* A new chunk has found nothing yet.                                      *)
LEMMA ReadOne ==
  ASSUME JobInv, OneThreadInv, NEW w \in Worker, Read(w)
  PROVE  OneThreadInv'
  <1> DEFINE left == worker[w].left
             n == Least(ChunkSize, Len(left))
             st == worker'[w]
  <1>1. /\ worker[w].stage = "read"
        /\ left \in Seq(Currency) /\ Len(left) \in Nat \ {0}
        /\ worker' = [worker EXCEPT ![w] = st]
        /\ st.stage = "process"
        /\ st.left = SubSeq(left, n + 1, Len(left))
        /\ st.chunk = SubSeq(left, 1, n)
        /\ st.seen = NoSnapshot /\ st.out = NoRows
    BY ReadIs DEF JobInv
  <1>2. UNCHANGED <<rows, queue, night>>
    BY DEF Read
  <1>3. /\ \A v \in Worker : v # w => worker'[v].stage = "idle"
        /\ \A u, v \in Busy' : u = v
    BY <1>1, OthersIdle
  <1>4. PICK i \in 0 .. PartitionCount - 1, j \in Nat :
          left = SubSeq(Partition(i), j * ChunkSize + 1, Len(Partition(i)))
    BY <1>1 DEF OneThreadInv, ReadsOn
  <1>5. /\ i \in Nat /\ Partition(i) \in Seq(Currency) /\ IsInjective(Partition(i))
        /\ Len(Partition(i)) \in 0 .. PartitionSize
        /\ ChunkSize \in Nat \ {0} /\ PartitionSize \in Nat
    <2>1. i \in Nat
      BY EnoughPartitions
    <2> QED BY <2>1, PartitionIs, BatchAssumption DEF BatchAssumption
  <1>6. left # <<>>
    BY <1>1, EmptySeq
  <1> DEFINE a == j * ChunkSize
             p == Partition(i)
  <1>7. a \in Nat /\ j <= a /\ (j + 1) * ChunkSize = a + ChunkSize
    BY <1>5
  <1>8. left = SubSeq(p, a + 1, Len(p))
    BY <1>4
  <1> HIDE DEF left, st, a, p
  <1>9. p \in Seq(Currency) /\ IsInjective(p)
    BY <1>5 DEF p
  <1>10. /\ a < Len(p)
         /\ st.chunk = SubSeq(p, a + 1, Least(a + ChunkSize, Len(p)))
         /\ st.left = SubSeq(p, a + ChunkSize + 1, Len(p))
         /\ st.chunk \in Seq(Currency) /\ IsInjective(st.chunk)
    <2>1. n = Least(ChunkSize, Len(left)) /\ left = Rest(p, a)
      BY <1>8 DEF Rest
    <2> DEFINE b == a + ChunkSize
    <2>2. b = a + ChunkSize
      OBVIOUS
    <2> HIDE DEF n, b
    <2>3. /\ a < Len(p)
          /\ Upto(left, n) = Piece(p, a, b)
          /\ Rest(left, n) = Rest(p, b)
          /\ SubSeq(left, 1, n) \in Seq(Currency) /\ IsInjective(SubSeq(left, 1, n))
      <3>1. ChunkSize \in Nat \ {0} /\ a \in Nat
        BY <1>5, <1>7
      <3>2. a < Len(p)
        BY ONLY <2>1, <2>2, <3>1, <1>6, <1>9, NextChunk
      <3>3. Upto(left, n) = Piece(p, a, b)
        BY ONLY <2>1, <2>2, <3>1, <1>6, <1>9, NextChunk
      <3>4. Rest(left, n) = Rest(p, b)
        BY ONLY <2>1, <2>2, <3>1, <1>6, <1>9, NextChunk
      <3>5. SubSeq(left, 1, n) \in Seq(Currency) /\ IsInjective(SubSeq(left, 1, n))
        BY ONLY <2>1, <2>2, <3>1, <1>6, <1>9, NextChunk
      <3> QED BY <3>2, <3>3, <3>4, <3>5
    <2> QED BY <2>3, <1>1 DEF b, Upto, Rest, Piece
  <1>11. j \in 0 .. PartitionSize
    BY <1>5, <1>7, <1>10 DEF p
  <1>12. Range(st.chunk) = ChunkOf(i, j)
    BY <1>7, <1>10 DEF ChunkOf, a, p
  <1>13. st.left = SubSeq(Partition(i), (j + 1) * ChunkSize + 1, Len(Partition(i)))
    BY <1>7, <1>10 DEF p
  <1>14. \A m \in Merchant, c \in Currency : st.out[m][c] = 0
    BY <1>1 DEF NoRows
  <1>15. InChunk(w, i, j)'
    <2>1. \A m \in Merchant, c \in Currency :
            st.out[m][c] <= IF c \in ChunkOf(i, j) \ Range(st.chunk) /\ m \notin Stored'
                            THEN Listed(c, m) ELSE 0
      BY <1>12, <1>14
    <2> QED BY <2>1, <1>1, <1>10, <1>12, <1>13 DEF InChunk, ChunkOf, Partition, Listed, st
  <1>16. \A v \in Worker : worker'[v].stage # "read"
    BY <1>1, <1>3 DEF st
  <1>17. \A v \in Worker : worker'[v].stage = "process" =>
           \E e \in 0 .. PartitionCount - 1, f \in 0 .. PartitionSize : InChunk(v, e, f)'
    BY <1>3, <1>11, <1>15
  <1>18. StoredByOneChunk'
    BY <1>2 DEF OneThreadInv, StoredByOneChunk, ChunkOf, Listed
  <1> QED BY <1>2, <1>3, <1>16, <1>17, <1>18 DEF OneThreadInv

(* A currency adds what it lists, if the table does not have it.           *)
LEMMA ProcessOne ==
  ASSUME JobInv, OneThreadInv, NEW w \in Worker, Process(w)
  PROVE  OneThreadInv'
  <1> DEFINE h == Head(worker[w].chunk)
             o == worker[w].out
             st == worker'[w]
  <1>1. /\ worker[w].stage = "process"
        /\ worker[w].chunk \in Seq(Currency) /\ worker[w].chunk # <<>>
        /\ h \in Currency
        /\ worker' = [worker EXCEPT ![w] = st]
        /\ st.stage = "process" /\ st.left = worker[w].left
        /\ st.chunk = Tail(worker[w].chunk) /\ st.seen \in {worker[w].seen, Existing(w)}
        /\ o \in [Merchant -> [Currency -> Nat]]
    BY ProcessIs DEF JobInv
  <1>2. PICK found \in [Merchant -> Nat] :
          /\ \A m \in Merchant : found[m] <= IF m \in Existing(w) THEN 0 ELSE Listed(h, m)
          /\ \A m \in Merchant, d \in Currency :
               st.out[m][d] = o[m][d] + IF d = h THEN found[m] ELSE 0
    BY ProcessIs DEF JobInv
  <1>3. UNCHANGED <<rows, queue, night>> /\ Stored' = Stored
    BY DEF Process, Stored
  <1>4. /\ \A v \in Worker : v # w => worker'[v].stage = "idle"
        /\ \A u, v \in Busy' : u = v
    BY <1>1, OthersIdle
  <1>5. PICK i \in 0 .. PartitionCount - 1, j \in 0 .. PartitionSize : InChunk(w, i, j)
    BY <1>1 DEF OneThreadInv
  <1>6. Existing(w) = Stored
    BY <1>5 DEF InChunk, Existing
  <1> HIDE DEF st, h
  <1>7. /\ IsInjective(st.chunk) /\ st.chunk \in Seq(Currency)
        /\ Range(st.chunk) \subseteq Range(worker[w].chunk)
        /\ h \in Range(worker[w].chunk) /\ h \notin Range(st.chunk)
    BY <1>1, <1>5, HeadOnce DEF InChunk, h
  <1> HIDE DEF o
  <1>8. ASSUME NEW m \in Merchant, NEW c \in Currency
        PROVE  st.out[m][c] <= IF c \in ChunkOf(i, j) \ Range(st.chunk) /\ m \notin Stored
                               THEN Listed(c, m) ELSE 0
    <2>1. o[m][c] <= IF c \in ChunkOf(i, j) \ Range(worker[w].chunk) /\ m \notin Stored
                     THEN Listed(c, m) ELSE 0
      BY <1>5 DEF InChunk, o
    <2>2. /\ Range(worker[w].chunk) \subseteq ChunkOf(i, j)
          /\ o[m][c] \in Nat /\ found[m] \in Nat /\ Listed(c, m) \in Nat
      BY <1>1, <1>2, <1>5, Shapes DEF InChunk
    <2>3. CASE c = h
      <3>1. st.out[m][c] = o[m][c] + found[m] /\ o[m][c] = 0
        BY <2>1, <2>2, <2>3, <1>2, <1>7
      <3>2. found[m] <= IF m \in Stored THEN 0 ELSE Listed(c, m)
        BY <2>3, <1>2, <1>6
      <3>3. c \in ChunkOf(i, j) \ Range(st.chunk)
        BY <2>2, <2>3, <1>7
      <3> QED BY <3>1, <3>2, <3>3, <2>2
    <2>4. CASE c # h
      <3>1. st.out[m][c] = o[m][c]
        BY <2>2, <2>4, <1>2
      <3> QED BY <3>1, <2>1, <2>2, <1>7
    <2> QED BY <2>3, <2>4
  <1>9. InChunk(w, i, j)'
    <2>1. /\ st.left = SubSeq(Partition(i), (j + 1) * ChunkSize + 1, Len(Partition(i)))
          /\ Range(st.chunk) \subseteq ChunkOf(i, j)
      BY <1>1, <1>5, <1>7 DEF InChunk
    <2>2. st.seen \in {NoSnapshot, Stored'}
      BY <1>1, <1>3, <1>5, <1>6 DEF InChunk
    <2> QED BY <2>1, <2>2, <1>3, <1>7, <1>8 DEF InChunk, ChunkOf, Partition, Listed, st
  <1>10. \A v \in Worker : worker'[v].stage # "read"
    BY <1>1, <1>4 DEF st
  <1>11. \A v \in Worker : worker'[v].stage = "process" =>
           \E e \in 0 .. PartitionCount - 1, f \in 0 .. PartitionSize : InChunk(v, e, f)'
    BY <1>4, <1>9
  <1>12. StoredByOneChunk'
    BY <1>3 DEF OneThreadInv, StoredByOneChunk, ChunkOf, Listed
  <1> QED BY <1>3, <1>4, <1>10, <1>11, <1>12 DEF OneThreadInv

(* What is inserted was not in the table, and is of one chunk.             *)
LEMMA WriteOne ==
  ASSUME JobInv, OneThreadInv, NEW w \in Worker, Write(w)
  PROVE  OneThreadInv'
  <1> DEFINE o == worker[w].out
             st == worker'[w]
  <1>1. /\ worker[w].stage = "process" /\ worker[w].chunk = <<>>
        /\ worker' = [worker EXCEPT ![w] = st]
        /\ st.stage = "read" /\ st.left = worker[w].left
        /\ o \in [Merchant -> [Currency -> Nat]]
        /\ \A m \in Merchant, c \in Currency : rows'[m][c] = rows[m][c] + o[m][c]
    BY WriteIs DEF JobInv
  <1>2. UNCHANGED <<queue, night>>
    BY DEF Write
  <1>3. /\ \A v \in Worker : v # w => worker'[v].stage = "idle"
        /\ \A u, v \in Busy' : u = v
    BY <1>1, OthersIdle
  <1>4. PICK i \in 0 .. PartitionCount - 1, j \in 0 .. PartitionSize : InChunk(w, i, j)
    BY <1>1 DEF OneThreadInv
  <1> HIDE DEF o, st
  <1>5. rows \in [Merchant -> [Currency -> Nat]]
    BY DEF JobInv, TypeOK
  <1>6. ASSUME NEW m \in Merchant
        PROVE  \E e \in 0 .. PartitionCount - 1, f \in 0 .. PartitionSize :
                 \A c \in Currency :
                   rows'[m][c] <= IF c \in ChunkOf(e, f) THEN Listed(c, m) ELSE 0
    <2>1. CASE m \in Stored
      <3>1. \A c \in Currency : o[m][c] <= 0
        BY <2>1, <1>4 DEF InChunk, o
      <3>2. \A c \in Currency : rows'[m][c] = rows[m][c]
        BY <3>1, <1>1, <1>5
      <3> QED BY <3>2 DEF OneThreadInv, StoredByOneChunk
    <2>2. CASE m \notin Stored
      <3>1. \A c \in Currency : rows[m][c] = 0
        BY <2>2, <1>5 DEF Stored
      <3>2. ASSUME NEW c \in Currency
            PROVE  rows'[m][c] <= IF c \in ChunkOf(i, j) THEN Listed(c, m) ELSE 0
        <4>1. rows'[m][c] = o[m][c]
          BY <3>1, <1>1
        <4>2. o[m][c] <= IF c \in ChunkOf(i, j) \ Range(worker[w].chunk) /\ m \notin Stored
                         THEN Listed(c, m) ELSE 0
          BY <1>4 DEF InChunk, o
        <4>3. Listed(c, m) \in Nat /\ o[m][c] \in Nat
          BY <1>1, Shapes
        <4> QED BY <4>1, <4>2, <4>3
      <3> QED BY <3>2
    <2> QED BY <2>1, <2>2
  <1>7. StoredByOneChunk'
    BY <1>6 DEF StoredByOneChunk, ChunkOf, Partition, Listed
  <1>8. ReadsOn(w)'
    <2>1. st.left = SubSeq(Partition(i), (j + 1) * ChunkSize + 1, Len(Partition(i)))
      BY <1>1, <1>4 DEF InChunk
    <2>2. j + 1 \in Nat
      <3>1. PartitionSize \in Nat
        BY BatchAssumption DEF BatchAssumption
      <3> QED BY <3>1
    <2> QED BY <2>1, <2>2 DEF ReadsOn, Partition, st
  <1>9. \A v \in Worker : worker'[v].stage = "read" => ReadsOn(v)'
    BY <1>3, <1>8
  <1>10. \A v \in Worker : worker'[v].stage # "process"
    BY <1>1, <1>3 DEF st
  <1> QED BY <1>2, <1>3, <1>7, <1>9, <1>10 DEF OneThreadInv

(* Steps that leave the table alone and no thread at work.                 *)
LEMMA EndOne ==
  ASSUME JobInv, OneThreadInv, NEW w \in Worker, Finish(w) \/ Fail(w)
  PROVE  OneThreadInv'
  <1>1. /\ worker[w].stage # "idle"
        /\ worker' = [worker EXCEPT ![w] = Idle]
        /\ UNCHANGED <<rows, queue, night>>
    BY DEF Finish, Fail
  <1>2. worker \in [Worker -> WorkerState]
    BY Shapes DEF JobInv
  <1>3. worker'[w] = Idle /\ worker'[w].stage = "idle"
    BY <1>1, <1>2 DEF Idle
  <1>4. \A v \in Worker : worker'[v].stage = "idle"
    <2>1. worker' = [worker EXCEPT ![w] = worker'[w]]
      BY <1>1, <1>3
    <2> QED BY <2>1, <1>1, <1>3, OthersIdle
  <1>5. StoredByOneChunk'
    BY <1>1 DEF OneThreadInv, StoredByOneChunk, ChunkOf, Listed
  <1> QED BY <1>1, <1>4, <1>5 DEF OneThreadInv, Busy

(* A new job has only its partitions to add, and a restart nothing.        *)
LEMMA LaunchOne ==
  ASSUME JobInv, OneThreadInv, RunJob \/ Crash \/ UNCHANGED vars
  PROVE  OneThreadInv'
  <1>1. night \in Nat /\ PartitionCount \in Nat /\ Len(queue) \in Nat
    BY QueuedFinite, EnoughPartitions, BatchAssumption DEF JobInv, TypeOK, BatchAssumption
  <1>2. rows' = rows /\ Stored' = Stored
    BY DEF RunJob, Crash, vars, Stored
  <1>3. StoredByOneChunk'
    BY <1>2 DEF OneThreadInv, StoredByOneChunk, ChunkOf, Listed
  <1>4. CASE RunJob
    <2>1. /\ night' = night + 1
          /\ Len(queue') = Len(queue) + PartitionCount
          /\ \A k \in 1 .. Len(queue) : queue'[k] = queue[k]
          /\ \A k \in Len(queue) + 1 .. Len(queue') : \E i \in 0 .. PartitionCount - 1 :
               queue'[k].left = Partition(i)
      BY <1>4, RunJobCounts
    <2>2. worker' = worker
      BY <1>4 DEF RunJob
    <2>3. Len(queue') <= night' * PartitionCount
      <3> DEFINE a == night * PartitionCount
      <3>1. night' * PartitionCount = a + PartitionCount /\ a \in Nat
        BY <1>1, <2>1, OneMore
      <3>2. Len(queue) <= a
        BY DEF OneThreadInv
      <3> HIDE DEF a
      <3> QED BY <3>1, <3>2, <1>1, <2>1
    <2>4. ASSUME NEW k \in 1 .. Len(queue')
          PROVE  \E i \in 0 .. PartitionCount - 1 : queue'[k].left = Partition(i)
      <3>1. k \in 1 .. Len(queue) \/ k \in Len(queue) + 1 .. Len(queue')
        BY <1>1, <2>1
      <3> QED BY <3>1, <2>1 DEF OneThreadInv
    <2>5. \A w \in Worker : worker'[w].stage = "read" => ReadsOn(w)'
      BY <2>2 DEF OneThreadInv, ReadsOn
    <2>6. \A w \in Worker : worker'[w].stage = "process" =>
            \E i \in 0 .. PartitionCount - 1, j \in 0 .. PartitionSize : InChunk(w, i, j)'
      BY <1>2, <2>2 DEF OneThreadInv, InChunk, ChunkOf, Listed
    <2>7. \A u, v \in Busy' : u = v
      BY <2>2 DEF OneThreadInv, Busy
    <2> QED BY <1>3, <2>3, <2>4, <2>5, <2>6, <2>7 DEF OneThreadInv
  <1>5. CASE Crash
    <2>1. queue' = <<>> /\ night' = night /\ \A w \in Worker : worker'[w] = Idle
      BY <1>5, CrashCounts DEF Crash
    <2>2. Len(queue') = 0
      BY <2>1, EmptySeq
    <2>3. \A w \in Worker : worker'[w].stage = "idle"
      BY <2>1 DEF Idle
    <2>4. Len(queue') <= night' * PartitionCount
      <3> DEFINE a == night * PartitionCount
      <3>1. a \in Nat
        BY <1>1
      <3> HIDE DEF a
      <3>2. 0 <= a
        BY <3>1
      <3> QED BY <3>2, <2>1, <2>2 DEF a
    <2> QED BY <1>3, <2>2, <2>3, <2>4 DEF OneThreadInv, Busy
  <1>6. CASE UNCHANGED vars
    <2>1. UNCHANGED <<queue, worker, night>>
      BY <1>6 DEF vars
    <2>2. \A w \in Worker : worker'[w].stage = "read" => ReadsOn(w)'
      BY <2>1 DEF OneThreadInv, ReadsOn
    <2>3. \A w \in Worker : worker'[w].stage = "process" =>
            \E i \in 0 .. PartitionCount - 1, j \in 0 .. PartitionSize : InChunk(w, i, j)'
      BY <2>1, <1>2 DEF OneThreadInv, InChunk, ChunkOf, Listed
    <2> QED BY <2>1, <2>2, <2>3, <1>3 DEF OneThreadInv, Busy
  <1> QED BY <1>4, <1>5, <1>6

(* All rows of a merchant come from one chunk of one night, for any number *)
(* of nights, of failed jobs and of restarts, when the pool has one thread *)
(* and a queue that is never full.                                         *)
THEOREM MerchantsStoredOnce == OnePoolThread => (Spec => []StoredByOneChunk)
  <1> SUFFICES ASSUME OnePoolThread PROVE Spec => []StoredByOneChunk
    OBVIOUS
  <1>1. Init => OneThreadInv
    <2> SUFFICES ASSUME Init PROVE OneThreadInv
      OBVIOUS
    <2>1. Len(queue) = 0 /\ \A w \in Worker : worker[w].stage = "idle"
      BY EmptySeq DEF Init, Idle
    <2>2. StoredByOneChunk
      <3> SUFFICES ASSUME NEW m \in Merchant
                   PROVE  \A c \in Currency :
                            rows[m][c] <= IF c \in ChunkOf(0, 0) THEN Listed(c, m) ELSE 0
        <4>1. 0 \in 0 .. PartitionCount - 1 /\ 0 \in 0 .. PartitionSize
          BY EnoughPartitions, BatchAssumption DEF BatchAssumption
        <4> QED BY <4>1 DEF StoredByOneChunk
      <3> SUFFICES ASSUME NEW c \in Currency
                   PROVE  rows[m][c] <= IF c \in ChunkOf(0, 0) THEN Listed(c, m) ELSE 0
        OBVIOUS
      <3>1. rows[m][c] = 0
        BY DEF Init, NoRows
      <3>2. Listed(c, m) \in Nat
        BY Shapes
      <3> QED BY <3>1, <3>2
    <2>3. Len(queue) <= night * PartitionCount
      <3>1. night = 0 /\ 0 * PartitionCount = 0
        BY EnoughPartitions DEF Init
      <3> QED BY <2>1, <3>1
    <2> QED BY <2>1, <2>2, <2>3 DEF OneThreadInv, Busy
  <1>2. JobInv /\ OneThreadInv /\ [Next]_vars => OneThreadInv'
    BY TakeOne, ReadOne, ProcessOne, WriteOne, EndOne, LaunchOne DEF Next, Over
  <1>3. OneThreadInv => StoredByOneChunk
    BY DEF OneThreadInv
  <1> QED BY <1>1, <1>2, <1>3, JobInit, JobStep, PTL DEF Spec

=============================================================================
