# A verification of DanJi in TLA+

DanJi is a wallet service for Korean local currencies. A member owns one CASH
wallet and any number of local-currency wallets. Money is charged from cash into
a local wallet (with a bonus when the currency's benefit is INCENTIVE), refunded,
converted between currencies, and paid to merchants; cumulated payments earn
badges. The backend is a Spring MVC application with MyBatis mappers on MySQL,
under `src/src/main/java/org/danji/` (mapper statements under
`src/src/main/resources/org/danji/`, schema under `.../db/migration/`). It serves
the bundles of a single-page client from `src/src/main/webapp/resources/assets/`.

Paths below are relative to `src/src/main/java/org/danji/` unless they say
otherwise. `PROJECT.json` maps every definition to the lines it translates.

## Contents

1. The system: components, state, operations, interactions
2. What is hard about it, and what makes each component correct
3. The modules, and how they correspond to the code
4. The database as it is modelled
5. The runs: what each shows, bounds, fairness
6. The proofs
7. Known to fail, and findings
8. What is only model-checked, what is not modelled
9. Plan

## 1. The system

| Component | State it keeps | Operations | Talks to |
| --- | --- | --- | --- |
| Transfers (`transaction/processor/RechargeProcessor`, `RefundProcessor`, `ConvertProcessor`) | none; rows of `wallet`, `transaction` | charge, refund, convert | mappers; `ConvertProcessor` calls the other two processors with `transactionLogging = false` |
| Payments (`PaymentProcessor`, `transaction/strategy/*`) | none; rows of `wallet`, `transaction`, `member_badge` | GENERAL payment, payment from the local wallet, payment from both wallets | mappers, `MemberServiceImpl.checkPaymentPin`, `MemberBadgeServiceImpl` |
| Badge awards (`memberBadge/service`) | `member_badge` | `createMemberBadge`, `validateMemberBadge`, lists | called by the strategies inside their transaction |
| Transaction service and request threads (`TransactionServiceImpl`, `TransactionController`, `GlobalExceptionHandler`) | one connection per thread | dispatch, commit, rollback, answers; aggregate queries | processors |
| Persistence (mapper XML, `RootConfig`, migrations) | all tables | the SQL statements | MySQL/InnoDB |
| Wallet registry (`wallet/service/WalletServiceImpl`) | `wallet` rows and their `display_order` | create, reorder, delete, lists | mappers |
| Member accounts (`member/service/MemberServiceImpl`) | `member` | join (also creates the CASH wallet), update, delete, PIN check | `WalletServiceImpl` |
| Merchant batch (`batch/**`) | `available_merchant`, Spring Batch tables | nightly import, partitioned by local currency, in chunks, with look-ups at Kakao | `KakaoApiClient`, mappers |
| Catalogues (`localCurrency`, `region`, `badge`, `availableMerchant`) | tables that migrations and the batch fill | queries | mappers |
| Authentication (`security/**`) | none (tokens are stateless) | login, token check | member mapper |
| Web client (`src/src/main/webapp/resources/assets/*.js`, three builds) | per tab: auth store, router, page; per browser: localStorage | login, logout, join with username check, profile and password change, navigation | a server with the endpoints it was written for (section 8) |
| Web and infrastructure configuration | none | wiring | - |

One Tomcat thread serves a request from start to end. Threads share nothing in
memory: they interact through rows, row locks and snapshots of the database.
There is no version column, no `SELECT ... FOR UPDATE`, no explicit isolation
level, no unique key on `wallet`, `member`, `member_badge` or `available_merchant`,
and no retry.

The merchant batch runs beside them on a pool of its own, launched at midnight. It
shares with the requests the tables it reads or fills, none of which a request
writes. The tabs of a browser share its localStorage, and each has a JavaScript
thread whose handlers go on behind an `await` when an answer arrives.

## 2. What is hard, and what makes each component correct

* **Read, compare, update.** Every processor reads a balance, compares it in Java
  and then runs a relative UPDATE that has no condition on the balance. In
  payments the read happens before any transaction begins.
* **Snapshots.** Under REPEATABLE READ the plain SELECTs of a transaction all read
  the snapshot of the first one, while its UPDATEs work on current rows. Whether a
  strategy reads before or after its first UPDATE decides what it can miss.
* **Lock orders.** A charge locks cash then local; a refund, a conversion and a
  payment from both wallets lock local then cash. These deadlock.
* **A payment without a transaction.** `PaymentProcessor.processGeneral` commits
  each of its statements by itself.
* **Several updates, refused late.** A conversion's charge half and the second
  wallet of a mixed payment can be refused after the first half was done.
* **Rows that come and go.** Wallets are created and deleted while others are
  charged, renumbered and reordered; only foreign keys stand between a check and
  the statement that relies on it.
* **Checks that a client may turn off.** `RechargeProcessor` checks the balance only if
  `transactionLogging` is true, which `TransferDTO` takes from the client and which is
  false when it is left out; no amount is checked for its sign; `updateWalletOrder`
  accepts any list of the member's wallets.
* **Roundings** of bonus, refund value, conversion principal and monthly total.
* **Look first, insert later.** A chunk of the batch looks for known merchants when it
  processes its items and inserts at its end; no key catches what came in between.
  Nothing is retried, and a failed job leaves its finished chunks behind.
* **Answers that come late.** The client reads the token when a request leaves, the
  name when the page was set up, and the rest when the answer comes; by then the
  member may have edited the form, changed the page, logged out or logged in as
  someone else, in this tab or in another one.

The properties that matter, by component:

* transfers: the statement explains the balance (`BooksBalance`), a request happens
  as a whole or not at all (`AllOrNothing`), it moves exactly its price
  (`ImplementsBank`), it makes or drains no money (`ValuePreserved`), the monthly
  maximum holds (`CappedUnlessCareless`, `CapCountsThisMonth`);
* payments: the same, and merchants get what was paid (`MerchantsPaidInFull`),
  cash without a row belongs to a payment in flight (`NothingLostWithoutFault`),
  the cash wallet alone decides a GENERAL payment (`GeneralNeedsOnlyCash`);
* badges: earned ones are held (`BadgeForTotalUnlessCareless`), once
  (`NoDuplicateBadge`, `BadgeOnceUnlessCareless`);
* wallet registry: money is never deleted (`MoneyNeverDeleted`), deleting renumbers
  (`NumberedAfterDelete`), one wallet per currency in a place of its own
  (`OneWalletPerCurrency`, `DistinctOrders`);
* member accounts: joining is whole (`JoinIsWhole`), usernames are unique
  (`UniqueUsernames`), a member can leave (`MembersCanLeave`, which fails);
* merchant batch: no chunk, night or failed job stores again what another one has
  stored (`StoredByOneChunk`), a completed job leaves nothing out
  (`CompletedJobStoresAll`);
* web client: no request names one member and carries the token of another
  (`OwnToken`), storage holds no session that has ended (`StorageIsSomeTabs`), tabs and
  storage behave as sessions of a browser (`ImplementsBrowserSession`), shown mail is
  saved mail (`MailShownWasSaved`), a join follows a check (`JoinChecked`), no request
  is waited for endlessly (`EveryCallSettles`);
* threads and database: every request is answered (`EveryRequestAnswered`), no balance
  is negative (`NoOverdraft`, which fails, and `CoveredUnlessCareless`), statements show
  the balance (`StatedUnlessCareless`).

## 3. The modules

    Money          roundings of the processors               (pure operators)
      Effects      wallets, requests, the effect of a request on balances
        Bank       abstract specification: what members may rely on
        WalletStore      tables, snapshots, row locks, commit and rollback
          RequestThreads receive, answer, refuse, read, write
            Transfers    charge, refund, convert    \  one action per statement
            Payments     payments and badges        /  that may wait for a lock
              WalletSystem  composition, deadlocks, faults, time; the properties
                WalletValue  worth of the wallets at refund rates
                CarefulMembers  what the checks are worth, wallet by wallet
    AccountStore   member and wallet rows that come and go, row and range locks
      WalletRegistry   create, order, delete
      MemberAccount    join, update, delete, authentication
        Accounts       composition, deadlocks, faults; the properties
    MerchantBatch      jobs, partitions, thread pool, chunks
    BrowserSession     abstract specification: who is logged in, where
      WebClient        tabs, pages, auth store, storage, requests and their answers
    MCWalletSystem, MCCarefulMembers, MCAccounts, MCMerchantBatch, MCWebClient
                       instances for TLC
    WalletSystemProofs, BankProofs, PaymentProofs, WalletValueProofs,
    CarefulMembersProofs, AccountsProofs, MerchantBatchProofs, WebClientProofs
                       theorems

| Module | Models | State and actions |
| --- | --- | --- |
| `Money` | `Math.round` formulas of `RechargeProcessor` 96-97 and `RefundProcessor` 82-98 | operators on integers. The code uses doubles; for the percentages the migrations install (5, 7, 10) the two agree on every amount up to two million; for negative amounts too, but for a bonus of 7 percent that ends in exactly half a won (that of -50), which the double rounds down |
| `Effects` | `TransferDTO`, `PaymentDTO`, the amounts of each processor | constants for members, wallets, currencies and requests; `Effect(r)` |
| `Bank` | nothing of the code: it is the promise | `Settle` for a request that happens as a whole; for GENERAL payments a teller `Take`s the cash and `Post`s it once, or is lost (`Lose`); `pending` names the payment each teller has to post. Balances may become negative |
| `WalletStore` | `wallet`, `transaction`, `member_badge` and InnoDB transactions on them | see section 4 |
| `RequestThreads` | `TransactionServiceImpl`, `TransactionController`, `GlobalExceptionHandler` | `pc` (next statement), `req`, `reply` per thread; `Receive`, `Refuse`, `Commit`, `Read`, `Write` |
| `Transfers` | the three processors | `Charge`, `ChargeDebit`, `ChargeCredit`, `Refund`, `RefundDebit`, `RefundCredit`, `Convert`, `ConvertCharge`. A conversion runs the debit and credit steps of both halves, as `ConvertProcessor` calls both processors. A request carries `logged`, the client's `transactionLogging`: `Charge` makes its balance check only if it is true, and never in a conversion. Amounts are integers of either sign |
| `Payments` | `PaymentProcessor`, `LocalStrategy`, `LocalMixedStrategy`, `LocalOverPaidStrategy`, `MemberBadgeServiceImpl` | `PinRejected`, `PaymentContext`, the four statements of GENERAL, `LocalPay`, `LocalFinish`, `Mixed`, `MixedLocal`, `MixedMain` |
| `WalletSystem` | all threads together | `DeadlockAbort`, `LockWaitTimeout`, `Crash`, `Tick` (a month), `Drained`; properties |
| `CarefulMembers` | nothing more of the code: it observes `WalletSystem` | history `lapses` (what each wallet has gone through that no check allows for) and `charges` (how often it was charged, by month) |
| `AccountStore` | `member` and `wallet` rows by id, request threads, transactions on rows | `held` (row locks), `gap` (range locks of `reorderDisplayOrder`), `tx` (rows written, deleted) |
| `WalletRegistry` | `WalletServiceImpl` | `CreateFind`, `CreateMax`, `CreateInsert` (each commits by itself), `OrderCheck`, `OrderWrite`, `RemoveCheck`, `RemoveRow`, `Renumber`; `MoveCheck`, `MoveWrite` stand for a transfer or payment in a transaction, on one row; `PayContext`, `PayCash`, `PayDebit`, `PayRow` are a GENERAL payment, statement by statement |
| `MemberAccount` | `MemberServiceImpl`, `JwtAuthenticationFilter` | `Authenticate`, `JoinCheck`, `JoinMember`, `JoinWallet`, `Validate`, `UpdateMember`, `LeaveRow` |
| `Accounts` | both together | `Receive`, deadlocks and faults as in `WalletSystem`; `raced` remembers usernames that had two requests in service at once, `improper` those that sent a list no screen sends or paid a negative amount |
| `MerchantBatch` | `batch/**` | `rows` (per merchant and currency), `queue`, `worker`, jobs in `open` and `failed`; `RunJob`, `Take`, `Read`, `Process`, `Write`, `Finish`, `Fail`, `Crash` |
| `BrowserSession` | nothing of the code: it is the promise | `Ask`, `SignIn`, `SignOut`, `Resume` (a page load), `Publish`, `GiveUp` |
| `WebClient` | the bundles `index-*.js` (store, router, interceptors) and the page chunks | per tab `page`, `going`, `form`, `store`, `blank`; `storage`; `call` (requests under way); one action per thing the member does, per answer and per failure |

Wallets and accounts are checked apart: transfers and payments never create or delete
a row of `wallet`. What the registry needs to know of them is when they change a balance
and when a row of `transaction` refers to the wallet. A transfer or a local payment does
both in one transaction (`MoveWrite`). A GENERAL payment commits the debit first
(`PayDebit`) and the row afterwards (`PayRow`); in between no foreign key protects the
wallet, and `deleteWallet` may delete it.

One action is one statement that may wait for a row lock, with the reads and
inserts up to the next such statement. This loses no interleaving: plain SELECTs
of a transaction all read one snapshot, and its inserts are invisible until it
commits. Where a statement commits by itself (GENERAL payments, the payment
context) it is an action of its own.

Definitions whose comment begins with "Mutant" are variants of the definition
below them with a plausible slip. No specification uses them: each is there to be
put in place of the real one, upon which the property named with it in
`PROJECT.json` must fail.

**Careless members.** Every check of the processors compares with values read earlier,
so what it promises depends on what else is sent. `CarefulMembers` does not restrict
what is sent: it notes it. `lapses[w]` grows by what wallet `w` is going through:

| Lapse | What happened to the wallet |
| --- | --- |
| `overlap` | two requests that use it were in service at once |
| `payments` | two payments that may earn its badge were in service at once |
| `unlogged` | a charge out of it came without `transactionLogging` |
| `negative` | a request with a negative amount used it |
| `itself` | it was charged from itself |

`Uses(r)` are the wallets whose balances a request reads to decide, or changes. Each
property names the lapses it does not survive and no others: a wallet that was only
charged without `transactionLogging` still has its maximum, its statement and its badges.
That is stronger than a server with one thread: other wallets, of the same member too, may
see anything.

Three history variables say what the tables do not: `principal` (what was charged
in which month), `paid` (merchant amounts of settled payments), `unposted` (cash
that a GENERAL payment debited and whose row is not inserted). `MerchantBatch` has
`unlocated` (merchants Kakao did not find for a job), and `WebClient` has `saved` (mail
addresses the server ever had of a member), `said` (usernames it has called free) and
`overtaken` (a form or session has changed under a waiting request that is not
prepared for it).

**The client** is read from its bundles, the only form in which the repository has
it. There are three builds: `index-DMtBQEed` has the home page and no store,
`index-C-qTEvLp` has all pages and is the one `index.html` loads, and
`index-CusBoIpY` is the build before it, which a tab that was not reloaded still
runs. It differs in the password page: its `authApi` lacks `changePassword`, so the
button does nothing, as the call throws before anything is sent. `Build[t]` says
which one a tab has loaded. What the framework does is modelled where the
application relies on it: a lazy page may have to be loaded before its route is
entered, a newer navigation cancels a pending one, a handler behind an `await` runs
although its page is gone, a ref writes through to the object it was given (`blank`:
the store's initial state is a shallow copy, whose user object all logged-out states
share).

`Serve` is the server the client was written for; it may refuse any request, answer
when nobody waits any more, or lose it. An answer without `response` makes the
handlers of the pages throw, which changes no state of the model.

**The batch.** A merchant is a name and an address. `Process` is one currency of a
chunk: its page (`Listed`, one page of `NumOfRows`), the snapshot of the table that the
first query of the chunk takes (none for a page without a usable entry, which is done
before any query: `SeenAfter`), and what Kakao finds of the new entries. `Write` is
the insert and commit at the end of the chunk, so all items of a chunk are processed
before any row is there. Partitions are values of a `HashMap` and come in any order.

## 4. The database as it is modelled

`WalletStore` keeps for each table what the code computes from it: per wallet the
balance, `total_payment`, the signed sum of the rows it owns, the `after_balance`
of the latest one and the CHARGE/INCOME sum per month of the year (the query has
`MONTH(created_at)` and no year); the number of badge rows per member, badge and
grade; the sum of the merchants' rows.

A thread's transaction is a record `tx[s]` of uncommitted changes, its snapshot is
`seen[s]`. `Lock` takes a row's exclusive lock or waits; commit adds the changes to
the current rows (the UPDATEs are relative) and releases the locks, rollback drops
them. `View` is a SELECT inside a transaction that has updated the row. A GENERAL
payment's inserts wait for the lock of the wallet row they refer to, because a
foreign key check takes a shared lock.

`AccountStore` keeps the rows themselves, because they come and go. A statement on
several rows (`bulkUpdateDisplayOrder`, `reorderDisplayOrder`) locks them one by one
in any order. The subquery of `reorderDisplayOrder` is part of an UPDATE, so InnoDB
reads it with locks on the rows and on their range: other inserts of wallets of the
member wait. Foreign keys are conjuncts of the statements they can refuse.

Left out: the order of the threads in a lock queue (any of them may be next, so
the runs see more behaviours, not fewer), lock modes other than exclusive, the
shared locks of foreign key checks inside transactions that hold the exclusive
lock of the same row already, connection pool limits.

## 5. The runs

Instance of `MCWalletSystem`: two members, cash wallets `c1`, `c2`, the local
wallets `l1` (INCENTIVE, 7 percent, maximum 15000, region with a badge) and `l2`
(DISCOUNT, 10 percent, region without a badge). The request sets are chosen so that
every check of the processors is met on both sides: enough and too little money,
under and over the maximum, own and foreign wallets, cash where local is expected,
below and above the badge thresholds (50000, 100000, 200000), with
`transactionLogging` and without, and a negative refund. `MCCarefulMembers` has the same
wallets with other balances, one badge for `l1` and `l2`, its bronze at 30000, and odd
amounts: a charge of 7 earns a bonus of 0, and charges of 7, 7 and 14987 pass the maximum
of 15000 by one.

| Run | Bounds | Shows |
| --- | --- | --- |
| `all_concurrent` | 2 threads, 3 requests, 1 fault, 1 month | `TypeOK`, `BooksBalance`, `IInv`, `AllOrNothing`, `EveryRequestAnswered`, `ImplementsBank` for every transfer with every payment, in every interleaving |
| `payments_concurrent` | 2 symmetric threads, 5 requests, 1 fault | `NothingLostWithoutFault`, `MerchantsPaidInFull`, `NoDuplicateBadge` for payments from one wallet |
| `careful` | 2 symmetric threads, 3 requests, 1 fault, 1 month | `CoveredUnlessCareless`, `CappedUnlessCareless`, `StatedUnlessCareless`, `BadgeForTotalUnlessCareless`, `BadgeOnceUnlessCareless`, and `ValuePreserved`, on everyday amounts and on odd ones, where the formulas round up and down; all five lapses occur |
| `accounts` | 2 threads, 3 requests, 1 fault | `TypeOK`, `DistinctOrders`, `OneWalletPerCurrency`, `UniqueUsernames`, `MoneyNeverDeleted`, `JoinIsWhole`, `NumberedAfterDelete`, `EveryRequestAnswered` for members and wallets that come and go |
| `web_client` | 3 tabs (one per build), 2 requests under way, 5 acts of the member | `TypeOK`, `OwnToken`, `StorageIsSomeTabs`, `MailShownWasSaved`, `JoinChecked`, `ImplementsBrowserSession`, `EveryCallSettles` |
| `merchant_batch` | 2 nights, 3 currencies in partitions of 2, pages of 3 rows, 1 restart | `TypeOK`, `StoredByOneChunk`, `CompletedJobStoresAll` with any call failing and any merchant not found |
| `overdraft`, `badge_race`, `merchant_rows`, `general_refused`, `cap_year`, `member_leave` | 1 or 2 threads, 1 to 4 requests, 0 or 12 months | the findings of section 7 |

`MCAccounts` has the member ann with a CASH wallet and two empty local wallets, the
free username bob and three currencies, with each operation once where it works and
once for each of its refusals. `DistinctOrders`, `OneWalletPerCurrency` and
`UniqueUsernames` except the usernames in `raced`: they state what the checks
guarantee to a member who does one thing at a time, while other members do what
they like. The requests contain lists that no screen sends (part of the wallets, a place
taken twice), payments of a negative amount and charges without `transactionLogging`.
`DistinctOrders` excepts `improper` members too, and `MoneyNeverDeleted` lets them lose
what a negative GENERAL payment put into the wallet. The other properties of the run have
no exception.

**Bounds.** `MaxRequests` bounds requests over the run, `MaxFaults` crashes and lock
timeouts, `MaxTime` months; `Drained` lets the run stop when the requests are used up.
Two threads are enough for each hazard of section 2: a stale read needs one other
writer, and with two rows per transaction every deadlock that the lock orders allow
has a cycle of length two. Three requests let one thread serve a second request
while the other is still in the first; four and five also set up a history (a
charge before a refund, a badge before the race for it). The theorems have none
of these bounds.

In `web_client`, `MaxActs` bounds what the member does and `Slot` the requests under
way: two let an answer overtake another and a login race a logout, and five acts are a
login, a page, an edit, a submission and something in between. There is a second tab
for the storage to be shared with, and the tab of the first build, which shares it
and ignores it. In `merchant_batch` the second of two partitions is shorter, one
merchant is listed in both partitions, one twice for a currency, one on a second page
that is never asked for; two nights show what a failed or interrupted job leaves to
the next. The pool has the sizes of `BatchConfig`, and the model has a second thread to
start in case they allowed it.

In `careful` three requests are a history of one and two that may overlap, or a sequence
of three; a wallet without the lapse `overlap` is one that the two threads leave in peace
although both are busy. Without one of its exceptions each of the five properties fails:
section 7 says how. The symmetry of `payments_concurrent` and `careful` is sound: nothing
distinguishes the threads, and the runs check no liveness.

**Fairness.** `FairSpec` asks for weak fairness of `Step(s)` for each thread: a
thread of the pool keeps executing its handler, and a statement whose lock is free
is executed. It asks for weak fairness of deadlock resolution, which
`innodb_deadlock_detect` (the default) performs. Neither faults nor arrivals are
fair. A thread that waits is not starved: within the bounds only finitely many
requests can overtake it, and InnoDB's lock queue is first come, first served.

`WebClient`'s `FairSpec` asks for weak fairness of `Settle(i, t)`: an answer that has
arrived is handled, and the browser fires the timer of a request that has none
(`timeout: 1000` in the axios instance). The member and the server owe nothing.
`MerchantBatch` has no liveness property: its service calls block without a timeout,
so nothing would justify one.

## 6. The proofs

`WalletSystemProofs` proves, for every set of members, wallets, threads and
requests and all bounds that satisfy the named assumptions of `Effects`,
`WalletStore` and `RequestThreads`:

* `Invariance`: `Spec => []IInv`;
* `TypeCorrectness`, `BooksAlwaysBalance`: its consequences `TypeOK` and `BooksBalance`.

`BooksBalance` speaks of committed columns only, so it is not inductive: whether a
commit keeps it depends on what the transaction has in its hands. `RowsMatch(s)`
says it: the updates of a transaction are its rows plus the leg it still owes
(`Owed`: the debit of a charge or a refund whose rows come with the credit, the
debit of `LocalStrategy` whose row comes after the badge), and a thread outside a
transaction has no uncommitted work. At `commit` nothing is owed, so balance and
statement move together. `IInv` adds `TypeOK` and `LockDiscipline` to it, which says that
uncommitted changes are under the row lock of their thread (that is how the database is
modelled, and the proofs need to know it); a rollback
or crash resets the work of a thread, which keeps everything else as it is.
The proof has one lemma per action, and helper lemmas on `Plus` and `Leg`. The module begins
with the rounding arithmetic of `Money`, and with the theorem `RefundUndoesCharge`: for every
amount and percentage, refunding what a charge credited returns the principal exactly,
although both round.

The assumptions used are those on constants: wallets have owners, each member's
cash wallet is his, percentages, maxima and opening balances are natural numbers,
requests have their type (amounts are integers of either sign; a transfer has no merchant,
so its `total` is 0), thresholds
are positive and increase, and the thread pool is finite.

`BankProofs` proves from the same assumptions

* `BankRefinement`: `Spec => ImplementsBank`, the wallet system implements the bank;
* `AnswersAreHonest`: `Spec => AllOrNothing`.

`IInv` says that updates match rows, not that they are the right ones. `BankInv` adds,
for each thread and each label of a processor, how far the request has come: which
wallets the checks before it have found to be the member's and local, and which part of
`Effect(req[s])` is in the transaction (`AlwaysOnTheWay` states that both hold always).
At `commit` that part is the whole effect, so the commit of a transaction is the step
`Settle` of the bank; a step inside one is a stutter; a rollback, refusal, crash or
timeout leaves the committed rows as they were. The debit of a GENERAL payment is
`Take` and the insert of its row `Post`, with the thread as the teller, and a fault in
between is `Lose`.

`PaymentProofs` proves from the same assumptions

* `NothingIsLost`: `Spec => []NothingLostWithoutFault`;
* `MerchantsGetPaid`: `NoMixedPayments => (Spec => []MerchantsPaidInFull)`;
* `BadgesAwardedOnce`:
  `NoMixedPayments /\ OneWalletPerBadge => (Spec => []NoDuplicateBadge)`.

The first two speak of the moment when all threads are idle, and any number of GENERAL
payments may be between their debit and their inserts before it. Their invariants
(`UnpostedIsDue`, `MerchantsAreDue`) say for every moment that what is missing is the
*sum over the threads* of what each is about to insert. A sum over a set needs induction;
`IsSum(f, S, x)` avoids it by asserting that an enumeration of `S` and a function of
partial sums exist that end in `x`. A step of one thread changes the partial sums behind
its place by a constant (`SumChange`), and if nothing is due all of them are 0.
The third follows from the order in `LocalStrategy`: the badge is looked up under the lock
of the wallet it is for, so two awards of one badge exclude each other (`BadgeInv`).

The two hypotheses are on the workload. `NoMixedPayments` says that the amount from the
local wallet covers the price, so that `LocalMixedStrategy` never runs;
`OneWalletPerBadge` that a member has one wallet per region with a badge, which
`createWallet` provides to a member who does one thing at a time. The requests and badges
of `payments_concurrent` satisfy both. They cannot be dropped: `merchant_rows` is the run
that refutes the second theorem, and `badge_race` the third, with mixed payments.

`CarefulMembersProofs` proves what the checks of the handlers are worth, for all members,
wallets, threads, requests, months and faults and *without any further assumption*:

| Theorem | Property | Exceptions, by the wallet's lapses |
| --- | --- | --- |
| `NoOverdraftUnlessCareless` | `CoveredUnlessCareless` | `overlap`, `unlogged`, `negative` |
| `MonthlyMaximumHolds` | `CappedUnlessCareless` | `overlap`, `negative`; and half a won per charge |
| `StatementsShowBalance` | `StatedUnlessCareless` | `overlap`, `itself`; and faults |
| `BadgesFollowTotals` | `BadgeForTotalUnlessCareless` | `overlap` |
| `BadgesAwardedOnceUnlessCareless` | `BadgeOnceUnlessCareless` | `payments` |

All of them use `LapseInv` (what a wallet is going through has been noted; with `IInv` and
`BankInv` it is `LapsesAreNoted`). Its consequence `Alone` says that as long as
`overlap` is not in `lapses[w]`, at most one thread uses `w`. Two facts about the others
complete it: a thread that does not use `w` changes neither its balance (`BalanceOfOthers`,
from `BankInv`: at `commit` the owner checks have passed, so a request changes only wallets
it uses) nor its total, statement or months; and a thread that takes up `w` has read
nothing yet (`TakenUp`). So each proof only has to follow the one thread that uses `w`,
with an invariant that says what its reads still mean at each label:

* `CoverInv`: the balance covers all that the handler is still going to do (for the
  chains of roundings with `RefundAtMost`: a refund is worth no more than what it takes,
  and the charge half of a conversion takes no more than the refund half has given);
* `TierInv`: the total that was read is still the total, and the badge of its tier is
  held; `OnceInv`: a badge that was not found is still not there, or somebody else's
  payment has been noted in `payments`;
* `StatedInv`: the balance differs from what was read by exactly the
  handler's own updates, so the columns it computes are those the commit makes true;
* `CapInv` on top of `CountInv`: the month's total, turned back into principal, is less
  than what was charged by half a won per charge at most. `CoverGrows` and `CoverIsRead`
  are the arithmetic: a bonus falls short by half a won at most, and so does the value
  that the check computes of the sum. `CountInv` says that a transaction adds to the
  total what it credits, in the month in which it inserted its rows; a month that begins
  between check and row has room for what was admitted (`TickCapped`).

`MerchantBatchProofs` proves, for all currencies, merchants, lists, sizes of pages,
partitions, chunks and pool, and any number of nights and restarts:

* `BatchTypes`: `TypeOK`, which relates the counts of a job to queue and threads;
* `CompletedJobsStoreAll`: `CompletedJobStoresAll`, for any number of threads;
* `MerchantsStoredOnce`: `OnePoolThread => (Spec => []StoredByOneChunk)`.

`JobInv` says that `open[n]` counts the partitions of job `n` in the queue and at work, so
that it is 0 only when none is left. `NothingForgotten` says that every currency of a
job that has not failed is in a waiting partition, in the hands of a thread (to be read, in
its chunk, or found and not yet written) or done. `Snapshots` connects the two: what a
chunk has seen in the table stays there, so skipping it is no loss. For the third theorem
`OneThreadInv` says at which chunk of which partition the busy thread is, and that
what it is about to insert is not in the table: partitions have no currency in common and
neither have chunks, and nobody else inserts between the lookup and the commit.
`OnePoolThread` is the pool of `BatchConfig`: one core thread and a queue that is
never full, as its capacity is the default of `ThreadPoolTaskExecutor`. `merchant_batch`
satisfies it, and section 7 says what a bounded queue does.

`WalletValueProofs` proves `TransfersPreserveValue`:
`ChargesAtPar => (Spec => ValuePreserved)`, for any number of threads and any finite set of
wallets.

At `commit`, `BankInv` has the whole effect of the request and what the processors have
checked of its wallets, and the answer is honest, so the balances change by `Effect(r)`. Two
facts remain. One is arithmetic: a bonus is off by half a won (`ChargeRounds`) and a
refund value by half a unit of its divisor (`RefundRounds`), whatever the percentage. The
other is that one balance changes the worth of its owner's wallets by its own
worth and no more, and worth is a fold over the wallets, as is its common denominator.
The recursion under a fold is taken apart here by hand: `Recursion` shows that a function
on all subsets satisfies it, `SumsStep` and `ProductsStep` that the folds of the community
modules therefore do, and `SubsetsOneByOne` that what survives adding an element holds of
every subset, each by a smallest counterexample. From these follow `SumChangesBy`
(one summand changes, the sum changes by as much) and `FactorsDivide` (each factor divides
the product, so that the worth of a unit has no remainder).
`ChargesAtPar` says that a charge is made from a main wallet or from one whose currency
gives no bonus. The charges of the run `careful` are; `RechargeProcessor` does not check it,
and section 7 says what happens otherwise.

`WebClientProofs` proves, for any tabs, builds, members, mail addresses, slots and
bounds that satisfy `ClientAssumption`:

* `SessionsInOrder`: the inductive invariant `SessionInv`;
* `ClientTypes`, `NobodyElsesToken`, `NothingStaleStored`, `JoinsChecked`,
  `ShownMailWasSaved`: `TypeOK`, `OwnToken`, `StorageIsSomeTabs`, `JoinChecked`,
  `MailShownWasSaved`;
* `BrowserRefinement`: the tabs, their storage and their late answers implement
  `BrowserSession`.

`OwnToken` holds when a request leaves because the page that sends it names the member
who is logged in in its tab or the tab has nobody: a login answer always leads away
from a page that names someone, but a navigation to a page that is still loading
leaves the old page mounted. So the invariant has to say of a session (`TokensNamed`)
that its token belongs to the name beside it, of the pages (`FormIsOwn`) whose name
they may hold, of calls (`CallsFilled`) that they carry what the interceptor gave them,
and of the join page (`JoinInv`) that a free name was called free. `MailInv` is proved
separately, as it holds only until `overtaken`. For the refinement, each answer maps to
`SignIn`, `SignOut`, `Publish` or `GiveUp`, and the loss of one of two logins of the same
member maps to a stutter, which `Settled` allows.

`AccountsProofs` proves, for any threads, usernames, currencies, opening rows, requests
and bounds that satisfy `AccountsAssumption`, `RequestAssumption` (clients name local
currencies when they create a wallet) and `OpeningAssumption` (the opening rows have
unique names, and those of one member different currencies and places):

* `Invariance`: the inductive invariant `IInv`;
* `TypesHold`, `NamesStayUnique`, `OneWalletEach`: `TypeOK`, `UniqueUsernames`,
  `OneWalletPerCurrency`;
* `NoMoneyIsDeleted`, `MembersHaveCash`, `DeletionNumbers`: `MoneyNeverDeleted`,
  `JoinIsWhole`, `NumberedAfterDelete`;
* `WalletsInDifferentPlaces`: `DistinctOrders`.

The invariant has one part per thread (`ThreadOK`: what it may rely on at each label)
and one between two threads (`Apart`: locks are disjoint, rows that are not visible yet
belong to one thread, and two requests of one username have left it in `raced`). The
argument is rely and guarantee: `Grown` says how any step of one thread may change
the tables, `Undisturbed` that every other thread keeps its part after such a
change, and `Frame` puts both together, so that each action is proved for its own thread
only. Two parts are less obvious. `deleteWallet` checks the balance without a lock:
`Removing` says that between the check and the DELETE nothing is left in the wallet *or* a
row refers to it, and the foreign key refuses the DELETE then. Money that moves in a
transaction leaves such a row with it. A GENERAL payment commits its debit before any row
exists, so in between the foreign key does not protect the wallet; but a debit only takes,
so what the balance check found empty is empty or below, unless the amount was
negative (`NothingLeft`). What is deleted in that window may therefore be a negative
balance, and the payment then ends without a row (`PayRow`). And the numbers written by `reorderDisplayOrder` are complete
at the commit because `Rightful` lets a new wallet appear only for a member whose range
nobody has locked. That `createWallet` finds a highest order is a fact about finite
sets (`GreatestInt`), proved with well-founded induction on cardinalities.

`DistinctOrders` needs an invariant of its own on top, `OrdersInv`. For the thread of a
member who does one thing at a time (`Quiet`), `Placing` says at each label why what it
is going to write keeps the member's wallets apart: the list is a rearrangement of all
local wallets in their places, the new order is behind all others, the rows of the open
transaction and the committed ones differ in their places. `Elsewhere` keeps it while
other threads work: a step of `t` moves, adds or deletes wallets only of members with
the name `t` works for, and two busy threads of one name have raced it. `updateWalletOrder`
checks the owner of each listed wallet, and neither that the list is complete nor that its
places differ. Nothing is assumed about the lists: one that arranges the wallets of
the member's screen keeps them apart (`Arranged`), and any other list that the code accepts
is noted in `improper` when it is received (`Listing`), which `DistinctOrders` excepts.

## 7. Known to fail, and findings

Confirmed by a run each (`PROJECT.json`, "findings"):

* `overdraft`: two payments that read the balance before either debit overdraw the
  wallet; no UPDATE checks the balance.
* `badge_race`: `LocalMixedStrategy` reads its snapshot before its UPDATE waits, and
  `member_badge` has no unique key, so a badge is awarded twice; afterwards every
  payment in that tier fails, since the lookup finds two rows.
* `merchant_rows`: the second merchant row of a mixed payment repeats `inputAmount`.
* `general_refused`: a GENERAL payment is refused because the local wallet is short.
* `cap_year`: the monthly total counts the same month of earlier years.
* `member_leave`: a member who has just joined cannot be deleted, because the CASH wallet
  refers to the member row; `MemberServiceImplTest.delete` expects otherwise.

Without their exceptions the properties of other runs fail too, as variants show:

* `CoveredUnlessCareless` without `unlogged` or `negative` fails with one request: a charge
  of more than the wallet has, sent without `transactionLogging`; a refund of a negative
  amount, which takes from the cash wallet what nobody has checked. Without `overlap` it
  fails as `overdraft` does;
* `CappedUnlessCareless` without `overlap` fails (both charges read the month's total
  before either row is committed), and without `negative` (the total forgets the year, so a
  negative charge makes room in the same month of the next one).
  Without the half won per charge it fails for one request at a time: charges of 7, 7 and
  14987 won at 7 percent under a maximum of 15000. The bonus of 7 is 0, the total 14 is
  turned back into a principal of 13, and the last charge passes;
* `StatedUnlessCareless` without `overlap` fails (the before and after columns come from a
  read before the lock wait), and without `itself` (both rows are computed from one
  reading of the balance); with faults, a GENERAL payment that is cut off has no row;
* `BadgeForTotalUnlessCareless` without `overlap` fails: two payments cross a threshold
  together and neither sees the other. `BadgeOnceUnlessCareless` without `payments` fails
  as `badge_race` does;
* a wallet can be deleted between the debit of a GENERAL payment and its row: the payment
  is answered with an error, its cash is gone and no row says so. The balance that is
  deleted is 0 or negative; without the exception of `improper`, `MoneyNeverDeleted`
  fails for a payment of a negative amount, which fills the wallet before the DELETE;
* without the exception of `raced`, `OneWalletPerCurrency`, `DistinctOrders` and
  `UniqueUsernames` fail: two creations (or joins) of the same member (or name) pass the
  check together. Without the exception of `improper`, `DistinctOrders` fails for a list of
  some of the wallets, such as a client sends that reorders a list it read before another
  request of its member;
* if a client creates a CASH wallet, `DistinctOrders` and `OneWalletPerCurrency` fail with
  one thread: `createWallet` compares `local_currency_id` with NULL and finds no other;
* `ValuePreserved` fails for a charge whose source is an INCENTIVE wallet:
  `RechargeProcessor` checks the owner of the source and not that it is the cash
  wallet;
* `StoredByOneChunk` fails when a bounded queue lets the pool start its second thread;
  and within one chunk a merchant that two lists (or one list twice) name is stored as
  often, as the comment of the property says;
* without `~overtaken`, `MailShownWasSaved` fails: the profile answer stores what the
  field holds when it comes, writes the mail of a member who has logged out into the
  user object that all logged-out states share and into the storage that the logout
  has emptied, or writes it into the session of the next member;
* without `~overtaken`, `JoinChecked` fails: the answer to a check is taken for the name
  the field holds by then.

What the client's model shows besides, and no document of the repository denies: a
late 401 logs out whoever has logged in since; a late login answer leads home from any
page; a tab that does not know of a logout in another one writes its session back to
the storage with the next profile change (`Publish` in `BrowserSession`); no submit
button is disabled while a request is under way.

## 8. What is only model-checked, and what is not modelled

Only model-checked is liveness (`EveryRequestAnswered`, `EveryCallSettles`): the prover has no
reasoning about fairness and `ENABLED`. Four hypotheses on the workload or the
configuration remain, each satisfied by the run for the same property: `NoMixedPayments`,
`OneWalletPerBadge`, `ChargesAtPar`, `OnePoolThread`. Section 6 says at each why it cannot
go. No theorem restricts the threads of the server or the sign of amounts.

Not modelled:

* reads for screens (lists, aggregates, searches), the catalogues and the wiring: they
  change no state;
* authentication beyond the lookup of the member whom a token names (requests carry
  that member), and logging in at the server;
* the wording of answers and comments, the name that `MemberServiceImpl.update` writes;
* integer width: balances are INT in the schema and Integer in Java; the amounts that
  would overflow are beyond any balance;
* the composition of client and server. This server no longer offers what the client
  calls: members are at `/api/members` and not `/api/member`, the check of a username
  and the rest answer 401 without a token, and `/api/auth/login` answers with a
  redirect. The client is checked against the server it was written for;
* avatars, passwords, and the branch for status 404 in the interceptor for successful
  answers, which no answer reaches;
* one hazard of the batch: a service that never answers blocks the only thread of the
  pool for good (`block()` has no timeout), tonight and on every later night.

## 9. Plan

1. *Done:* transfers, payments, badges on one database; the abstract bank; the
   inductive invariant and its proof; rounding.
2. *Done:* the registry of wallets and member accounts on rows that come and go.
3. *Done:* the merchant batch; the web client and its abstract sessions.
4. *Done:* refinement of the bank and of the browser sessions as theorems; the inductive
   invariant of members and wallets that come and go.
5. *Done:* `NothingLostWithoutFault`, the merchants' side and the badges for concurrent
   payments; the batch; the places of wallets; what the wallets of a member are worth.
6. *Done:* amounts of either sign, `transactionLogging` from the client, lists of any
   kind, GENERAL payments beside `deleteWallet`; what the checks are worth wallet by
   wallet, for any number of threads.
