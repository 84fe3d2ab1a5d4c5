# A verification of the double-entry ledger

TLA+ models of the ledger in `src/`, TLC configurations that check them on small
instances, and TLAPS proofs of the properties that matter most for any number of
threads, keys, payments, writers and accounts. Every definition is translated
from the source; `PROJECT.json` ("map") names the lines each one stands for.

## 1. The system

A bookkeeping core in Python over SQLite, a payment layer on it, periodic jobs,
and a second, PostgreSQL-backed store that exists to measure contention.

| part | code | state | operations | what is hard about it |
|---|---|---|---|---|
| Ledger core | `ledger/core.py`, `schema.sql` | accounts, journal transactions and entries, `sealed` flags, cached balances, idempotency keys; one SQLite connection per thread | `open_account`, `post`, `post_idempotent`, `run_idempotent`, `balance`, `balance_as_of` | threads race between the key lookup and `BEGIN IMMEDIATE`; lock timeouts; an `IntegrityError` that may be the key or the posting; death between COMMIT and answer |
| Invariant checker | `ledger/invariants.py` | none | I1 balance, I2 floors, I3 derived balances, I4 idempotency | - |
| Periods | `ledger/periods.py` | `accounting_period`, `txn_effective_date` | `close_period`, `reopen_period`, `guard`, `record_effective_date`, `adjust_forward`, `restate` | the guard and the postings it guards; a date that is guarded in one statement and written in another |
| Payments, adjustments | `ledger/payments.py`, `adjustments.py` | table `payment`; holds, network receivable, merchant payable and fees in the journal | `authorize`, `capture`, `void`, `refund`, `adjust` | long legal sequences; rounding of a fee over many refunds |
| Expiry | `ledger/maintenance.py` | (the same) | `expire_authorizations` | it acts, transaction by transaction, on rows read before the first one |
| FX revaluation | `ledger/maintenance.py` | position accounts | `revalue_fx_position`, `reverse_revaluation` | a position read before the transaction that uses it; nothing remembers a result or its reversal |
| As-of snapshots | `ledger/maintenance.py` | `balance_snapshot` | `take_snapshot`, `balance_as_of_snapshotted` | the sum is read outside the transaction that stores it |
| PostgreSQL store | `ledger/pg_store.py`, `pg_schema.sql` | the same ledger, SERIALIZABLE or READ COMMITTED | `run_serializable`, `post`, SQL statements of other writers | transactions that really interleave: row locks, deadlocks, conflicts reported by the server; bounded retries; a commit whose outcome is unknown; guards that read without a lock |
| Append-only store | `ledger/pg_nohotrow.py` | `d_journal_entry` only | `post`, `balance` | ids are assigned before they are visible |
| Its snapshots | `ledger/pg_snapshot.py` | `d_balance_snapshot` | `take_snapshot`, `balance`, `clear` | a watermark over ids that commit out of order; three reads that are not one |
| Money and reports | `ledger/fx.py`, `reporting.py` | none of their own | `convert`, `allocate`, `conversion_entries`, `consolidate` | rounding of each account at one of two rates; the units a split leaves over |
| Rate store | `ledger/rates.py` | table `fx_rate`, one SQLite connection per store | `publish`, `get`, `rate_set`, `fetch_ecb` | two publishers of one quote; a partly failed fetch; a failed statement leaves its transaction open |
| Scheme rules | `ledger/schemes.py` | the context its caller keeps | `check_adjustment`, `headroom` | limits checked step by step, against the original amount and day |
| HTTP service | `serve.py` | none of its own | five mutating endpoints, reads | handlers race under keys that clients choose and send again; each answer is read in three transactions |

How they meet: `serve.py` calls the payment operations inside
`run_idempotent`; each of these posts through `Ledger.post` inside one
transaction; the jobs of `maintenance.py` call `Ledger.post` themselves and are
not idempotent. Threads share nothing but the database file. The triggers of
`schema.sql` run inside every writer's transaction. The PostgreSQL modules share
the schema idea with the core and no code path.

What should make each part correct, in one line (section 3 says where the code falls short): *core* - a key takes effect at most
once and every answer stays true, no floor is breached in a committed state, the
cache is the sum of the journal, history only grows; *payments* - what is booked
for a payment is what its row says, rounding never gives away money, states
change along the documented table, nothing held or captured is stranded;
*service* - a request sent twice takes effect once, and what the answer says is
so; *rates* - a published rate stays, and nobody is given a rate that was never
published; *book in two currencies* - conversions and revaluations leave the position
worth what it was booked at, and a consolidation differs by the movement of rates
and nothing else; *schemes* - no sequence of allowed steps leaves the limits;
*snapshots* - an answer is what a full scan would give; *periods* - a closed
month takes no posting and no date, and keeps what it counts; *store* - a retried posting takes effect once.

## 2. The modules

    ExactlyOnce        what the idempotent path promises (abstract)
      ^ implemented by
    Ledger             core.py over schema.sql, thread by thread     MCLedger, LedgerProofs
    Payments           payments.py, adjustments.py, expiry           PaymentsProofs
      ^ implemented by
    Api                serve.py and run_idempotent over Payments     ApiProofs
      ^ composed with library calls and jobs in
    Desk               who calls: the library or the service         MCPayments, ApiProofs
    Books              periods.py, as-of balances, their snapshots   MCBooks, BooksProofs
    PgSnapshot         pg_snapshot.py over pg_nohotrow.py            MCPgSnapshot, PgSnapshotProofs
    PgStore            pg_store.py over pg_schema.sql                MCPgStore, PgStoreProofs
    Rates              rates.py, statement by statement
    Money              convert, translate, allocate (operators)
      ^ used by
    Fx                 conversions, revaluation, consolidation
    Schemes            schemes.py before adjust
      ^ all of them in
    Treasury           one part at a time, and the split of allocate MCTreasury, TreasuryProofs
    SumTheorems        what sums over finite sets do (lemmas only)   used by the proofs

The layers meet at a transaction. `Ledger` opens it up into its steps and treats
what is posted as a payload; `Payments` takes a call as one step, which is what
`Ledger` establishes for anything that runs inside `tx()`; `Api` puts the service's
handlers and the idempotency keys around those calls; `Books` keeps of a
posting its stamp, its month and the time between its first row and its COMMIT.

### Ledger

`db` is the committed database, `work` what the open write transaction sees.
`BEGIN IMMEDIATE` makes `writer` unique, COMMIT installs `work`, ROLLBACK drops
it. A thread's `pc` follows `post_idempotent`: `Lookup` (outside the transaction,
so its answer can be stale), `BeginImmediate` or `BeginTimesOut`, `Post` (the
period guard, the entries and what their triggers do), `CheckFloorsAndSeal`,
`RecordKey`, `Commit`, `Reply`; an `IntegrityError` leads to `Recheck`. A plain
`post` takes the same steps without the key. `run_idempotent` has the steps of
`post_idempotent` with the work passed in. `OpenAccount`, `ClosePeriod` and
`ReopenPeriod` are other writers; `Crash` is the death of the process: threads
and the open transaction are gone, the committed database stays. `answers` is a
history of what callers were told.

Abstracted: amounts are net per account and payload, an entry's direction is the
sign; the journal's sealed transactions are a sequence whose position is the
row id; the clock is one current month, closed or not. A connection that is
killed inside COMMIT is a crash before or after it.

### Payments

`payment` is the table, `booked` what the postings for a payment add up to, per
account. A call is one step, because its read of the row and its posting share
one `BEGIN IMMEDIATE`. The expiry job is not one step: `StartExpiry` reads the
rows, `Expire` handles one of them per transaction and does not look again,
`ExpiryFails` leaves the rest. `outdated` is a history: the payments that a job
expired from a row that was no longer the current one.

The two hold accounts move by the same amount in every posting and are one
number. Which rows are old enough is the clock's choice: any non-empty subset of
the open ones.

### Api

Each request is a handler. `Receive` is the endpoint up to its first statement,
`_replayed`; `LookUp` the first statement of `run_idempotent`; `Work` the transaction
with the call (`Effect`, an action of `Payments`), the posting and the key;
`WorkCollides` its `IntegrityError`, of the key or of a payment id already taken, and `Recheck` the
second lookup that tells them apart; `WorkFails` every refusal; `Show` the SELECT of
`_payment_state`. Between any two of these other handlers and the expiry job run.
Clients need no actions of their own: the same request may come again at any
moment, under the same key or another, answered or not, and a key may come with
another body. `ServerDies` loses every handler and keeps the file. Histories: `effects`,
the journal transactions of the endpoints; `left`, the payment row as the work of each
key left it.

A body is one record, whose equality stands for that of the payload hash.
`/postings` moves accounts other than the payments', so its effect is its
transaction. A request without the header is refused before any step, except
for `authorize`, which then uses `auth:<payment_id>`.

### Rates

A `RateStore` is one `sqlite3` connection in Python's default mode: an INSERT opens a
transaction, `commit()` ends it, and no path rolls back. The SELECT, the INSERT and
the COMMIT of `publish` are steps (`LookFree`, `LookSame`, `LookOther`; `Insert`,
`InsertTaken`, `InsertBusy`; `CommitRates`, `CommitBusy`), `fetch_ecb` repeats them for both
kinds of each currency and stops at the first exception, and `rate_set` reads one quote
after the other. What an exception leaves open, `inTx`, `inserted` and
`lock`, is still there in the store's next call: that is the part nobody
would test. SQLite's locks (rollback journal, the default that this store leaves
in place) are external, modelled from how the code meets them. `given` is a
history of what `publish` returned and of what was in a `RateSet`; `lost` of the rows
whose process died before its COMMIT. Rates are small numbers, 0 standing for
those that are refused.

### Money, Fx

`Money` has the arithmetic: a rate is a fraction, ROUND_HALF_EVEN is exact, and
`Allocate` is the largest-remainder split. `Fx` is a book in one foreign currency and the
reporting currency. `Sell` and `Buy` post `conversion_entries` in its two directions; a `Buy`
with a booking value posts its gain in the foreign currency on `fx:gain_loss`, an account
of the reporting currency, and the trigger on currencies refuses it, so it has
no effect. `ReadPosition`, `Strike` and `Reverse` are a revaluation: its read, its posting and its
undoing. The result is the caller's only: `JobDies` is its loss, and `Reverse` may come again,
because the code looks at nothing but the result. `followed` is a history: whether every result was
struck alone, kept, and reversed once. `Reported` and `TranslationAdjustment` are `consolidate`. A posting is one
step, as in `Payments`.

### Schemes

One authorization over its life: adjustments that `check_adjustment` allows and
`adjust` accepts, captures, days. `raisedAt` is a history, the age at the last increment.
`Reauthorize` is the remedy the refusal texts name, void and authorize anew.

### Books

The journal over time. `open` is the one write transaction: `BeginPosting` takes
the lock, asks the guard and stamps the row, `Commit` or `Rollback` ends it, and
everything else may fall between. A transaction is its row id, and a balance is
the set of transactions it adds up, so equality here is stronger than equality
of sums. `effective` is `txn_effective_date`: a caller writes to it in the
posting's own transaction (`DateInside`) or later in autocommit, where the guard
and the INSERT are two steps (`GuardDate`, `InsertDate`). A close or a reopening
writes, so it waits for the lock; `reopen_period` looks before it writes
(`FindClosed`, `Reopen`). `restate` is a reopening followed by a posting, and
`adjust_forward` is the choice of another date for one; both choices are within
what callers may do anyway. `ReadBalances` is the SELECT of `take_snapshot`, `StoreRows`
its transaction, `FindSnapshot` and `Replay` the two SELECTs of an as-of read; the
full scan is the replay from before all time. Histories: `known`, the postings a
month had accepted when it was closed; `onTime`, what it counted then, or whose date was past its
guard, and still is; the month a posting was judged by; `settled`.

A moment is *settled* when it is past and no open posting is stamped at or
before it. Nothing in the code knows of this; it is the condition under which
what the documentation promises of snapshots is true.

Abstracted: an effective date is its month; one account, because rows of others are
read in the same statement and stored in the same transaction; the wall clock does
not run backwards, and may stand still; the database is a file in WAL mode, where
readers see what is committed (with `:memory:` a reader is refused while a
writer holds the table). The count that `close_period` reports is left out.

### PgSnapshot

A sum of amounts is modelled by the set of entries it adds, which is stronger
than equality of sums. Writers take an xid at their first write, take entry ids
at INSERT and become visible at COMMIT. A taker goes watermark, xmax, drain,
sum, one stored row at a time; a reader goes checkpoint, head, delta. Both run
in autocommit, so everything may fall between their statements. `Rebuild` is
`DERIVED_SCHEMA`, which drops the journal and not the checkpoints.

`Xmax` is what PostgreSQL returns: one past the highest xid that has committed or
aborted, which a running transaction may exceed. Histories: the `xid` of the
transaction an entry came from, and the `xmax0` that the drain before a checkpoint
waited for.

### PgStore

Each worker is a `PgLedger` with one connection and an isolation level of its
own. `pc` follows `run_serializable` around `post`'s `work`: `InsertTxn` (the
transaction and its snapshot begin), one `InsertEntry` per entry, `Seal`,
`Commit`. What an attempt has not committed is in `own` (its change of each
`account_balance` row) and `net` (its `txn_currency_total`); the first `at`
entries are inserted, and `Locked` are the balance rows their upserts keep locked
until the transaction ends. `InsertEntry` waits for a row another worker has
locked; when the waits form a cycle `InsertFails` with 40P01 for any one of
them. At SERIALIZABLE it fails with 40001 on a row committed since the snapshot
(`stale`), and `Conflict` lets the server refuse any statement, because it may
abort for a dependency that is harmless. `Lose` is the connection or the server
going away at any point, COMMIT included, where the outcome is unknown to the
caller. `Fail` is the `except` clause: roll back, then `Again` if the SQLSTATE is
retryable, else raise. `answers` is a history of how each call ended.

Writers are sessions of raw autocommitted SQL, as a script or a person at a
prompt would use: open a transaction, insert an entry (`GuardInsert` is the
trigger that reads `sealed` without a lock, `FinishInsert` the rest of the
statement, which may wait for a balance row), seal it. Statements the triggers
refuse change nothing and have no action; an UPDATE of `account_balance` by
hand, which `tests/test_pg_serializable.py` uses to construct drift, is left out.

Abstracted: an id of `journal_txn` is the call and the attempt that asked for it;
a row lock of a lost connection is released at once; the server's conflict
detection is a choice. Post's transactions read only rows they have locked or
made, so a committed SERIALIZABLE posting needs no more than the checks above.

## 3. The runs

| run | checks | bounds |
|---|---|---|
| `ledger` | `KeysMatchJournal` (I4 both ways), `AnswersHold`, `FloorsHeld` (I2), `CacheMatchesJournal` (I3), `HistoryKept`, `KeepsItsPromise` (refines `ExactlyOnce`), `CallsEnd` | 2 threads, 2 keys, 8 requests, 2 plain posts, 1 crash |
| `payments` | `TypesOK`, `HoldsMatch`, `MoneyMatches`, `RefundsCanPost`, `ServedOnce`, `AnswersTrue`, `OnlyRefundsStrandHolds`, `OnlyStaleJobsLeaveTheTable` | 2 payments, of at most 4 and 2 units, 1 job; over HTTP 1 payment, 2 handlers, 3 keys, 6 bodies |
| `payments_stale` | violates `LegalTransitions` | 1 payment of at most 2 units |
| `payments_stuck_hold` | violates `HoldsAreReleasable` | the same |
| `books` | `TypeOK`, `NoLatePostings`, `NoLateDates`, `SettledPastIsFinal`, `SettledAnswersAreExact`, `AnswersInventNothing` | 2 transactions, 2 moments, 2 months, 1 of each caller |
| `books_in_flight` | violates `SnapshotsChangeNoAnswer` | 1 transaction, 2 moments |
| `books_final` | violates `ClosedMonthsAreFinal` | 1 transaction, 2 months |
| `snapshot` | `OnlyYoungestMissed`, `ReadsMissNothingElse`, `NothingInvented`, `NoFalseAlarm`, `CallsEnd` | 2 writers, 2 takers, 1 account, 2 entries per journal, 2 transactions, 2 checkpoints, 1 rebuild |
| `pg_store` | `TypeOK`, `CacheMatchesJournal` (I3), `FloorsHeld` (I2), `PostingsBalance` (I1), `AnswersHold`, `CallsEnd` | 2 workers at any mix of levels, 1 call each, 1 retry, 6 postings, 1 writer, 2 entries |
| `pg_late_entry` | violates `SealedBalance` | the same with 2 writers |
| `treasury` | `TypesOK`, `RatesImmutable`, `GivenRatesStand`, `FxBooksMatch`, `AdjustmentIsRateMovement`, `WithinScheme`, `SplitIsExact` | 2 stores, 2 quotes, 1 row lost with its process; 2 accounts, 2 jobs, 4 postings; originals of 10, 7 ages up to 31 days; 3 weights of at most 3, amounts of at most 5 |
| `snapshot_xmax` | violates `CheckpointsComplete` | 1 taker, 2 entries, 2 transactions, 1 checkpoint |

`Ledger!TypeOK` and `PgSnapshot!TypeOK` have no run: they are proved (`TypeCorrect`).

Why the bounds are enough. *Ledger*: SQLite admits one writer, so a race needs
two threads; the requests hold a racing duplicate (`k1` "load" twice), a
conflict (`k1` "load" and "spend"), two spenders of one balance (`k1`, `k2` and a
plain post), a posting that does not balance and one in the wrong currency. One
crash can fall between any two steps, and the retry after it is an ordinary
call. `MaxTxns` bounds plain posts only; keyed ones bound themselves.
*Payments*: a fee that is rounded down needs at least two refunds of more than
one unit to add up wrongly, hence four units; a job that is half way needs a second
payment, of two units so that it too may have been captured in part. Calls on different payments do not interact. Over HTTP two handlers are what
a race needs, each may be anywhere in its endpoint, and since a handler can be started
again and again the third request of a story follows; two keys and the payment's
own allow duplicates, conflicts, and one effect asked for under two keys. The bodies
hold a capture of part and one of all with a fee, so that partial captures, refunds
and voids all have a turn. *Books*: two
transactions let one be in flight while the other has committed; two moments
make the earlier one settled and put a posting on either side of its snapshot; two
months let a posting made in the open one be dated into the closed one. Rows of two
jobs replace each other as rows of one job that ran twice do; the proofs have any
number of each. *PgSnapshot*: the
watermark hazard needs an id that commits above one still in flight, so two
writers, one of which may be younger than every transaction that has ended, and two
takers can overtake each other. `balance` reads the rows of one account, so a second
account would add nothing to what one reader sees; the proofs have any number.
*PgStore*: the wallet starts one above its floor, so two withdrawals
fit one at a time; the same posting with its entries in the other order can
deadlock with it; the others are refused for an amount, a currency, an imbalance
that cancels out across currencies, and having no entries. One retry lets a call
fail, succeed and be exhausted. *Treasury*: its parts share no state, so each
behaviour follows one of them. Two quotes are what `fetch_ecb` makes of one currency, and
are enough to stop half way; one row that dies with its process is told from one that does not; two jobs and four postings let a conversion and another
job fall between the steps of a revaluation; a rate of 3/2 and one of 1/2 round
ties both ways. An original of 10 leaves ceilings that are rounded down; the ages are the last day of each
scheme's clock, the day after it, and the days 0 and 2. `SplitIsExact`
compares each split with every other division of the amount. `SYMMETRY` is used in `payments`, `books` and
`treasury` only, on ids the specification treats alike, and never with a
liveness property.

`CHECK_DEADLOCK FALSE` stands where the system may stop: in the payment runs when
every payment is in a final state, in `treasury` when a split was made or every posting used up, in the PostgreSQL store's when every call was
made; there `CallsEnd` says that no call is left waiting.

### What the violations show

- `snapshot_xmax`: a transaction whose xid is above every completed one is
  not waited for. Writer 1 takes its xid, writer 2 takes the next one and an
  id, writer 1 takes a higher id and commits; the watermark is above writer 2's id,
  the drain ends at once, and the entry of writer 2 is in neither checkpoint nor
  delta. `OnlyYoungestMissed` and `ReadsMissNothingElse` say how far the drain
  reaches: nothing else is missed.
- `pg_late_entry`: a writer's INSERT runs `entry_guards` while the transaction is
  open, then waits or is merely slow; another session seals the transaction,
  which balances; the INSERT goes on and commits. Neither the guard nor the seal
  locks what it read, and the foreign key's lock on the `journal_txn` row does not
  conflict with the update of `sealed`. `post` is not exposed to it, since its
  transactions are never visible unsealed.
- `payments_stale`: `expire_authorizations` acts on rows read before; a payment
  voided, captured or refunded meanwhile becomes `expired`, and its hold is
  released again. It is the only way out of the table: `OnlyStaleJobsLeaveTheTable`
  holds in `payments` and is proved.
- `payments_stuck_hold`: capture part, then refund: the state is now
  `partially_refunded` or `refunded`; neither void nor expiry applies, and the rest of the hold
  stays booked. No other payment keeps one: `OnlyRefundsStrandHolds` holds in `payments`
  and is proved.
- `books_in_flight`: a posting is stamped, a snapshot of that moment or a later one
  sums what is committed, the posting commits. It is not in the snapshot, and the
  replay starts after the snapshot's moment. The default `as_of` is the present,
  so any posting in flight when the job runs is lost to every as-of read from
  that snapshot, until the row is replaced or deleted.
- `books_final`: `record_effective_date` outside a transaction asks the guard, the
  month is closed, the row goes in, and the closed month counts one more posting. What
  remains is `NoLateDates`: only calls that were past the guard at the close add
  to it. The same claim fails without a race: the guard judges the new date,
  and INSERT OR REPLACE takes the old one away, so a posting that a closed month counted can be
  dated into an open one, and the closed month's report has changed without a reopening.

These disagreements were met too, each with a short story and without a run of its own:

- A handler of capture, refund or void asks whether its key is on record (`serve.py:228`), a
  duplicate commits, the handler replays and says `replayed: false`, though
  `serve.py:152-154` wants the caller told "whether this was a fresh effect or a replay".
  `AnswersTrue` keeps the direction that holds: the handler that had the effect never says `true`.
- A capture is answered, another call moves the payment, the capture is sent again: the
  transaction id is the original one, the state and the amounts are read anew
  (`serve.py:239`) and are not. `serve.py:14-15` promises "the ORIGINAL response, byte for
  byte". What holds is `AnswersTrue`: the row shown is one that this effect or a later one left.
- Two revaluation jobs read the position and both strike its movement; a job whose result was
  lost runs again; a result is reversed twice. Each books a movement twice, and
  nothing in the code prevents it, though `maintenance.py:19-20` and `144-146` say that
  reversing and striking anew is what keeps a movement from being counted twice. `FxBooksMatch` says
  what the unrealised account shows as long as none of the three happens, and what
  holds of the books in any case.
- `headroom` gives one answer on the last valid day of an authorization and on the day after it:
  `days_remaining` 0 (`schemes.py:225-226`) and the same amounts. `check_adjustment` takes
  the increment on the first day and declines it on the second (`schemes.py:147`), so a merchant
  does discover that limit "by being declined" (`schemes.py:211-212`). `headroom` only
  reads and has no action.
- `fx.py:13-15` says that what a split leaves over goes to the largest allocation;
  `allocate` gives it to the largest fractions, as its own docstring says (`fx.py:50-51`): 2 split by
  the weights 3, 2, 1 is 1, 1, 0. `SplitIsExact` is what the code does.
- A duplicate runs its work after the first copy has committed, and can be refused by the
  floor the first one used up or by a month closed since; `core.py:306-307` says that both
  callers read the first one's transaction back, which is so only for the
  `IntegrityError`. A retry is told the truth.
- `RateStore.publish` returns a rate that is in no committed row when an earlier `publish` of
  the same store failed in COMMIT: the SELECT finds the store's own uncommitted row.
  If the process then dies, another store may publish another rate for the quote, and both were
  given out; `GivenRatesStand` names that case (`lost`) and no other.
- A partially captured payment whose rest expires is `expired`, from which no refund is
  allowed, though `payments.py:212-213` calls a refund the correct instrument once funds
  have moved.
- `periods.py:165-168` says of `adjust_forward` that the original date is kept alongside;
  nothing keeps it, and `record_effective_date` would refuse it.

### Fairness

`Ledger!FairSpec` is weak fairness of each thread's steps: the operating system
schedules threads and `busy_timeout` bounds the wait for the lock, so a call that
began goes on. `PgSnapshot!FairSpec` is the same for takers and readers, and `PgStore!FairSpec`
for workers: the server answers, breaks deadlocks and grants a free lock; it may
report conflicts as often as it likes. Nothing
obliges a caller to call, a writer to commit, an operator to close a month or a
process to crash, and no liveness property needs it: the drain ends without the
writers because it has a timeout.

## 4. The proofs

All are checked by TLAPS for every value of the constants, under the named
ASSUMEs of the modules. Each follows one pattern: an inductive invariant `IInv`,
`Init => IInv`, a step lemma with one case per action, `IInv =>` property, PTL.
Every safety invariant and every action property of a passing run is stated by
a theorem.

**SumTheorems.** Balances, totals and positions are `SumFunction` of the community
module `Functions`, a recursive function chosen by `CHOOSE`. The lemmas show once that
such a function exists on the subsets of a finite set, that any two agree, and
that the element it takes first does not matter (`SumWithout`); the rest (a value
changed, a set extended, sums of sums, bounds, images) follows. The library's
induction theorems cannot be instantiated here, so each lemma takes a least
finite subset for which it fails and finds a smaller one: strict inclusion of
finite sets is well founded. Nothing is assumed of the operator beyond its definition.

**LedgerProofs.** `TypeCorrect`, `KeysAreExact`, `AnswersAreKept`, `FloorsAreKept`,
`HistoryIsKept`, `CacheIsTheSum`, and `ExactlyOnceImplemented` (the refinement). None of the properties
is inductive by itself: they speak of `db`, and what `db` becomes at COMMIT is what
the writer has in `work`. The invariant therefore adds what each program counter
knows: `work` is `db` outside a transaction; inside one it is `db` plus the
writer's posting, unsealed, then sealed after the floors were read, then with its
key, which was checked to be free in `work`, so a stale lookup does no harm; at
`reply` the transaction named by `txnId` is in `db`. `CacheIsTheSum` says of `work` too that its
balances add up to its own journal, sealed or not, and that all of `db`'s journal is sealed. Assumption worth naming:
`FloorAssumption`, no account without overdraft opens with a positive floor.
`open_account` accepts one, and I2 is then broken until money arrives.

**PaymentsProofs.** `TypeCorrect`, `MoneyIsRight`, `RefundsPost`, `HoldsAreRight`,
`OnlyStaleJobsBreakTheTable`, `OnlyRefundsStrand`. The key
is a conserved inequality: the fee given back so far times the amount captured
is at most the fee times the amount refunded. Each refund adds
`floor(fee * n / captured)`, which keeps it, and with `refunded <= captured` it
gives `0 <= fees`. It survives captures because refunds close an
authorization for capture, so the fee and the captured amount no longer change
once the first refund was made. `HoldsAreRight` needs only that a job has read open rows.
The last two are what is left of the two documented claims that the violation runs refute;
they add to the invariant what a state says of the amounts: nothing remains to be captured of a
`captured` payment, something was refunded of a refunded one.

**ApiProofs.** `ServiceRefinesPayments`: the service implements `Payments`, so what was
proved there holds behind it, of which `ServedMoneyIsRight` is the example.
`KeysAreExact` and `AnswersAreTrue` for any number of handlers, keys and bodies. The
argument follows a handler: its flag was true only if its key was on record, keys on
record stay, so the handler whose work commits had none, and never says replay; and the
row of a payment is, at any moment, what the last work on it left, or expired since, so
what is read for an answer is what this work or a later one left.
Neither that a replay is always called one nor that it repeats the first answer is
true (section 3), and the theorem says neither. `EachKeyOnce` adds
the amounts: each transaction of a handler adds one request on record and its
amount to one payment. `DeskTypes`, `ServedKeysOnce` and `DeskRefinesPayments` say the
same of the composition that the run explores.

**TreasuryProofs.** *Rates*: `Immutable` and `GivenStand`, from an invariant that no two rows in
sight of a store share a quote and that a store with rows of its own has the
file reserved, which is why an INSERT that finds the quote free stays right until
its COMMIT, in whichever later call that comes.
*Schemes*: `LimitsHold`, for any original amount. A
limit checked at one step holds for life because the last increment is never older
than the authorization and a decrement only lowers what the ratio bounds.
*Fx*: `BooksMatch`, since a posting adds nothing to the sum of a book and no revaluation
touches the position; while `followed`, at most one result stands and the unrealised
account is that one or zero; and
`AdjustmentIsHonest`: with the foreign book square, what is left of the
adjustment is a sum of rounding errors, each at most half a unit, for any set of
accounts and any rates.
*Split*: `SplitsAreExact`, for any number of weights. Ranks are a bijection, so that
exactly as many parts get a unit as the floors left over; and the fraction of the
last part that got one is a price at which the split is the cheapest choice for each
part by itself, hence (the sums being equal) for all of them together. It is
compared with every division into integers.
*Composition*: `PartsImplemented`, a behaviour of `Treasury` is one of each part, which carries
the theorems over; `TreasuryTypes`.

**BooksProofs.** `TypeCorrect`, `ClosedMonthsTakeNoPosting`,
`ClosedMonthsTakeNoLateDate`, `SettledPastStays`, `SettledSnapshotsAreCaches`,
`NothingIsInvented`. Two invariants. A row of a snapshot, wherever it is between the
SELECT that read it and the answer that uses it, holds nothing but what the
journal has up to its moment, and all of that if the moment was settled; it stays true
because stamps are taken under the write lock, so a settled moment stays
settled (`PastKept`). And what was guarded and not stored yet is accounted for: an open
posting keeps the lock a close needs, and a date that a close overtakes is one whose
call was past its guard, which is what `onTime` remembers.

**PgSnapshotProofs.** `TypeCorrect`, `AnswersInventNothing`, `CheckpointsMissOnlyYoungest`,
`AnswersMissNothingElse`, `AlarmsAreTrue`. Ids only grow, so once an id at or below a
watermark is not in flight it never will be; an open transaction that holds one was
open when the watermark was read, and xmax is read after it. The invariant
(`YoungInv`) says that whoever can still add to a watermark, or has since its sum, has an
xid of at least the `xmax0` of the drain: the drain ends only when no running transaction
below xmax has a smaller one (`DrainWaitsForOlder`). Transactions above it are what it
says nothing of, and what `snapshot_xmax` shows. A reader's delta takes every id above its
watermark, hence `AnswersMissNothingElse`. `AlarmsAreTrue` needs
that every watermark, stored, read or about to be stored, is an id that some journal row
has reached, which nothing but a rebuild takes back.

**PgStoreProofs.** `TypeCorrect`, `FloorsAtAnyIsolation`, `AnswersAreTrue`, `CacheIsTheSum`,
`PostingsAreWhole`. Every step is
first put into one of six kinds (`StepKinds`), so that the ways an attempt can fail
are treated once. The floor's argument: an account's row is locked from the upsert
until COMMIT and no row is locked twice, so between the seal that judged
`balance + own` and the commit that installs it nobody changes the balance; `own`
is zero outside the locked rows. The isolation level appears nowhere in it. The
module comment of `pg_schema.sql` (5-9) and section 3 of `pg_drift_test.py`
(221-226) say that the floor is what SERIALIZABLE buys; that holds for the
hand-written probe of the tests, which reads a balance before it locks it, and not
for `post`, whose trigger locks first and checks last. `AnswersAreTrue` rests on a
call having no transaction in the journal while it is open: an attempt that fails
with 40001 or 40P01 has none, and an error without SQLSTATE, the only one after
which there may be one, ends the call. The last two need that
what the triggers have added up for an open attempt, per account and per currency, is what
its rows not yet committed add up to, and that a row which a writer is about to commit is
one the journal does not have.

Only model-checked: liveness, `CallsEnd` in `ledger`, `snapshot` and `pg_store`; it
rests on fairness and ENABLED, which the prover does not treat. The refuted
properties of the violation runs have no theorem either, since none is true.

## 5. Not modelled, and the plan

In the order in which they are worth doing:

1. **Journal**: `schema.sql` at the level of single SQL statements, with direct
   writers who never call `core.py`. `schema.sql:149-151` says of I2 that it "holds for
   any writer"; the trigger fires at the seal, and an unsealed committed
   transaction has already moved the cached balance.
2. **PgStore** extended with `open_account` and the counters of `RetryStats`.
3. Proofs: what remains true of `SealedBalance` when no writer adds to a transaction of another
   session, and of `SnapshotsChangeNoAnswer` for moments that were settled when the snapshot
   was taken; an abstract specification of `PgStore` like `ExactlyOnce`, and the refinement.

Left out because it only reads: `headroom` of the scheme rules, `history` and `sources_used` of the rate store, the
GET endpoints, the report and restatement listings. Not modelled as a run: a book in more than one
foreign currency, whose positions do not meet.

Left out for good: a power loss under `synchronous = NORMAL` (the model's crash is
the death of the process), `KeyboardInterrupt` inside `tx()`, report wording and
formatting, the drill, benchmark and load programs, and the network fetch itself.
