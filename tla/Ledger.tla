------------------------------- MODULE Ledger -------------------------------
(***************************************************************************)
(* src/ledger/core.py over src/ledger/schema.sql: threads of one process   *)
(* call Ledger.post and Ledger.post_idempotent against one SQLite file.    *)
(*                                                                         *)
(* SQLite gives the model its shape.  A write transaction is BEGIN         *)
(* IMMEDIATE, so at most one thread writes; its statements act on a        *)
(* private copy, `work', that COMMIT installs and ROLLBACK drops; every    *)
(* other connection reads the committed state `db' (WAL).  The key lookup  *)
(* runs outside the transaction, so its answer can be stale by the time    *)
(* the transaction begins.                                                 *)
(*                                                                         *)
(* A posting is a payload: the accounts its entries touch, the net amount  *)
(* on each (debit-positive) and the currency written on its entries.       *)
(***************************************************************************)
EXTENDS Integers, Sequences, FiniteSetsExt, Functions

CONSTANTS
    Threads, NoThread,
    Keys, NoKey,            \* NoKey: a plain post(), outside the idempotent path
    Payloads,
    Requests, NoRequest,    \* the calls made: records [key, payload]
    Accounts,
    Currencies,
    Currency,               \* [Accounts -> Currencies], account.currency
    Floor,                  \* [Accounts -> Int], account.floor_minor
    Overdraft,              \* the accounts with overdraft_allowed = 1
    Touches,                \* [Payloads -> SUBSET Accounts]
    Net,                    \* [Payloads -> [Accounts -> Int]]
    EntryCurrency,          \* [Payloads -> [Accounts -> Currencies]]
    MaxTxns,                \* bound: plain posts start while the journal is shorter
    MaxCrashes              \* bound: process crashes

ASSUME NamesAssumption ==
    /\ NoThread \notin Threads
    /\ NoKey \notin Keys
    /\ NoRequest \notin Requests
    /\ Requests \subseteq [key : Keys \cup {NoKey}, payload : Payloads]

ASSUME BooksAssumption ==
    /\ Currency \in [Accounts -> Currencies]
    /\ Floor \in [Accounts -> Int]
    /\ Overdraft \subseteq Accounts
    /\ Touches \in [Payloads -> SUBSET Accounts]
    /\ Net \in [Payloads -> [Accounts -> Int]]
    /\ EntryCurrency \in [Payloads -> [Accounts -> Currencies]]
    /\ \A p \in Payloads : \A a \in Accounts \ Touches[p] : Net[p][a] = 0

(* open_account writes a zero balance and checks no floor: a positive floor *)
(* would be breached the moment the account exists.                         *)
ASSUME FloorAssumption == \A a \in Accounts \ Overdraft : Floor[a] <= 0

ASSUME BoundsAssumption == MaxTxns \in Nat /\ MaxCrashes \in Nat

VARIABLES
    db,         \* the committed database
    work,       \* the database as the open write transaction sees it (db if none is open)
    writer,     \* the thread holding SQLite's write lock, or NoThread
    pc,         \* where each thread is in its call
    call,       \* the request each thread is serving
    txnId,      \* cur.lastrowid of each thread's INSERT INTO journal_txn
    answers,    \* history: every answer given to a caller that promises something
    crashes

vars == <<db, work, writer, pc, call, txnId, answers, crashes>>

-----------------------------------------------------------------------------
(* The database.                                                           *)

KeyRow == [key : Keys, payload : Payloads, txn : Nat]

Database ==
    [accounts : SUBSET Accounts,            \* table account
     closed   : BOOLEAN,                    \* accounting_period: is today's month closed
     journal  : Seq(Requests),              \* journal_txn with its entries; the id is the position
     sealed   : SUBSET Nat,                 \* the ids with sealed = 1
     balance  : [Accounts -> Int],          \* table account_balance
     keys     : SUBSET KeyRow]              \* table idempotency_key

Answer == [request : Requests, outcome : {"posted", "replayed", "conflict"}, txn : Nat]

TypeOK ==
    /\ db \in Database
    /\ work \in Database
    /\ writer \in Threads \cup {NoThread}
    /\ pc \in [Threads -> {"idle", "lookup", "begin", "post", "seal", "record",
                           "commit", "reply", "recheck"}]
    /\ call \in [Threads -> Requests \cup {NoRequest}]
    /\ txnId \in [Threads -> Nat]
    /\ answers \subseteq Answer
    /\ crashes \in Nat

Init ==
    /\ db = [accounts |-> {}, closed |-> FALSE, journal |-> <<>>, sealed |-> {},
             balance |-> [a \in Accounts |-> 0], keys |-> {}]
    /\ work = db
    /\ writer = NoThread
    /\ pc = [t \in Threads |-> "idle"]
    /\ call = [t \in Threads |-> NoRequest]
    /\ txnId = [t \in Threads |-> 0]
    /\ answers = {}
    /\ crashes = 0

KeyTaken(d, k) == \E row \in d.keys : row.key = k

(* core.py:189-196: entries there are, and they sum to zero per currency.  *)
Balanced(p) ==
    /\ Touches[p] # {}
    /\ \A c \in Currencies :
          SumFunctionOnSet(Net[p], {a \in Touches[p] : EntryCurrency[p][a] = c}) = 0

(* The foreign key to account and the trigger entry_currency_matches_account. *)
Insertable(d, p) ==
    \A a \in Touches[p] : a \in d.accounts /\ EntryCurrency[p][a] = Currency[a]

(* Slip: the upsert adds a credit as it does a debit. *)
UnsignedCredits(balance, p) ==
    [a \in Accounts |-> balance[a] + (IF Net[p][a] < 0 THEN -Net[p][a] ELSE Net[p][a])]

(* Trigger entry_after_insert, once per entry. *)
ApplyEntries(balance, p) == [a \in Accounts |-> balance[a] + Net[p][a]]

(* Slip: the floors are checked on another connection, which sees the      *)
(* balances as they were before the transaction.                           *)
FloorsAsCommitted(d, p) ==
    \A a \in Touches[p] \ Overdraft : db.balance[a] >= Floor[a]

(* _check_floors, repeated by the trigger txn_seal_respects_floors. *)
RespectsFloors(d, p) ==
    \A a \in Touches[p] \ Overdraft : d.balance[a] >= Floor[a]

-----------------------------------------------------------------------------
(* Pieces of the steps of a thread.                                        *)

Goto(t, label) == pc' = [pc EXCEPT ![t] = label]

EndCall(t) ==
    /\ Goto(t, "idle")
    /\ call' = [call EXCEPT ![t] = NoRequest]
    /\ txnId' = [txnId EXCEPT ![t] = 0]

Answered(t, outcome, txn) ==
    /\ answers' = answers \cup {[request |-> call[t], outcome |-> outcome, txn |-> txn]}
    /\ EndCall(t)

(* The call raises anything but a conflict: the caller knows no more. *)
Refused(t) == EndCall(t) /\ UNCHANGED <<db, answers, crashes>>

(* `except Exception: ROLLBACK' in tx(). *)
Rollback == writer' = NoThread /\ work' = db

(* The exception leaves tx(), is no IntegrityError, and reaches the caller. *)
Abort(t) == Rollback /\ Refused(t)

(* An IntegrityError inside tx().  post_idempotent catches it and looks the *)
(* key up again; a plain post lets it out.                                  *)
IntegrityError(t) ==
    IF call[t].key = NoKey
    THEN Abort(t)
    ELSE /\ Rollback
         /\ Goto(t, "recheck")
         /\ txnId' = [txnId EXCEPT ![t] = 0]
         /\ UNCHANGED <<db, call, answers, crashes>>

(* Slip: the stored response is replayed for any payload. *)
ReplayUnchecked(t, row) ==
    /\ Answered(t, "replayed", row.txn)
    /\ UNCHANGED <<db, work, writer, crashes>>

(* _replay: the stored response, unless the payload differs. *)
Replay(t, row) ==
    /\ IF row.payload # call[t].payload
       THEN Answered(t, "conflict", 0)
       ELSE Answered(t, "replayed", row.txn)
    /\ UNCHANGED <<db, work, writer, crashes>>

-----------------------------------------------------------------------------
(* The steps of a thread.                                                  *)

Start(t, r) ==
    /\ pc[t] = "idle"
    /\ r.key = NoKey => Len(db.journal) < MaxTxns
    /\ call' = [call EXCEPT ![t] = r]
    /\ Goto(t, IF r.key = NoKey THEN "begin" ELSE "lookup")
    /\ UNCHANGED <<db, work, writer, txnId, answers, crashes>>

Lookup(t) ==
    /\ pc[t] = "lookup"
    /\ \/ \E row \in db.keys : row.key = call[t].key /\ Replay(t, row)
       \/ /\ ~KeyTaken(db, call[t].key)
          /\ Goto(t, "begin")
          /\ UNCHANGED <<db, work, writer, call, txnId, answers, crashes>>

(* A plain post checks its entries before it asks for the lock, an         *)
(* idempotent one inside the transaction.                                  *)
RefuseUnbalanced(t) ==
    \/ /\ pc[t] = "post"
       /\ ~Balanced(call[t].payload)
       /\ Abort(t)
    \/ /\ pc[t] = "begin"
       /\ call[t].key = NoKey
       /\ ~Balanced(call[t].payload)
       /\ Refused(t)
       /\ UNCHANGED <<work, writer>>

BeginImmediate(t) ==
    /\ pc[t] = "begin"
    /\ call[t].key = NoKey => Balanced(call[t].payload)
    /\ writer = NoThread
    /\ writer' = t
    /\ work' = db
    /\ Goto(t, "post")
    /\ UNCHANGED <<db, call, txnId, answers, crashes>>

(* busy_timeout ran out: OperationalError, no transaction was opened. *)
BeginTimesOut(t) ==
    /\ pc[t] = "begin"
    /\ call[t].key = NoKey => Balanced(call[t].payload)
    /\ writer # NoThread
    /\ Refused(t)
    /\ UNCHANGED <<work, writer>>

(* The period guard, then the journal rows with all that their triggers do. *)
Post(t) ==
    /\ pc[t] = "post"
    /\ Balanced(call[t].payload)
    /\ \/ work.closed /\ Abort(t)
       \/ /\ ~work.closed
          /\ ~Insertable(work, call[t].payload)
          /\ IntegrityError(t)
       \/ /\ ~work.closed
          /\ Insertable(work, call[t].payload)
          /\ work' = [work EXCEPT
                        !.journal = Append(@, call[t]),
                        !.balance = ApplyEntries(@, call[t].payload)]
          /\ txnId' = [txnId EXCEPT ![t] = Len(work'.journal)]
          /\ Goto(t, "seal")
          /\ UNCHANGED <<db, writer, call, answers, crashes>>

CheckFloorsAndSeal(t) ==
    /\ pc[t] = "seal"
    /\ IF RespectsFloors(work, call[t].payload)
       THEN /\ work' = [work EXCEPT !.sealed = @ \cup {txnId[t]}]
            /\ Goto(t, IF call[t].key = NoKey THEN "commit" ELSE "record")
            /\ UNCHANGED <<db, writer, call, txnId, answers, crashes>>
       ELSE Abort(t)

NewKeyRow(t) == [key |-> call[t].key, payload |-> call[t].payload, txn |-> txnId[t]]

(* Slip: idempotency_key.key is not a primary key. *)
RecordKeyTwice(t) ==
    /\ pc[t] = "record"
    /\ work' = [work EXCEPT !.keys = @ \cup {NewKeyRow(t)}]
    /\ Goto(t, "commit")
    /\ UNCHANGED <<db, writer, call, txnId, answers, crashes>>

(* Slip: INSERT OR REPLACE. *)
ReplaceKey(t) ==
    /\ pc[t] = "record"
    /\ work' = [work EXCEPT !.keys = {r \in @ : r.key # call[t].key} \cup {NewKeyRow(t)}]
    /\ Goto(t, "commit")
    /\ UNCHANGED <<db, writer, call, txnId, answers, crashes>>

RecordKey(t) ==
    /\ pc[t] = "record"
    /\ IF KeyTaken(work, call[t].key)
       THEN IntegrityError(t)
       ELSE /\ work' = [work EXCEPT !.keys = @ \cup {NewKeyRow(t)}]
            /\ Goto(t, "commit")
            /\ UNCHANGED <<db, writer, call, txnId, answers, crashes>>

Commit(t) ==
    /\ pc[t] = "commit"
    /\ db' = work
    /\ writer' = NoThread
    /\ Goto(t, "reply")
    /\ UNCHANGED <<work, call, txnId, answers, crashes>>

Reply(t) ==
    /\ pc[t] = "reply"
    /\ Answered(t, "posted", txnId[t])
    /\ UNCHANGED <<db, work, writer, crashes>>

(* Slip: the call starts over as long as no row is found. *)
RecheckRetries(t) ==
    /\ pc[t] = "recheck"
    /\ \/ \E row \in db.keys : row.key = call[t].key /\ Replay(t, row)
       \/ /\ ~KeyTaken(db, call[t].key)
          /\ Goto(t, "begin")
          /\ UNCHANGED <<db, work, writer, call, txnId, answers, crashes>>

(* After an IntegrityError: a row means a concurrent duplicate won; no row *)
(* means the error came from the posting itself and is raised again.       *)
Recheck(t) ==
    /\ pc[t] = "recheck"
    /\ \/ \E row \in db.keys : row.key = call[t].key /\ Replay(t, row)
       \/ /\ ~KeyTaken(db, call[t].key)
          /\ Refused(t)
          /\ UNCHANGED <<work, writer>>

ThreadStep(t) ==
    \/ Lookup(t) \/ RefuseUnbalanced(t) \/ BeginImmediate(t) \/ BeginTimesOut(t)
    \/ Post(t) \/ CheckFloorsAndSeal(t) \/ RecordKey(t) \/ Commit(t)
    \/ Reply(t) \/ Recheck(t)

-----------------------------------------------------------------------------
(* Other writers, each a transaction or a single statement of its own, and *)
(* the crash of the process.                                               *)

OutsideWrite(d) ==
    /\ writer = NoThread
    /\ db' = d
    /\ work' = d
    /\ UNCHANGED <<writer, pc, call, txnId, answers, crashes>>

OpenAccount(a) ==
    /\ a \notin db.accounts
    /\ OutsideWrite([db EXCEPT !.accounts = @ \cup {a}])

ClosePeriod == ~db.closed /\ OutsideWrite([db EXCEPT !.closed = TRUE])

ReopenPeriod == db.closed /\ OutsideWrite([db EXCEPT !.closed = FALSE])

(* kill -9: every thread and the open transaction are gone, the committed  *)
(* database survives; callers get no answer and may ask again.             *)
Crash ==
    /\ crashes < MaxCrashes
    /\ crashes' = crashes + 1
    /\ Rollback
    /\ pc' = [t \in Threads |-> "idle"]
    /\ call' = [t \in Threads |-> NoRequest]
    /\ txnId' = [t \in Threads |-> 0]
    /\ UNCHANGED <<db, answers>>

Next ==
    \/ \E t \in Threads : ThreadStep(t) \/ (\E r \in Requests : Start(t, r))
    \/ \E a \in Accounts : OpenAccount(a)
    \/ ClosePeriod
    \/ ReopenPeriod
    \/ Crash

Spec == Init /\ [][Next]_vars

(* A call that began is run to its end: the operating system schedules its *)
(* thread, and busy_timeout bounds the wait for the lock.  Nothing obliges *)
(* a caller to call, an operator to close a month, or the process to crash. *)
FairSpec == Spec /\ \A t \in Threads : WF_vars(ThreadStep(t))

-----------------------------------------------------------------------------
(* Properties.                                                             *)

(* Invariant I4 (invariants.py i4_idempotency), both ways round: every     *)
(* committed key names one sealed transaction posted for that very         *)
(* request, no two rows share a key or a transaction, and no keyed posting *)
(* was committed without its key -- across crashes and racing duplicates.  *)
KeysMatchJournal ==
    /\ db.sealed = DOMAIN db.journal
    /\ \A row \in db.keys :
          /\ row.txn \in db.sealed
          /\ db.journal[row.txn] = [key |-> row.key, payload |-> row.payload]
    /\ \A r1, r2 \in db.keys : r1.key = r2.key \/ r1.txn = r2.txn => r1 = r2
    /\ \A n \in DOMAIN db.journal :
          db.journal[n].key # NoKey => \E row \in db.keys : row.txn = n

(* What a caller was told stays true: a success names a committed sealed   *)
(* transaction of that caller's own request, whoever wrote it and however  *)
(* often the process died since; a 409 names a key used for other content. *)
AnswersHold ==
    \A ans \in answers :
        /\ ans.outcome \in {"posted", "replayed"} =>
              /\ ans.txn \in db.sealed
              /\ db.journal[ans.txn] = ans.request
        /\ ans.outcome = "conflict" =>
              \E row \in db.keys :
                 row.key = ans.request.key /\ row.payload # ans.request.payload

(* Invariant I2: in every committed state no account without overdraft is  *)
(* below its floor, whichever postings raced for it.                       *)
FloorsHeld == \A a \in Accounts \ Overdraft : db.balance[a] >= Floor[a]

(* Invariant I3: the cached balance is the sum of the sealed journal.      *)
CacheMatchesJournal ==
    \A a \in Accounts :
        db.balance[a] = SumFunction([n \in db.sealed |-> Net[db.journal[n].payload][a]])

(* The journal is append-only and a recorded key is for ever: a committed  *)
(* step adds at most one transaction, sealed, and keeps all that was there. *)
HistoryKept ==
    [][/\ \/ db'.journal = db.journal /\ db'.sealed = db.sealed
          \/ \E r \in Requests :
                /\ db'.journal = Append(db.journal, r)
                /\ db'.sealed = db.sealed \cup {Len(db'.journal)}
       /\ db.keys \subseteq db'.keys]_vars

(* Every call comes to an end, also when its thread finds the lock taken.  *)
CallsEnd == \A t \in Threads : pc[t] # "idle" ~> pc[t] = "idle"

(* The refinement: what took effect is what the committed journal holds.   *)
Promise == INSTANCE ExactlyOnce WITH effects <- db.journal, answers <- answers

KeepsItsPromise == Promise!Spec
=============================================================================
