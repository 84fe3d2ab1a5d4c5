------------------------------ MODULE PgStore ------------------------------
(***************************************************************************)
(* src/ledger/pg_store.py over src/ledger/pg_schema.sql: workers, each one *)
(* PgLedger with one connection, call post() against one PostgreSQL, at    *)
(* SERIALIZABLE or READ COMMITTED; writers change the journal with         *)
(* autocommitted SQL statements of their own.                              *)
(*                                                                         *)
(* What PostgreSQL does is modelled where post() meets it.  The trigger's  *)
(* upsert of account_balance locks the row until the transaction ends; the *)
(* transaction's change of that row is `own', which COMMIT adds to the     *)
(* committed balance.  Under SERIALIZABLE an update of a row somebody      *)
(* committed since the snapshot (`stale') fails with 40001, and so may any *)
(* statement, for a conflict the server believes it sees; a cycle of lock  *)
(* waits ends in 40P01 for one of the waiters, at either level.            *)
(***************************************************************************)
EXTENDS Integers, Sequences, FiniteSetsExt, Functions

CONSTANTS
    Workers, Writers,
    Accounts, Currencies,
    Currency,       \* [Accounts -> Currencies], account.currency
    Floor,          \* [Accounts -> Int], account.floor_minor
    Overdraft,      \* the accounts with overdraft_allowed
    Postings,       \* the lists of entries post() is given
    DirectEntries,  \* the entries a writer inserts by hand
    MaxRetries,     \* PgLedger.max_retries
    MaxCalls,       \* bound: calls of post() per worker
    MaxDirect       \* bound: entries in the one transaction a writer opens

ASSUME ActorsAssumption == Workers \cap Writers = {}

ASSUME AccountsAssumption ==
    /\ Currency \in [Accounts -> Currencies]
    /\ Floor \in [Accounts -> Int]
    /\ Overdraft \subseteq Accounts
    \* open_account stores a zero balance and checks no floor
    /\ \A a \in Accounts \ Overdraft : Floor[a] <= 0

Entry == [account : Accounts, direction : {"D", "C"}, amount : Int, currency : Currencies]

ASSUME EntriesAssumption ==
    /\ Postings \subseteq Seq(Entry)
    /\ DirectEntries \subseteq Entry

ASSUME BoundsAssumption == MaxRetries \in Nat /\ MaxCalls \in Nat /\ MaxDirect \in Nat

VARIABLES
    (* the committed database *)
    txns,       \* ids in journal_txn
    sealed,     \* the ids with sealed = TRUE
    journal,    \* journal_entry: the n-th entry of each transaction
    totals,     \* txn_currency_total: debits less credits
    balance,    \* account_balance
    (* each worker *)
    isolation,  \* PgLedger.isolation
    pc, legs, attempt,
    at,         \* entries inserted by this attempt
    own,        \* what this attempt added to each balance, uncommitted
    net,        \* this attempt's txn_currency_total
    stale,      \* balances committed by others since this attempt's snapshot
    answers,    \* history: how each call of the worker ended
    (* each writer *)
    inserting   \* the INSERT whose guard has passed and that has not run yet

db == <<txns, sealed, journal, totals, balance>>
callVars == <<pc, legs, attempt, answers>>
txnVars == <<at, own, net, stale>>
vars == <<db, isolation, callVars, txnVars, inserting>>

NoAmounts == [c \in Currencies |-> 0]
Unchanged == [a \in Accounts |-> 0]

Add(amounts, key, n) == [amounts EXCEPT ![key] = @ + n]

(* GENERATED ALWAYS AS IDENTITY gives every INSERT INTO journal_txn an id of *)
(* its own, attempts that roll back included.                                *)
TxnId == [actor : Workers \cup Writers, call : Nat, attempt : Nat]
Id(w) == [actor |-> w, call |-> Len(answers[w]) + 1, attempt |-> attempt[w]]

Rows(id) == {row \in journal : row.txn = id}

AnswerRow ==
    [result : {"posted", "refused", "exhausted", "lost"}, txn : TxnId, legs : Postings]

TypeOK ==
    /\ txns \subseteq TxnId
    /\ sealed \subseteq txns
    /\ journal \subseteq [txn : txns, n : Nat, entry : Entry]
    /\ totals \in [txns -> [Currencies -> Int]]
    /\ balance \in [Accounts -> Int]
    /\ isolation \in [Workers -> {"SERIALIZABLE", "READ COMMITTED"}]
    /\ pc \in [Workers -> {"idle", "begin", "entries", "commit"}]
    /\ legs \in [Workers -> Postings \cup {<<>>}]
    /\ attempt \in [Workers -> 0..MaxRetries]
    /\ at \in [Workers -> Nat]
    /\ \A w \in Workers : at[w] <= Len(legs[w])
    /\ own \in [Workers -> [Accounts -> Int]]
    /\ net \in [Workers -> [Currencies -> Int]]
    /\ stale \in [Workers -> SUBSET Accounts]
    /\ answers \in [Workers -> Seq(AnswerRow)]
    /\ inserting \in [Writers -> [txn : TxnId, entry : DirectEntries] \cup {<<>>}]

Init ==
    /\ txns = {} /\ sealed = {} /\ journal = {} /\ totals = [id \in {} |-> NoAmounts]
    /\ balance = [a \in Accounts |-> 0]
    /\ isolation \in [Workers -> {"SERIALIZABLE", "READ COMMITTED"}]
    /\ pc = [w \in Workers |-> "idle"]
    /\ legs = [w \in Workers |-> <<>>]
    /\ attempt = [w \in Workers |-> 0]
    /\ at = [w \in Workers |-> 0]
    /\ own = [w \in Workers |-> Unchanged]
    /\ net = [w \in Workers |-> NoAmounts]
    /\ stale = [w \in Workers |-> {}]
    /\ answers = [w \in Workers |-> <<>>]
    /\ inserting = [d \in Writers |-> <<>>]

-----------------------------------------------------------------------------
(* What the triggers compute.                                              *)

(* entry_guards and the CHECK on amount_minor.                             *)
Insertable(e) == e.currency = Currency[e.account] /\ e.amount > 0

(* Slip: the direction of the entry is forgotten.                          *)
Unsigned(e) == e.amount

(* entry_after_insert: a debit adds to the balance, a credit takes from it. *)
Signed(e) == IF e.direction = "D" THEN e.amount ELSE -e.amount

(* Slip: one total for all currencies.                                     *)
BalancedOverall(amounts) == SumFunction(amounts) = 0

(* txn_seal_checks: debits equal credits in every currency.                *)
Balanced(amounts) == \A c \in Currencies : amounts[c] = 0

-----------------------------------------------------------------------------
(* Row locks.                                                              *)

InTransaction(w) == pc[w] \in {"entries", "commit"}

(* The accounts whose account_balance row w has updated and keeps locked.  *)
Locked(w) == {legs[w][k].account : k \in 1..at[w]}

(* Slip: the upsert waits for nobody.                                      *)
LockedByNobody(w, a) == FALSE

LockedByOther(w, a) == \E v \in Workers \ {w} : a \in Locked(v)

(* The entry whose INSERT is next.                                         *)
HasLeg(w) == pc[w] = "entries" /\ at[w] < Len(legs[w])
Leg(w) == legs[w][at[w] + 1]

Waits(w) == HasLeg(w) /\ Insertable(Leg(w)) /\ LockedByOther(w, Leg(w).account)
Blockers(w) == {v \in Workers \ {w} : Leg(w).account \in Locked(v)}

(* w is on a cycle of waiters.                                             *)
InDeadlock(w) ==
    \E D \in SUBSET Workers :
        /\ w \in D
        /\ \A v \in D : Waits(v)
        /\ UNION {Blockers(v) : v \in D} = D

(* The row was committed by somebody else since the snapshot.              *)
Overwritten(w, a) == isolation[w] = "SERIALIZABLE" /\ a \in stale[w]

(* Committed rows the open snapshots of others no longer see the latest of. *)
Outdate(w, accounts) ==
    stale' = [v \in Workers |->
                CASE v = w -> {}
                  [] v # w /\ InTransaction(v) -> stale[v] \cup accounts
                  [] OTHER -> stale[v]]

-----------------------------------------------------------------------------
(* The end of a transaction, and the retry loop of run_serializable.       *)

Clear(w) ==
    /\ at' = [at EXCEPT ![w] = 0]
    /\ own' = [own EXCEPT ![w] = Unchanged]
    /\ net' = [net EXCEPT ![w] = NoAmounts]

Rollback(w) ==
    /\ Clear(w)
    /\ stale' = [stale EXCEPT ![w] = {}]
    /\ UNCHANGED db

Install(w) ==
    /\ txns' = txns \cup {Id(w)}
    /\ sealed' = sealed \cup {Id(w)}
    /\ journal' = journal \cup
          {[txn |-> Id(w), n |-> k, entry |-> legs[w][k]] : k \in DOMAIN legs[w]}
    /\ totals' = [id \in txns' |-> IF id = Id(w) THEN net[w] ELSE totals[id]]
    /\ balance' = [a \in Accounts |-> balance[a] + own[w][a]]
    /\ Clear(w)
    /\ Outdate(w, Locked(w))

(* The call returns or raises.                                             *)
Answer(w, result) ==
    /\ answers' = [answers EXCEPT ![w] =
                      Append(@, [result |-> result, txn |-> Id(w), legs |-> legs[w]])]
    /\ pc' = [pc EXCEPT ![w] = "idle"]
    /\ legs' = [legs EXCEPT ![w] = <<>>]
    /\ attempt' = [attempt EXCEPT ![w] = 0]

(* Slip: an error without a SQLSTATE is retried as well.                   *)
AlwaysRetryable(sqlstate) == TRUE

Retryable(sqlstate) == sqlstate \in {"40001", "40P01"}

(* Slip: one attempt too many.                                             *)
AgainOnceMore(w) ==
    IF attempt[w] <= MaxRetries
    THEN /\ attempt' = [attempt EXCEPT ![w] = @ + 1]
         /\ pc' = [pc EXCEPT ![w] = "begin"]
         /\ UNCHANGED <<legs, answers>>
    ELSE Answer(w, "exhausted")

(* Slip: the attempts are not counted.                                     *)
AgainForEver(w) ==
    /\ pc' = [pc EXCEPT ![w] = "begin"]
    /\ UNCHANGED <<legs, attempt, answers>>

(* Back off and try again, or give up.                                     *)
Again(w) ==
    IF attempt[w] < MaxRetries
    THEN /\ attempt' = [attempt EXCEPT ![w] = @ + 1]
         /\ pc' = [pc EXCEPT ![w] = "begin"]
         /\ UNCHANGED <<legs, answers>>
    ELSE Answer(w, "exhausted")

(* The except clause: only what is retryable is tried again.               *)
Except(w, sqlstate, result) ==
    IF Retryable(sqlstate) THEN Again(w) ELSE Answer(w, result)

Fail(w, sqlstate, result) == Rollback(w) /\ Except(w, sqlstate, result)

-----------------------------------------------------------------------------
(* PgLedger.post.                                                          *)

Post(w, posting) ==
    /\ pc[w] = "idle"
    /\ Len(answers[w]) < MaxCalls
    /\ pc' = [pc EXCEPT ![w] = "begin"]
    /\ legs' = [legs EXCEPT ![w] = posting]
    /\ UNCHANGED <<db, isolation, attempt, answers, txnVars, inserting>>

(* INSERT INTO journal_txn: the transaction and its snapshot begin.        *)
InsertTxn(w) ==
    /\ pc[w] = "begin"
    /\ pc' = [pc EXCEPT ![w] = "entries"]
    /\ UNCHANGED <<db, isolation, legs, attempt, answers, txnVars, inserting>>

(* INSERT INTO journal_entry with its triggers; it waits for the balance row. *)
InsertEntry(w) ==
    /\ HasLeg(w)
    /\ Insertable(Leg(w))
    /\ ~LockedByOther(w, Leg(w).account)
    /\ ~Overwritten(w, Leg(w).account)
    /\ at' = [at EXCEPT ![w] = @ + 1]
    /\ own' = [own EXCEPT ![w] = Add(@, Leg(w).account, Signed(Leg(w)))]
    /\ net' = [net EXCEPT ![w] = Add(@, Leg(w).currency, Signed(Leg(w)))]
    /\ UNCHANGED <<db, isolation, callVars, stale, inserting>>

InsertFails(w) ==
    /\ HasLeg(w)
    /\ \/ ~Insertable(Leg(w)) /\ Fail(w, "P0001", "refused")
       \/ /\ Insertable(Leg(w)) /\ Overwritten(w, Leg(w).account)
          /\ Fail(w, "40001", "refused")
       \/ InDeadlock(w) /\ Fail(w, "40P01", "refused")
    /\ UNCHANGED <<isolation, inserting>>

(* txn_seal_checks, over what the transaction itself sees.                 *)
AtFloors(w) ==
    \A k \in DOMAIN legs[w] :
        LET a == legs[w][k].account
        IN  a \in Overdraft \/ balance[a] + own[w][a] >= Floor[a]

Sealable(w) == legs[w] # <<>> /\ Balanced(net[w]) /\ AtFloors(w)

(* UPDATE journal_txn SET sealed = TRUE.                                   *)
Seal(w) ==
    /\ pc[w] = "entries"
    /\ at[w] = Len(legs[w])
    /\ \/ /\ Sealable(w)
          /\ pc' = [pc EXCEPT ![w] = "commit"]
          /\ UNCHANGED <<db, legs, attempt, answers, txnVars>>
       \/ ~Sealable(w) /\ Fail(w, "P0001", "refused")
    /\ UNCHANGED <<isolation, inserting>>

Commit(w) ==
    /\ pc[w] = "commit"
    /\ Install(w)
    /\ Answer(w, "posted")
    /\ UNCHANGED <<isolation, inserting>>

(* At SERIALIZABLE the server may refuse any statement, COMMIT included.   *)
Conflict(w) ==
    /\ isolation[w] = "SERIALIZABLE"
    /\ InTransaction(w)
    /\ Fail(w, "40001", "refused")
    /\ UNCHANGED <<isolation, inserting>>

(* The connection or the server goes away: an error with no SQLSTATE of the *)
(* two.  During COMMIT the transaction may have taken effect.               *)
Lose(w) ==
    /\ pc[w] # "idle"
    /\ \/ Fail(w, "none", "lost")
       \/ pc[w] = "commit" /\ Install(w) /\ Except(w, "none", "lost")
    /\ UNCHANGED <<isolation, inserting>>

-----------------------------------------------------------------------------
(* Writers: each statement is its own READ COMMITTED transaction.          *)

DirectId(d) == [actor |-> d, call |-> 1, attempt |-> 0]

workerVars == <<isolation, callVars, at, own, net>>

OpenTxn(d) ==
    /\ DirectId(d) \notin txns
    /\ txns' = txns \cup {DirectId(d)}
    /\ totals' = [id \in txns' |-> IF id = DirectId(d) THEN NoAmounts ELSE totals[id]]
    /\ UNCHANGED <<sealed, journal, balance, workerVars, stale, inserting>>

(* INSERT INTO journal_entry: entry_guards reads sealed and takes no lock, ... *)
GuardInsert(d, id, e) ==
    /\ inserting[d] = <<>>
    /\ id \in txns \ sealed
    /\ Insertable(e)
    /\ Cardinality(Rows(id)) < MaxDirect
    /\ inserting' = [inserting EXCEPT ![d] = [txn |-> id, entry |-> e]]
    /\ UNCHANGED <<db, workerVars, stale>>

(* ... and the upserts may have to wait before the statement commits.      *)
FinishInsert(d) ==
    LET id == inserting[d].txn
        e  == inserting[d].entry
    IN  /\ inserting[d] # <<>>
        /\ \A w \in Workers : e.account \notin Locked(w)
        /\ journal' = journal \cup
              {[txn |-> id, n |-> Cardinality(Rows(id)) + 1, entry |-> e]}
        /\ totals' = [totals EXCEPT ![id] = Add(@, e.currency, Signed(e))]
        /\ balance' = Add(balance, e.account, Signed(e))
        /\ Outdate(d, {e.account})
        /\ inserting' = [inserting EXCEPT ![d] = <<>>]
        /\ UNCHANGED <<txns, sealed, workerVars>>

(* UPDATE journal_txn SET sealed = TRUE, when txn_seal_checks lets it.     *)
SealDirect(d, id) ==
    /\ inserting[d] = <<>>
    /\ id \in txns \ sealed
    /\ Rows(id) # {}
    /\ Balanced(totals[id])
    /\ \A row \in Rows(id) :
          LET a == row.entry.account IN a \in Overdraft \/ balance[a] >= Floor[a]
    /\ sealed' = sealed \cup {id}
    /\ UNCHANGED <<txns, journal, totals, balance, workerVars, stale, inserting>>

-----------------------------------------------------------------------------
Proceed(w) ==
    InsertTxn(w) \/ InsertEntry(w) \/ InsertFails(w) \/ Seal(w) \/ Commit(w)

WorkerStep(w) ==
    \/ \E posting \in Postings : Post(w, posting)
    \/ Proceed(w)
    \/ Conflict(w)
    \/ Lose(w)

WriterStep(d) ==
    \/ OpenTxn(d)
    \/ \E id \in txns, e \in DirectEntries : GuardInsert(d, id, e)
    \/ FinishInsert(d)
    \/ \E id \in txns : SealDirect(d, id)

Next == (\E w \in Workers : WorkerStep(w)) \/ (\E d \in Writers : WriterStep(d))

Spec == Init /\ [][Next]_vars

(* A thread inside post() keeps going: the server answers every statement, *)
(* breaks a deadlock, and grants a lock that is free.                      *)
FairSpec == Spec /\ \A w \in Workers : WF_vars(Proceed(w))

-----------------------------------------------------------------------------
(* Properties.                                                             *)

DebitsLessCredits(rows) ==
    LET amounts == [row \in rows |-> row.entry.amount]
        Sum(d) == SumFunctionOnSet(amounts, {row \in rows : row.entry.direction = d})
    IN  Sum("D") - Sum("C")

(* I3: every account_balance is the sum of the journal's entries, sealed or *)
(* not, whoever wrote them and however the attempts failed                  *)
(* (pg_store.py:250-258).                                                   *)
CacheMatchesJournal ==
    \A a \in Accounts :
        balance[a] = DebitsLessCredits({row \in journal : row.entry.account = a})

(* I2 for what post() promises, at either isolation level: an account that  *)
(* only post() has written to is never below its floor, however many calls  *)
(* read the balance before either commits.                                  *)
FloorsHeld ==
    \A a \in Accounts \ Overdraft :
        (\A row \in journal : row.entry.account = a => row.txn.actor \in Workers)
            => balance[a] >= Floor[a]

(* I1 for a transaction: its entries sum to zero in every currency.        *)
SumsToZero(id) ==
    \A c \in Currencies :
        DebitsLessCredits({row \in Rows(id) : row.entry.currency = c}) = 0

(* What post() commits is sealed and balances: no attempt leaves part of a *)
(* posting behind.                                                         *)
PostingsBalance ==
    \A id \in txns : id.actor \in Workers => id \in sealed /\ SumsToZero(id)

(* A caller can believe what post() tells it: the posting it got an id for *)
(* is in the journal as asked; after SerializationExhausted or a refusal   *)
(* nothing of the call is; and no call, retried or lost, posted twice.     *)
TxnsOf(w, n) == {id \in txns : id.actor = w /\ id.call = n}

AnswersHold ==
    \A w \in Workers : \A n \in DOMAIN answers[w] :
        LET a == answers[w][n]
        IN  /\ a.result = "posted" =>
                 /\ TxnsOf(w, n) = {a.txn}
                 /\ Rows(a.txn) = {[txn |-> a.txn, n |-> k, entry |-> a.legs[k]] :
                                       k \in DOMAIN a.legs}
            /\ a.result \in {"refused", "exhausted"} => TxnsOf(w, n) = {}
            /\ a.result = "lost" => TxnsOf(w, n) \subseteq {a.txn}

(* Every call of post() returns or raises: deadlocks are broken and the    *)
(* retries are bounded, whatever conflicts the server reports.             *)
CallsEnd == \A w \in Workers : pc[w] # "idle" ~> pc[w] = "idle"

(* pg_schema.sql:179-181: "Everything that must be true of a COMPLETED     *)
(* transaction is checked here, at the moment it is sealed", so a sealed   *)
(* transaction balances whoever wrote it.                                  *)
SealedBalance == \A id \in sealed : SumsToZero(id)
=============================================================================
