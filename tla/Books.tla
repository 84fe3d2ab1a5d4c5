------------------------------- MODULE Books --------------------------------
(***************************************************************************)
(* The journal over time: which month a posting counts in                  *)
(* (src/ledger/periods.py) and what a balance was at a moment              *)
(* (balance_as_of of core.py, take_snapshot and balance_as_of_snapshotted  *)
(* of maintenance.py), over SQLite with its one writer.                    *)
(*                                                                         *)
(* A sum of amounts is modelled by the set of transactions it adds up, a   *)
(* transaction by its row id, the position in the journal.  Every posting  *)
(* touches the account that is asked about: rows of other accounts are     *)
(* read in the same statement and stored in the same transaction.  An      *)
(* effective date is its month, since that is all the code looks at.       *)
(*                                                                         *)
(* The clock is the wall clock of utcnow(), assumed not to run backwards.  *)
(* It may stand still between two calls: their stamps may be equal.        *)
(***************************************************************************)
EXTENDS Integers, Sequences

CONSTANTS
    Takers, Readers, Clerks, Approvers,
    Months, NoMonth, NoTxn,
    MaxTime,  \* bound: the last moment
    MaxTxns   \* bound: transactions in the journal

ASSUME ConstantsAssumption ==
    /\ MaxTime \in Nat /\ MaxTxns \in Nat
    /\ NoMonth \notin Months

VARIABLES
    now,         \* the clock
    journal,     \* committed transactions: [at, month]
    effective,   \* table txn_effective_date, NoMonth where it has no row
    closed,      \* the closed months of table accounting_period
    open,        \* the write transaction with a posting in it, or NoTxn
    clerk,       \* record_effective_date calls outside a transaction: [txn, month]
    approver,    \* reopen_period calls: the month found closed, or NoMonth
    checkpoints, \* table balance_snapshot: [asOf, covers, settled]
    taker,       \* take_snapshot calls: the row read and not stored yet, or NoRow
    reader,      \* balance_as_of_snapshotted calls: [busy, ts, base]
    known,       \* history: what a closed month had accepted (Accepted) at its close, else {}
    onTime       \* history: what is on time (OnTime) since a closed month's close, else {}

vars == <<now, journal, effective, closed, open, clerk, approver, checkpoints,
          taker, reader, known, onTime>>

(* journal_txn: created_at, and the month period_of(effective_on) that the *)
(* guard of post judged (history: post does not store it).                 *)
Txn == [at : Nat, month : Months]

(* dated: the month the caller has recorded for it in the same transaction. *)
Posting == [at : Nat, month : Months, dated : Months \cup {NoMonth}]

ASSUME NoTxnAssumption == NoTxn \notin Posting

(* settled: history, whether no transaction stamped at or before asOf      *)
(* could still commit when the rows were read.                             *)
Row == [asOf : Int, covers : SUBSET Nat, settled : BOOLEAN]

RowOf(asOf, covers, settled) == [asOf |-> asOf, covers |-> covers, settled |-> settled]

(* Before all time nothing was booked: the base of a full scan.            *)
NoRow == RowOf(-1, {}, TRUE)

ReaderAt(busy, ts, base) == [busy |-> busy, ts |-> ts, base |-> base]

IdleReader == ReaderAt(FALSE, 0, NoRow)

ClerkAt(txn, month) == [txn |-> txn, month |-> month]

IdleClerk == ClerkAt(0, NoMonth)

Times == 0 .. MaxTime

TypeOK ==
    /\ now \in Times
    /\ journal \in Seq(Txn) /\ \A t \in DOMAIN journal : journal[t].at <= now
    /\ effective \in Seq(Months \cup {NoMonth}) /\ Len(effective) = Len(journal)
    /\ closed \subseteq Months
    /\ open \in Posting \cup {NoTxn} /\ (open # NoTxn => open.at <= now)
    /\ clerk \in [Clerks -> [txn : Nat, month : Months \cup {NoMonth}]]
    /\ approver \in [Approvers -> Months \cup {NoMonth}]
    /\ checkpoints \subseteq Row
    /\ \A c, d \in checkpoints : c.asOf = d.asOf => c = d
    /\ taker \in [Takers -> Row]
    /\ reader \in [Readers -> [busy : BOOLEAN, ts : Times, base : Row]]
    /\ known \in [Months -> SUBSET Nat] /\ onTime \in [Months -> SUBSET Nat]

Init ==
    /\ now = 0
    /\ journal = <<>> /\ effective = <<>>
    /\ closed = {}
    /\ open = NoTxn
    /\ clerk = [k \in Clerks |-> IdleClerk]
    /\ approver = [a \in Approvers |-> NoMonth]
    /\ checkpoints = {}
    /\ taker = [k \in Takers |-> NoRow]
    /\ reader = [r \in Readers |-> IdleReader]
    /\ known = [m \in Months |-> {}] /\ onTime = [m \in Months |-> {}]

-----------------------------------------------------------------------------
(* What a statement reads.                                                 *)

(* created_at <= ts: the balance as of ts. *)
UpTo(ts) == {t \in DOMAIN journal : journal[t].at <= ts}

(* Slip: the replay starts with the moment of the snapshot. *)
FromOn(asOf, ts) == {t \in DOMAIN journal : asOf <= journal[t].at /\ journal[t].at <= ts}

(* created_at > as_of AND created_at <= ts *)
After(asOf, ts) == {t \in DOMAIN journal : asOf < journal[t].at /\ journal[t].at <= ts}

(* Slip: the newest snapshot there is. *)
NewestOfAll(c, ts) == \A d \in checkpoints : d.asOf <= c.asOf

(* as_of <= ts ORDER BY as_of DESC LIMIT 1 *)
Newest(c, ts) == c.asOf <= ts /\ \A d \in checkpoints : d.asOf <= ts => d.asOf <= c.asOf

(* Slip: the guard is offered and not called. *)
AlwaysOpen(m) == TRUE

(* guard: a month without a row is open. *)
IsOpen(m) == m \notin closed

(* Slip: the stamp is taken before the wait for the write lock. *)
StampedBefore == IF now = 0 THEN 0 ELSE now - 1

(* utcnow(), inside the transaction. *)
CreatedAt == now

(* The postings that the guard of post has let into a month. *)
Accepted(m) == {t \in DOMAIN journal : journal[t].month = m}

(* The rows of txn_effective_date a report counts for a month. *)
DatedIn(m) == {t \in DOMAIN effective : effective[t] = m}

(* What is dated in a month, or has passed the guard of a date in it. *)
OnTimeWith(dates, clerks, m) ==
    {t \in DOMAIN dates : dates[t] = m}
        \cup {clerks[k].txn : k \in {c \in Clerks : clerks[c].month = m}}

OnTime(m) == OnTimeWith(effective, clerk, m)

(* No transaction stamped at or before ts can commit any more. *)
Settled(ts) == ts < now /\ (open # NoTxn => ts < open.at)

UnchangedPeriods == UNCHANGED <<closed, clerk, approver, known, onTime>>
UnchangedReads == UNCHANGED <<checkpoints, taker, reader>>

Tick ==
    /\ now < MaxTime
    /\ now' = now + 1
    /\ UNCHANGED <<journal, effective, open>>
    /\ UnchangedPeriods /\ UnchangedReads

-----------------------------------------------------------------------------
(* post: BEGIN IMMEDIATE, the guard, the rows.  m is the month of          *)
(* effective_on, today by default; adjust_forward and restate are ways to  *)
(* choose it.                                                              *)

BeginPosting(m) ==
    /\ open = NoTxn
    /\ Len(journal) < MaxTxns
    /\ IsOpen(m)
    /\ open' = [at |-> CreatedAt, month |-> m, dated |-> NoMonth]
    /\ UNCHANGED <<now, journal, effective>>
    /\ UnchangedPeriods /\ UnchangedReads

(* record_effective_date with the connection of the open transaction. *)
DateInside(m) ==
    /\ open # NoTxn
    /\ IsOpen(m)
    /\ open' = [open EXCEPT !.dated = m]
    /\ UNCHANGED <<now, journal, effective>>
    /\ UnchangedPeriods /\ UnchangedReads

Commit ==
    /\ open # NoTxn
    /\ journal' = Append(journal, [at |-> open.at, month |-> open.month])
    /\ effective' = Append(effective, open.dated)
    /\ open' = NoTxn
    /\ UNCHANGED now
    /\ UnchangedPeriods /\ UnchangedReads

Rollback ==
    /\ open # NoTxn
    /\ open' = NoTxn
    /\ UNCHANGED <<now, journal, effective>>
    /\ UnchangedPeriods /\ UnchangedReads

-----------------------------------------------------------------------------
(* record_effective_date in autocommit: the guard is one statement, the    *)
(* INSERT OR REPLACE another.                                              *)

UnchangedWriting == UNCHANGED <<now, journal, open>>

(* What is no longer on time never is again while the month is closed. *)
OnTimeNarrows(dates, clerks) ==
    onTime' = [m \in Months |-> onTime[m] \cap OnTimeWith(dates, clerks, m)]

(* Slip: the date is not guarded. *)
DateUnguarded(k, t, m) ==
    /\ clerk[k] = IdleClerk
    /\ clerk' = [clerk EXCEPT ![k] = ClerkAt(t, m)]
    /\ UnchangedWriting
    /\ UNCHANGED <<effective, closed, approver, known, onTime>>
    /\ UnchangedReads

GuardDate(k, t, m) ==
    /\ clerk[k] = IdleClerk
    /\ IsOpen(m)
    /\ clerk' = [clerk EXCEPT ![k] = ClerkAt(t, m)]
    /\ UnchangedWriting
    /\ UNCHANGED <<effective, closed, approver, known, onTime>>
    /\ UnchangedReads

InsertDate(k) ==
    LET dates  == [effective EXCEPT ![clerk[k].txn] = clerk[k].month]
        clerks == [clerk EXCEPT ![k] = IdleClerk]
    IN  /\ clerk[k] # IdleClerk
        /\ open = NoTxn
        /\ effective' = dates /\ clerk' = clerks /\ OnTimeNarrows(dates, clerks)
        /\ UnchangedWriting
        /\ UNCHANGED <<closed, approver, known>>
        /\ UnchangedReads

(* busy_timeout, or the caller's death. *)
DateFails(k) ==
    LET clerks == [clerk EXCEPT ![k] = IdleClerk]
    IN  /\ clerk[k] # IdleClerk
        /\ clerk' = clerks /\ OnTimeNarrows(effective, clerks)
        /\ UnchangedWriting
        /\ UNCHANGED <<effective, closed, approver, known>>
        /\ UnchangedReads

-----------------------------------------------------------------------------
(* Closing and reopening.  A statement that writes needs the write lock.   *)

(* close_period; the count of postings it reads first is only reported.    *)
ClosePeriod(m) ==
    /\ open = NoTxn
    /\ closed' = closed \cup {m}
    /\ \/ m \in closed /\ UNCHANGED <<known, onTime>>
       \/ /\ m \notin closed
          /\ known' = [known EXCEPT ![m] = Accepted(m)]
          /\ onTime' = [onTime EXCEPT ![m] = OnTime(m)]
    /\ UnchangedWriting
    /\ UNCHANGED <<effective, clerk, approver>>
    /\ UnchangedReads

(* reopen_period, which restate calls: is_closed, then the UPDATE. *)
FindClosed(a, m) ==
    /\ approver[a] = NoMonth
    /\ m \in closed
    /\ approver' = [approver EXCEPT ![a] = m]
    /\ UnchangedWriting
    /\ UNCHANGED <<effective, closed, clerk, known, onTime>>
    /\ UnchangedReads

Reopen(a) ==
    /\ approver[a] # NoMonth
    /\ open = NoTxn
    /\ closed' = closed \ {approver[a]}
    /\ known' = [known EXCEPT ![approver[a]] = {}]
    /\ onTime' = [onTime EXCEPT ![approver[a]] = {}]
    /\ approver' = [approver EXCEPT ![a] = NoMonth]
    /\ UnchangedWriting
    /\ UNCHANGED <<effective, clerk>>
    /\ UnchangedReads

-----------------------------------------------------------------------------
(* take_snapshot: one SELECT for all accounts, then one transaction for    *)
(* the rows.  asOf is utcnow() a moment ago, or the caller's.              *)

ReadBalances(k, asOf) ==
    /\ taker[k] = NoRow
    /\ asOf <= now
    /\ taker' = [taker EXCEPT ![k] = RowOf(asOf, UpTo(asOf), Settled(asOf))]
    /\ UnchangedWriting
    /\ UNCHANGED <<effective, checkpoints, reader>>
    /\ UnchangedPeriods

(* Slip: a plain INSERT without the key. *)
AddedTo(row) == checkpoints \cup {row}

(* INSERT OR REPLACE, by (account_id, as_of). *)
Replaced(row) == {c \in checkpoints : c.asOf # row.asOf} \cup {row}

StoreRows(k) ==
    /\ taker[k] # NoRow
    /\ open = NoTxn
    /\ checkpoints' = Replaced(taker[k])
    /\ taker' = [taker EXCEPT ![k] = NoRow]
    /\ UnchangedWriting
    /\ UNCHANGED <<effective, reader>>
    /\ UnchangedPeriods

(* busy_timeout, or the job's death. *)
TakerFails(k) ==
    /\ taker[k] # NoRow
    /\ taker' = [taker EXCEPT ![k] = NoRow]
    /\ UnchangedWriting
    /\ UNCHANGED <<effective, checkpoints, reader>>
    /\ UnchangedPeriods

(* DELETE FROM balance_snapshot: schema.sql calls the rows disposable. *)
Dispose ==
    /\ open = NoTxn
    /\ checkpoints # {}
    /\ checkpoints' = {}
    /\ UnchangedWriting
    /\ UNCHANGED <<effective, taker, reader>>
    /\ UnchangedPeriods

-----------------------------------------------------------------------------
(* balance_as_of_snapshotted: the snapshot is one SELECT, the replay, or   *)
(* the full scan of balance_as_of, another.                                *)

FindSnapshot(r, ts) ==
    /\ ~reader[r].busy
    /\ \/ \E c \in checkpoints :
            /\ Newest(c, ts)
            /\ reader' = [reader EXCEPT ![r] = ReaderAt(TRUE, ts, c)]
       \/ /\ \A c \in checkpoints : ~Newest(c, ts)
          /\ reader' = [reader EXCEPT ![r] = ReaderAt(TRUE, ts, NoRow)]
    /\ UnchangedWriting
    /\ UNCHANGED <<effective, checkpoints, taker>>
    /\ UnchangedPeriods

(* What the second statement adds to the first. *)
Replay(r) == After(reader[r].base.asOf, reader[r].ts)

Return(r) ==
    /\ reader[r].busy
    /\ reader' = [reader EXCEPT ![r] = IdleReader]
    /\ UnchangedWriting
    /\ UNCHANGED <<effective, checkpoints, taker>>
    /\ UnchangedPeriods

Next ==
    \/ Tick
    \/ \E m \in Months : BeginPosting(m) \/ DateInside(m) \/ ClosePeriod(m)
    \/ Commit
    \/ Rollback
    \/ \E k \in Clerks :
        \/ \E t \in DOMAIN journal, m \in Months : GuardDate(k, t, m)
        \/ InsertDate(k)
        \/ DateFails(k)
    \/ \E a \in Approvers : (\E m \in Months : FindClosed(a, m)) \/ Reopen(a)
    \/ \E k \in Takers : (\E asOf \in Times : ReadBalances(k, asOf)) \/ StoreRows(k) \/ TakerFails(k)
    \/ Dispose
    \/ \E r \in Readers : (\E ts \in Times : FindSnapshot(r, ts)) \/ Return(r)

Spec == Init /\ [][Next]_vars

-----------------------------------------------------------------------------
(* Properties.                                                             *)

(* What close_period promises (periods.py:11-15): a posting whose          *)
(* effective date falls in a closed month is refused, whenever the close   *)
(* came.  Every posting accepted for the month was in the journal when the *)
(* month was closed.                                                       *)
NoLatePostings ==
    \A m \in closed : Accepted(m) \subseteq known[m]

(* record_effective_date guards and inserts in two statements.  All that a *)
(* closed month gains after its close are transactions whose call had      *)
(* passed the guard before it: no call that begins after the close, in its *)
(* own statements or inside a posting, adds to the month, not even what    *)
(* the month once counted.                                                 *)
NoLateDates == \A m \in closed : DatedIn(m) \subseteq onTime[m]

(* periods.py:1, "the close that makes a report final": while a month is   *)
(* closed, what it counts stays as it is.  A call that was past its guard  *)
(* when the month was closed inserts its row all the same; and the guard   *)
(* judges the new date alone, while INSERT OR REPLACE takes the old one    *)
(* away whatever month it lies in.                                         *)
ClosedMonthsAreFinal == [][\A m \in closed \cap closed' : DatedIn(m)' = DatedIn(m)]_vars

(* balance_as_of as an audit surface: once every transaction that was      *)
(* stamped at or before a moment has ended, the moment stays that way and  *)
(* the balance as of it is final.                                          *)
SettledPastIsFinal ==
    [][\A ts \in Times : Settled(ts) => UpTo(ts)' = UpTo(ts) /\ Settled(ts)']_vars

Exact(r) ==
    /\ reader[r].base.covers \cup Replay(r) = UpTo(reader[r].ts)
    /\ reader[r].base.covers \cap Replay(r) = {}

(* maintenance.py:193-195, a snapshot that changes a result is not a       *)
(* cache: from a snapshot of a settled moment the replay gives, entry for  *)
(* entry, what balance_as_of gives, while postings, other jobs, replaced   *)
(* and deleted snapshots fall between its two reads.                       *)
SettledAnswersAreExact == \A r \in Readers : reader[r].busy /\ reader[r].base.settled => Exact(r)

(* Whatever a snapshot missed, no answer counts a transaction twice, or    *)
(* one that is not in the journal or was made after the moment.            *)
AnswersInventNothing ==
    \A r \in Readers : reader[r].busy =>
        /\ reader[r].base.covers \subseteq UpTo(reader[r].ts)
        /\ reader[r].base.covers \cap Replay(r) = {}

(* maintenance.py:24-26, "Deleting every snapshot changes no answer": any  *)
(* stored snapshot, taken at any moment, gives what the full scan gives.   *)
SnapshotsChangeNoAnswer == \A r \in Readers : reader[r].busy => Exact(r)
=============================================================================
