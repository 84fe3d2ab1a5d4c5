----------------------------- MODULE BooksProofs ----------------------------
(***************************************************************************)
(* Theorems about module Books, for any number of months, callers, jobs,   *)
(* transactions and moments: a closed month takes nothing whose guard ran  *)
(* after its close, a settled past never changes, and a snapshot of it     *)
(* answers as the full scan does.                                          *)
(***************************************************************************)
EXTENDS Books, SequenceTheorems, TLAPS

(* What holds of a row from the SELECT that read it until it is deleted or *)
(* its reader returns.                                                     *)
RightRow(row) ==
    /\ row.covers \subseteq UpTo(row.asOf)
    /\ row.settled => row.covers = UpTo(row.asOf) /\ Settled(row.asOf)

Rows == checkpoints \cup {taker[k] : k \in Takers} \cup {reader[r].base : r \in Readers}

RowInv ==
    /\ \A row \in Rows : RightRow(row)
    /\ \A r \in Readers : reader[r].busy => reader[r].base.asOf <= reader[r].ts

(* What was guarded and is not stored yet: a posting keeps the lock that a *)
(* close needs; a date that was overtaken by a close was counted among     *)
(* what the month may still gain.                                          *)
MonthInv ==
    /\ NoLatePostings
    /\ NoLateDates
    /\ open # NoTxn => open.month \notin closed /\ open.dated \notin closed
    /\ \A k \in Clerks : clerk[k] # IdleClerk =>
        /\ clerk[k].txn \in DOMAIN journal
        /\ clerk[k].month \in closed => clerk[k].txn \in onTime[clerk[k].month]

-----------------------------------------------------------------------------
(* Type correctness. *)

LEMMA RowTyped ==
    ASSUME NEW asOf \in Int, NEW covers \in SUBSET Nat, NEW settled \in BOOLEAN
    PROVE  RowOf(asOf, covers, settled) \in Row
BY DEF RowOf, Row

LEMMA TypeInit == Init => TypeOK
<1> SUFFICES ASSUME Init PROVE TypeOK
  OBVIOUS
<1>1. NoRow \in Row
  BY DEF NoRow, RowOf, Row
<1>2. IdleReader \in [busy : BOOLEAN, ts : Times, base : Row]
  BY <1>1, ConstantsAssumption DEF IdleReader, ReaderAt, Times
<1>3. IdleClerk \in [txn : Nat, month : Months \cup {NoMonth}]
  BY DEF IdleClerk, ClerkAt
<1>4. Len(<<>>) = 0 /\ DOMAIN <<>> = {}
  OBVIOUS
<1>5. /\ journal \in Seq(Txn) /\ \A t \in DOMAIN journal : journal[t].at <= now
      /\ effective \in Seq(Months \cup {NoMonth}) /\ Len(effective) = Len(journal)
  BY <1>4 DEF Init
<1> QED BY <1>1, <1>2, <1>3, <1>5, ConstantsAssumption DEF Init, TypeOK, Times

LEMMA StampsTyped == ASSUME TypeOK PROVE \A t \in DOMAIN journal : journal[t].at \in Nat
<1>1. journal \in Seq(Txn)
  BY DEF TypeOK
<1>2. \A t \in DOMAIN journal : journal[t] \in Txn
  BY <1>1
<1> QED BY <1>2 DEF Txn

LEMMA UpToTyped == ASSUME TypeOK, NEW ts PROVE UpTo(ts) \in SUBSET Nat
<1>1. DOMAIN journal \subseteq Nat
  BY DEF TypeOK
<1> QED BY <1>1 DEF UpTo

LEMMA Replacing ==
    ASSUME NEW S, NEW s \in Seq(S), NEW i, NEW v \in S
    PROVE  [s EXCEPT ![i] = v] \in Seq(S) /\ Len([s EXCEPT ![i] = v]) = Len(s)
<1>1. s \in [1 .. Len(s) -> S] /\ Len(s) \in Nat
  BY LenProperties
<1>2. CASE i \in 1 .. Len(s)
  BY <1>2, ExceptSeq
<1>3. CASE i \notin 1 .. Len(s)
  <2>1. [s EXCEPT ![i] = v] = s
    BY <1>1, <1>3
  <2> QED BY <2>1
<1> QED BY <1>2, <1>3

LEMMA TypeStep == TypeOK /\ [Next]_vars => TypeOK'
<1> SUFFICES ASSUME TypeOK, [Next]_vars PROVE TypeOK'
  OBVIOUS
<1>0. NoRow \in Row /\ IdleReader \in [busy : BOOLEAN, ts : Times, base : Row]
  BY ConstantsAssumption DEF NoRow, RowOf, Row, IdleReader, ReaderAt, Times
<1>00. IdleClerk \in [txn : Nat, month : Months \cup {NoMonth}]
  BY DEF IdleClerk, ClerkAt
<1>1. CASE Tick
  <2>1. now \in Int /\ now' \in Int /\ now' \in Times /\ now <= now'
    BY <1>1, ConstantsAssumption DEF Tick, TypeOK, Times
  <2>2. \A t \in DOMAIN journal : journal[t].at \in Nat
    BY StampsTyped
  <2>3. \A t \in DOMAIN journal : journal[t].at <= now'
    <3>1. \A t \in DOMAIN journal : journal[t].at <= now
      BY DEF TypeOK
    <3> QED BY <2>1, <2>2, <3>1
  <2>4. open # NoTxn => open.at \in Nat /\ open.at <= now'
    BY <2>1 DEF TypeOK, Posting
  <2> QED BY <1>1, <2>1, <2>3, <2>4 DEF Tick, TypeOK, UnchangedPeriods, UnchangedReads
<1>2. CASE \E m \in Months : BeginPosting(m)
  <2>1. PICK m \in Months : BeginPosting(m)
    BY <1>2
  <2>2. open' \in Posting /\ open'.at <= now
    BY <2>1 DEF BeginPosting, CreatedAt, Posting, TypeOK, Times
  <2> QED BY <2>1, <2>2 DEF BeginPosting, TypeOK, UnchangedPeriods, UnchangedReads
<1>3. CASE \E m \in Months : DateInside(m)
  <2>1. PICK m \in Months : DateInside(m)
    BY <1>3
  <2>2. open' \in Posting /\ open'.at <= now
    BY <2>1 DEF DateInside, Posting, TypeOK
  <2> QED BY <2>1, <2>2 DEF DateInside, TypeOK, UnchangedPeriods, UnchangedReads
<1>4. CASE Commit
  <2> DEFINE row == [at |-> open.at, month |-> open.month]
  <2>1. row \in Txn /\ row.at <= now /\ open.dated \in Months \cup {NoMonth}
    BY <1>4 DEF Commit, TypeOK, Posting, Txn
  <2>2. journal' = Append(journal, row) /\ effective' = Append(effective, open.dated)
    BY <1>4 DEF Commit
  <2> HIDE DEF row
  <2>3. /\ journal' \in Seq(Txn) /\ \A t \in DOMAIN journal' : journal'[t].at <= now
        /\ effective' \in Seq(Months \cup {NoMonth}) /\ Len(effective') = Len(journal')
    BY <2>1, <2>2 DEF TypeOK
  <2> QED BY <1>4, <2>3 DEF Commit, TypeOK, UnchangedPeriods, UnchangedReads
<1>5. CASE Rollback
  BY <1>5 DEF Rollback, TypeOK, UnchangedPeriods, UnchangedReads
<1>6. CASE \E k \in Clerks, t \in DOMAIN journal, m \in Months : GuardDate(k, t, m)
  <2>1. PICK k \in Clerks, t \in DOMAIN journal, m \in Months : GuardDate(k, t, m)
    BY <1>6
  <2>2. ClerkAt(t, m) \in [txn : Nat, month : Months \cup {NoMonth}]
    BY DEF ClerkAt, TypeOK
  <2> QED BY <2>1, <2>2 DEF GuardDate, TypeOK, UnchangedWriting, UnchangedReads
<1>7. CASE \E k \in Clerks : InsertDate(k)
  <2>1. PICK k \in Clerks : InsertDate(k)
    BY <1>7
  <2>2. clerk[k].month \in Months \cup {NoMonth}
    BY DEF TypeOK
  <2>3. effective' \in Seq(Months \cup {NoMonth}) /\ Len(effective') = Len(effective)
    <3>1. effective \in Seq(Months \cup {NoMonth})
      BY DEF TypeOK
    <3>2. effective' = [effective EXCEPT ![clerk[k].txn] = clerk[k].month]
      BY <2>1 DEF InsertDate
    <3> DEFINE i == clerk[k].txn
              v == clerk[k].month
    <3>3. v \in Months \cup {NoMonth} /\ effective' = [effective EXCEPT ![i] = v]
      BY <2>2, <3>2
    <3> HIDE DEF i, v
    <3> QED BY <3>1, <3>3, Replacing
  <2>4. onTime' \in [Months -> SUBSET Nat]
    BY <2>1 DEF InsertDate, OnTimeNarrows, TypeOK
  <2> QED BY <1>00, <2>1, <2>3, <2>4 DEF InsertDate, TypeOK, UnchangedWriting, UnchangedReads
<1>8. CASE \E k \in Clerks : DateFails(k)
  <2>1. onTime' \in [Months -> SUBSET Nat]
    BY <1>8 DEF DateFails, OnTimeNarrows, TypeOK
  <2> QED BY <1>00, <1>8, <2>1 DEF DateFails, TypeOK, UnchangedWriting, UnchangedReads
<1>9. CASE \E m \in Months : ClosePeriod(m)
  <2>1. PICK m \in Months : ClosePeriod(m)
    BY <1>9
  <2>2. Accepted(m) \in SUBSET Nat
    BY DEF TypeOK, Accepted
  <2>3. OnTime(m) \in SUBSET Nat
    <3>1. DOMAIN effective \subseteq Nat /\ \A k \in Clerks : clerk[k].txn \in Nat
      BY DEF TypeOK
    <3> QED BY <3>1 DEF OnTime, OnTimeWith, DatedIn
  <2>4. known' \in [Months -> SUBSET Nat] /\ onTime' \in [Months -> SUBSET Nat]
    BY <2>1, <2>2, <2>3 DEF ClosePeriod, TypeOK
  <2> QED BY <2>1, <2>4 DEF ClosePeriod, TypeOK, UnchangedWriting, UnchangedReads
<1>10. CASE \E a \in Approvers, m \in Months : FindClosed(a, m)
  BY <1>10 DEF FindClosed, TypeOK, UnchangedWriting, UnchangedReads
<1>11. CASE \E a \in Approvers : Reopen(a)
  BY <1>11 DEF Reopen, TypeOK, UnchangedWriting, UnchangedReads
<1>12. CASE \E k \in Takers, asOf \in Times : ReadBalances(k, asOf)
  <2>1. PICK k \in Takers, asOf \in Times : ReadBalances(k, asOf)
    BY <1>12
  <2>2. RowOf(asOf, UpTo(asOf), Settled(asOf)) \in Row
    <3>1. asOf \in Int
      BY ConstantsAssumption DEF Times
    <3>2. Settled(asOf) \in BOOLEAN
      BY DEF Settled
    <3> QED BY <3>1, <3>2, RowTyped, UpToTyped
  <2> QED BY <2>1, <2>2 DEF ReadBalances, TypeOK, UnchangedWriting, UnchangedPeriods
<1>13. CASE \E k \in Takers : StoreRows(k)
  <2>1. PICK k \in Takers : StoreRows(k)
    BY <1>13
  <2>2. taker[k] \in Row
    BY DEF TypeOK
  <2>3. /\ checkpoints' \subseteq Row
        /\ \A c, d \in checkpoints' : c.asOf = d.asOf => c = d
    BY <2>1, <2>2 DEF StoreRows, Replaced, TypeOK
  <2> QED BY <1>0, <2>1, <2>3 DEF StoreRows, TypeOK, UnchangedWriting, UnchangedPeriods
<1>14. CASE \E k \in Takers : TakerFails(k)
  BY <1>0, <1>14 DEF TakerFails, TypeOK, UnchangedWriting, UnchangedPeriods
<1>15. CASE Dispose
  BY <1>15 DEF Dispose, TypeOK, UnchangedWriting, UnchangedPeriods
<1>16. CASE \E r \in Readers, ts \in Times : FindSnapshot(r, ts)
  <2>1. PICK r \in Readers, ts \in Times : FindSnapshot(r, ts)
    BY <1>16
  <2>2. PICK c \in Row : reader' = [reader EXCEPT ![r] = ReaderAt(TRUE, ts, c)]
    BY <1>0, <2>1 DEF FindSnapshot, TypeOK
  <2>3. ReaderAt(TRUE, ts, c) \in [busy : BOOLEAN, ts : Times, base : Row]
    BY DEF ReaderAt
  <2> QED BY <2>1, <2>2, <2>3 DEF FindSnapshot, TypeOK, UnchangedWriting, UnchangedPeriods
<1>17. CASE \E r \in Readers : Return(r)
  BY <1>0, <1>17 DEF Return, TypeOK, UnchangedWriting, UnchangedPeriods
<1>18. CASE UNCHANGED vars
  BY <1>18 DEF vars, TypeOK
<1> QED
  BY <1>1, <1>2, <1>3, <1>4, <1>5, <1>6, <1>7, <1>8, <1>9, <1>10, <1>11, <1>12, <1>13,
     <1>14, <1>15, <1>16, <1>17, <1>18 DEF Next

(* Every variable of the books keeps its type, no stamp is in the future,  *)
(* and balance_snapshot has one row per account and moment.                *)
THEOREM TypeCorrect == Spec => []TypeOK
<1>1. Init => TypeOK
  BY TypeInit
<1>2. TypeOK /\ [Next]_vars => TypeOK'
  BY TypeStep
<1> QED BY <1>1, <1>2, PTL DEF Spec

-----------------------------------------------------------------------------
(* A settled past stays as it is.  A step either leaves the journal alone, *)
(* and a posting it begins is stamped now, or commits the open posting.    *)

JournalKept ==
    /\ journal' = journal
    /\ now <= now'
    /\ open' # NoTxn => open'.at = now \/ (open # NoTxn /\ open'.at = open.at)

LEMMA StepKinds == ASSUME TypeOK, [Next]_vars PROVE JournalKept \/ Commit
<1>0. now \in Int
  BY ConstantsAssumption DEF TypeOK, Times
<1>1. CASE Tick
  BY <1>0, <1>1 DEF Tick, JournalKept
<1>2. CASE \E m \in Months : BeginPosting(m)
  BY <1>0, <1>2 DEF BeginPosting, CreatedAt, JournalKept
<1>3. CASE \E m \in Months : DateInside(m)
  <2>1. open # NoTxn => open \in Posting
    BY DEF TypeOK
  <2> QED BY <1>0, <1>3, <2>1 DEF DateInside, JournalKept, Posting
<1>4. CASE Rollback
  BY <1>0, <1>4 DEF Rollback, JournalKept
<1>5. CASE UNCHANGED <<journal, now, open>>
  BY <1>0, <1>5 DEF JournalKept
<1>6. CASE UNCHANGED vars
  BY <1>5, <1>6 DEF vars
<1> QED
  BY <1>1, <1>2, <1>3, <1>4, <1>5, <1>6
  DEF Next, GuardDate, InsertDate, DateFails, ClosePeriod, FindClosed, Reopen, ReadBalances,
      StoreRows, TakerFails, Dispose, FindSnapshot, Return, UnchangedWriting

LEMMA PastKept ==
    ASSUME TypeOK, TypeOK', JournalKept \/ Commit, NEW ts \in Int
    PROVE  /\ UpTo(ts) \subseteq UpTo(ts)'
           /\ Settled(ts) => UpTo(ts)' = UpTo(ts) /\ Settled(ts)'
<1>0. now \in Int /\ now' \in Int
  BY ConstantsAssumption DEF TypeOK, Times
<1>00. open # NoTxn => open.at \in Nat
  BY DEF TypeOK, Posting
<1>1. CASE JournalKept
  <2>1. UpTo(ts)' = UpTo(ts)
    BY <1>1 DEF JournalKept, UpTo
  <2>2. Settled(ts) => Settled(ts)'
    BY <1>0, <1>00, <1>1 DEF JournalKept, Settled
  <2> QED BY <2>1, <2>2
<1>2. CASE Commit
  <2> DEFINE row == [at |-> open.at, month |-> open.month]
  <2>1. open # NoTxn /\ journal' = Append(journal, row) /\ open' = NoTxn /\ now' = now
    BY <1>2 DEF Commit
  <2>2. row.at = open.at
    OBVIOUS
  <2>3. row \in Txn /\ journal \in Seq(Txn)
    BY <2>1 DEF TypeOK, Posting, Txn
  <2> HIDE DEF row
  <2>4. /\ Len(journal) \in Nat
        /\ DOMAIN journal = 1 .. Len(journal)
        /\ DOMAIN journal' = 1 .. Len(journal) + 1
        /\ \A t \in DOMAIN journal : journal'[t] = journal[t]
        /\ journal'[Len(journal) + 1] = row
    BY <2>1, <2>3
  <2>5. UpTo(ts) \subseteq UpTo(ts)'
    BY <2>4 DEF UpTo
  <2>6. ASSUME Settled(ts) PROVE UpTo(ts)' \subseteq UpTo(ts) /\ Settled(ts)'
    <3>1. ts < open.at
      BY <2>1, <2>6 DEF Settled
    <3>2. ~(journal'[Len(journal) + 1].at <= ts)
      BY <1>00, <2>1, <2>2, <2>4, <3>1
    <3>3. UpTo(ts)' \subseteq UpTo(ts)
      BY <2>4, <3>2 DEF UpTo
    <3> QED BY <2>1, <2>6, <3>3 DEF Settled
  <2> QED BY <2>5, <2>6
<1> QED BY <1>1, <1>2

(* balance_as_of of a settled moment is final. *)
THEOREM SettledPastStays == Spec => SettledPastIsFinal
<1>1. TypeOK /\ TypeOK' /\ [Next]_vars =>
      [\A ts \in Times : Settled(ts) => UpTo(ts)' = UpTo(ts) /\ Settled(ts)']_vars
  <2> SUFFICES ASSUME TypeOK, TypeOK', [Next]_vars, NEW ts \in Times, Settled(ts)
               PROVE  UpTo(ts)' = UpTo(ts) /\ Settled(ts)'
    OBVIOUS
  <2>1. ts \in Int
    BY ConstantsAssumption DEF Times
  <2> QED BY <2>1, StepKinds, PastKept
<1> QED BY <1>1, TypeCorrect, PTL DEF Spec, SettledPastIsFinal

-----------------------------------------------------------------------------
(* Snapshots. *)

LEMMA NoRowIsRight == ASSUME TypeOK PROVE RightRow(NoRow)
<1>1. NoRow.asOf = -1 /\ NoRow.covers = {} /\ NoRow.settled = TRUE
  BY DEF NoRow, RowOf
<1>2. UpTo(-1) = {}
  BY StampsTyped DEF UpTo
<1>3. Settled(-1)
  BY ConstantsAssumption DEF Settled, TypeOK, Times, Posting
<1> QED BY <1>1, <1>2, <1>3 DEF RightRow

LEMMA RowInit == Init => RowInv
<1> SUFFICES ASSUME Init PROVE RowInv
  OBVIOUS
<1>1. Rows \subseteq {NoRow}
  BY DEF Init, Rows, IdleReader, ReaderAt
<1>2. RightRow(NoRow)
  BY TypeInit, NoRowIsRight
<1>3. \A r \in Readers : ~reader[r].busy
  BY DEF Init, IdleReader, ReaderAt
<1> QED BY <1>1, <1>2, <1>3 DEF RowInv

LEMMA RowsTyped == ASSUME TypeOK PROVE Rows \subseteq Row
BY DEF Rows, TypeOK

LEMMA RightRowKept ==
    ASSUME TypeOK, TypeOK', [Next]_vars, NEW row \in Row, RightRow(row)
    PROVE  RightRow(row)'
<1>1. row.asOf \in Int
  BY DEF Row
<1>2. /\ UpTo(row.asOf) \subseteq UpTo(row.asOf)'
      /\ Settled(row.asOf) => UpTo(row.asOf)' = UpTo(row.asOf) /\ Settled(row.asOf)'
  BY <1>1, StepKinds, PastKept
<1> QED BY <1>2 DEF RightRow

(* A row is only ever added by the SELECT of take_snapshot. *)
LEMMA NewRows ==
    ASSUME TypeOK, [Next]_vars
    PROVE  \/ Rows' \subseteq Rows \cup {NoRow}
           \/ \E asOf \in Times :
                /\ Rows' \subseteq Rows \cup {RowOf(asOf, UpTo(asOf), Settled(asOf))}
                /\ UNCHANGED <<journal, now, open>>
<1>0. IdleReader.base = NoRow
  BY DEF IdleReader, ReaderAt
<1>1. CASE UNCHANGED <<checkpoints, taker, reader>>
  BY <1>1 DEF Rows
<1>2. CASE \E k \in Takers, asOf \in Times : ReadBalances(k, asOf)
  <2>1. PICK k \in Takers, asOf \in Times : ReadBalances(k, asOf)
    BY <1>2
  <2> DEFINE new == RowOf(asOf, UpTo(asOf), Settled(asOf))
  <2>2. /\ taker' = [taker EXCEPT ![k] = new]
        /\ UNCHANGED <<journal, now, open, checkpoints, reader>>
    BY <2>1 DEF ReadBalances, UnchangedWriting
  <2> HIDE DEF new
  <2>3. \A l \in Takers : taker'[l] = taker[l] \/ taker'[l] = new
    BY <2>2 DEF TypeOK
  <2>4. Rows' \subseteq Rows \cup {new}
    BY <2>2, <2>3 DEF Rows
  <2> QED BY <2>2, <2>4 DEF new
<1>3. CASE \E k \in Takers : StoreRows(k)
  <2>1. PICK k \in Takers : StoreRows(k)
    BY <1>3
  <2>2. checkpoints' \subseteq checkpoints \cup {taker[k]} /\ reader' = reader
    BY <2>1 DEF StoreRows, Replaced
  <2>3. \A l \in Takers : taker'[l] = taker[l] \/ taker'[l] = NoRow
    BY <2>1 DEF StoreRows, TypeOK
  <2> QED BY <2>2, <2>3 DEF Rows
<1>4. CASE \E k \in Takers : TakerFails(k)
  <2>1. checkpoints' = checkpoints /\ reader' = reader
    BY <1>4 DEF TakerFails
  <2>2. \A l \in Takers : taker'[l] = taker[l] \/ taker'[l] = NoRow
    BY <1>4 DEF TakerFails, TypeOK
  <2> QED BY <2>1, <2>2 DEF Rows
<1>5. CASE Dispose
  BY <1>5 DEF Dispose, Rows
<1>6. CASE \E r \in Readers, ts \in Times : FindSnapshot(r, ts)
  <2>1. PICK r \in Readers, ts \in Times : FindSnapshot(r, ts)
    BY <1>6
  <2>2. PICK c \in checkpoints \cup {NoRow} : reader' = [reader EXCEPT ![r] = ReaderAt(TRUE, ts, c)]
    BY <2>1 DEF FindSnapshot
  <2>3. \A q \in Readers : reader'[q] = reader[q] \/ reader'[q] = ReaderAt(TRUE, ts, c)
    BY <2>2 DEF TypeOK
  <2>4. ReaderAt(TRUE, ts, c).base = c
    BY DEF ReaderAt
  <2>5. checkpoints' = checkpoints /\ taker' = taker
    BY <2>1 DEF FindSnapshot
  <2> QED BY <2>2, <2>3, <2>4, <2>5 DEF Rows
<1>7. CASE \E r \in Readers : Return(r)
  <2>1. checkpoints' = checkpoints /\ taker' = taker
    BY <1>7 DEF Return
  <2>2. \A q \in Readers : reader'[q] = reader[q] \/ reader'[q] = IdleReader
    BY <1>7 DEF Return, TypeOK
  <2> QED BY <1>0, <2>1, <2>2 DEF Rows
<1> QED
  BY <1>1, <1>2, <1>3, <1>4, <1>5, <1>6, <1>7
  DEF Next, vars, Tick, BeginPosting, DateInside, Commit, Rollback, GuardDate, InsertDate, DateFails,
      ClosePeriod, FindClosed, Reopen, UnchangedReads

(* A reader's snapshot is not newer than the moment it asks about. *)
BaseInTime == \A r \in Readers : reader[r].busy => reader[r].base.asOf <= reader[r].ts

LEMMA BaseKept == ASSUME TypeOK, BaseInTime, [Next]_vars PROVE BaseInTime'
<1>1. CASE UNCHANGED reader
  BY <1>1 DEF BaseInTime
<1>2. CASE \E r \in Readers, ts \in Times : FindSnapshot(r, ts)
  <2>1. PICK r \in Readers, ts \in Times : FindSnapshot(r, ts)
    BY <1>2
  <2>2. NoRow.asOf <= ts
    BY ConstantsAssumption DEF NoRow, RowOf, Times
  <2>3. PICK c \in checkpoints \cup {NoRow} :
          c.asOf <= ts /\ reader' = [reader EXCEPT ![r] = ReaderAt(TRUE, ts, c)]
    BY <2>1, <2>2 DEF FindSnapshot, Newest
  <2>4. \A q \in Readers : reader'[q] = reader[q] \/ reader'[q] = ReaderAt(TRUE, ts, c)
    BY <2>3 DEF TypeOK
  <2>5. ReaderAt(TRUE, ts, c).base.asOf <= ReaderAt(TRUE, ts, c).ts
    BY <2>3 DEF ReaderAt
  <2> QED BY <2>4, <2>5 DEF BaseInTime
<1>3. CASE \E r \in Readers : Return(r)
  <2>1. \A q \in Readers : reader'[q] = reader[q] \/ reader'[q] = IdleReader
    BY <1>3 DEF Return, TypeOK
  <2>2. ~IdleReader.busy
    BY DEF IdleReader, ReaderAt
  <2> QED BY <2>1, <2>2 DEF BaseInTime
<1> QED
  BY <1>1, <1>2, <1>3
  DEF Next, vars, Tick, BeginPosting, DateInside, Commit, Rollback, GuardDate, InsertDate, DateFails,
      ClosePeriod, FindClosed, Reopen, ReadBalances, StoreRows, TakerFails, Dispose, UnchangedReads

LEMMA RowStep == TypeOK /\ RowInv /\ [Next]_vars => RowInv'
<1> SUFFICES ASSUME TypeOK, RowInv, [Next]_vars PROVE RowInv'
  OBVIOUS
<1>1. TypeOK'
  BY TypeStep
<1>2. RightRow(NoRow)'
  <2>1. RightRow(NoRow) /\ NoRow \in Row
    BY NoRowIsRight, ConstantsAssumption DEF NoRow, RowOf, Row
  <2> QED BY <1>1, <2>1, RightRowKept
<1>3. ASSUME NEW row \in Rows', row \in Rows PROVE RightRow(row)'
  BY <1>1, <1>3, RowsTyped, RightRowKept DEF RowInv
<1>4. ASSUME NEW row, NEW asOf \in Times, UNCHANGED <<journal, now, open>>,
             row = RowOf(asOf, UpTo(asOf), Settled(asOf))
      PROVE  RightRow(row)'
  <2>1. row.asOf = asOf /\ row.covers = UpTo(asOf) /\ row.settled = Settled(asOf)
    BY <1>4 DEF RowOf
  <2>2. UpTo(asOf)' = UpTo(asOf) /\ Settled(asOf)' = Settled(asOf)
    BY <1>4 DEF UpTo, Settled
  <2> QED BY <2>1, <2>2 DEF RightRow
<1>5. ASSUME NEW row \in Rows' PROVE RightRow(row)'
  <2>1. CASE row \in Rows
    BY <1>3, <2>1
  <2>2. CASE row = NoRow
    BY <1>2, <2>2
  <2>3. CASE \E asOf \in Times :
                /\ row = RowOf(asOf, UpTo(asOf), Settled(asOf))
                /\ UNCHANGED <<journal, now, open>>
    BY <1>4, <2>3
  <2> QED BY <2>1, <2>2, <2>3, NewRows
<1>6. BaseInTime'
  BY BaseKept DEF RowInv, BaseInTime
<1> QED BY <1>5, <1>6 DEF RowInv, BaseInTime

LEMMA BaseIsRight ==
    ASSUME TypeOK, RowInv, NEW r \in Readers, reader[r].busy
    PROVE  /\ RightRow(reader[r].base)
           /\ reader[r].base.asOf \in Int /\ reader[r].ts \in Int
           /\ reader[r].base.asOf <= reader[r].ts
<1>1. reader[r].base \in Rows /\ reader[r].base \in Row
  BY DEF Rows, TypeOK
<1>2. reader[r].ts \in Int
  BY ConstantsAssumption DEF TypeOK, Times
<1> QED BY <1>1, <1>2 DEF RowInv, Row

(* The replay begins where the snapshot ends. *)
LEMMA ReplaySplits ==
    ASSUME TypeOK, NEW a \in Int, NEW ts \in Int, a <= ts
    PROVE  UpTo(a) \cup After(a, ts) = UpTo(ts) /\ UpTo(a) \cap After(a, ts) = {}
<1>1. \A t \in DOMAIN journal : journal[t].at \in Int
  BY StampsTyped
<1> QED BY <1>1 DEF UpTo, After

LEMMA AnswersRight ==
    TypeOK /\ RowInv => SettledAnswersAreExact /\ AnswersInventNothing
<1> SUFFICES ASSUME TypeOK, RowInv, NEW r \in Readers, reader[r].busy
             PROVE  /\ reader[r].base.settled => Exact(r)
                    /\ reader[r].base.covers \subseteq UpTo(reader[r].ts)
                    /\ reader[r].base.covers \cap Replay(r) = {}
  BY DEF SettledAnswersAreExact, AnswersInventNothing
<1> DEFINE a == reader[r].base.asOf
           ts == reader[r].ts
           covers == reader[r].base.covers
<1>1. covers \subseteq UpTo(a) /\ (reader[r].base.settled => covers = UpTo(a))
  BY BaseIsRight DEF RightRow
<1>2. UpTo(a) \cup After(a, ts) = UpTo(ts) /\ UpTo(a) \cap After(a, ts) = {}
  BY BaseIsRight, ReplaySplits
<1>3. Replay(r) = After(a, ts)
  BY DEF Replay
<1> HIDE DEF a, ts, covers
<1>4. /\ reader[r].base.settled => covers \cup Replay(r) = UpTo(ts) /\ covers \cap Replay(r) = {}
      /\ covers \subseteq UpTo(ts)
      /\ covers \cap Replay(r) = {}
  BY <1>1, <1>2, <1>3
<1> QED BY <1>4 DEF a, ts, covers, Exact

LEMMA SnapshotsRight == Spec => [](TypeOK /\ RowInv)
<1>1. Init => TypeOK /\ RowInv
  BY TypeInit, RowInit
<1>2. TypeOK /\ RowInv /\ [Next]_vars => TypeOK' /\ RowInv'
  BY TypeStep, RowStep
<1> QED BY <1>1, <1>2, PTL DEF Spec

(* From a snapshot of a settled moment, balance_as_of_snapshotted answers  *)
(* what balance_as_of would, whatever falls between its two reads.         *)
THEOREM SettledSnapshotsAreCaches == Spec => []SettledAnswersAreExact
<1>1. TypeOK /\ RowInv => SettledAnswersAreExact
  BY AnswersRight
<1> QED BY <1>1, SnapshotsRight, PTL

(* From any snapshot, it counts nothing twice and nothing that is not      *)
(* there: a snapshot can only have missed a transaction.                   *)
THEOREM NothingIsInvented == Spec => []AnswersInventNothing
<1>1. TypeOK /\ RowInv => AnswersInventNothing
  BY AnswersRight
<1> QED BY <1>1, SnapshotsRight, PTL

-----------------------------------------------------------------------------
(* Months. *)

LEMMA MonthInit == Init => MonthInv
BY DEF Init, MonthInv, NoLatePostings, Accepted, NoLateDates

LEMMA MonthStep == TypeOK /\ MonthInv /\ [Next]_vars => MonthInv'
<1> SUFFICES ASSUME TypeOK, MonthInv, [Next]_vars PROVE MonthInv'
  OBVIOUS
<1> USE DEF MonthInv
<1>0. DOMAIN effective = DOMAIN journal
  <2>1. DOMAIN effective = 1 .. Len(effective) /\ DOMAIN journal = 1 .. Len(journal)
    BY DEF TypeOK
  <2> QED BY <2>1 DEF TypeOK
<1>00. NoMonth \notin closed
  BY ConstantsAssumption DEF TypeOK
<1>1. CASE UNCHANGED <<journal, effective, closed, open, clerk, known, onTime>>
  BY <1>1 DEF NoLatePostings, Accepted, NoLateDates, DatedIn
<1>2. CASE \E m \in Months : BeginPosting(m)
  <2>1. PICK m \in Months : BeginPosting(m)
    BY <1>2
  <2>2. /\ UNCHANGED <<journal, effective, closed, clerk, known, onTime>>
        /\ open'.month \notin closed /\ open'.dated \notin closed
    BY <1>00, <2>1 DEF BeginPosting, IsOpen, UnchangedPeriods
  <2> QED BY <2>2 DEF NoLatePostings, Accepted, NoLateDates, DatedIn
<1>3. CASE \E m \in Months : DateInside(m)
  <2>1. PICK m \in Months : DateInside(m)
    BY <1>3
  <2>2. open \in Posting /\ open' = [open EXCEPT !.dated = m]
    BY <2>1 DEF DateInside, TypeOK
  <2>3. open'.month = open.month /\ open'.dated = m
    BY <2>2 DEF Posting
  <2>4. /\ UNCHANGED <<journal, effective, closed, clerk, known, onTime>>
        /\ open # NoTxn /\ m \notin closed
    BY <2>1 DEF DateInside, IsOpen, UnchangedPeriods
  <2> QED BY <2>3, <2>4 DEF NoLatePostings, Accepted, NoLateDates, DatedIn
<1>4. CASE Commit
  <2> DEFINE row == [at |-> open.at, month |-> open.month]
             n == Len(journal) + 1
  <2>1. /\ open # NoTxn /\ open' = NoTxn
        /\ journal' = Append(journal, row) /\ effective' = Append(effective, open.dated)
        /\ UNCHANGED <<closed, clerk, known, onTime>>
    BY <1>4 DEF Commit, UnchangedPeriods
  <2>2. row.month = open.month
    OBVIOUS
  <2>3. row \in Txn /\ open.dated \in Months \cup {NoMonth}
    BY <2>1 DEF TypeOK, Posting, Txn
  <2> HIDE DEF row
  <2>4. /\ DOMAIN journal' = DOMAIN journal \cup {n}
        /\ journal'[n].month = open.month
        /\ \A t \in DOMAIN journal : journal'[t] = journal[t]
    BY <2>1, <2>2, <2>3 DEF TypeOK
  <2>5. /\ DOMAIN effective' = DOMAIN effective \cup {n}
        /\ effective'[n] = open.dated
        /\ \A t \in DOMAIN effective : effective'[t] = effective[t]
    BY <2>1, <2>3 DEF TypeOK
  <2> HIDE DEF n
  <2>6. NoLatePostings'
    BY <2>1, <2>4 DEF NoLatePostings, Accepted
  <2>7. NoLateDates'
    BY <2>1, <2>5 DEF NoLateDates, DatedIn
  <2> QED BY <2>1, <2>4, <2>6, <2>7
<1>5. CASE Rollback
  BY <1>5 DEF Rollback, UnchangedPeriods, NoLatePostings, Accepted, NoLateDates, DatedIn
<1>6. CASE \E k \in Clerks, t \in DOMAIN journal, m \in Months : GuardDate(k, t, m)
  <2>1. PICK k \in Clerks, t \in DOMAIN journal, m \in Months : GuardDate(k, t, m)
    BY <1>6
  <2>2. UNCHANGED <<journal, effective, closed, open, known, onTime>>
    BY <2>1 DEF GuardDate, UnchangedWriting
  <2>3. \A l \in Clerks : clerk'[l] = clerk[l] \/ clerk'[l] = ClerkAt(t, m)
    BY <2>1 DEF GuardDate, TypeOK
  <2>4. ClerkAt(t, m).txn = t /\ ClerkAt(t, m).month = m /\ m \notin closed
    BY <2>1 DEF ClerkAt, GuardDate, IsOpen
  <2> QED BY <2>2, <2>3, <2>4 DEF NoLatePostings, Accepted, NoLateDates, DatedIn
<1>7. CASE \E k \in Clerks : InsertDate(k)
  <2>1. PICK k \in Clerks : InsertDate(k)
    BY <1>7
  <2> DEFINE i == clerk[k].txn
             m == clerk[k].month
  <2>2. /\ effective' = [effective EXCEPT ![i] = m]
        /\ UNCHANGED <<journal, closed, open, known>>
        /\ clerk[k] # IdleClerk
        /\ OnTimeNarrows(effective', clerk')
    BY <2>1 DEF InsertDate, UnchangedWriting
  <2>3. m \in closed => i \in onTime[m]
    BY <2>2
  <2> HIDE DEF i, m
  <2>4. /\ DOMAIN effective' = DOMAIN effective
        /\ \A t \in DOMAIN effective : effective'[t] = effective[t] \/ (t = i /\ effective'[t] = m)
    BY <2>2 DEF TypeOK
  <2>5. \A q \in closed : DatedIn(q)' \subseteq onTime[q]
    BY <2>2, <2>3, <2>4 DEF NoLateDates, DatedIn
  <2>6. \A q \in closed : onTime'[q] = onTime[q] \cap OnTime(q)'
    BY <2>2 DEF OnTimeNarrows, OnTime, TypeOK
  <2>7. NoLateDates'
    BY <2>2, <2>5, <2>6 DEF NoLateDates, OnTime, OnTimeWith, DatedIn
  <2>8. \A l \in Clerks : clerk'[l] = clerk[l] \/ clerk'[l] = IdleClerk
    BY <2>1 DEF InsertDate, TypeOK
  <2>9. IdleClerk' = IdleClerk
    BY DEF IdleClerk, ClerkAt
  <2>10. \A q : \A l \in Clerks : clerk'[l].month = q => clerk'[l].txn \in OnTime(q)'
    BY DEF OnTime, OnTimeWith
  <2>11. \A l \in Clerks : clerk'[l] # IdleClerk /\ clerk'[l].month \in closed =>
            clerk'[l].txn \in onTime'[clerk'[l].month]
    BY <2>6, <2>8, <2>10
  <2> QED BY <2>2, <2>4, <2>7, <2>8, <2>9, <2>11, <1>0 DEF NoLatePostings, Accepted
<1>8. CASE \E k \in Clerks : DateFails(k)
  <2>1. UNCHANGED <<journal, effective, closed, open, known>> /\ OnTimeNarrows(effective', clerk')
    BY <1>8 DEF DateFails, UnchangedWriting
  <2>2. \A l \in Clerks : clerk'[l] = clerk[l] \/ clerk'[l] = IdleClerk
    BY <1>8 DEF DateFails, TypeOK
  <2>3. \A q \in closed : onTime'[q] = onTime[q] \cap OnTime(q)'
    BY <2>1 DEF OnTimeNarrows, OnTime, TypeOK
  <2>4. NoLateDates'
    BY <2>1, <2>3 DEF NoLateDates, OnTime, OnTimeWith, DatedIn
  <2>5. IdleClerk' = IdleClerk
    BY DEF IdleClerk, ClerkAt
  <2>6. \A q : \A l \in Clerks : clerk'[l].month = q => clerk'[l].txn \in OnTime(q)'
    BY DEF OnTime, OnTimeWith
  <2>7. \A l \in Clerks : clerk'[l] # IdleClerk /\ clerk'[l].month \in closed =>
            clerk'[l].txn \in onTime'[clerk'[l].month]
    BY <2>2, <2>3, <2>6
  <2> QED BY <2>1, <2>2, <2>4, <2>5, <2>7 DEF NoLatePostings, Accepted
<1>9. CASE \E m \in Months : ClosePeriod(m)
  <2>1. PICK m \in Months : ClosePeriod(m)
    BY <1>9
  <2>2. /\ UNCHANGED <<journal, effective, open, clerk>>
        /\ open = NoTxn
        /\ closed' = closed \cup {m}
        /\ m \in closed => known' = known /\ onTime' = onTime
        /\ m \notin closed => /\ known' = [known EXCEPT ![m] = Accepted(m)]
                            /\ onTime' = [onTime EXCEPT ![m] = OnTime(m)]
    BY <2>1 DEF ClosePeriod, UnchangedWriting
  <2>3. /\ \A q \in closed : known'[q] = known[q] /\ onTime'[q] = onTime[q]
        /\ m \notin closed => known'[m] = Accepted(m) /\ onTime'[m] = OnTime(m)
    BY <2>2 DEF TypeOK
  <2>4. NoLatePostings'
    BY <2>2, <2>3 DEF NoLatePostings, Accepted
  <2>5. NoLateDates'
    BY <2>2, <2>3 DEF NoLateDates, DatedIn, OnTime, OnTimeWith
  <2>6. \A k \in Clerks : clerk[k].month = m => clerk[k].txn \in OnTime(m)
    BY DEF OnTime, OnTimeWith
  <2>7. IdleClerk' = IdleClerk
    BY DEF IdleClerk, ClerkAt
  <2>8. \A k \in Clerks : clerk'[k] # IdleClerk /\ clerk'[k].month \in closed' =>
          clerk'[k].txn \in onTime'[clerk'[k].month]
    BY <2>2, <2>3, <2>6
  <2> QED BY <2>2, <2>4, <2>5, <2>7, <2>8
<1>10. CASE \E a \in Approvers : Reopen(a)
  <2>1. UNCHANGED <<journal, effective, open, clerk>> /\ closed' \subseteq closed
    BY <1>10 DEF Reopen, UnchangedWriting
  <2>2. \A q \in closed' : known'[q] = known[q] /\ onTime'[q] = onTime[q]
    BY <1>10 DEF Reopen, TypeOK
  <2>3. NoLatePostings' /\ NoLateDates'
    BY <2>1, <2>2 DEF NoLatePostings, Accepted, NoLateDates, DatedIn
  <2>4. IdleClerk' = IdleClerk
    BY DEF IdleClerk, ClerkAt
  <2> QED BY <2>1, <2>2, <2>3, <2>4
<1> QED
  BY <1>1, <1>2, <1>3, <1>4, <1>5, <1>6, <1>7, <1>8, <1>9, <1>10
  DEF Next, vars, Tick, FindClosed, ReadBalances, StoreRows, TakerFails, Dispose, FindSnapshot, Return,
      UnchangedWriting, UnchangedPeriods

LEMMA MonthsRight == Spec => []MonthInv
<1>1. Init => MonthInv
  BY MonthInit
<1>2. TypeOK /\ MonthInv /\ [Next]_vars => MonthInv'
  BY MonthStep
<1> QED BY <1>1, <1>2, TypeCorrect, PTL DEF Spec

(* A month that is closed has taken no posting since its close. *)
THEOREM ClosedMonthsTakeNoPosting == Spec => []NoLatePostings
<1>1. MonthInv => NoLatePostings
  BY DEF MonthInv
<1> QED BY <1>1, MonthsRight, PTL

(* What it counts are transactions that were dated in it, or had passed    *)
(* the guard of record_effective_date, when it was closed: a call that     *)
(* begins after the close dates nothing into it.                           *)
THEOREM ClosedMonthsTakeNoLateDate == Spec => []NoLateDates
<1>1. MonthInv => NoLateDates
  BY DEF MonthInv
<1> QED BY <1>1, MonthsRight, PTL
=============================================================================
