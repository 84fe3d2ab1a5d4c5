----------------------------- MODULE PgSnapshot -----------------------------
(***************************************************************************)
(* src/ledger/pg_snapshot.py over the append-only PostgreSQL ledger of     *)
(* src/ledger/pg_nohotrow.py: writers append entries concurrently, takers  *)
(* checkpoint every account's balance at a watermark, readers add the      *)
(* entries after the newest checkpoint to it.                              *)
(*                                                                         *)
(* A sum of amounts is modelled by the set of entries it adds up: two sums *)
(* are meant to be equal because they add the same entries.                *)
(*                                                                         *)
(* PostgreSQL is modelled from how the code uses it.  An entry's id comes  *)
(* from a sequence when its row is inserted, long before it is visible,    *)
(* and is not given back on rollback.  A transaction gets its xid with its *)
(* first write.  take_snapshot and balance run in autocommit: each of      *)
(* their statements sees what was committed when it began.                 *)
(***************************************************************************)
EXTENDS Naturals

CONSTANTS
    Writers, Takers, Readers, Accounts, NoAccount,
    MaxId,          \* bound: entries ever inserted into one journal
    MaxXid,         \* bound: writing transactions
    MaxCheckpoints, \* bound: calls of take_snapshot
    MaxRebuilds     \* bound: DERIVED_SCHEMA runs that drop the journal

ASSUME ConstantsAssumption ==
    /\ NoAccount \notin Accounts
    /\ MaxId \in Nat /\ MaxXid \in Nat /\ MaxCheckpoints \in Nat /\ MaxRebuilds \in Nat

VARIABLES
    journal,     \* committed entries, see Entry
    gen,         \* how often the journal was rebuilt
    lastId,      \* d_journal_entry's identity sequence
    nextXid,     \* the next transaction id to be assigned
    completed,   \* the highest xid that has committed or aborted
    xid,         \* the xid of each writer's transaction, 0 if it has none
    held,        \* the entries each open transaction has inserted
    checkpoints, \* table d_balance_snapshot: [account, watermark, covers, xmax0]
    taker,       \* take_snapshot calls: [pc, wm, xmax0, rows]
    taken,       \* calls of take_snapshot so far
    reader       \* balance calls: [pc, account, wm, xmax0, base, delta, truth]

vars == <<journal, gen, lastId, nextXid, completed, xid, held, checkpoints,
          taker, taken, reader>>

(* xid: history, the transaction that inserted the entry.                  *)
Entry == [gen : Nat, id : Nat, account : Accounts, xid : Nat]

(* xmax0: history, the xmax that the drain before this row waited for.     *)
Checkpoint == [account : Accounts, watermark : Nat, covers : SUBSET Entry, xmax0 : Nat]

TakerAt(pc, wm, xmax0, rows) == [pc |-> pc, wm |-> wm, xmax0 |-> xmax0, rows |-> rows]

IdleTaker == TakerAt("idle", 0, 0, {})

(* truth: history, what a full scan would have added up at that moment.    *)
ReaderAt(pc, account, wm, xmax0, base, delta, truth) ==
    [pc |-> pc, account |-> account, wm |-> wm, xmax0 |-> xmax0,
     base |-> base, delta |-> delta, truth |-> truth]

IdleReader == ReaderAt("idle", NoAccount, 0, 0, {}, {}, {})

TypeOK ==
    /\ journal \subseteq Entry
    /\ gen \in Nat /\ lastId \in Nat
    /\ nextXid \in Nat /\ completed \in Nat
    /\ xid \in [Writers -> Nat]
    /\ held \in [Writers -> SUBSET Entry]
    /\ checkpoints \subseteq Checkpoint
    /\ taker \in [Takers -> [pc : {"idle", "xmax", "drain", "sum", "store"},
                             wm : Nat, xmax0 : Nat, rows : SUBSET Checkpoint]]
    /\ taken \in Nat
    /\ reader \in [Readers -> [pc : {"idle", "head", "delta", "scan", "answered"},
                               account : Accounts \cup {NoAccount}, wm : Nat, xmax0 : Nat,
                               base : SUBSET Entry, delta : SUBSET Entry,
                               truth : SUBSET Entry]]

Init ==
    /\ journal = {}
    /\ gen = 0 /\ lastId = 0
    /\ nextXid = 1 /\ completed = 0
    /\ xid = [w \in Writers |-> 0]
    /\ held = [w \in Writers |-> {}]
    /\ checkpoints = {}
    /\ taker = [k \in Takers |-> IdleTaker]
    /\ taken = 0
    /\ reader = [r \in Readers |-> IdleReader]

-----------------------------------------------------------------------------
(* What a statement reads.                                                 *)

(* SELECT COALESCE(MAX(id), 0) *)
IsHead(m) ==
    /\ m = 0 \/ \E e \in journal : e.id = m
    /\ \A e \in journal : e.id <= m

EntriesOf(a) == {e \in journal : e.account = a}

(* Slip: the sum has no upper end. *)
UpToAnything(a, wm) == EntriesOf(a)

UpTo(a, wm) == {e \in EntriesOf(a) : e.id <= wm}

(* Slip: the delta starts one entry late. *)
AfterNext(a, wm) == {e \in EntriesOf(a) : e.id > wm + 1}

After(a, wm) == {e \in EntriesOf(a) : e.id > wm}

(* pg_snapshot_xmax(pg_current_snapshot()): one past the highest xid that  *)
(* has committed or aborted.  A running transaction may have a higher one. *)
Xmax == completed + 1

(* pg_snapshot_xmin is the oldest running xid below Xmax, or Xmax: the     *)
(* test xmin >= x of the drain loop.                                       *)
XminReaches(x) ==
    /\ Xmax >= x
    /\ \A w \in Writers : xid[w] # 0 /\ xid[w] < Xmax => xid[w] >= x

-----------------------------------------------------------------------------
(* Writers: DerivedLedger.post inside run_serializable.                    *)

UnchangedWriting == UNCHANGED <<journal, gen, lastId, nextXid, completed, xid, held>>
UnchangedReading == UNCHANGED <<checkpoints, taker, taken, reader>>

(* BEGIN; INSERT INTO d_journal_txn: the first write, so an xid. *)
BeginPosting(w) ==
    /\ xid[w] = 0
    /\ nextXid <= MaxXid
    /\ xid' = [xid EXCEPT ![w] = nextXid]
    /\ nextXid' = nextXid + 1
    /\ UNCHANGED <<journal, gen, lastId, completed, held>>
    /\ UnchangedReading

NewEntry(w, a) == [gen |-> gen, id |-> lastId + 1, account |-> a, xid |-> xid[w]]

InsertEntry(w, a) ==
    /\ xid[w] # 0
    /\ lastId < MaxId
    /\ lastId' = lastId + 1
    /\ held' = [held EXCEPT ![w] = @ \cup {NewEntry(w, a)}]
    /\ UNCHANGED <<journal, gen, nextXid, completed, xid>>
    /\ UnchangedReading

EndTransaction(w) ==
    /\ xid[w] # 0
    /\ completed' = IF xid[w] > completed THEN xid[w] ELSE completed
    /\ xid' = [xid EXCEPT ![w] = 0]
    /\ held' = [held EXCEPT ![w] = {}]
    /\ UNCHANGED <<gen, lastId, nextXid>>
    /\ UnchangedReading

CommitPosting(w) ==
    /\ held[w] # {}
    /\ journal' = journal \cup held[w]
    /\ EndTransaction(w)

(* A serialization failure, a deadlock victim or a lost connection; a      *)
(* retry is a new transaction.                                             *)
AbortPosting(w) ==
    /\ UNCHANGED journal
    /\ EndTransaction(w)

-----------------------------------------------------------------------------
(* take_snapshot.                                                          *)

ReadWatermark(k) ==
    /\ taker[k].pc = "idle"
    /\ taken < MaxCheckpoints
    /\ taken' = taken + 1
    /\ \E m \in 0 .. lastId :
          /\ IsHead(m)
          /\ taker' = [taker EXCEPT ![k] = TakerAt("xmax", m, 0, {})]
    /\ UnchangedWriting
    /\ UNCHANGED <<checkpoints, reader>>

ReadXmax(k) ==
    /\ taker[k].pc = "xmax"
    /\ taker' = [taker EXCEPT ![k] = TakerAt("drain", @.wm, Xmax, {})]
    /\ UnchangedWriting
    /\ UNCHANGED <<checkpoints, taken, reader>>

(* Slip: the sum follows at once (what drain=False does). *)
NotDrained(k) ==
    /\ taker[k].pc = "drain"
    /\ taker' = [taker EXCEPT ![k] = TakerAt("sum", @.wm, @.xmax0, {})]
    /\ UnchangedWriting
    /\ UNCHANGED <<checkpoints, taken, reader>>

Drained(k) ==
    /\ taker[k].pc = "drain"
    /\ XminReaches(taker[k].xmax0)
    /\ taker' = [taker EXCEPT ![k] = TakerAt("sum", @.wm, @.xmax0, {})]
    /\ UnchangedWriting
    /\ UNCHANGED <<checkpoints, taken, reader>>

(* Slip: the drain has no deadline. *)
DrainsForEver(k) ==
    /\ taker[k].pc = "drain"
    /\ ~XminReaches(taker[k].xmax0)
    /\ UNCHANGED vars

(* DrainTimeout leaves take_snapshot, and nothing was stored. *)
DrainTimesOut(k) ==
    /\ taker[k].pc = "drain"
    /\ ~XminReaches(taker[k].xmax0)
    /\ taker' = [taker EXCEPT ![k] = IdleTaker]
    /\ UnchangedWriting
    /\ UNCHANGED <<checkpoints, taken, reader>>

(* _SUM_UPTO: one row per account with an entry at or below the watermark. *)
SumRows(wm, xmax0) ==
    {[account |-> a, watermark |-> wm, covers |-> UpTo(a, wm), xmax0 |-> xmax0] :
        a \in {b \in Accounts : UpTo(b, wm) # {}}}

Sum(k) ==
    /\ taker[k].pc = "sum"
    /\ taker' = [taker EXCEPT ![k] = TakerAt("store", @.wm, @.xmax0, SumRows(@.wm, @.xmax0))]
    /\ UnchangedWriting
    /\ UNCHANGED <<checkpoints, taken, reader>>

(* INSERT ... ON CONFLICT (account_id, watermark_id) DO UPDATE, committed  *)
(* row by row.                                                             *)
Store(k) ==
    /\ taker[k].pc = "store"
    /\ \E row \in taker[k].rows :
          /\ checkpoints' = {row} \cup
                {c \in checkpoints : c.account # row.account \/ c.watermark # row.watermark}
          /\ taker' = [taker EXCEPT ![k] = TakerAt("store", @.wm, @.xmax0, @.rows \ {row})]
    /\ UnchangedWriting
    /\ UNCHANGED <<taken, reader>>

FinishSnapshot(k) ==
    /\ taker[k].pc = "store"
    /\ taker[k].rows = {}
    /\ taker' = [taker EXCEPT ![k] = IdleTaker]
    /\ UnchangedWriting
    /\ UNCHANGED <<checkpoints, taken, reader>>

(* The taker's process dies, possibly with some accounts stored. *)
CrashTaker(k) ==
    /\ taker[k].pc # "idle"
    /\ taker' = [taker EXCEPT ![k] = IdleTaker]
    /\ UnchangedWriting
    /\ UNCHANGED <<checkpoints, taken, reader>>

-----------------------------------------------------------------------------
(* balance.                                                                *)

ReadCheckpoint(r, a) ==
    /\ reader[r].pc = "idle"
    /\ \/ /\ \A c \in checkpoints : c.account # a
          /\ reader' = [reader EXCEPT ![r] = ReaderAt("scan", a, 0, 0, {}, {}, {})]
       \/ \E c \in checkpoints :
             /\ c.account = a
             /\ \A d \in checkpoints : d.account = a => d.watermark <= c.watermark
             /\ reader' = [reader EXCEPT ![r] =
                             ReaderAt("head", a, c.watermark, c.xmax0, c.covers, {}, {})]
    /\ UnchangedWriting
    /\ UNCHANGED <<checkpoints, taker, taken>>

(* Slip: a checkpoint at the very end of the journal counts as stale. *)
CheckHeadStrictly(r) ==
    /\ reader[r].pc = "head"
    /\ IF \E m \in 0 .. lastId : IsHead(m) /\ reader[r].wm >= m
       THEN reader' = [reader EXCEPT ![r] = IdleReader]
       ELSE reader' = [reader EXCEPT ![r] = ReaderAt("delta", @.account, @.wm, @.xmax0, @.base, {}, {})]
    /\ UnchangedWriting
    /\ UNCHANGED <<checkpoints, taker, taken>>

(* StaleSnapshot is raised when the watermark is past the journal's end. *)
CheckHead(r) ==
    /\ reader[r].pc = "head"
    /\ IF \E m \in 0 .. lastId : IsHead(m) /\ reader[r].wm > m
       THEN reader' = [reader EXCEPT ![r] = IdleReader]
       ELSE reader' = [reader EXCEPT ![r] = ReaderAt("delta", @.account, @.wm, @.xmax0, @.base, {}, {})]
    /\ UnchangedWriting
    /\ UNCHANGED <<checkpoints, taker, taken>>

(* DerivedLedger.balance when there is no checkpoint, the delta otherwise. *)
ReadEntries(r) ==
    /\ reader[r].pc \in {"scan", "delta"}
    /\ reader' = [reader EXCEPT ![r] =
                     ReaderAt("answered", @.account, @.wm, @.xmax0, @.base,
                              IF @.pc = "scan" THEN EntriesOf(@.account)
                              ELSE After(@.account, @.wm),
                              EntriesOf(@.account))]
    /\ UnchangedWriting
    /\ UNCHANGED <<checkpoints, taker, taken>>

Answer(r) ==
    /\ reader[r].pc = "answered"
    /\ reader' = [reader EXCEPT ![r] = IdleReader]
    /\ UnchangedWriting
    /\ UNCHANGED <<checkpoints, taker, taken>>

-----------------------------------------------------------------------------
(* Operators: clear(), and DERIVED_SCHEMA, which drops the journal and     *)
(* restarts its sequence (it waits for the locks of open transactions) but *)
(* leaves d_balance_snapshot alone.                                        *)

Clear ==
    /\ checkpoints # {}
    /\ checkpoints' = {}
    /\ UnchangedWriting
    /\ UNCHANGED <<taker, taken, reader>>

Rebuild ==
    /\ gen < MaxRebuilds
    /\ \A w \in Writers : xid[w] = 0
    /\ gen' = gen + 1
    /\ journal' = {}
    /\ lastId' = 0
    /\ UNCHANGED <<nextXid, completed, xid, held>>
    /\ UnchangedReading

WriterStep(w) ==
    BeginPosting(w) \/ (\E a \in Accounts : InsertEntry(w, a)) \/ CommitPosting(w) \/ AbortPosting(w)

TakerStep(k) ==
    ReadXmax(k) \/ Drained(k) \/ DrainTimesOut(k) \/ Sum(k) \/ Store(k) \/ FinishSnapshot(k)

ReaderStep(r) == CheckHead(r) \/ ReadEntries(r) \/ Answer(r)

Next ==
    \/ \E w \in Writers : WriterStep(w)
    \/ \E k \in Takers : ReadWatermark(k) \/ TakerStep(k) \/ CrashTaker(k)
    \/ \E r \in Readers : ReaderStep(r) \/ (\E a \in Accounts : ReadCheckpoint(r, a))
    \/ Clear
    \/ Rebuild

Spec == Init /\ [][Next]_vars

(* A call of take_snapshot or balance is run to its end.  Nothing obliges a *)
(* writer to commit: the drain has its timeout for that.                    *)
FairSpec ==
    /\ Spec
    /\ \A k \in Takers : WF_vars(TakerStep(k))
    /\ \A r \in Readers : WF_vars(ReaderStep(r))

-----------------------------------------------------------------------------
(* Properties.                                                             *)

(* The drain's promise (pg_snapshot.py:46-47): a stored checkpoint covers  *)
(* every entry of its account at or below its watermark, and no open       *)
(* transaction can still add one there.  Like the other properties, for a  *)
(* journal that was not rebuilt: after a rebuild clear() is required.      *)
CheckpointsComplete ==
    gen = 0 => \A c \in checkpoints :
        /\ c.covers = UpTo(c.account, c.watermark)
        /\ \A w \in Writers : \A e \in held[w] : e.id > c.watermark

(* What the drain does achieve: whatever a stored checkpoint misses below  *)
(* its watermark, or an open transaction can still add there, is of a      *)
(* transaction that nothing younger had outlived when xmax was read.       *)
OnlyYoungestMissed ==
    gen = 0 => \A c \in checkpoints :
        /\ \A e \in UpTo(c.account, c.watermark) \ c.covers : e.xid >= c.xmax0
        /\ \A w \in Writers : \A e \in held[w] : e.id <= c.watermark => e.xid >= c.xmax0

(* What is left of pg_snapshot.py:93-95, "deleting every row of            *)
(* d_balance_snapshot must change no answer": however takers, their        *)
(* crashes, commits and clear() fall between the three reads of balance(), *)
(* an entry that a full scan at that moment counts is missing only if its  *)
(* checkpoint missed it, below the watermark and too young for the drain.  *)
ReadsMissNothingElse ==
    gen = 0 => \A r \in Readers :
        reader[r].pc = "answered" =>
            \A e \in reader[r].truth \ (reader[r].base \cup reader[r].delta) :
                e.id <= reader[r].wm /\ e.xid >= reader[r].xmax0

(* Whatever the drain missed: no answer counts an entry twice, or one that *)
(* never committed.                                                        *)
NothingInvented ==
    gen = 0 => \A r \in Readers :
        reader[r].pc = "answered" =>
            /\ reader[r].base \cup reader[r].delta \subseteq reader[r].truth
            /\ reader[r].base \cap reader[r].delta = {}

(* StaleSnapshot is the sign of a rebuilt journal and of nothing else.     *)
NoFalseAlarm ==
    [][\A r \in Readers : reader[r].pc = "head" /\ reader'[r].pc = "idle" => gen > 0]_vars

(* take_snapshot and balance always return or raise. *)
CallsEnd ==
    /\ \A k \in Takers : taker[k].pc # "idle" ~> taker[k].pc = "idle"
    /\ \A r \in Readers : reader[r].pc # "idle" ~> reader[r].pc = "idle"
=============================================================================
