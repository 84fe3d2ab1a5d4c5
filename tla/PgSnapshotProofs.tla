-------------------------- MODULE PgSnapshotProofs --------------------------
(***************************************************************************)
(* Theorems about module PgSnapshot while the journal is not rebuilt, for  *)
(* any number of writers, takers, readers and accounts: what a checkpoint  *)
(* or an answer may miss is of a transaction too young for the drain, no   *)
(* answer invents an entry or counts one twice, and StaleSnapshot is never *)
(* a false alarm.                                                          *)
(***************************************************************************)
EXTENDS PgSnapshot, TLAPS

(* Ids at or below the sequence, entries held by their transaction. *)
NumbersInv ==
    /\ \A e \in journal : e.id <= lastId
    /\ \A w \in Writers :
          /\ \A e \in held[w] : e.id <= lastId
          /\ held[w] # {} => xid[w] # 0
          /\ \A e \in held[w] : e.xid = xid[w]

(* A covering set adds up no more than the entries it stands for. *)
Within(c) == c.covers \subseteq UpTo(c.account, c.watermark)

TakerSound(t) == \A c \in t.rows : Within(c)

ReaderSound(t) ==
    /\ t.pc \in {"head", "delta"} => t.base \subseteq UpTo(t.account, t.wm)
    /\ t.pc = "scan" => t.base = {}
    /\ t.pc = "answered" =>
          t.base \cup t.delta \subseteq t.truth /\ t.base \cap t.delta = {}

SoundInv ==
    /\ TypeOK
    /\ NumbersInv
    /\ \A c \in checkpoints : Within(c)
    /\ \A k \in Takers : TakerSound(taker[k])
    /\ \A r \in Readers : ReaderSound(reader[r])

(* Only transactions from xid x on can still add an entry at or below wm.  *)
OpenFrom(wm, x) ==
    /\ wm <= lastId
    /\ \A w \in Writers : \A e \in held[w] : e.id <= wm => e.xid >= x

MissesFrom(c) ==
    /\ \A e \in UpTo(c.account, c.watermark) \ c.covers : e.xid >= c.xmax0
    /\ OpenFrom(c.watermark, c.xmax0)

TakerYoung(t) ==
    /\ t.wm <= lastId
    /\ t.pc \in {"sum", "store"} => OpenFrom(t.wm, t.xmax0)
    /\ \A c \in t.rows : MissesFrom(c)

ReaderYoung(t) ==
    /\ t.pc \in {"head", "delta"} =>
          /\ \A e \in UpTo(t.account, t.wm) \ t.base : e.xid >= t.xmax0
          /\ OpenFrom(t.wm, t.xmax0)
    /\ t.pc = "answered" =>
          \A e \in t.truth \ (t.base \cup t.delta) : e.id <= t.wm /\ e.xid >= t.xmax0

YoungInv ==
    /\ SoundInv
    /\ \A c \in checkpoints : MissesFrom(c)
    /\ \A k \in Takers : TakerYoung(taker[k])
    /\ \A r \in Readers : ReaderYoung(reader[r])

-----------------------------------------------------------------------------
(* The records of takers and readers. *)
LEMMA TakerFields ==
    \A pc, wm, xmax0, rows :
        LET t == TakerAt(pc, wm, xmax0, rows)
        IN  t.pc = pc /\ t.wm = wm /\ t.xmax0 = xmax0 /\ t.rows = rows
BY DEF TakerAt

LEMMA ReaderFields ==
    \A pc, account, wm, xmax0, base, delta, truth :
        LET t == ReaderAt(pc, account, wm, xmax0, base, delta, truth)
        IN  /\ t.pc = pc /\ t.account = account /\ t.wm = wm /\ t.xmax0 = xmax0
            /\ t.base = base /\ t.delta = delta /\ t.truth = truth
BY DEF ReaderAt

TakerType == [pc : {"idle", "xmax", "drain", "sum", "store"},
              wm : Nat, xmax0 : Nat, rows : SUBSET Checkpoint]

ReaderType == [pc : {"idle", "head", "delta", "scan", "answered"},
               account : Accounts \cup {NoAccount}, wm : Nat, xmax0 : Nat,
               base : SUBSET Entry, delta : SUBSET Entry, truth : SUBSET Entry]

(* What a statement reads has the type it should have. *)
LEMMA SumRowsType ==
    ASSUME TypeOK, NEW m \in Nat, NEW x \in Nat
    PROVE  SumRows(m, x) \subseteq Checkpoint
BY DEF TypeOK, SumRows, UpTo, EntriesOf, Checkpoint

(* Every step keeps every variable in its type. *)
LEMMA TypeStep == TypeOK /\ [Next]_vars => TypeOK'
<1> SUFFICES ASSUME TypeOK, [Next]_vars PROVE TypeOK'
  OBVIOUS
<1> USE ConstantsAssumption
<1>xmax. Xmax \in Nat
  BY DEF TypeOK, Xmax
<1>taker. ASSUME NEW k \in Takers, NEW t \in TakerType, taker' = [taker EXCEPT ![k] = t],
                 UnchangedWriting, UNCHANGED reader,
                 checkpoints' \subseteq Checkpoint, taken' \in Nat
          PROVE  TypeOK'
  BY <1>taker DEF TypeOK, UnchangedWriting, TakerType
<1>reader. ASSUME NEW r \in Readers, NEW t \in ReaderType, reader' = [reader EXCEPT ![r] = t],
                  UnchangedWriting, UNCHANGED <<checkpoints, taker, taken>>
           PROVE  TypeOK'
  BY <1>reader DEF TypeOK, UnchangedWriting, ReaderType
<1>fields. ASSUME NEW k \in Takers
           PROVE  taker[k].wm \in Nat /\ taker[k].xmax0 \in Nat /\ taker[k].rows \subseteq Checkpoint
  BY DEF TypeOK
<1>idle. IdleTaker \in TakerType
  BY DEF IdleTaker, TakerAt, TakerType
<1>1. ASSUME NEW w \in Writers, BeginPosting(w) PROVE TypeOK'
  BY <1>1 DEF TypeOK, BeginPosting, UnchangedReading
<1>2. ASSUME NEW w \in Writers, NEW a \in Accounts, InsertEntry(w, a) PROVE TypeOK'
  <2>1. NewEntry(w, a) \in Entry
    BY DEF TypeOK, Entry, NewEntry
  <2> QED BY <1>2, <2>1 DEF TypeOK, InsertEntry, UnchangedReading
<1>3. ASSUME NEW w \in Writers, CommitPosting(w) PROVE TypeOK'
  BY <1>3 DEF TypeOK, CommitPosting, EndTransaction, UnchangedReading
<1>4. ASSUME NEW w \in Writers, AbortPosting(w) PROVE TypeOK'
  BY <1>4 DEF TypeOK, AbortPosting, EndTransaction, UnchangedReading
<1>5. ASSUME NEW k \in Takers, ReadWatermark(k) PROVE TypeOK'
  <2>1. PICK m \in 0 .. lastId : taker' = [taker EXCEPT ![k] = TakerAt("xmax", m, 0, {})]
    BY <1>5 DEF ReadWatermark
  <2>2. TakerAt("xmax", m, 0, {}) \in TakerType
    BY DEF TypeOK, TakerAt, TakerType
  <2>3. taken' \in Nat /\ UnchangedWriting /\ UNCHANGED <<checkpoints, reader>>
    BY <1>5 DEF TypeOK, ReadWatermark
  <2> QED BY <1>taker, <2>1, <2>2, <2>3 DEF TypeOK
<1>6. ASSUME NEW k \in Takers, ReadXmax(k) PROVE TypeOK'
  <2>1. TakerAt("drain", taker[k].wm, Xmax, {}) \in TakerType
    BY <1>xmax, <1>fields DEF TakerAt, TakerType
  <2> QED BY <1>6, <1>taker, <2>1 DEF TypeOK, ReadXmax
<1>7. ASSUME NEW k \in Takers, Drained(k) PROVE TypeOK'
  <2>1. TakerAt("sum", taker[k].wm, taker[k].xmax0, {}) \in TakerType
    BY <1>fields DEF TakerAt, TakerType
  <2> QED BY <1>7, <1>taker, <2>1 DEF TypeOK, Drained
<1>8. ASSUME NEW k \in Takers, DrainTimesOut(k) \/ FinishSnapshot(k) \/ CrashTaker(k)
      PROVE  TypeOK'
  BY <1>8, <1>taker, <1>idle DEF TypeOK, DrainTimesOut, FinishSnapshot, CrashTaker
<1>9. ASSUME NEW k \in Takers, Sum(k) PROVE TypeOK'
  <2>1. TakerAt("store", taker[k].wm, taker[k].xmax0,
                         SumRows(taker[k].wm, taker[k].xmax0)) \in TakerType
    BY <1>fields, SumRowsType DEF TakerAt, TakerType
  <2> QED BY <1>9, <1>taker, <2>1 DEF TypeOK, Sum
<1>10. ASSUME NEW k \in Takers, Store(k) PROVE TypeOK'
  <2>1. PICK row \in taker[k].rows :
          /\ checkpoints' = {row} \cup
                {c \in checkpoints : c.account # row.account \/ c.watermark # row.watermark}
          /\ taker' = [taker EXCEPT ![k] = TakerAt("store", taker[k].wm, taker[k].xmax0, taker[k].rows \ {row})]
    BY <1>10 DEF Store
  <2>2. TakerAt("store", taker[k].wm, taker[k].xmax0, taker[k].rows \ {row}) \in TakerType
    BY <1>fields DEF TakerAt, TakerType
  <2>3. checkpoints' \subseteq Checkpoint
    BY <1>fields, <2>1 DEF TypeOK
  <2> QED BY <1>10, <1>taker, <2>1, <2>2, <2>3 DEF TypeOK, Store
<1>11. ASSUME NEW r \in Readers, NEW a \in Accounts, ReadCheckpoint(r, a) PROVE TypeOK'
  <2>1. ReaderAt("scan", a, 0, 0, {}, {}, {}) \in ReaderType
    BY DEF ReaderAt, ReaderType
  <2>2. \A c \in checkpoints : ReaderAt("head", a, c.watermark, c.xmax0, c.covers, {}, {}) \in ReaderType
    BY DEF TypeOK, Checkpoint, ReaderAt, ReaderType
  <2> QED BY <1>11, <1>reader, <2>1, <2>2 DEF ReadCheckpoint
<1>12. ASSUME NEW r \in Readers, CheckHead(r) \/ Answer(r) PROVE TypeOK'
  <2>1. IdleReader \in ReaderType
    BY DEF IdleReader, ReaderAt, ReaderType
  <2>2. ReaderAt("delta", reader[r].account, reader[r].wm, reader[r].xmax0,
                          reader[r].base, {}, {}) \in ReaderType
    BY DEF TypeOK, ReaderAt, ReaderType
  <2> QED BY <1>12, <1>reader, <2>1, <2>2 DEF CheckHead, Answer
<1>13. ASSUME NEW r \in Readers, ReadEntries(r) PROVE TypeOK'
  <2> DEFINE t == ReaderAt("answered", reader[r].account, reader[r].wm, reader[r].xmax0, reader[r].base,
                           IF reader[r].pc = "scan" THEN EntriesOf(reader[r].account)
                           ELSE After(reader[r].account, reader[r].wm),
                           EntriesOf(reader[r].account))
  <2>1. t \in ReaderType
    BY DEF TypeOK, ReaderAt, ReaderType, EntriesOf, After
  <2> QED BY <1>13, <1>reader, <2>1 DEF ReadEntries
<1>14. CASE Clear
  BY <1>14 DEF TypeOK, Clear, UnchangedWriting
<1>15. CASE Rebuild
  BY <1>15 DEF TypeOK, Rebuild, UnchangedReading
<1>16. CASE UNCHANGED vars
  BY <1>16 DEF TypeOK, vars
<1> QED
  BY <1>1, <1>2, <1>3, <1>4, <1>5, <1>6, <1>7, <1>8, <1>9, <1>10, <1>11, <1>12,
     <1>13, <1>14, <1>15, <1>16 DEF Next, WriterStep, TakerStep, ReaderStep

-----------------------------------------------------------------------------
(* What a writer's step may do: entries join the journal, none leaves it,  *)
(* and a new id is above every id handed out so far.                       *)
WriterEffect ==
    /\ NumbersInv'
    /\ UnchangedReading
    /\ journal \subseteq journal'
    /\ \A e \in journal' \ journal : \E u \in Writers : e \in held[u]
    /\ lastId <= lastId'
    /\ \A u \in Writers : \A e \in held'[u] :
          (e \in held[u] /\ xid'[u] = xid[u]) \/ e.id > lastId

LEMMA InsertFrame ==
    ASSUME TypeOK, NumbersInv, NEW w \in Writers, NEW a \in Accounts, InsertEntry(w, a)
    PROVE  WriterEffect
<1> DEFINE new == NewEntry(w, a)
<1>1. new.id = lastId + 1 /\ new.xid = xid[w]
  BY DEF NewEntry
<1>2. /\ UNCHANGED <<journal, nextXid, xid>> /\ UnchangedReading
      /\ lastId' = lastId + 1 /\ xid[w] # 0
      /\ held' = [held EXCEPT ![w] = held[w] \cup {new}]
  BY DEF InsertEntry
<1> HIDE DEF new
<1>3. \A u \in Writers : \A e \in held'[u] : e \in held[u] \/ (u = w /\ e = new)
  BY <1>2 DEF TypeOK
<1>4. lastId \in Nat /\ \A e \in journal : e.id \in Nat /\ e.id <= lastId
  BY DEF TypeOK, Entry, NumbersInv
<1>5. \A u \in Writers : \A e \in held[u] : e.id \in Nat /\ e.id <= lastId
  BY DEF TypeOK, Entry, NumbersInv
<1>6. \A u \in Writers : \A e \in held'[u] : e.id <= lastId'
  BY <1>1, <1>2, <1>3, <1>4, <1>5
<1>7. \A e \in journal' : e.id <= lastId'
  BY <1>2, <1>4
<1>8. \A u \in Writers : (held'[u] # {} => xid'[u] # 0) /\ \A e \in held'[u] : e.xid = xid'[u]
  BY <1>1, <1>2, <1>3 DEF TypeOK, NumbersInv
<1>9. NumbersInv'
  BY <1>6, <1>7, <1>8 DEF NumbersInv
<1> QED BY <1>1, <1>2, <1>3, <1>4, <1>9 DEF WriterEffect

LEMMA WriterFrame ==
    ASSUME TypeOK, NumbersInv, NEW w \in Writers, WriterStep(w)
    PROVE  WriterEffect
<1>1. CASE BeginPosting(w)
  BY <1>1 DEF BeginPosting, WriterEffect, TypeOK, NumbersInv
<1>2. CASE \E a \in Accounts : InsertEntry(w, a)
  BY <1>2, InsertFrame
<1>3. CASE CommitPosting(w)
  BY <1>3 DEF CommitPosting, EndTransaction, WriterEffect, TypeOK, NumbersInv
<1>4. CASE AbortPosting(w)
  BY <1>4 DEF AbortPosting, EndTransaction, WriterEffect, TypeOK, NumbersInv
<1> QED BY <1>1, <1>2, <1>3, <1>4 DEF WriterStep

(* What a statement reads depends on the journal alone. *)
LEMMA ReadsFrame ==
    ASSUME UNCHANGED journal
    PROVE  \A a, m : /\ EntriesOf(a)' = EntriesOf(a)
                     /\ UpTo(a, m)' = UpTo(a, m)
                     /\ After(a, m)' = After(a, m)
BY DEF EntriesOf, UpTo, After

LEMMA SoundStep ==
    ASSUME SoundInv, [Next]_vars, gen' = 0
    PROVE  SoundInv'
<1> USE ConstantsAssumption
<1>type. TypeOK /\ TypeOK'
  BY TypeStep DEF SoundInv
<1>frame. ASSUME UnchangedWriting
          PROVE  /\ NumbersInv'
                 /\ \A c : Within(c)' = Within(c)
                 /\ \A t : TakerSound(t)' = TakerSound(t)
                 /\ \A t : ReaderSound(t)' = ReaderSound(t)
  BY <1>frame, ReadsFrame
  DEF SoundInv, UnchangedWriting, NumbersInv, Within, TakerSound, ReaderSound
<1>numbers. TypeOK /\ NumbersInv
  BY DEF SoundInv
<1>taker. ASSUME NEW k \in Takers, NEW t, taker' = [taker EXCEPT ![k] = t], TakerSound(t),
                 UnchangedWriting, UNCHANGED reader, \A c \in checkpoints' : Within(c)
          PROVE  SoundInv'
  <2>1. \A j \in Takers : taker'[j] = taker[j] \/ taker'[j] = t
    BY <1>taker, <1>type DEF TypeOK
  <2>2. (\A j \in Takers : TakerSound(taker[j]))'
    BY <1>taker, <1>frame, <2>1 DEF SoundInv
  <2>3. (\A r \in Readers : ReaderSound(reader[r]))'
    BY <1>taker, <1>frame DEF SoundInv
  <2>4. (\A c \in checkpoints : Within(c))'
    BY <1>taker, <1>frame
  <2> QED BY <1>type, <1>taker, <1>frame, <2>2, <2>3, <2>4 DEF SoundInv
<1>reader. ASSUME NEW r \in Readers, NEW t, reader' = [reader EXCEPT ![r] = t], ReaderSound(t),
                  UnchangedWriting, UNCHANGED <<checkpoints, taker, taken>>
           PROVE  SoundInv'
  <2>1. \A q \in Readers : reader'[q] = reader[q] \/ reader'[q] = t
    BY <1>reader, <1>type DEF TypeOK
  <2>2. (\A q \in Readers : ReaderSound(reader[q]))'
    BY <1>reader, <1>frame, <2>1 DEF SoundInv
  <2>3. (\A k \in Takers : TakerSound(taker[k]))'
    BY <1>reader, <1>frame DEF SoundInv
  <2>4. (\A c \in checkpoints : Within(c))'
    BY <1>reader, <1>frame DEF SoundInv
  <2> QED BY <1>type, <1>reader, <1>frame, <2>2, <2>3, <2>4 DEF SoundInv
<1>empty. \A pc, wm, xmax0 : TakerSound(TakerAt(pc, wm, xmax0, {}))
  BY TakerFields DEF TakerSound
<1>1. ASSUME NEW w \in Writers, WriterStep(w) PROVE SoundInv'
  <2>1. WriterEffect
    BY <1>1, <1>numbers, WriterFrame
  <2>2. \A a, m : UpTo(a, m) \subseteq UpTo(a, m)'
    BY <2>1 DEF WriterEffect, UpTo, EntriesOf
  <2>3. \A c : Within(c) => Within(c)'
    BY <2>2 DEF Within
  <2>4. \A t : TakerSound(t) => TakerSound(t)'
    BY <2>3 DEF TakerSound
  <2>5. \A t : ReaderSound(t) => ReaderSound(t)'
    BY <2>2 DEF ReaderSound
  <2> QED BY <1>type, <2>1, <2>3, <2>4, <2>5 DEF SoundInv, WriterEffect, UnchangedReading
<1>2. ASSUME NEW k \in Takers, ReadWatermark(k) PROVE SoundInv'
  <2>1. PICK m \in 0 .. lastId : taker' = [taker EXCEPT ![k] = TakerAt("xmax", m, 0, {})]
    BY <1>2 DEF ReadWatermark
  <2> QED BY <1>2, <1>taker, <1>empty, <2>1 DEF ReadWatermark, SoundInv
<1>3. ASSUME NEW k \in Takers, ReadXmax(k) PROVE SoundInv'
  BY <1>3, <1>taker, <1>empty DEF ReadXmax, SoundInv
<1>4. ASSUME NEW k \in Takers, Drained(k) PROVE SoundInv'
  BY <1>4, <1>taker, <1>empty DEF Drained, SoundInv
<1>5. ASSUME NEW k \in Takers, DrainTimesOut(k) \/ FinishSnapshot(k) \/ CrashTaker(k)
      PROVE  SoundInv'
  BY <1>5, <1>taker, <1>empty
  DEF DrainTimesOut, FinishSnapshot, CrashTaker, IdleTaker, SoundInv
<1>6. ASSUME NEW k \in Takers, Sum(k) PROVE SoundInv'
  <2> DEFINE t == TakerAt("store", taker[k].wm, taker[k].xmax0,
                         SumRows(taker[k].wm, taker[k].xmax0))
  <2>1. \A c \in SumRows(taker[k].wm, taker[k].xmax0) : c.covers = UpTo(c.account, c.watermark)
    BY DEF SumRows
  <2>2. TakerSound(t)
    BY <2>1, TakerFields DEF TakerSound, Within
  <2>3. taker' = [taker EXCEPT ![k] = t]
    BY <1>6 DEF Sum
  <2> HIDE DEF t
  <2> QED BY <1>6, <1>taker, <2>2, <2>3 DEF Sum, SoundInv
<1>7. ASSUME NEW k \in Takers, Store(k) PROVE SoundInv'
  <2>1. PICK row \in taker[k].rows :
          /\ checkpoints' = {row} \cup
                {c \in checkpoints : c.account # row.account \/ c.watermark # row.watermark}
          /\ taker' = [taker EXCEPT ![k] = TakerAt("store", taker[k].wm, taker[k].xmax0, taker[k].rows \ {row})]
    BY <1>7 DEF Store
  <2> DEFINE t == TakerAt("store", taker[k].wm, taker[k].xmax0, taker[k].rows \ {row})
  <2>2. \A c \in taker[k].rows : Within(c)
    BY DEF SoundInv, TakerSound
  <2>3. TakerSound(t)
    BY <2>2, TakerFields DEF TakerSound
  <2>4. \A c \in checkpoints' : Within(c)
    BY <2>1, <2>2 DEF SoundInv
  <2>5. UnchangedWriting /\ UNCHANGED reader
    BY <1>7 DEF Store
  <2>6. taker' = [taker EXCEPT ![k] = t]
    BY <2>1
  <2> HIDE DEF t
  <2> QED BY <1>taker, <2>3, <2>4, <2>5, <2>6
<1>8. ASSUME NEW r \in Readers, NEW a \in Accounts, ReadCheckpoint(r, a) PROVE SoundInv'
  <2>1. ReaderSound(ReaderAt("scan", a, 0, 0, {}, {}, {}))
    BY ReaderFields DEF ReaderSound
  <2>2. \A c \in checkpoints : c.account = a =>
            ReaderSound(ReaderAt("head", a, c.watermark, c.xmax0, c.covers, {}, {}))
    BY ReaderFields DEF ReaderSound, SoundInv, Within
  <2> QED BY <1>8, <1>reader, <2>1, <2>2 DEF ReadCheckpoint
<1>9. ASSUME NEW r \in Readers, CheckHead(r) \/ Answer(r) PROVE SoundInv'
  <2>1. ReaderSound(IdleReader)
    BY ReaderFields DEF ReaderSound, IdleReader
  <2> DEFINE t == ReaderAt("delta", reader[r].account, reader[r].wm, reader[r].xmax0,
                          reader[r].base, {}, {})
  <2>2. reader[r].pc = "head" => ReaderSound(t)
    BY ReaderFields DEF ReaderSound, SoundInv
  <2>3. /\ UnchangedWriting /\ UNCHANGED <<checkpoints, taker, taken>>
        /\ \/ reader' = [reader EXCEPT ![r] = IdleReader]
           \/ reader[r].pc = "head" /\ reader' = [reader EXCEPT ![r] = t]
    BY <1>9 DEF CheckHead, Answer
  <2> HIDE DEF t
  <2> QED BY <1>reader, <2>1, <2>2, <2>3
<1>10. ASSUME NEW r \in Readers, ReadEntries(r) PROVE SoundInv'
  <2> DEFINE d == IF reader[r].pc = "scan" THEN EntriesOf(reader[r].account)
                  ELSE After(reader[r].account, reader[r].wm)
             t == ReaderAt("answered", reader[r].account, reader[r].wm, reader[r].xmax0,
                           reader[r].base, d, EntriesOf(reader[r].account))
  <2>1. reader[r].wm \in Nat /\ \A e \in journal : e.id \in Nat
    BY <1>numbers DEF TypeOK, Entry
  <2>2. /\ reader[r].base \cup d \subseteq EntriesOf(reader[r].account)
        /\ reader[r].base \cap d = {}
    BY <1>10, <2>1 DEF ReadEntries, SoundInv, ReaderSound, UpTo, After, EntriesOf
  <2>3. ReaderSound(t)
    BY <2>2, ReaderFields DEF ReaderSound
  <2>4. /\ UnchangedWriting /\ UNCHANGED <<checkpoints, taker, taken>>
        /\ reader' = [reader EXCEPT ![r] = t]
    BY <1>10 DEF ReadEntries
  <2> HIDE DEF t
  <2> QED BY <1>reader, <2>3, <2>4
<1>11. CASE Clear
  BY <1>11, <1>type, <1>frame DEF Clear, SoundInv
<1>12. CASE Rebuild
  BY <1>12, <1>numbers DEF Rebuild, TypeOK
<1>13. CASE UNCHANGED vars
  <2>1. UnchangedWriting /\ UNCHANGED <<checkpoints, taker, taken, reader>>
    BY <1>13 DEF vars, UnchangedWriting
  <2> QED BY <1>type, <1>frame, <2>1 DEF SoundInv
<1> QED
  BY <1>1, <1>2, <1>3, <1>4, <1>5, <1>6, <1>7, <1>8, <1>9, <1>10, <1>11, <1>12, <1>13
  DEF Next, TakerStep, ReaderStep

-----------------------------------------------------------------------------
(* Whatever writers do, only transactions from x on add at or below m.     *)
LEMMA OpenFromFrame ==
    ASSUME TypeOK, TypeOK', WriterEffect, NEW m \in Nat, NEW x \in Nat, OpenFrom(m, x)
    PROVE  /\ OpenFrom(m, x)'
           /\ \A a : \A e \in UpTo(a, m)' \ UpTo(a, m) : e.xid >= x
<1>1. lastId \in Nat /\ lastId' \in Nat
  BY DEF TypeOK
<1>2. \A u \in Writers : \A e \in held[u] \cup held'[u] : e.id \in Nat
  BY DEF TypeOK, Entry
<1>3. OpenFrom(m, x)'
  BY <1>1, <1>2 DEF OpenFrom, WriterEffect
<1>4. \A e \in journal' \ journal : e.id <= m => e.xid >= x
  BY <1>2 DEF OpenFrom, WriterEffect
<1> QED BY <1>3, <1>4 DEF UpTo, EntriesOf

(* When the drain is over, no open transaction is older than its xmax0:    *)
(* one below the present xmax has been waited for, one above it is younger *)
(* than the xmax that has come to reach xmax0.                             *)
LEMMA DrainWaitsForOlder ==
    ASSUME TypeOK, NumbersInv, NEW k \in Takers, TakerYoung(taker[k]), Drained(k)
    PROVE  OpenFrom(taker[k].wm, taker[k].xmax0)
<1>1. taker[k].wm \in Nat /\ taker[k].xmax0 \in Nat /\ completed \in Nat
  BY DEF TypeOK
<1>2. \A w \in Writers : xid[w] \in Nat
  BY DEF TypeOK
<1>3. ASSUME NEW w \in Writers, NEW e \in held[w] PROVE e.xid >= taker[k].xmax0
  <2>1. xid[w] # 0 /\ e.xid = xid[w]
    BY <1>3 DEF NumbersInv
  <2>2. Xmax >= taker[k].xmax0 /\ (xid[w] < Xmax => xid[w] >= taker[k].xmax0)
    BY <2>1 DEF Drained, XminReaches
  <2>3. Xmax \in Nat
    BY <1>1 DEF Xmax
  <2> QED BY <1>1, <1>2, <2>1, <2>2, <2>3
<1> QED BY <1>3 DEF OpenFrom, TakerYoung

LEMMA YoungStep ==
    ASSUME YoungInv, [Next]_vars, gen' = 0
    PROVE  YoungInv'
<1> USE ConstantsAssumption
<1>sound. SoundInv /\ SoundInv'
  BY SoundStep DEF YoungInv
<1>numbers. TypeOK /\ TypeOK' /\ NumbersInv
  BY <1>sound DEF SoundInv
<1>frame. ASSUME UnchangedWriting
          PROVE  /\ \A c : MissesFrom(c)' = MissesFrom(c)
                 /\ \A t : TakerYoung(t)' = TakerYoung(t)
                 /\ \A t : ReaderYoung(t)' = ReaderYoung(t)
  BY <1>frame, ReadsFrame
  DEF UnchangedWriting, MissesFrom, OpenFrom, TakerYoung, ReaderYoung
<1>taker. ASSUME NEW k \in Takers, NEW t, taker' = [taker EXCEPT ![k] = t], TakerYoung(t),
                 UnchangedWriting, UNCHANGED reader, \A c \in checkpoints' : MissesFrom(c)
          PROVE  YoungInv'
  <2>1. \A j \in Takers : taker'[j] = taker[j] \/ taker'[j] = t
    BY <1>taker, <1>numbers DEF TypeOK
  <2>2. (\A j \in Takers : TakerYoung(taker[j]))'
    BY <1>taker, <1>frame, <2>1 DEF YoungInv
  <2>3. (\A r \in Readers : ReaderYoung(reader[r]))'
    BY <1>taker, <1>frame DEF YoungInv
  <2>4. (\A c \in checkpoints : MissesFrom(c))'
    BY <1>taker, <1>frame
  <2> QED BY <1>sound, <2>2, <2>3, <2>4 DEF YoungInv
<1>reader. ASSUME NEW r \in Readers, NEW t, reader' = [reader EXCEPT ![r] = t], ReaderYoung(t),
                  UnchangedWriting, UNCHANGED <<checkpoints, taker, taken>>
           PROVE  YoungInv'
  <2>1. \A q \in Readers : reader'[q] = reader[q] \/ reader'[q] = t
    BY <1>reader, <1>numbers DEF TypeOK
  <2>2. (\A q \in Readers : ReaderYoung(reader[q]))'
    BY <1>reader, <1>frame, <2>1 DEF YoungInv
  <2>3. (\A k \in Takers : TakerYoung(taker[k]))'
    BY <1>reader, <1>frame DEF YoungInv
  <2>4. (\A c \in checkpoints : MissesFrom(c))'
    BY <1>reader, <1>frame DEF YoungInv
  <2> QED BY <1>sound, <2>2, <2>3, <2>4 DEF YoungInv
<1>idle. TakerYoung(IdleTaker)
  BY <1>numbers, TakerFields DEF TakerYoung, IdleTaker, TypeOK
<1>wm. \A k \in Takers : taker[k].wm \in Nat /\ taker[k].xmax0 \in Nat /\ taker[k].wm <= lastId
  BY <1>numbers DEF TypeOK, YoungInv, TakerYoung
<1>1. ASSUME NEW w \in Writers, WriterStep(w) PROVE YoungInv'
  <2>1. WriterEffect
    BY <1>1, <1>numbers, WriterFrame
  <2>2. ASSUME NEW m \in Nat, NEW x \in Nat, OpenFrom(m, x)
        PROVE  OpenFrom(m, x)' /\ \A a : \A e \in UpTo(a, m)' \ UpTo(a, m) : e.xid >= x
    BY <1>numbers, <2>1, <2>2, OpenFromFrame
  <2>3. ASSUME NEW c \in Checkpoint, MissesFrom(c) PROVE MissesFrom(c)'
    <3>1. c.watermark \in Nat /\ c.xmax0 \in Nat
      BY DEF Checkpoint
    <3>2. OpenFrom(c.watermark, c.xmax0)' /\
          \A e \in UpTo(c.account, c.watermark)' \ UpTo(c.account, c.watermark) : e.xid >= c.xmax0
      BY <2>2, <2>3, <3>1 DEF MissesFrom
    <3> QED BY <2>3, <3>2 DEF MissesFrom
  <2>4. ASSUME NEW k \in Takers PROVE TakerYoung(taker[k])'
    <3> DEFINE t == taker[k]
    <3>1. /\ t.wm \in Nat /\ t.xmax0 \in Nat /\ t.rows \subseteq Checkpoint
          /\ lastId \in Nat /\ lastId' \in Nat
      BY <1>numbers DEF TypeOK
    <3>2. taker' = taker /\ lastId <= lastId'
      BY <2>1 DEF WriterEffect, UnchangedReading
    <3>3. TakerYoung(t)
      BY DEF YoungInv
    <3>4. t.pc \in {"sum", "store"} => OpenFrom(t.wm, t.xmax0)'
      <4>1. t.pc \in {"sum", "store"} => OpenFrom(t.wm, t.xmax0)
        BY <3>3 DEF TakerYoung
      <4> QED BY <2>2, <3>1, <3>2, <4>1
    <3>5. \A c \in t.rows : MissesFrom(c)'
      BY <2>3, <3>1, <3>3 DEF TakerYoung
    <3>6. t.wm <= lastId'
      BY <3>1, <3>2, <3>3 DEF TakerYoung
    <3> QED BY <3>2, <3>4, <3>5, <3>6 DEF TakerYoung
  <2>5. ASSUME NEW r \in Readers PROVE ReaderYoung(reader[r])'
    <3> DEFINE t == reader[r]
    <3>1. t.wm \in Nat /\ t.xmax0 \in Nat /\ reader' = reader
      BY <1>numbers, <2>1 DEF TypeOK, WriterEffect, UnchangedReading
    <3>2. ReaderYoung(t)
      BY DEF YoungInv
    <3>3. ASSUME t.pc \in {"head", "delta"}
          PROVE  /\ OpenFrom(t.wm, t.xmax0)'
                 /\ \A e \in UpTo(t.account, t.wm)' \ t.base : e.xid >= t.xmax0
      <4>1. OpenFrom(t.wm, t.xmax0) /\ \A e \in UpTo(t.account, t.wm) \ t.base : e.xid >= t.xmax0
        BY <3>2, <3>3 DEF ReaderYoung
      <4>2. /\ OpenFrom(t.wm, t.xmax0)'
            /\ \A e \in UpTo(t.account, t.wm)' \ UpTo(t.account, t.wm) : e.xid >= t.xmax0
        BY <2>2, <3>1, <4>1
      <4> QED BY <4>1, <4>2
    <3> QED BY <3>1, <3>2, <3>3 DEF ReaderYoung
  <2>6. (\A c \in checkpoints : MissesFrom(c))'
    BY <1>numbers, <2>1, <2>3 DEF TypeOK, YoungInv, WriterEffect, UnchangedReading
  <2> QED BY <1>sound, <2>4, <2>5, <2>6 DEF YoungInv
<1>2. ASSUME NEW k \in Takers, ReadWatermark(k) PROVE YoungInv'
  <2>1. PICK m \in 0 .. lastId : taker' = [taker EXCEPT ![k] = TakerAt("xmax", m, 0, {})]
    BY <1>2 DEF ReadWatermark
  <2>2. TakerYoung(TakerAt("xmax", m, 0, {}))
    BY <1>numbers, TakerFields DEF TakerYoung, TypeOK
  <2> QED BY <1>2, <1>taker, <2>1, <2>2 DEF ReadWatermark, YoungInv
<1>3. ASSUME NEW k \in Takers, ReadXmax(k) PROVE YoungInv'
  <2>1. TakerYoung(TakerAt("drain", taker[k].wm, Xmax, {}))
    BY <1>wm, <1>numbers, TakerFields DEF TakerYoung, Xmax, NumbersInv
  <2> QED BY <1>3, <1>taker, <2>1 DEF ReadXmax, YoungInv
<1>4. ASSUME NEW k \in Takers, Drained(k) PROVE YoungInv'
  <2>1. OpenFrom(taker[k].wm, taker[k].xmax0)
    BY <1>4, <1>numbers, DrainWaitsForOlder DEF YoungInv
  <2>2. TakerYoung(TakerAt("sum", taker[k].wm, taker[k].xmax0, {}))
    BY <1>wm, <2>1, TakerFields DEF TakerYoung
  <2> QED BY <1>4, <1>taker, <2>2 DEF Drained, YoungInv
<1>5. ASSUME NEW k \in Takers, DrainTimesOut(k) \/ FinishSnapshot(k) \/ CrashTaker(k)
      PROVE  YoungInv'
  BY <1>5, <1>taker, <1>idle DEF DrainTimesOut, FinishSnapshot, CrashTaker, YoungInv
<1>6. ASSUME NEW k \in Takers, Sum(k) PROVE YoungInv'
  <2> DEFINE t == TakerAt("store", taker[k].wm, taker[k].xmax0,
                         SumRows(taker[k].wm, taker[k].xmax0))
  <2>1. \A c \in SumRows(taker[k].wm, taker[k].xmax0) :
            /\ c.covers = UpTo(c.account, c.watermark)
            /\ c.watermark = taker[k].wm /\ c.xmax0 = taker[k].xmax0
    BY DEF SumRows
  <2>2. OpenFrom(taker[k].wm, taker[k].xmax0)
    BY <1>6 DEF Sum, YoungInv, TakerYoung
  <2>5. \A c \in SumRows(taker[k].wm, taker[k].xmax0) : MissesFrom(c)
    BY <2>1, <2>2 DEF MissesFrom
  <2>3. TakerYoung(t)
    BY <1>wm, <2>2, <2>5, TakerFields DEF TakerYoung
  <2>4. taker' = [taker EXCEPT ![k] = t]
    BY <1>6 DEF Sum
  <2> HIDE DEF t
  <2> QED BY <1>6, <1>taker, <2>3, <2>4 DEF Sum, YoungInv
<1>7. ASSUME NEW k \in Takers, Store(k) PROVE YoungInv'
  <2>1. PICK row \in taker[k].rows :
          /\ checkpoints' = {row} \cup
                {c \in checkpoints : c.account # row.account \/ c.watermark # row.watermark}
          /\ taker' = [taker EXCEPT ![k] = TakerAt("store", taker[k].wm, taker[k].xmax0, taker[k].rows \ {row})]
    BY <1>7 DEF Store
  <2> DEFINE t == TakerAt("store", taker[k].wm, taker[k].xmax0, taker[k].rows \ {row})
  <2>2. (\A c \in taker[k].rows : MissesFrom(c)) /\ OpenFrom(taker[k].wm, taker[k].xmax0)
    BY <1>7 DEF YoungInv, TakerYoung, Store
  <2>3. TakerYoung(t)
    BY <1>wm, <2>2, TakerFields DEF TakerYoung
  <2>4. \A c \in checkpoints' : MissesFrom(c)
    BY <2>1, <2>2 DEF YoungInv
  <2>5. UnchangedWriting /\ UNCHANGED reader
    BY <1>7 DEF Store
  <2>6. taker' = [taker EXCEPT ![k] = t]
    BY <2>1
  <2> HIDE DEF t
  <2> QED BY <1>taker, <2>3, <2>4, <2>5, <2>6
<1>8. ASSUME NEW r \in Readers, NEW a \in Accounts, ReadCheckpoint(r, a) PROVE YoungInv'
  <2>1. ReaderYoung(ReaderAt("scan", a, 0, 0, {}, {}, {}))
    BY ReaderFields DEF ReaderYoung
  <2>2. \A c \in checkpoints : c.account = a =>
            ReaderYoung(ReaderAt("head", a, c.watermark, c.xmax0, c.covers, {}, {}))
    BY ReaderFields DEF ReaderYoung, YoungInv, MissesFrom
  <2> QED BY <1>8, <1>reader, <2>1, <2>2 DEF ReadCheckpoint
<1>9. ASSUME NEW r \in Readers, CheckHead(r) \/ Answer(r) PROVE YoungInv'
  <2>1. ReaderYoung(IdleReader)
    BY ReaderFields DEF ReaderYoung, IdleReader
  <2> DEFINE t == ReaderAt("delta", reader[r].account, reader[r].wm, reader[r].xmax0,
                          reader[r].base, {}, {})
  <2>2. reader[r].pc = "head" => ReaderYoung(t)
    BY ReaderFields DEF ReaderYoung, YoungInv
  <2>3. /\ UnchangedWriting /\ UNCHANGED <<checkpoints, taker, taken>>
        /\ \/ reader' = [reader EXCEPT ![r] = IdleReader]
           \/ reader[r].pc = "head" /\ reader' = [reader EXCEPT ![r] = t]
    BY <1>9 DEF CheckHead, Answer
  <2> HIDE DEF t
  <2> QED BY <1>reader, <2>1, <2>2, <2>3
<1>10. ASSUME NEW r \in Readers, ReadEntries(r) PROVE YoungInv'
  <2> DEFINE d == IF reader[r].pc = "scan" THEN EntriesOf(reader[r].account)
                  ELSE After(reader[r].account, reader[r].wm)
             t == ReaderAt("answered", reader[r].account, reader[r].wm, reader[r].xmax0,
                           reader[r].base, d, EntriesOf(reader[r].account))
  <2>1. reader[r].wm \in Nat /\ \A e \in journal : e.id \in Nat
    BY <1>numbers DEF TypeOK, Entry
  <2>2. ReaderYoung(reader[r]) /\ ReaderSound(reader[r])
    BY DEF YoungInv, SoundInv
  <2>3. \A e \in EntriesOf(reader[r].account) \ (reader[r].base \cup d) :
            e.id <= reader[r].wm /\ e.xid >= reader[r].xmax0
    BY <1>10, <2>1, <2>2 DEF ReadEntries, ReaderYoung, ReaderSound, UpTo, After, EntriesOf
  <2>4. ReaderYoung(t)
    BY <2>3, ReaderFields DEF ReaderYoung
  <2>5. /\ UnchangedWriting /\ UNCHANGED <<checkpoints, taker, taken>>
        /\ reader' = [reader EXCEPT ![r] = t]
    BY <1>10 DEF ReadEntries
  <2> HIDE DEF t
  <2> QED BY <1>reader, <2>4, <2>5
<1>11. CASE Clear
  BY <1>11, <1>sound, <1>frame DEF Clear, YoungInv
<1>12. CASE Rebuild
  BY <1>12, <1>numbers DEF Rebuild, TypeOK
<1>13. CASE UNCHANGED vars
  <2>1. UnchangedWriting /\ UNCHANGED <<checkpoints, taker, taken, reader>>
    BY <1>13 DEF vars, UnchangedWriting
  <2> QED BY <1>sound, <1>frame, <2>1 DEF YoungInv
<1> QED
  BY <1>1, <1>2, <1>3, <1>4, <1>5, <1>6, <1>7, <1>8, <1>9, <1>10, <1>11, <1>12, <1>13
  DEF Next, TakerStep, ReaderStep

-----------------------------------------------------------------------------
LEMMA InitSound == Init => SoundInv
<1> SUFFICES ASSUME Init PROVE SoundInv
  OBVIOUS
<1>1. TypeOK
  BY ConstantsAssumption DEF Init, TypeOK, IdleTaker, TakerAt, IdleReader, ReaderAt
<1>2. TakerSound(IdleTaker)
  BY TakerFields DEF TakerSound, IdleTaker
<1>3. ReaderSound(IdleReader)
  BY ReaderFields DEF ReaderSound, IdleReader
<1> QED BY <1>1, <1>2, <1>3 DEF Init, SoundInv, NumbersInv

LEMMA InitYoung == Init => YoungInv
<1> SUFFICES ASSUME Init PROVE YoungInv
  OBVIOUS
<1>1. TakerYoung(IdleTaker)
  BY TakerFields DEF TakerYoung, IdleTaker, Init
<1>2. ReaderYoung(IdleReader)
  BY ReaderFields DEF ReaderYoung, IdleReader
<1> QED BY <1>1, <1>2, InitSound DEF Init, YoungInv

(* Every variable keeps its type, rebuilds included. *)
THEOREM TypeCorrect == Spec => []TypeOK
<1>1. Init => TypeOK
  BY InitSound DEF SoundInv
<1>2. TypeOK /\ [Next]_vars => TypeOK'
  BY TypeStep
<1> QED BY <1>1, <1>2, PTL DEF Spec

(* A journal that is not rebuilt now never was. *)
LEMMA NeverRebuilt ==
    ASSUME TypeOK, [Next]_vars, gen' = 0
    PROVE  gen = 0
<1>1. UnchangedWriting => gen' = gen
  BY DEF UnchangedWriting
<1>2. ASSUME NEW w \in Writers, WriterStep(w) PROVE gen' = gen
  BY <1>2 DEF WriterStep, BeginPosting, InsertEntry, CommitPosting, AbortPosting, EndTransaction
<1>3. ASSUME NEW k \in Takers, ReadWatermark(k) \/ TakerStep(k) \/ CrashTaker(k)
      PROVE  gen' = gen
  BY <1>1, <1>3 DEF ReadWatermark, TakerStep, CrashTaker, ReadXmax, Drained, DrainTimesOut,
                    Sum, Store, FinishSnapshot
<1>4. ASSUME NEW r \in Readers, ReaderStep(r) \/ (\E a \in Accounts : ReadCheckpoint(r, a))
      PROVE  gen' = gen
  BY <1>1, <1>4 DEF ReaderStep, CheckHead, ReadEntries, Answer, ReadCheckpoint
<1>5. Clear => gen' = gen
  BY <1>1 DEF Clear
<1>6. ~Rebuild
  BY DEF Rebuild, TypeOK
<1>7. UNCHANGED vars => gen' = gen
  BY DEF vars
<1> QED BY <1>2, <1>3, <1>4, <1>5, <1>6, <1>7 DEF Next

(* Whatever the drain missed, balance() adds up no entry twice and none    *)
(* that did not commit, as long as the journal is not rebuilt.             *)
THEOREM AnswersInventNothing == Spec => []NothingInvented
<1> DEFINE IInv == TypeOK /\ (gen = 0 => SoundInv)
<1>1. Init => IInv
  BY InitSound DEF SoundInv
<1>2. IInv /\ [Next]_vars => IInv'
  BY NeverRebuilt, TypeStep, SoundStep
<1>3. IInv => NothingInvented
  BY DEF SoundInv, ReaderSound, NothingInvented
<1> QED BY <1>1, <1>2, <1>3, PTL DEF Spec

LEMMA YoungInvariance == Spec => [](gen = 0 => YoungInv)
<1> DEFINE IInv == TypeOK /\ (gen = 0 => YoungInv)
<1>1. Init => IInv
  BY InitYoung DEF YoungInv, SoundInv
<1>2. IInv /\ [Next]_vars => IInv'
  BY NeverRebuilt, TypeStep, YoungStep
<1>3. IInv => (gen = 0 => YoungInv)
  OBVIOUS
<1> QED BY <1>1, <1>2, <1>3, PTL DEF Spec

(* The drain's guarantee with what PostgreSQL really returns: a stored     *)
(* checkpoint lacks nothing of a transaction that was older than the       *)
(* youngest one to have ended when take_snapshot read xmax, and nothing of *)
(* such a transaction can still be added below its watermark.              *)
THEOREM CheckpointsMissOnlyYoungest == Spec => []OnlyYoungestMissed
<1>1. (gen = 0 => YoungInv) => OnlyYoungestMissed
  BY DEF YoungInv, MissesFrom, OpenFrom, OnlyYoungestMissed
<1> QED BY <1>1, YoungInvariance, PTL

(* And balance(), whatever happens between its three statements, misses    *)
(* only what its checkpoint missed.                                        *)
THEOREM AnswersMissNothingElse == Spec => []ReadsMissNothingElse
<1>1. (gen = 0 => YoungInv) => ReadsMissNothingElse
  BY DEF YoungInv, ReaderYoung, ReadsMissNothingElse
<1> QED BY <1>1, YoungInvariance, PTL

-----------------------------------------------------------------------------
(* StaleSnapshot.                                                          *)

(* The journal has come as far as this watermark. *)
Reached(m) == m = 0 \/ \E e \in journal : e.id >= m

(* Every watermark was the journal's head once, whether or not the drain   *)
(* missed something below it.                                              *)
WatermarksReached ==
    /\ \A c \in checkpoints : Reached(c.watermark)
    /\ \A k \in Takers : Reached(taker[k].wm)
    /\ \A k \in Takers : \A c \in taker[k].rows : Reached(c.watermark)
    /\ \A r \in Readers : reader[r].pc = "head" => Reached(reader[r].wm)

AlarmInv == TypeOK /\ (gen = 0 => WatermarksReached)

LEMMA ReachedStays ==
    ASSUME journal \subseteq journal', NEW m, Reached(m)
    PROVE  Reached(m)'
BY DEF Reached

LEMMA WritersKeepEntries ==
    ASSUME NEW w \in Writers, WriterStep(w)
    PROVE  UnchangedReading /\ journal \subseteq journal'
BY DEF WriterStep, BeginPosting, InsertEntry, CommitPosting, AbortPosting, EndTransaction

LEMMA ReachedStep ==
    ASSUME TypeOK, WatermarksReached, [Next]_vars, gen' = 0
    PROVE  WatermarksReached'
<1>types. /\ taker \in [Takers -> TakerType] /\ reader \in [Readers -> ReaderType]
          /\ lastId \in Nat
  BY DEF TypeOK, TakerType, ReaderType
<1>keeps. ASSUME journal \subseteq journal', checkpoints' \subseteq checkpoints,
                 UNCHANGED <<taker, reader>>
          PROVE  WatermarksReached'
  BY <1>keeps, ReachedStays DEF WatermarksReached
<1>taker. ASSUME NEW k \in Takers, NEW t, taker' = [taker EXCEPT ![k] = t], UnchangedWriting,
                 UNCHANGED reader, Reached(t.wm), \A c \in t.rows : Reached(c.watermark),
                 \A c \in checkpoints' : Reached(c.watermark)
          PROVE  WatermarksReached'
  <2>1. \A j \in Takers : taker'[j] = taker[j] \/ taker'[j] = t
    BY <1>taker, <1>types
  <2>2. \A m : Reached(m) => Reached(m)'
    BY <1>taker, ReachedStays DEF UnchangedWriting
  <2> QED BY <1>taker, <2>1, <2>2 DEF WatermarksReached
<1>reader. ASSUME NEW r \in Readers, NEW t, reader' = [reader EXCEPT ![r] = t], UnchangedWriting,
                  UNCHANGED <<checkpoints, taker, taken>>, t.pc = "head" => Reached(t.wm)
           PROVE  WatermarksReached'
  <2>1. \A q \in Readers : reader'[q] = reader[q] \/ reader'[q] = t
    BY <1>reader, <1>types
  <2>2. \A m : Reached(m) => Reached(m)'
    BY <1>reader, ReachedStays DEF UnchangedWriting
  <2> QED BY <1>reader, <2>1, <2>2 DEF WatermarksReached
<1>empty. ASSUME NEW k \in Takers, NEW kind, NEW m, NEW x, Reached(m),
                 taker' = [taker EXCEPT ![k] = TakerAt(kind, m, x, {})], UnchangedWriting,
                 UNCHANGED <<checkpoints, reader>>
          PROVE  WatermarksReached'
  <2>1. TakerAt(kind, m, x, {}).wm = m /\ TakerAt(kind, m, x, {}).rows = {}
    BY TakerFields
  <2>2. \A c \in checkpoints' : Reached(c.watermark)
    BY <1>empty DEF WatermarksReached
  <2> QED BY <1>empty, <1>taker, <2>1, <2>2
<1>1. ASSUME NEW w \in Writers, WriterStep(w) PROVE WatermarksReached'
  BY <1>1, <1>keeps, WritersKeepEntries DEF UnchangedReading
<1>2. ASSUME NEW k \in Takers, ReadWatermark(k) PROVE WatermarksReached'
  <2>1. PICK m \in 0 .. lastId :
            IsHead(m) /\ taker' = [taker EXCEPT ![k] = TakerAt("xmax", m, 0, {})]
    BY <1>2 DEF ReadWatermark
  <2>2. Reached(m)
    BY <1>types, <2>1 DEF IsHead, Reached
  <2> QED BY <1>2, <1>empty, <2>1, <2>2 DEF ReadWatermark
<1>3. ASSUME NEW k \in Takers, ReadXmax(k) \/ Drained(k) PROVE WatermarksReached'
  <2>1. Reached(taker[k].wm)
    BY DEF WatermarksReached
  <2> QED BY <1>3, <1>empty, <2>1 DEF ReadXmax, Drained
<1>4. ASSUME NEW k \in Takers, DrainTimesOut(k) \/ FinishSnapshot(k) \/ CrashTaker(k)
      PROVE  WatermarksReached'
  <2>1. Reached(0)
    BY DEF Reached
  <2> QED BY <1>4, <1>empty, <2>1 DEF DrainTimesOut, FinishSnapshot, CrashTaker, IdleTaker
<1>5. ASSUME NEW k \in Takers, Sum(k) PROVE WatermarksReached'
  <2> DEFINE t == TakerAt("store", taker[k].wm, taker[k].xmax0,
                         SumRows(taker[k].wm, taker[k].xmax0))
  <2>1. Reached(taker[k].wm)
    BY DEF WatermarksReached
  <2>2. t.wm = taker[k].wm /\ t.rows = SumRows(taker[k].wm, taker[k].xmax0)
    BY TakerFields
  <2>3. \A c \in SumRows(taker[k].wm, taker[k].xmax0) : c.watermark = taker[k].wm
    BY DEF SumRows
  <2>4. taker' = [taker EXCEPT ![k] = t] /\ UnchangedWriting /\ UNCHANGED <<checkpoints, reader>>
    BY <1>5 DEF Sum
  <2> HIDE DEF t
  <2>5. \A c \in checkpoints' : Reached(c.watermark)
    BY <2>4 DEF WatermarksReached
  <2> QED BY <1>taker, <2>1, <2>2, <2>3, <2>4, <2>5
<1>6. ASSUME NEW k \in Takers, Store(k) PROVE WatermarksReached'
  <2>1. PICK row \in taker[k].rows :
          /\ checkpoints' = {row} \cup
                {c \in checkpoints : c.account # row.account \/ c.watermark # row.watermark}
          /\ taker' = [taker EXCEPT ![k] =
                          TakerAt("store", taker[k].wm, taker[k].xmax0, taker[k].rows \ {row})]
    BY <1>6 DEF Store
  <2> DEFINE t == TakerAt("store", taker[k].wm, taker[k].xmax0, taker[k].rows \ {row})
  <2>2. t.wm = taker[k].wm /\ t.rows = taker[k].rows \ {row}
    BY TakerFields
  <2> HIDE DEF t
  <2>3. Reached(t.wm) /\ \A c \in t.rows : Reached(c.watermark)
    BY <2>2 DEF WatermarksReached
  <2>4. \A c \in checkpoints' : Reached(c.watermark)
    BY <2>1 DEF WatermarksReached
  <2> QED BY <1>6, <1>taker, <2>1, <2>3, <2>4 DEF Store, t
<1>7. ASSUME NEW r \in Readers, NEW a \in Accounts, ReadCheckpoint(r, a)
      PROVE  WatermarksReached'
  <2>1. UnchangedWriting /\ UNCHANGED <<checkpoints, taker, taken>>
    BY <1>7 DEF ReadCheckpoint
  <2>2. CASE reader' = [reader EXCEPT ![r] = ReaderAt("scan", a, 0, 0, {}, {}, {})]
    <3> DEFINE t == ReaderAt("scan", a, 0, 0, {}, {}, {})
    <3>1. t.pc = "scan"
      BY ReaderFields
    <3> QED BY <1>reader, <2>1, <2>2, <3>1
  <2>3. ASSUME NEW c \in checkpoints,
               reader' = [reader EXCEPT ![r] = ReaderAt("head", a, c.watermark, c.xmax0, c.covers, {}, {})]
        PROVE  WatermarksReached'
    <3> DEFINE t == ReaderAt("head", a, c.watermark, c.xmax0, c.covers, {}, {})
    <3>1. t.wm = c.watermark
      BY ReaderFields
    <3>2. reader' = [reader EXCEPT ![r] = t]
      BY <2>3
    <3>3. Reached(c.watermark)
      BY DEF WatermarksReached
    <3> HIDE DEF t
    <3> QED BY <1>reader, <2>1, <3>1, <3>2, <3>3
  <2> QED BY <1>7, <2>2, <2>3 DEF ReadCheckpoint
<1>8. ASSUME NEW r \in Readers, ReaderStep(r) PROVE WatermarksReached'
  <2>1. \A kind, a, m, x, b, d, s : ReaderAt(kind, a, m, x, b, d, s).pc = kind
    BY ReaderFields
  <2>2. PICK t : reader' = [reader EXCEPT ![r] = t] /\ t.pc # "head"
    BY <1>8, <2>1 DEF ReaderStep, CheckHead, ReadEntries, Answer, IdleReader
  <2>3. UnchangedWriting /\ UNCHANGED <<checkpoints, taker, taken>>
    BY <1>8 DEF ReaderStep, CheckHead, ReadEntries, Answer
  <2> QED BY <1>reader, <2>2, <2>3
<1>9. CASE Clear
  BY <1>9, <1>keeps DEF Clear, UnchangedWriting
<1>10. CASE Rebuild
  BY <1>10 DEF Rebuild, TypeOK
<1>11. CASE UNCHANGED vars
  BY <1>11, <1>keeps DEF vars
<1> QED BY <1>1, <1>2, <1>3, <1>4, <1>5, <1>6, <1>7, <1>8, <1>9, <1>10, <1>11
        DEF Next, TakerStep

(* A step of balance() that ends at the head check raises StaleSnapshot.   *)
LEMMA AlarmsOfAStep ==
    ASSUME AlarmInv, [Next]_vars, NEW r \in Readers,
           reader[r].pc = "head", reader'[r].pc = "idle"
    PROVE  gen > 0
<1>types. reader \in [Readers -> ReaderType] /\ gen \in Nat /\ journal \subseteq Entry
  BY DEF AlarmInv, TypeOK, ReaderType
<1>pc. \A kind, a, m, x, b, d, s : ReaderAt(kind, a, m, x, b, d, s).pc = kind
  BY ReaderFields
<1>1. UNCHANGED reader => FALSE
  OBVIOUS
<1>2. ASSUME NEW q \in Readers, NEW t, q # r, reader' = [reader EXCEPT ![q] = t] PROVE FALSE
  BY <1>2, <1>types
<1>3. CASE CheckHead(r)
  <2>1. CASE \E m \in 0 .. lastId : IsHead(m) /\ reader[r].wm > m
    <3>1. PICK m \in 0 .. lastId : IsHead(m) /\ reader[r].wm > m
      BY <2>1
    <3>2. reader[r].wm \in Nat /\ m \in Nat /\ \A e \in journal : e.id \in Nat /\ e.id <= m
      BY <1>types, <3>1 DEF ReaderType, IsHead, Entry
    <3>3. ~Reached(reader[r].wm)
      BY <3>1, <3>2 DEF Reached
    <3> QED BY <1>types, <3>3 DEF AlarmInv, WatermarksReached
  <2>2. CASE ~\E m \in 0 .. lastId : IsHead(m) /\ reader[r].wm > m
    <3>1. reader'[r].pc = "delta"
      BY <1>3, <1>pc, <1>types, <2>2 DEF CheckHead
    <3> QED BY <3>1
  <2> QED BY <2>1, <2>2
<1>4. ASSUME NEW q \in Readers, q # r, ReaderStep(q) PROVE FALSE
  BY <1>2, <1>4 DEF ReaderStep, CheckHead, ReadEntries, Answer
<1>5. ASSUME NEW q \in Readers, NEW a \in Accounts, ReadCheckpoint(q, a) PROVE FALSE
  <2>1. q # r
    BY <1>5 DEF ReadCheckpoint
  <2> QED BY <1>2, <1>5, <2>1 DEF ReadCheckpoint
<1>6. ~ReadEntries(r) /\ ~Answer(r)
  BY DEF ReadEntries, Answer
<1>7. ASSUME NEW w \in Writers, WriterStep(w) PROVE FALSE
  BY <1>1, <1>7, WritersKeepEntries DEF UnchangedReading
<1>8. ASSUME NEW k \in Takers, ReadWatermark(k) \/ TakerStep(k) \/ CrashTaker(k) PROVE FALSE
  BY <1>1, <1>8 DEF ReadWatermark, TakerStep, CrashTaker, ReadXmax, Drained, DrainTimesOut,
                    Sum, Store, FinishSnapshot
<1>9. ~Clear /\ ~Rebuild /\ ~UNCHANGED vars
  BY <1>1 DEF Clear, Rebuild, UnchangedReading, vars
<1> QED BY <1>3, <1>4, <1>5, <1>6, <1>7, <1>8, <1>9 DEF Next, ReaderStep

(* Whatever the drain missed, crashes of takers and clear() included:      *)
(* balance() raises StaleSnapshot on a rebuilt journal only.               *)
THEOREM AlarmsAreTrue == Spec => NoFalseAlarm
<1>1. Init => AlarmInv
  <2> SUFFICES ASSUME Init PROVE AlarmInv
    OBVIOUS
  <2>1. TypeOK
    BY InitSound DEF SoundInv
  <2>2. WatermarksReached
    BY TakerFields, ReaderFields DEF Init, WatermarksReached, IdleTaker, IdleReader, Reached
  <2> QED BY <2>1, <2>2 DEF AlarmInv
<1>2. AlarmInv /\ [Next]_vars => AlarmInv'
  BY NeverRebuilt, TypeStep, ReachedStep DEF AlarmInv
<1>3. AlarmInv /\ [Next]_vars
         => [\A r \in Readers : reader[r].pc = "head" /\ reader'[r].pc = "idle" => gen > 0]_vars
  BY AlarmsOfAStep
<1> QED BY <1>1, <1>2, <1>3, PTL DEF Spec, NoFalseAlarm
=============================================================================
