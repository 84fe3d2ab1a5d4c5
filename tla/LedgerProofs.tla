---------------------------- MODULE LedgerProofs ----------------------------
(***************************************************************************)
(* Theorems about module Ledger, for every set of threads, keys, payloads  *)
(* and accounts: the bookkeeping of keys, the answers given and the floors *)
(* are invariant, the committed history only grows, and the posting path   *)
(* implements ExactlyOnce.                                                 *)
(***************************************************************************)
EXTENDS Ledger, SumTheorems, SequenceTheorems, TLAPS

Holding == {"post", "seal", "record", "commit"}

(* The lock is held by the one thread inside its transaction. *)
LockInv ==
    /\ \A t \in Threads : pc[t] \in Holding <=> writer = t
    /\ writer = NoThread => work = db

CallInv ==
    \A t \in Threads :
        /\ pc[t] # "idle" => call[t] \in Requests
        /\ pc[t] \in {"lookup", "record", "recheck"} => call[t].key # NoKey

(* The posting of t is the newest of the private copy. *)
Appended(t) ==
    /\ work.journal = Append(db.journal, call[t])
    /\ txnId[t] = Len(db.journal) + 1

(* How far the private copy has got, by the step its writer is at. *)
WorkInv ==
    \A t \in Threads :
        /\ pc[t] = "post" => work = db
        /\ pc[t] = "seal" =>
              /\ Appended(t)
              /\ work.sealed = db.sealed
              /\ work.keys = db.keys
              /\ \A a \in Accounts \ Touches[call[t].payload] :
                    work.balance[a] = db.balance[a]
        /\ pc[t] \in {"record", "commit"} =>
              /\ Appended(t)
              /\ work.sealed = db.sealed \cup {txnId[t]}
              /\ \A a \in Accounts \ Overdraft : work.balance[a] >= Floor[a]
        /\ pc[t] = "record" \/ (pc[t] = "commit" /\ call[t].key = NoKey) =>
              work.keys = db.keys
        /\ pc[t] = "commit" /\ call[t].key # NoKey =>
              /\ ~KeyTaken(db, call[t].key)
              /\ work.keys = db.keys \cup {[key     |-> call[t].key,
                                            payload |-> call[t].payload,
                                            txn     |-> txnId[t]]}

(* A committed call still holds the id its answer will carry. *)
ReplyInv ==
    \A t \in Threads :
        pc[t] = "reply" =>
            /\ txnId[t] \in db.sealed
            /\ db.journal[txnId[t]] = call[t]

IInv ==
    /\ TypeOK
    /\ LockInv
    /\ CallInv
    /\ WorkInv
    /\ ReplyInv
    /\ KeysMatchJournal
    /\ AnswersHold
    /\ FloorsHeld

-----------------------------------------------------------------------------
(* A request has the two fields the steps read.                            *)
LEMMA RequestFields ==
    \A r \in Requests : r = [key |-> r.key, payload |-> r.payload]
                        /\ r.key \in Keys \cup {NoKey} /\ r.payload \in Payloads
BY NamesAssumption

(* What inserting a posting does to a database. *)
LEMMA Inserting ==
    ASSUME NEW d \in Database, NEW r \in Requests, NEW e,
           e = [d EXCEPT !.journal = Append(@, r),
                         !.balance = ApplyEntries(@, r.payload)]
    PROVE  /\ e \in Database
           /\ e.journal = Append(d.journal, r)
           /\ e.balance = ApplyEntries(d.balance, r.payload)
           /\ e.sealed = d.sealed
           /\ e.keys = d.keys
<1> DEFINE j == Append(d.journal, r)
           b == ApplyEntries(d.balance, r.payload)
           f == [d EXCEPT !.journal = j]
<1>1. j \in Seq(Requests)
  BY DEF Database
<1>2. b \in [Accounts -> Int]
  BY BooksAssumption, RequestFields DEF Database, ApplyEntries
<1> HIDE DEF j, b
<1>3. f = [accounts |-> d.accounts, closed |-> d.closed, journal |-> j,
           sealed |-> d.sealed, balance |-> d.balance, keys |-> d.keys]
  BY DEF Database
<1>4. e = [f EXCEPT !.balance = b]
  BY DEF j, b
<1> HIDE DEF f
<1> DEFINE g == [accounts |-> d.accounts, closed |-> d.closed, journal |-> j,
                 sealed |-> d.sealed, balance |-> b, keys |-> d.keys]
<1>5. e = g
  BY <1>3, <1>4
<1>6. g \in Database
  BY <1>1, <1>2 DEF Database
<1>7. g.journal = j /\ g.balance = b /\ g.sealed = d.sealed /\ g.keys = d.keys
  OBVIOUS
<1> HIDE DEF g
<1> QED BY <1>5, <1>6, <1>7, Zenon DEF j, b

(* What sealing a transaction does to a database. *)
LEMMA Sealing ==
    ASSUME NEW d \in Database, NEW n \in Nat, NEW e,
           e = [d EXCEPT !.sealed = @ \cup {n}]
    PROVE  /\ e \in Database
           /\ e.journal = d.journal
           /\ e.balance = d.balance
           /\ e.sealed = d.sealed \cup {n}
           /\ e.keys = d.keys
BY DEF Database

(* What recording a key does to a database. *)
LEMMA Recording ==
    ASSUME NEW d \in Database, NEW row \in KeyRow, NEW e,
           e = [d EXCEPT !.keys = @ \cup {row}]
    PROVE  /\ e \in Database
           /\ e.journal = d.journal
           /\ e.balance = d.balance
           /\ e.sealed = d.sealed
           /\ e.keys = d.keys \cup {row}
BY DEF Database

(* Every step keeps every variable in its type.                            *)
LEMMA TypeStep == TypeOK /\ CallInv /\ [Next]_vars => TypeOK'
<1> SUFFICES ASSUME TypeOK, CallInv, [Next]_vars PROVE TypeOK'
  OBVIOUS
<1> USE NamesAssumption, BooksAssumption, BoundsAssumption
<1>end. \A t \in Threads : EndCall(t) =>
          /\ pc' \in [Threads -> {"idle", "lookup", "begin", "post", "seal", "record",
                                  "commit", "reply", "recheck"}]
          /\ call' \in [Threads -> Requests \cup {NoRequest}]
          /\ txnId' \in [Threads -> Nat]
  BY DEF TypeOK, EndCall, Goto
<1>abort. \A t \in Threads : Abort(t) => TypeOK'
  BY <1>end DEF TypeOK, Abort, Rollback, Refused
<1>integrity. ASSUME NEW t \in Threads, IntegrityError(t) PROVE TypeOK'
  <2>1. CASE call[t].key = NoKey
    BY <1>integrity, <2>1, <1>abort DEF IntegrityError
  <2>2. CASE call[t].key # NoKey
    <3>1. /\ writer' = NoThread /\ work' = db
          /\ pc' = [pc EXCEPT ![t] = "recheck"]
          /\ txnId' = [txnId EXCEPT ![t] = 0]
          /\ UNCHANGED <<db, call, answers, crashes>>
      BY <1>integrity, <2>2 DEF IntegrityError, Rollback, Goto
    <3> QED BY <3>1 DEF TypeOK
  <2> QED BY <2>1, <2>2
<1>replay. ASSUME NEW t \in Threads, pc[t] # "idle", NEW row \in db.keys, Replay(t, row)
           PROVE TypeOK'
  <2>1. row.txn \in Nat /\ call[t] \in Requests
    BY <1>replay DEF TypeOK, Database, KeyRow, CallInv
  <2> QED BY <1>replay, <1>end, <2>1 DEF TypeOK, Replay, Answered, Answer
<1>1. ASSUME NEW t \in Threads, NEW r \in Requests, Start(t, r) PROVE TypeOK'
  BY <1>1 DEF TypeOK, Start, Goto
<1>2. ASSUME NEW t \in Threads, Lookup(t) PROVE TypeOK'
  BY <1>2, <1>replay DEF TypeOK, Lookup, Goto
<1>3. ASSUME NEW t \in Threads, RefuseUnbalanced(t) PROVE TypeOK'
  BY <1>3, <1>abort, <1>end DEF TypeOK, RefuseUnbalanced, Refused
<1>4. ASSUME NEW t \in Threads, BeginImmediate(t) PROVE TypeOK'
  BY <1>4 DEF TypeOK, BeginImmediate, Goto
<1>5. ASSUME NEW t \in Threads, BeginTimesOut(t) PROVE TypeOK'
  BY <1>5, <1>end DEF TypeOK, BeginTimesOut, Refused
<1>6. ASSUME NEW t \in Threads, Post(t) PROVE TypeOK'
  <2>1. CASE Abort(t)
    BY <2>1, <1>abort
  <2>2. CASE IntegrityError(t)
    BY <2>2, <1>integrity
  <2>3. CASE /\ work' = [work EXCEPT
                           !.journal = Append(@, call[t]),
                           !.balance = ApplyEntries(@, call[t].payload)]
             /\ txnId' = [txnId EXCEPT ![t] = Len(work'.journal)]
             /\ Goto(t, "seal")
             /\ UNCHANGED <<db, writer, call, answers, crashes>>
    <3>1. call[t] \in Requests
      BY <1>6 DEF Post, CallInv
    <3>4. work' \in Database
      BY <2>3, <3>1, Inserting DEF TypeOK
    <3> QED BY <2>3, <3>4 DEF TypeOK, Goto
  <2> QED BY <1>6, <2>1, <2>2, <2>3 DEF Post
<1>7. ASSUME NEW t \in Threads, CheckFloorsAndSeal(t) PROVE TypeOK'
  <2>1. CASE Abort(t)
    BY <2>1, <1>abort
  <2>2. CASE /\ work' = [work EXCEPT !.sealed = @ \cup {txnId[t]}]
             /\ Goto(t, IF call[t].key = NoKey THEN "commit" ELSE "record")
             /\ UNCHANGED <<db, writer, call, txnId, answers, crashes>>
    <3>4. work' \in Database
      BY <2>2, Sealing DEF TypeOK
    <3> QED BY <2>2, <3>4 DEF TypeOK, Goto
  <2> QED BY <1>7, <2>1, <2>2 DEF CheckFloorsAndSeal
<1>8. ASSUME NEW t \in Threads, RecordKey(t) PROVE TypeOK'
  <2>1. CASE IntegrityError(t)
    BY <2>1, <1>integrity
  <2>2. CASE /\ work' = [work EXCEPT
                           !.keys = @ \cup {[key     |-> call[t].key,
                                             payload |-> call[t].payload,
                                             txn     |-> txnId[t]]}]
             /\ Goto(t, "commit")
             /\ UNCHANGED <<db, writer, call, txnId, answers, crashes>>
    <3>1. call[t] \in Requests /\ call[t].key # NoKey
      BY <1>8 DEF RecordKey, CallInv
    <3>2. [key |-> call[t].key, payload |-> call[t].payload, txn |-> txnId[t]] \in KeyRow
      BY <3>1, RequestFields DEF TypeOK, KeyRow
    <3>3. work' \in Database
      BY <2>2, <3>2, Recording DEF TypeOK
    <3> QED BY <2>2, <3>3 DEF TypeOK, Goto
  <2> QED BY <1>8, <2>1, <2>2 DEF RecordKey, NewKeyRow
<1>9. ASSUME NEW t \in Threads, Commit(t) PROVE TypeOK'
  BY <1>9 DEF TypeOK, Commit, Goto
<1>10. ASSUME NEW t \in Threads, Reply(t) PROVE TypeOK'
  <2>1. call[t] \in Requests /\ txnId[t] \in Nat
    BY <1>10 DEF Reply, CallInv, TypeOK
  <2> QED BY <1>10, <1>end, <2>1 DEF TypeOK, Reply, Answered, Answer
<1>11. ASSUME NEW t \in Threads, Recheck(t) PROVE TypeOK'
  BY <1>11, <1>replay, <1>end DEF TypeOK, Recheck, Refused
<1>12. CASE (\E a \in Accounts : OpenAccount(a)) \/ ClosePeriod \/ ReopenPeriod
  <2>1. ASSUME NEW d \in Database, OutsideWrite(d) PROVE TypeOK'
    BY <2>1 DEF TypeOK, OutsideWrite
  <2>2. /\ \A a \in Accounts : [db EXCEPT !.accounts = @ \cup {a}] \in Database
        /\ [db EXCEPT !.closed = TRUE] \in Database
        /\ [db EXCEPT !.closed = FALSE] \in Database
    BY DEF TypeOK, Database
  <2> QED BY <1>12, <2>1, <2>2 DEF OpenAccount, ClosePeriod, ReopenPeriod
<1>13. CASE Crash
  BY <1>13 DEF TypeOK, Crash, Rollback
<1>14. CASE UNCHANGED vars
  BY <1>14 DEF TypeOK, vars
<1> QED
  BY <1>1, <1>2, <1>3, <1>4, <1>5, <1>6, <1>7, <1>8, <1>9, <1>10, <1>11, <1>12,
     <1>13, <1>14 DEF Next, ThreadStep

-----------------------------------------------------------------------------
(* A call that is over leaves the lock and the private copy to the others. *)
LEMMA EndingOutside ==
    ASSUME IInv, NEW t \in Threads, pc[t] \notin Holding, EndCall(t),
           UNCHANGED <<db, work, writer>>
    PROVE  LockInv' /\ CallInv' /\ WorkInv' /\ ReplyInv'
<1>1. pc' = [pc EXCEPT ![t] = "idle"] /\ call' = [call EXCEPT ![t] = NoRequest]
      /\ txnId' = [txnId EXCEPT ![t] = 0]
  BY DEF EndCall, Goto
<1>2. LockInv'
  BY <1>1 DEF IInv, TypeOK, LockInv, Holding
<1>3. CallInv'
  BY <1>1 DEF IInv, TypeOK, CallInv
<1>4. WorkInv'
  BY <1>1 DEF IInv, TypeOK, WorkInv, Appended, KeyTaken
<1>5. ReplyInv'
  BY <1>1 DEF IInv, TypeOK, ReplyInv
<1> QED BY <1>2, <1>3, <1>4, <1>5

(* A rollback gives the lock back and leaves no trace. *)
LEMMA RollingBack ==
    ASSUME IInv, NEW t \in Threads, pc[t] \in Holding, Rollback,
           NEW label \in {"idle", "recheck"},
           pc' = [pc EXCEPT ![t] = label],
           \A u \in Threads \ {t} : call'[u] = call[u] /\ txnId'[u] = txnId[u],
           label = "recheck" => call'[t] \in Requests /\ call'[t].key # NoKey,
           UNCHANGED <<db, answers>>
    PROVE  LockInv' /\ CallInv' /\ WorkInv' /\ ReplyInv' /\ AnswersHold'
<1>1. writer = t /\ writer' = NoThread /\ work' = db
  BY DEF IInv, LockInv, Rollback
<1>2. \A u \in Threads : pc'[u] = IF u = t THEN label ELSE pc[u]
  BY DEF IInv, TypeOK
<1>3. \A u \in Threads : pc'[u] \notin Holding
  BY <1>1, <1>2 DEF IInv, LockInv, Holding
<1>4. LockInv'
  BY <1>1, <1>3, NamesAssumption DEF LockInv
<1>5. CallInv'
  BY <1>2 DEF IInv, CallInv
<1>6. WorkInv'
  BY <1>3 DEF WorkInv, Holding
<1>7. ReplyInv'
  BY <1>2 DEF IInv, ReplyInv
<1>8. AnswersHold'
  BY DEF IInv, AnswersHold
<1> QED BY <1>4, <1>5, <1>6, <1>7, <1>8

(* Both ways an exception can leave the transaction. *)
LEMMA AbortStep ==
    ASSUME IInv, NEW t \in Threads, pc[t] \in Holding, Abort(t) \/ IntegrityError(t)
    PROVE  LockInv' /\ CallInv' /\ WorkInv' /\ ReplyInv' /\ AnswersHold' /\ UNCHANGED db
<1> USE DEF IInv, TypeOK
<1>1. CASE Abort(t)
  <2>1. Rollback /\ pc' = [pc EXCEPT ![t] = "idle"] /\ UNCHANGED <<db, answers>>
        /\ \A u \in Threads \ {t} : call'[u] = call[u] /\ txnId'[u] = txnId[u]
    BY <1>1 DEF Abort, Refused, EndCall, Goto
  <2> QED BY <2>1, RollingBack
<1>2. CASE call[t].key # NoKey /\ IntegrityError(t)
  <2>1. Rollback /\ pc' = [pc EXCEPT ![t] = "recheck"] /\ UNCHANGED <<db, answers, call>>
        /\ \A u \in Threads \ {t} : txnId'[u] = txnId[u]
    BY <1>2 DEF IntegrityError, Goto
  <2>2. call[t] \in Requests
    BY DEF CallInv, Holding
  <2> QED BY <1>2, <2>1, <2>2, RollingBack
<1> QED BY <1>1, <1>2 DEF IntegrityError

(* A replay is an answer the key table backs. *)
LEMMA ReplayStep ==
    ASSUME IInv, NEW t \in Threads, pc[t] \in {"lookup", "recheck"},
           NEW row \in db.keys, row.key = call[t].key, Replay(t, row)
    PROVE  LockInv' /\ CallInv' /\ WorkInv' /\ ReplyInv' /\ AnswersHold' /\ UNCHANGED db
<1>1. EndCall(t) /\ UNCHANGED <<db, work, writer>>
  BY DEF Replay, Answered
<1>2. LockInv' /\ CallInv' /\ WorkInv' /\ ReplyInv'
  BY <1>1, EndingOutside DEF Holding
<1>3. call[t] \in Requests
  BY DEF IInv, CallInv
<1>4. AnswersHold'
  <2>1. CASE row.payload # call[t].payload
    BY <2>1 DEF Replay, Answered, AnswersHold, IInv
  <2>2. CASE row.payload = call[t].payload
    <3>1. row.txn \in db.sealed /\ db.journal[row.txn] = call[t]
      BY <1>3, <2>2, RequestFields DEF IInv, KeysMatchJournal
    <3> QED BY <2>2, <3>1 DEF Replay, Answered, AnswersHold, IInv
  <2> QED BY <2>1, <2>2
<1> QED BY <1>1, <1>2, <1>4

(* Installing the private copy keeps the books. *)
LEMMA CommitStep ==
    ASSUME IInv, NEW t \in Threads, Commit(t)
    PROVE  /\ LockInv' /\ CallInv' /\ WorkInv' /\ ReplyInv'
           /\ KeysMatchJournal' /\ AnswersHold' /\ FloorsHeld'
<1> DEFINE n == Len(db.journal) + 1
           new == [key |-> call[t].key, payload |-> call[t].payload, txn |-> n]
<1>1. /\ pc[t] = "commit" /\ db' = work /\ writer' = NoThread
      /\ pc' = [pc EXCEPT ![t] = "reply"]
      /\ UNCHANGED <<work, call, txnId, answers>>
  BY DEF Commit, Goto
<1>2. /\ db'.journal = Append(db.journal, call[t])
      /\ txnId[t] = n
      /\ db'.sealed = db.sealed \cup {n}
      /\ \A a \in Accounts \ Overdraft : db'.balance[a] >= Floor[a]
  BY <1>1 DEF IInv, WorkInv, Appended
<1>3. /\ call[t] \in Requests /\ db.journal \in Seq(Requests)
      /\ db.sealed = DOMAIN db.journal
  BY <1>1 DEF IInv, TypeOK, Database, CallInv, KeysMatchJournal
<1>old. /\ \A row \in db.keys :
             /\ row.txn \in db.sealed
             /\ db.journal[row.txn] = [key |-> row.key, payload |-> row.payload]
        /\ \A r1, r2 \in db.keys : r1.key = r2.key \/ r1.txn = r2.txn => r1 = r2
  BY DEF IInv, KeysMatchJournal
<1>4. /\ n \in db'.sealed /\ db'.journal[n] = call[t]
      /\ db'.sealed = DOMAIN db'.journal
      /\ n \notin db.sealed
      /\ \A i \in db.sealed : db'.journal[i] = db.journal[i]
  BY <1>2, <1>3
<1>5. /\ call[t].key = NoKey => db'.keys = db.keys
      /\ call[t].key # NoKey =>
           /\ \A row \in db.keys : row.key # call[t].key
           /\ db'.keys = db.keys \cup {new}
  BY <1>1, <1>2 DEF IInv, WorkInv, KeyTaken
<1>6. LockInv'
  <2>1. \A u \in Threads : pc'[u] \notin Holding
    BY <1>1 DEF IInv, TypeOK, LockInv, Holding
  <2> QED BY <1>1, <2>1, NamesAssumption DEF LockInv
<1>7. CallInv'
  BY <1>1 DEF IInv, TypeOK, CallInv
<1>8. WorkInv'
  BY <1>1 DEF IInv, TypeOK, LockInv, WorkInv, Holding
<1>9. ReplyInv'
  <2>1. ASSUME NEW u \in Threads, pc'[u] = "reply"
        PROVE  txnId'[u] \in db'.sealed /\ db'.journal[txnId'[u]] = call'[u]
    <3>1. CASE u = t
      BY <1>1, <1>2, <1>4, <3>1
    <3>2. CASE u # t
      <4>1. pc[u] = "reply"
        BY <1>1, <2>1, <3>2 DEF IInv, TypeOK
      <4> QED BY <1>1, <1>2, <1>4, <4>1 DEF IInv, ReplyInv
    <3> QED BY <3>1, <3>2
  <2> QED BY <2>1 DEF ReplyInv
<1>10. KeysMatchJournal'
  <2>1. \A row \in db'.keys :
           /\ row.txn \in db'.sealed
           /\ db'.journal[row.txn] = [key |-> row.key, payload |-> row.payload]
    <3>1. ASSUME NEW row \in db.keys
          PROVE  /\ row.txn \in db'.sealed
                 /\ db'.journal[row.txn] = [key |-> row.key, payload |-> row.payload]
      BY <1>2, <1>4, <1>old
    <3>2. /\ new.txn \in db'.sealed
          /\ db'.journal[new.txn] = [key |-> new.key, payload |-> new.payload]
      BY <1>3, <1>4, RequestFields
    <3> HIDE DEF new
    <3> QED BY <1>5, <3>1, <3>2
  <2>2. \A r1, r2 \in db'.keys : r1.key = r2.key \/ r1.txn = r2.txn => r1 = r2
    <3>1. \A row \in db.keys : row.txn # n
      BY <1>4, <1>old
    <3>2. new.key = call[t].key /\ new.txn = n
      OBVIOUS
    <3> HIDE DEF new
    <3> QED BY <1>5, <1>old, <3>1, <3>2
  <2>3. \A i \in DOMAIN db'.journal :
           db'.journal[i].key # NoKey => \E row \in db'.keys : row.txn = i
    <3>1. ASSUME NEW i \in DOMAIN db'.journal, db'.journal[i].key # NoKey
          PROVE  \E row \in db'.keys : row.txn = i
      <4>1. CASE i = n
        <5>1. new.txn = n
          OBVIOUS
        <5> HIDE DEF new
        <5> QED BY <1>4, <1>5, <3>1, <4>1, <5>1
      <4>2. CASE i # n
        <5>1. i \in db.sealed /\ db'.journal[i] = db.journal[i]
          BY <1>2, <1>4, <4>2
        <5>2. \E row \in db.keys : row.txn = i
          BY <1>3, <3>1, <5>1 DEF IInv, KeysMatchJournal
        <5> QED BY <1>5, <5>2
      <4> QED BY <4>1, <4>2
    <3> QED BY <3>1
  <2> QED BY <1>4, <2>1, <2>2, <2>3 DEF KeysMatchJournal
<1>11. AnswersHold'
  <2>1. db.keys \subseteq db'.keys
    BY <1>5
  <2> QED BY <1>1, <1>2, <1>4, <2>1 DEF IInv, AnswersHold
<1>12. FloorsHeld'
  BY <1>2 DEF FloorsHeld
<1> QED BY <1>6, <1>7, <1>8, <1>9, <1>10, <1>11, <1>12

(* Writing the posting or the key, under the lock. *)
LEMMA WritingStep ==
    ASSUME IInv, NEW t \in Threads, pc[t] \in Holding,
           NEW label \in {"seal", "record", "commit"},
           label = "record" => call[t].key # NoKey,
           pc' = [pc EXCEPT ![t] = label],
           \A u \in Threads \ {t} : txnId'[u] = txnId[u],
           UNCHANGED <<db, writer, call, answers>>
    PROVE  LockInv' /\ CallInv' /\ ReplyInv' /\ AnswersHold'
<1>1. \A u \in Threads : pc'[u] = IF u = t THEN label ELSE pc[u]
  BY DEF IInv, TypeOK
<1>2. LockInv'
  <2>1. writer = t /\ t # NoThread
    BY NamesAssumption DEF IInv, LockInv
  <2> QED BY <1>1, <2>1 DEF IInv, LockInv, Holding
<1>3. CallInv'
  <2>1. call[t] \in Requests
    BY DEF IInv, CallInv, Holding
  <2> QED BY <1>1, <2>1 DEF IInv, CallInv
<1>4. ReplyInv'
  BY <1>1 DEF IInv, ReplyInv
<1>5. AnswersHold'
  BY DEF IInv, AnswersHold
<1> QED BY <1>2, <1>3, <1>4, <1>5

(* Every step keeps the inductive invariant. *)
LEMMA InvStep == IInv /\ [Next]_vars => IInv'
<1> SUFFICES ASSUME IInv, [Next]_vars PROVE IInv'
  OBVIOUS
<1> DEFINE Rest == LockInv /\ CallInv /\ WorkInv /\ ReplyInv /\ AnswersHold
<1>type. TypeOK /\ TypeOK'
  BY TypeStep DEF IInv
<1>books. UNCHANGED db => KeysMatchJournal' /\ FloorsHeld'
  BY DEF IInv, KeysMatchJournal, FloorsHeld
<1>told. UNCHANGED <<db, answers>> => AnswersHold'
  BY DEF IInv, AnswersHold
<1> SUFFICES Rest' /\ KeysMatchJournal' /\ FloorsHeld'
  BY <1>type DEF IInv
<1>quiet. ASSUME NEW t \in Threads, pc[t] \notin Holding, EndCall(t),
                 UNCHANGED <<db, work, writer, answers>>
          PROVE  Rest' /\ KeysMatchJournal' /\ FloorsHeld'
  BY <1>quiet, <1>books, <1>told, EndingOutside
<1>raise. ASSUME NEW t \in Threads, pc[t] \in Holding, Abort(t) \/ IntegrityError(t)
          PROVE  Rest' /\ KeysMatchJournal' /\ FloorsHeld'
  BY <1>raise, <1>books, AbortStep
<1>replay. ASSUME NEW t \in Threads, pc[t] \in {"lookup", "recheck"},
                  NEW row \in db.keys, row.key = call[t].key, Replay(t, row)
           PROVE  Rest' /\ KeysMatchJournal' /\ FloorsHeld'
  BY <1>replay, <1>books, ReplayStep
<1>1. ASSUME NEW t \in Threads, NEW r \in Requests, Start(t, r)
      PROVE  Rest' /\ KeysMatchJournal' /\ FloorsHeld'
  <2>1. /\ pc[t] = "idle"
        /\ pc' = [pc EXCEPT ![t] = IF r.key = NoKey THEN "begin" ELSE "lookup"]
        /\ call' = [call EXCEPT ![t] = r]
        /\ UNCHANGED <<db, work, writer, txnId, answers>>
    BY <1>1 DEF Start, Goto
  <2>2. LockInv' /\ CallInv' /\ ReplyInv'
    BY <1>1, <1>type, <2>1 DEF IInv, TypeOK, LockInv, CallInv, ReplyInv, Holding
  <2>3. WorkInv'
    BY <1>type, <2>1 DEF IInv, TypeOK, WorkInv, Appended, KeyTaken
  <2> QED BY <1>books, <1>told, <2>1, <2>2, <2>3
<1>2. ASSUME NEW t \in Threads, Lookup(t)
      PROVE  Rest' /\ KeysMatchJournal' /\ FloorsHeld'
  <2>1. CASE \E row \in db.keys : row.key = call[t].key /\ Replay(t, row)
    BY <1>2, <1>replay, <2>1 DEF Lookup
  <2>2. CASE Goto(t, "begin") /\ UNCHANGED <<db, work, writer, call, txnId, answers>>
    <3>1. pc[t] = "lookup" /\ pc' = [pc EXCEPT ![t] = "begin"]
      BY <1>2, <2>2 DEF Lookup, Goto
    <3>2. LockInv' /\ CallInv' /\ ReplyInv'
      BY <1>type, <2>2, <3>1 DEF IInv, TypeOK, LockInv, CallInv, ReplyInv, Holding
    <3>3. WorkInv'
      BY <1>type, <2>2, <3>1 DEF IInv, TypeOK, WorkInv, Appended, KeyTaken
    <3> QED BY <1>books, <1>told, <2>2, <3>2, <3>3
  <2> QED BY <1>2, <2>1, <2>2 DEF Lookup
<1>3. ASSUME NEW t \in Threads, RefuseUnbalanced(t)
      PROVE  Rest' /\ KeysMatchJournal' /\ FloorsHeld'
  BY <1>3, <1>quiet, <1>raise DEF RefuseUnbalanced, Refused, Holding
<1>4. ASSUME NEW t \in Threads, BeginImmediate(t)
      PROVE  Rest' /\ KeysMatchJournal' /\ FloorsHeld'
  <2>1. /\ pc[t] = "begin" /\ writer = NoThread /\ writer' = t /\ work' = db
        /\ pc' = [pc EXCEPT ![t] = "post"]
        /\ UNCHANGED <<db, call, txnId, answers>>
    BY <1>4 DEF BeginImmediate, Goto
  <2>2. \A u \in Threads : pc[u] \notin Holding
    BY <2>1, NamesAssumption DEF IInv, LockInv
  <2>3. LockInv'
    BY <1>type, <2>1, <2>2, NamesAssumption DEF TypeOK, LockInv, Holding
  <2>4. CallInv' /\ ReplyInv'
    BY <1>type, <2>1 DEF IInv, TypeOK, CallInv, ReplyInv
  <2>5. WorkInv'
    BY <1>type, <2>1, <2>2 DEF TypeOK, WorkInv, Holding
  <2> QED BY <1>books, <1>told, <2>1, <2>3, <2>4, <2>5
<1>5. ASSUME NEW t \in Threads, BeginTimesOut(t)
      PROVE  Rest' /\ KeysMatchJournal' /\ FloorsHeld'
  BY <1>5, <1>quiet DEF BeginTimesOut, Refused, Holding
<1>6. ASSUME NEW t \in Threads, Post(t)
      PROVE  Rest' /\ KeysMatchJournal' /\ FloorsHeld'
  <2>1. pc[t] = "post" /\ work = db /\ call[t] \in Requests /\ db \in Database
    BY <1>6 DEF IInv, TypeOK, Post, WorkInv, CallInv
  <2>2. CASE Abort(t) \/ IntegrityError(t)
    BY <1>raise, <2>1, <2>2 DEF Holding
  <2>3. CASE /\ work' = [work EXCEPT
                           !.journal = Append(@, call[t]),
                           !.balance = ApplyEntries(@, call[t].payload)]
             /\ txnId' = [txnId EXCEPT ![t] = Len(work'.journal)]
             /\ Goto(t, "seal")
             /\ UNCHANGED <<db, writer, call, answers, crashes>>
    <3>1. pc' = [pc EXCEPT ![t] = "seal"] /\ \A u \in Threads \ {t} : txnId'[u] = txnId[u]
      BY <1>type, <2>3 DEF TypeOK, Goto
    <3>2. LockInv' /\ CallInv' /\ ReplyInv' /\ AnswersHold'
      BY <2>1, <2>3, <3>1, WritingStep DEF Holding
    <3>3. /\ work'.journal = Append(db.journal, call[t])
          /\ work'.balance = ApplyEntries(db.balance, call[t].payload)
          /\ work'.sealed = db.sealed
          /\ work'.keys = db.keys
      <4>1. /\ work'.journal = Append(work.journal, call[t])
            /\ work'.balance = ApplyEntries(work.balance, call[t].payload)
            /\ work'.sealed = work.sealed
            /\ work'.keys = work.keys
        <5>1. call[t] \in Requests /\ work \in Database
          BY <2>1
        <5> QED BY <2>3, <5>1, Inserting
      <4> QED BY <2>1, <4>1
    <3>4. txnId'[t] = Len(db.journal) + 1
      BY <1>type, <2>1, <2>3, <3>3 DEF TypeOK, Database
    <3>5. \A a \in Accounts \ Touches[call[t].payload] : work'.balance[a] = db.balance[a]
      BY <2>1, <3>3, RequestFields, BooksAssumption DEF Database, ApplyEntries
    <3>6. WorkInv'
      <4>1. \A u \in Threads : u # t => pc'[u] \notin Holding
        BY <2>1, <3>2, <3>1, <1>type DEF IInv, LockInv, Holding, TypeOK
      <4> QED BY <1>type, <2>3, <3>1, <3>3, <3>4, <3>5, <4>1
              DEF TypeOK, WorkInv, Appended, Holding
    <3> QED BY <1>books, <2>3, <3>2, <3>6
  <2> QED BY <1>6, <2>2, <2>3 DEF Post
<1>7. ASSUME NEW t \in Threads, CheckFloorsAndSeal(t)
      PROVE  Rest' /\ KeysMatchJournal' /\ FloorsHeld'
  <2>1. pc[t] = "seal"
    BY <1>7 DEF CheckFloorsAndSeal
  <2>2. CASE Abort(t)
    BY <1>raise, <2>1, <2>2 DEF Holding
  <2>3. CASE /\ RespectsFloors(work, call[t].payload)
             /\ work' = [work EXCEPT !.sealed = @ \cup {txnId[t]}]
             /\ Goto(t, IF call[t].key = NoKey THEN "commit" ELSE "record")
             /\ UNCHANGED <<db, writer, call, txnId, answers, crashes>>
    <3>1. pc' = [pc EXCEPT ![t] = IF call[t].key = NoKey THEN "commit" ELSE "record"]
      BY <2>3 DEF Goto
    <3>2. LockInv' /\ CallInv' /\ ReplyInv' /\ AnswersHold'
      BY <2>1, <2>3, <3>1, WritingStep DEF Holding
    <3>3. /\ work'.journal = work.journal
          /\ work'.balance = work.balance
          /\ work'.sealed = db.sealed \cup {txnId[t]}
          /\ work'.keys = db.keys
          /\ Appended(t)
      BY <1>type, <2>1, <2>3, Sealing DEF IInv, TypeOK, WorkInv
    <3>4. \A a \in Accounts \ Overdraft : work'.balance[a] >= Floor[a]
      BY <2>1, <2>3, <3>3 DEF IInv, WorkInv, FloorsHeld, RespectsFloors
    <3>5. \A u \in Threads : u # t => pc'[u] \notin Holding
      BY <1>type, <2>1, <3>1 DEF IInv, LockInv, Holding, TypeOK
    <3>6. WorkInv'
      BY <1>type, <2>3, <3>1, <3>3, <3>4, <3>5 DEF TypeOK, WorkInv, Appended, Holding
    <3> QED BY <1>books, <2>3, <3>2, <3>6
  <2> QED BY <1>7, <2>2, <2>3 DEF CheckFloorsAndSeal
<1>8. ASSUME NEW t \in Threads, RecordKey(t)
      PROVE  Rest' /\ KeysMatchJournal' /\ FloorsHeld'
  <2>1. pc[t] = "record" /\ call[t].key # NoKey /\ call[t] \in Requests
    BY <1>8 DEF IInv, RecordKey, CallInv
  <2>2. CASE IntegrityError(t)
    BY <1>raise, <2>1, <2>2 DEF Holding
  <2>3. CASE /\ ~KeyTaken(work, call[t].key)
             /\ work' = [work EXCEPT
                           !.keys = @ \cup {[key     |-> call[t].key,
                                             payload |-> call[t].payload,
                                             txn     |-> txnId[t]]}]
             /\ Goto(t, "commit")
             /\ UNCHANGED <<db, writer, call, txnId, answers, crashes>>
    <3> DEFINE new == [key |-> call[t].key, payload |-> call[t].payload, txn |-> txnId[t]]
    <3>1. pc' = [pc EXCEPT ![t] = "commit"]
      BY <2>3 DEF Goto
    <3>2. LockInv' /\ CallInv' /\ ReplyInv' /\ AnswersHold'
      BY <2>1, <2>3, <3>1, WritingStep DEF Holding
    <3>3. new \in KeyRow
      BY <1>type, <2>1, RequestFields DEF TypeOK, KeyRow
    <3>4. /\ work'.journal = work.journal
          /\ work'.balance = work.balance
          /\ work'.sealed = work.sealed
          /\ work'.keys = work.keys \cup {new}
      <4>1. work' = [work EXCEPT !.keys = @ \cup {new}]
        BY <2>3
      <4> HIDE DEF new
      <4> QED BY <1>type, <3>3, <4>1, Recording DEF TypeOK
    <3>5. /\ work.keys = db.keys /\ Appended(t)
          /\ work.sealed = db.sealed \cup {txnId[t]}
          /\ \A a \in Accounts \ Overdraft : work.balance[a] >= Floor[a]
      BY <2>1 DEF IInv, WorkInv
    <3>6. \A u \in Threads : u # t => pc'[u] \notin Holding
      BY <1>type, <2>1, <3>1 DEF IInv, LockInv, Holding, TypeOK
    <3>7. ~KeyTaken(db, call[t].key)
      BY <2>3, <3>5 DEF KeyTaken
    <3>8. WorkInv'
      BY <1>type, <2>1, <2>3, <3>1, <3>4, <3>5, <3>6, <3>7
         DEF TypeOK, WorkInv, Appended, Holding, KeyTaken
    <3> QED BY <1>books, <2>3, <3>2, <3>8
  <2> QED BY <1>8, <2>2, <2>3 DEF RecordKey, NewKeyRow
<1>9. ASSUME NEW t \in Threads, Commit(t)
      PROVE  Rest' /\ KeysMatchJournal' /\ FloorsHeld'
  BY <1>9, CommitStep
<1>10. ASSUME NEW t \in Threads, Reply(t)
       PROVE  Rest' /\ KeysMatchJournal' /\ FloorsHeld'
  <2>1. /\ pc[t] = "reply" /\ EndCall(t) /\ UNCHANGED <<db, work, writer>>
        /\ answers' = answers \cup
              {[request |-> call[t], outcome |-> "posted", txn |-> txnId[t]]}
    BY <1>10 DEF Reply, Answered
  <2>2. txnId[t] \in db.sealed /\ db.journal[txnId[t]] = call[t]
    BY <2>1 DEF IInv, ReplyInv
  <2>3. AnswersHold'
    BY <2>1, <2>2 DEF IInv, AnswersHold
  <2> QED BY <1>books, <2>1, <2>3, EndingOutside DEF Holding
<1>11. ASSUME NEW t \in Threads, Recheck(t)
       PROVE  Rest' /\ KeysMatchJournal' /\ FloorsHeld'
  <2>1. CASE \E row \in db.keys : row.key = call[t].key /\ Replay(t, row)
    BY <1>11, <1>replay, <2>1 DEF Recheck
  <2>2. CASE Refused(t) /\ UNCHANGED <<work, writer>>
    BY <1>11, <1>quiet, <2>2 DEF Recheck, Refused, Holding
  <2> QED BY <1>11, <2>1, <2>2 DEF Recheck
<1>12. CASE (\E a \in Accounts : OpenAccount(a)) \/ ClosePeriod \/ ReopenPeriod
  <2>1. ASSUME NEW d, OutsideWrite(d),
               d.journal = db.journal, d.sealed = db.sealed,
               d.balance = db.balance, d.keys = db.keys
        PROVE  Rest' /\ KeysMatchJournal' /\ FloorsHeld'
    <3>1. /\ writer = NoThread /\ db' = d /\ work' = d
          /\ UNCHANGED <<writer, pc, call, txnId, answers>>
      BY <2>1 DEF OutsideWrite
    <3>2. \A u \in Threads : pc'[u] \notin Holding
      BY <3>1, NamesAssumption DEF IInv, LockInv
    <3>3. LockInv' /\ CallInv' /\ WorkInv' /\ ReplyInv'
      BY <2>1, <3>1, <3>2 DEF IInv, LockInv, CallInv, WorkInv, ReplyInv, Holding
    <3>4. AnswersHold' /\ KeysMatchJournal' /\ FloorsHeld'
      BY <2>1, <3>1 DEF IInv, AnswersHold, KeysMatchJournal, FloorsHeld
    <3> QED BY <3>3, <3>4
  <2>2. db \in Database
    BY <1>type DEF TypeOK
  <2>3. ASSUME NEW a \in Accounts, OpenAccount(a)
        PROVE  Rest' /\ KeysMatchJournal' /\ FloorsHeld'
    <3> DEFINE d == [db EXCEPT !.accounts = @ \cup {a}]
    <3>1. d.journal = db.journal /\ d.sealed = db.sealed /\ d.balance = db.balance
          /\ d.keys = db.keys
      BY <2>2 DEF Database
    <3>2. OutsideWrite(d)
      BY <2>3 DEF OpenAccount
    <3> HIDE DEF d
    <3> QED BY <2>1, <3>1, <3>2
  <2>4. ASSUME NEW b \in BOOLEAN, OutsideWrite([db EXCEPT !.closed = b])
        PROVE  Rest' /\ KeysMatchJournal' /\ FloorsHeld'
    <3> DEFINE d == [db EXCEPT !.closed = b]
    <3>1. d.journal = db.journal /\ d.sealed = db.sealed /\ d.balance = db.balance
          /\ d.keys = db.keys
      BY <2>2 DEF Database
    <3>2. OutsideWrite(d)
      BY <2>4
    <3> HIDE DEF d
    <3> QED BY <2>1, <3>1, <3>2
  <2> QED BY <1>12, <2>3, <2>4 DEF ClosePeriod, ReopenPeriod
<1>13. CASE Crash
  <2>1. /\ writer' = NoThread /\ work' = db /\ UNCHANGED <<db, answers>>
        /\ pc' = [t \in Threads |-> "idle"]
    BY <1>13 DEF Crash, Rollback
  <2>2. LockInv' /\ CallInv' /\ WorkInv' /\ ReplyInv'
    BY <2>1, NamesAssumption DEF LockInv, CallInv, WorkInv, ReplyInv, Holding
  <2> QED BY <1>books, <1>told, <2>1, <2>2
<1>14. CASE UNCHANGED vars
  BY <1>14 DEF vars, IInv, LockInv, CallInv, WorkInv, ReplyInv, AnswersHold,
               KeysMatchJournal, FloorsHeld, Appended, KeyTaken
<1> QED
  BY <1>1, <1>2, <1>3, <1>4, <1>5, <1>6, <1>7, <1>8, <1>9, <1>10, <1>11, <1>12,
     <1>13, <1>14 DEF Next, ThreadStep

-----------------------------------------------------------------------------
(* The initial state satisfies the inductive invariant. *)
LEMMA InvInit == Init => IInv
<1> SUFFICES ASSUME Init PROVE IInv
  OBVIOUS
<1> USE DEF Init
<1>1. TypeOK
  BY DEF TypeOK, Database
<1>2. LockInv /\ CallInv /\ WorkInv /\ ReplyInv
  BY NamesAssumption DEF LockInv, CallInv, WorkInv, ReplyInv, Holding
<1>3. KeysMatchJournal /\ AnswersHold
  BY DEF KeysMatchJournal, AnswersHold
<1>4. FloorsHeld
  BY FloorAssumption, BooksAssumption DEF FloorsHeld
<1> QED BY <1>1, <1>2, <1>3, <1>4 DEF IInv

(* The strengthened invariant holds in every reachable state. *)
THEOREM Invariance == Spec => []IInv
BY InvInit, InvStep, PTL DEF Spec

(* Every variable of the posting path keeps its type. *)
THEOREM TypeCorrect == Spec => []TypeOK
BY Invariance, PTL DEF IInv

(* I4: keys and keyed transactions correspond one to one, each key naming  *)
(* the sealed transaction of its own request, for any number of racing     *)
(* threads, retries and crashes.                                           *)
THEOREM KeysAreExact == Spec => []KeysMatchJournal
BY Invariance, PTL DEF IInv

(* What a caller has been told is never taken back. *)
THEOREM AnswersAreKept == Spec => []AnswersHold
BY Invariance, PTL DEF IInv

(* I2: no interleaving of postings commits a balance below its floor. *)
THEOREM FloorsAreKept == Spec => []FloorsHeld
BY Invariance, PTL DEF IInv

(* What one step may do to the committed database: nothing, one more       *)
(* sealed posting by a thread that commits, or a change that is no posting. *)
LEMMA CommittedStep ==
    ASSUME IInv, [Next]_vars
    PROVE  \/ /\ UNCHANGED <<db.journal, db.sealed, db.keys>>
           \/ \E t \in Threads :
                 /\ Commit(t)
                 /\ call[t] \in Requests
                 /\ db'.journal = Append(db.journal, call[t])
                 /\ db'.sealed = db.sealed \cup {Len(db'.journal)}
                 /\ db.keys \subseteq db'.keys
                 /\ call[t].key # NoKey => ~KeyTaken(db, call[t].key)
<1> DEFINE Same == UNCHANGED <<db.journal, db.sealed, db.keys>>
<1>0. UNCHANGED db => Same
  OBVIOUS
<1>1. ASSUME NEW t \in Threads, NEW r \in Requests, Start(t, r) PROVE Same
  BY <1>0, <1>1 DEF Start
<1>2. ASSUME NEW t \in Threads,
             \/ Lookup(t) \/ RefuseUnbalanced(t) \/ BeginImmediate(t) \/ BeginTimesOut(t)
             \/ Post(t) \/ CheckFloorsAndSeal(t) \/ RecordKey(t) \/ Reply(t) \/ Recheck(t)
      PROVE  Same
  <2>1. UNCHANGED db
    BY <1>2 DEF Lookup, RefuseUnbalanced, BeginImmediate, BeginTimesOut, Post,
                CheckFloorsAndSeal, RecordKey, Reply, Recheck, Replay, Abort, Refused,
                IntegrityError
  <2> QED BY <1>0, <2>1
<1>3. ASSUME NEW t \in Threads, Commit(t)
      PROVE  /\ call[t] \in Requests
             /\ db'.journal = Append(db.journal, call[t])
             /\ db'.sealed = db.sealed \cup {Len(db'.journal)}
             /\ db.keys \subseteq db'.keys
             /\ call[t].key # NoKey => ~KeyTaken(db, call[t].key)
  <2>1. pc[t] = "commit" /\ db' = work
    BY <1>3 DEF Commit
  <2>2. call[t] \in Requests /\ db.journal \in Seq(Requests)
    BY <2>1 DEF IInv, TypeOK, Database, CallInv
  <2>3. /\ db'.journal = Append(db.journal, call[t])
        /\ db'.sealed = db.sealed \cup {Len(db.journal) + 1}
    BY <2>1 DEF IInv, WorkInv, Appended
  <2>4. db.keys \subseteq db'.keys /\ (call[t].key # NoKey => ~KeyTaken(db, call[t].key))
    BY <2>1 DEF IInv, WorkInv
  <2>5. Len(db'.journal) = Len(db.journal) + 1
    BY <2>2, <2>3
  <2> QED BY <2>2, <2>3, <2>4, <2>5
<1>4. ASSUME NEW d, OutsideWrite(d), d.journal = db.journal, d.sealed = db.sealed,
             d.keys = db.keys
      PROVE  Same
  BY <1>4 DEF OutsideWrite
<1>5. CASE (\E a \in Accounts : OpenAccount(a)) \/ ClosePeriod \/ ReopenPeriod
  <2>1. db \in Database
    BY DEF IInv, TypeOK
  <2>2. \A a : LET d == [db EXCEPT !.accounts = @ \cup {a}]
               IN  d.journal = db.journal /\ d.sealed = db.sealed /\ d.keys = db.keys
    BY <2>1 DEF Database
  <2>3. \A b : LET d == [db EXCEPT !.closed = b]
               IN  d.journal = db.journal /\ d.sealed = db.sealed /\ d.keys = db.keys
    BY <2>1 DEF Database
  <2>4. ASSUME NEW a \in Accounts, OpenAccount(a) PROVE Same
    <3> DEFINE d == [db EXCEPT !.accounts = @ \cup {a}]
    <3>1. OutsideWrite(d)
      BY <2>4 DEF OpenAccount
    <3>2. d.journal = db.journal /\ d.sealed = db.sealed /\ d.keys = db.keys
      BY <2>2
    <3> HIDE DEF d
    <3> QED BY <1>4, <3>1, <3>2
  <2>5. ASSUME NEW b, OutsideWrite([db EXCEPT !.closed = b]) PROVE Same
    <3> DEFINE d == [db EXCEPT !.closed = b]
    <3>1. OutsideWrite(d)
      BY <2>5
    <3>2. d.journal = db.journal /\ d.sealed = db.sealed /\ d.keys = db.keys
      BY <2>3
    <3> HIDE DEF d
    <3> QED BY <1>4, <3>1, <3>2
  <2> QED BY <1>5, <2>4, <2>5 DEF ClosePeriod, ReopenPeriod
<1>6. CASE Crash
  BY <1>0, <1>6 DEF Crash
<1>7. CASE UNCHANGED vars
  BY <1>0, <1>7 DEF vars
<1> QED
  BY <1>1, <1>2, <1>3, <1>5, <1>6, <1>7 DEF Next, ThreadStep

(* The committed journal grows one sealed transaction at a time and loses  *)
(* nothing; no committed key is ever removed or changed.                   *)
THEOREM HistoryIsKept == Spec => HistoryKept
<1>1. IInv /\ [Next]_vars =>
        /\ \/ db'.journal = db.journal /\ db'.sealed = db.sealed
           \/ \E r \in Requests :
                 /\ db'.journal = Append(db.journal, r)
                 /\ db'.sealed = db.sealed \cup {Len(db'.journal)}
        /\ db.keys \subseteq db'.keys
  BY CommittedStep
<1> QED BY <1>1, Invariance, PTL DEF Spec, HistoryKept

(* What one step may add to the answers: nothing, or an answer the         *)
(* committed tables back.                                                  *)
LEMMA AnswersStep ==
    ASSUME IInv, [Next]_vars
    PROVE  \/ UNCHANGED answers
           \/ /\ UNCHANGED db.journal
              /\ \E t \in Threads : \E ans :
                    /\ call[t] \in Requests
                    /\ answers' = answers \cup {ans}
                    /\ \/ \E n \in 1 .. Len(db.journal), outcome \in {"posted", "replayed"} :
                             /\ db.journal[n] = call[t]
                             /\ ans = [request |-> call[t], outcome |-> outcome, txn |-> n]
                       \/ /\ \E n \in 1 .. Len(db.journal) :
                                /\ db.journal[n].key = call[t].key
                                /\ db.journal[n].payload # call[t].payload
                          /\ ans = [request |-> call[t], outcome |-> "conflict", txn |-> 0]
<1> DEFINE Backed(t) ==
             /\ UNCHANGED db.journal
             /\ \E ans :
                   /\ call[t] \in Requests
                   /\ answers' = answers \cup {ans}
                   /\ \/ \E n \in 1 .. Len(db.journal), outcome \in {"posted", "replayed"} :
                            /\ db.journal[n] = call[t]
                            /\ ans = [request |-> call[t], outcome |-> outcome, txn |-> n]
                      \/ /\ \E n \in 1 .. Len(db.journal) :
                               /\ db.journal[n].key = call[t].key
                               /\ db.journal[n].payload # call[t].payload
                         /\ ans = [request |-> call[t], outcome |-> "conflict", txn |-> 0]
<1>0. /\ db.sealed = 1 .. Len(db.journal)
      /\ \A row \in db.keys :
            /\ row.txn \in db.sealed
            /\ db.journal[row.txn] = [key |-> row.key, payload |-> row.payload]
  BY DEF IInv, TypeOK, Database, KeysMatchJournal
<1>1. ASSUME NEW t \in Threads, pc[t] \in {"lookup", "recheck"},
             NEW row \in db.keys, row.key = call[t].key, Replay(t, row)
      PROVE  Backed(t)
  <2>1. call[t] \in Requests
    BY <1>1 DEF IInv, CallInv
  <2>2. UNCHANGED db.journal
    BY <1>1 DEF Replay
  <2>3. CASE row.payload # call[t].payload
    <3>1. answers' = answers \cup {[request |-> call[t], outcome |-> "conflict", txn |-> 0]}
      BY <1>1, <2>3 DEF Replay, Answered
    <3>2. \E n \in 1 .. Len(db.journal) :
            db.journal[n].key = call[t].key /\ db.journal[n].payload # call[t].payload
      <4>1. row.txn \in 1 .. Len(db.journal)
            /\ db.journal[row.txn] = [key |-> row.key, payload |-> row.payload]
        BY <1>0
      <4>2. db.journal[row.txn].key = call[t].key
            /\ db.journal[row.txn].payload # call[t].payload
        BY <1>1, <2>3, <4>1
      <4> QED BY <4>1, <4>2
    <3> QED BY <2>1, <2>2, <3>1, <3>2
  <2>4. CASE row.payload = call[t].payload
    <3>1. answers' = answers \cup
            {[request |-> call[t], outcome |-> "replayed", txn |-> row.txn]}
      BY <1>1, <2>4 DEF Replay, Answered
    <3>2. row.txn \in 1 .. Len(db.journal) /\ db.journal[row.txn] = call[t]
      BY <1>0, <1>1, <2>1, <2>4, RequestFields
    <3> QED BY <2>1, <2>2, <3>1, <3>2
  <2> QED BY <2>3, <2>4
<1>2. ASSUME NEW t \in Threads, Reply(t) PROVE Backed(t)
  <2>1. /\ pc[t] = "reply" /\ UNCHANGED db
        /\ answers' = answers \cup
              {[request |-> call[t], outcome |-> "posted", txn |-> txnId[t]]}
    BY <1>2 DEF Reply, Answered
  <2>2. /\ call[t] \in Requests
        /\ txnId[t] \in 1 .. Len(db.journal) /\ db.journal[txnId[t]] = call[t]
    BY <1>0, <2>1 DEF IInv, CallInv, ReplyInv
  <2> QED BY <2>1, <2>2
<1>3. ASSUME NEW t \in Threads, Lookup(t) \/ Recheck(t)
      PROVE  UNCHANGED answers \/ Backed(t)
  <2>1. CASE \E row \in db.keys : row.key = call[t].key /\ Replay(t, row)
    <3>1. pc[t] \in {"lookup", "recheck"}
      BY <1>3 DEF Lookup, Recheck
    <3> HIDE DEF Backed
    <3> QED BY <1>1, <2>1, <3>1
  <2>2. CASE ~\E row \in db.keys : row.key = call[t].key /\ Replay(t, row)
    BY <1>3, <2>2 DEF Lookup, Recheck, Refused
  <2> QED BY <2>1, <2>2
<1>4. ASSUME NEW t \in Threads,
             \/ \E r \in Requests : Start(t, r)
             \/ RefuseUnbalanced(t) \/ BeginImmediate(t) \/ BeginTimesOut(t) \/ Post(t)
             \/ CheckFloorsAndSeal(t) \/ RecordKey(t) \/ Commit(t)
      PROVE  UNCHANGED answers
  BY <1>4 DEF Start, RefuseUnbalanced, BeginImmediate, BeginTimesOut, Post,
              CheckFloorsAndSeal, RecordKey, Commit, Abort, Refused, IntegrityError
<1>5. ASSUME \/ \E a \in Accounts : OpenAccount(a)
             \/ ClosePeriod \/ ReopenPeriod \/ Crash
             \/ UNCHANGED vars
      PROVE  UNCHANGED answers
  BY <1>5 DEF OpenAccount, ClosePeriod, ReopenPeriod, OutsideWrite, Crash, vars
<1>6. UNCHANGED answers \/ \E t \in Threads : Backed(t)
  <2> HIDE DEF Backed
  <2>1. ASSUME NEW t \in Threads, ThreadStep(t) \/ (\E r \in Requests : Start(t, r))
        PROVE  UNCHANGED answers \/ Backed(t)
    BY <1>2, <1>3, <1>4, <2>1 DEF ThreadStep
  <2>2. CASE \E t \in Threads : ThreadStep(t) \/ (\E r \in Requests : Start(t, r))
    BY <2>1, <2>2
  <2>3. CASE ~\E t \in Threads : ThreadStep(t) \/ (\E r \in Requests : Start(t, r))
    BY <1>5, <2>3 DEF Next
  <2> QED BY <2>2, <2>3
<1> QED BY <1>6

(* The posting path keeps the promise of its docstrings: one effect per    *)
(* key, ever, and only true answers, whatever races, fails or crashes.     *)
THEOREM ExactlyOnceImplemented == Spec => KeepsItsPromise
<1>1. Init => Promise!Init
  BY DEF Init, Promise!Init
<1>2. IInv /\ [Next]_vars => [Promise!Next]_(Promise!vars)
  <2> SUFFICES ASSUME IInv, [Next]_vars, ~UNCHANGED <<db.journal, answers>>
               PROVE  Promise!Next
    BY DEF Promise!vars
  <2>1. CASE UNCHANGED answers
    <3>1. PICK t \in Threads :
            /\ call[t] \in Requests
            /\ db'.journal = Append(db.journal, call[t])
            /\ call[t].key # NoKey => ~KeyTaken(db, call[t].key)
      BY <2>1, CommittedStep
    <3>2. call[t].key # NoKey => ~Promise!HasTakenEffect(call[t].key)
      <4>1. \A n \in 1 .. Len(db.journal) :
              db.journal[n].key # NoKey => KeyTaken(db, db.journal[n].key)
        <5>1. ASSUME NEW n \in 1 .. Len(db.journal), db.journal[n].key # NoKey
              PROVE  KeyTaken(db, db.journal[n].key)
          <6>1. PICK row \in db.keys : row.txn = n
            BY <5>1 DEF IInv, TypeOK, Database, KeysMatchJournal
          <6>2. db.journal[n] = [key |-> row.key, payload |-> row.payload]
            BY <6>1 DEF IInv, KeysMatchJournal
          <6> QED BY <6>1, <6>2 DEF KeyTaken
        <5> QED BY <5>1
      <4> QED BY <3>1, <4>1 DEF Promise!HasTakenEffect
    <3>3. Promise!Perform(call[t])
      BY <2>1, <3>1, <3>2 DEF Promise!Perform
    <3> QED BY <3>1, <3>3 DEF Promise!Next
  <2>2. CASE ~UNCHANGED answers
    <3>1. PICK t \in Threads : \E ans :
            /\ UNCHANGED db.journal
            /\ call[t] \in Requests
            /\ answers' = answers \cup {ans}
            /\ \/ \E n \in 1 .. Len(db.journal), outcome \in {"posted", "replayed"} :
                     /\ db.journal[n] = call[t]
                     /\ ans = [request |-> call[t], outcome |-> outcome, txn |-> n]
               \/ /\ \E n \in 1 .. Len(db.journal) :
                        /\ db.journal[n].key = call[t].key
                        /\ db.journal[n].payload # call[t].payload
                  /\ ans = [request |-> call[t], outcome |-> "conflict", txn |-> 0]
      BY <2>2, AnswersStep
    <3>2. PICK ans :
            /\ UNCHANGED db.journal
            /\ call[t] \in Requests
            /\ answers' = answers \cup {ans}
            /\ \/ \E n \in 1 .. Len(db.journal), outcome \in {"posted", "replayed"} :
                     /\ db.journal[n] = call[t]
                     /\ ans = [request |-> call[t], outcome |-> outcome, txn |-> n]
               \/ /\ \E n \in 1 .. Len(db.journal) :
                        /\ db.journal[n].key = call[t].key
                        /\ db.journal[n].payload # call[t].payload
                  /\ ans = [request |-> call[t], outcome |-> "conflict", txn |-> 0]
      BY <3>1
    <3>3. Promise!Succeed(call[t]) \/ Promise!Conflict(call[t])
      BY <3>2 DEF Promise!Succeed, Promise!Conflict, Promise!Give
    <3> QED BY <3>2, <3>3 DEF Promise!Next
  <2> QED BY <2>1, <2>2
<1> QED BY <1>1, <1>2, Invariance, PTL DEF Spec, Promise!Spec, KeepsItsPromise

-----------------------------------------------------------------------------
(* The cached balances.  Both copies of the database keep the sum of their *)
(* own journals all the time, inside an open transaction too: a posting    *)
(* enters the journal and the balances in one step, and a rollback takes   *)
(* both back.                                                              *)

JournalSum(d, a) == SumFunction([n \in DOMAIN d.journal |-> Net[d.journal[n].payload][a]])

CacheOf(d) == \A a \in Accounts : d.balance[a] = JournalSum(d, a)

CacheInv == CacheOf(db) /\ CacheOf(work)

SameBooks(d, e) == d.journal = e.journal /\ d.balance = e.balance

(* A posting appended to the journal adds its net amount to every sum.     *)
LEMMA SumOfAppended ==
    ASSUME NEW d \in Database, NEW e \in Database, NEW r \in Requests, NEW a \in Accounts,
           e.journal = Append(d.journal, r)
    PROVE  JournalSum(e, a) = JournalSum(d, a) + Net[r.payload][a]
<1> DEFINE n == Len(d.journal) + 1
           old == [i \in DOMAIN d.journal |-> Net[d.journal[i].payload][a]]
           new == [i \in DOMAIN e.journal |-> Net[e.journal[i].payload][a]]
           known == 1 .. Len(d.journal)
<1>1. d.journal \in Seq(Requests) /\ Len(d.journal) \in Nat
  BY DEF Database
<1>2. DOMAIN old = known /\ DOMAIN new = known \cup {n} /\ n \notin known
  BY <1>1
<1>3. \A i \in known : new[i] = old[i] /\ old[i] \in Int
  <2> SUFFICES ASSUME NEW i \in known PROVE new[i] = old[i] /\ old[i] \in Int
    OBVIOUS
  <2>1. d.journal[i] \in Requests /\ e.journal[i] = d.journal[i]
    BY <1>1
  <2>2. Net[d.journal[i].payload][a] \in Int
    BY <2>1, RequestFields, BooksAssumption
  <2> QED BY <1>1, <2>1, <2>2
<1>4. new[n] = Net[r.payload][a] /\ new[n] \in Int
  <2>1. n \in DOMAIN e.journal /\ e.journal[n] = r
    BY <1>1
  <2>2. Net[r.payload][a] \in Int
    BY RequestFields, BooksAssumption
  <2> QED BY <2>1, <2>2
<1>5. JournalSum(d, a) = SumFunctionOnSet(old, known)
      /\ JournalSum(e, a) = SumFunctionOnSet(new, known \cup {n})
  BY <1>2 DEF JournalSum, SumFunction
<1>6. IsFiniteSet(known)
  BY <1>1, FS_Interval
<1> HIDE DEF old, new, known, n
<1>7. SumFunctionOnSet(new, known \cup {n}) = SumFunctionOnSet(new, known) + new[n]
  BY <1>2, <1>3, <1>4, <1>6, SumWith
<1>8. SumFunctionOnSet(new, known) = SumFunctionOnSet(old, known)
  BY <1>3, <1>6, SumOfEquals
<1> QED BY <1>4, <1>5, <1>7, <1>8

(* Inserting a posting keeps the cache of the copy it is inserted in. *)
LEMMA InsertingKeepsCache ==
    ASSUME NEW d \in Database, NEW e \in Database, NEW r \in Requests, CacheOf(d),
           e.journal = Append(d.journal, r), e.balance = ApplyEntries(d.balance, r.payload)
    PROVE  CacheOf(e)
<1> SUFFICES ASSUME NEW a \in Accounts PROVE e.balance[a] = JournalSum(e, a)
  BY DEF CacheOf
<1>1. e.balance[a] = d.balance[a] + Net[r.payload][a]
  BY DEF ApplyEntries
<1>2. d.balance[a] = JournalSum(d, a)
  BY DEF CacheOf
<1> QED BY <1>1, <1>2, SumOfAppended

(* What one step may do to the journal and the balances of the two copies. *)
LEMMA BooksStep ==
    ASSUME IInv, [Next]_vars
    PROVE  /\ SameBooks(db', db) \/ SameBooks(db', work)
           /\ \/ SameBooks(work', work) \/ SameBooks(work', db)
              \/ \E r \in Requests :
                    /\ work'.journal = Append(work.journal, r)
                    /\ work'.balance = ApplyEntries(work.balance, r.payload)
<1> DEFINE Goal == /\ SameBooks(db', db) \/ SameBooks(db', work)
                   /\ \/ SameBooks(work', work) \/ SameBooks(work', db)
                      \/ \E r \in Requests :
                            /\ work'.journal = Append(work.journal, r)
                            /\ work'.balance = ApplyEntries(work.balance, r.payload)
<1> SUFFICES Goal
  OBVIOUS
<1>typed. db \in Database /\ work \in Database /\ txnId \in [Threads -> Nat]
  BY DEF IInv, TypeOK
<1>same. UNCHANGED <<db, work>> => Goal
  BY DEF SameBooks
<1>fresh. db' = db /\ work' = db => Goal
  BY DEF SameBooks
<1>1. ASSUME NEW t \in Threads, \E r \in Requests : Start(t, r) PROVE Goal
  BY <1>1, <1>same DEF Start
<1>2. ASSUME NEW t \in Threads,
             Lookup(t) \/ BeginTimesOut(t) \/ Reply(t) \/ Recheck(t)
      PROVE  Goal
  BY <1>2, <1>same DEF Lookup, BeginTimesOut, Reply, Recheck, Replay, Refused
<1>aborts. ASSUME NEW t \in Threads, Abort(t) \/ IntegrityError(t) PROVE Goal
  BY <1>aborts, <1>fresh DEF Abort, IntegrityError, Rollback, Refused
<1>3. ASSUME NEW t \in Threads, RefuseUnbalanced(t) \/ BeginImmediate(t) PROVE Goal
  BY <1>3, <1>same, <1>fresh, <1>aborts DEF RefuseUnbalanced, BeginImmediate, Refused
<1>4. ASSUME NEW t \in Threads, Post(t) PROVE Goal
  <2>1. CASE Abort(t) \/ IntegrityError(t)
    BY <2>1, <1>aborts
  <2>2. CASE /\ work' = [work EXCEPT
                           !.journal = Append(@, call[t]),
                           !.balance = ApplyEntries(@, call[t].payload)]
             /\ UNCHANGED db
    <3>1. call[t] \in Requests
      BY <1>4 DEF Post, IInv, CallInv
    <3>2. /\ work'.journal = Append(work.journal, call[t])
          /\ work'.balance = ApplyEntries(work.balance, call[t].payload)
      BY <2>2, <3>1, <1>typed, Inserting
    <3> QED BY <2>2, <3>1, <3>2 DEF SameBooks
  <2> QED BY <1>4, <2>1, <2>2 DEF Post
<1>5. ASSUME NEW t \in Threads, CheckFloorsAndSeal(t) PROVE Goal
  <2>1. CASE Abort(t)
    BY <2>1, <1>aborts
  <2>2. CASE work' = [work EXCEPT !.sealed = @ \cup {txnId[t]}] /\ UNCHANGED db
    <3>1. work'.journal = work.journal /\ work'.balance = work.balance
      BY <2>2, <1>typed, Sealing
    <3> QED BY <2>2, <3>1 DEF SameBooks
  <2> QED BY <1>5, <2>1, <2>2 DEF CheckFloorsAndSeal
<1>6. ASSUME NEW t \in Threads, RecordKey(t) PROVE Goal
  <2>1. CASE IntegrityError(t)
    BY <2>1, <1>aborts
  <2>2. CASE work' = [work EXCEPT !.keys = @ \cup {NewKeyRow(t)}] /\ UNCHANGED db
    <3>1. work'.journal = work.journal /\ work'.balance = work.balance
      BY <2>2, <1>typed DEF Database
    <3> QED BY <2>2, <3>1 DEF SameBooks
  <2> QED BY <1>6, <2>1, <2>2 DEF RecordKey
<1>7. ASSUME NEW t \in Threads, Commit(t) PROVE Goal
  BY <1>7 DEF Commit, SameBooks
<1>8. CASE (\E a \in Accounts : OpenAccount(a)) \/ ClosePeriod \/ ReopenPeriod
  <2>1. ASSUME NEW d, OutsideWrite(d), d.journal = db.journal, d.balance = db.balance
        PROVE  Goal
    BY <2>1 DEF OutsideWrite, SameBooks
  <2>2. ASSUME NEW a \in Accounts, OpenAccount(a) PROVE Goal
    <3> DEFINE d == [db EXCEPT !.accounts = @ \cup {a}]
    <3>1. OutsideWrite(d) /\ d.journal = db.journal /\ d.balance = db.balance
      BY <2>2, <1>typed DEF OpenAccount, Database
    <3> HIDE DEF d
    <3> QED BY <2>1, <3>1
  <2>3. ASSUME NEW b, OutsideWrite([db EXCEPT !.closed = b]) PROVE Goal
    <3> DEFINE d == [db EXCEPT !.closed = b]
    <3>1. OutsideWrite(d) /\ d.journal = db.journal /\ d.balance = db.balance
      BY <2>3, <1>typed DEF Database
    <3> HIDE DEF d
    <3> QED BY <2>1, <3>1
  <2> QED BY <1>8, <2>2, <2>3 DEF ClosePeriod, ReopenPeriod
<1>9. CASE Crash
  BY <1>9, <1>fresh DEF Crash, Rollback
<1>10. CASE UNCHANGED vars
  BY <1>10, <1>same DEF vars
<1> HIDE DEF Goal
<1>11. ASSUME NEW t \in Threads, ThreadStep(t) PROVE Goal
  BY <1>2, <1>3, <1>4, <1>5, <1>6, <1>7, <1>11 DEF ThreadStep
<1> QED BY <1>1, <1>8, <1>9, <1>10, <1>11 DEF Next

(* Copies with the same books have the same cache. *)
LEMMA CacheOfSame ==
    ASSUME NEW d, NEW e, SameBooks(d, e), CacheOf(e)
    PROVE  CacheOf(d)
BY DEF SameBooks, CacheOf, JournalSum

(* I3: the cached balance of every account is the sum of the sealed        *)
(* journal in every committed state, whatever was rolled back in between.  *)
THEOREM CacheIsTheSum == Spec => []CacheMatchesJournal
<1>1. Init => CacheInv
  <2> SUFFICES ASSUME Init PROVE CacheInv
    OBVIOUS
  <2>1. /\ db.journal = <<>> /\ work = db
        /\ \A a \in Accounts : db.balance[a] = 0
    BY DEF Init
  <2>2. \A a \in Accounts : JournalSum(db, a) = 0
    <3>1. DOMAIN db.journal = {}
      BY <2>1
    <3> QED BY <3>1, SumOfNone DEF JournalSum, SumFunction
  <2> QED BY <2>1, <2>2 DEF CacheInv, CacheOf
<1>2. IInv /\ TypeOK' /\ CacheInv /\ [Next]_vars => CacheInv'
  <2> SUFFICES ASSUME IInv, TypeOK', CacheInv, [Next]_vars PROVE CacheOf(db') /\ CacheOf(work')
    BY DEF CacheInv, CacheOf, JournalSum
  <2>1. CacheOf(db')
    BY BooksStep, CacheOfSame DEF CacheInv
  <2>2. CASE SameBooks(work', work) \/ SameBooks(work', db)
    BY <2>1, <2>2, CacheOfSame DEF CacheInv
  <2>3. ASSUME NEW r \in Requests, work'.journal = Append(work.journal, r),
               work'.balance = ApplyEntries(work.balance, r.payload)
        PROVE  CacheOf(work')
    BY <2>3, InsertingKeepsCache DEF IInv, TypeOK, CacheInv
  <2> QED BY <2>1, <2>2, <2>3, BooksStep
<1>3. IInv /\ CacheInv => CacheMatchesJournal
  BY DEF IInv, KeysMatchJournal, CacheInv, CacheOf, CacheMatchesJournal, JournalSum
<1>4. IInv => TypeOK
  BY DEF IInv
<1> QED BY <1>1, <1>2, <1>3, <1>4, Invariance, PTL DEF Spec
=============================================================================
