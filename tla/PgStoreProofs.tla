--------------------------- MODULE PgStoreProofs ---------------------------
(***************************************************************************)
(* Proofs about PgStore for any workers, writers, accounts, postings and   *)
(* bounds: its type invariant, FloorsHeld at either isolation level, and   *)
(* AnswersHold.                                                            *)
(*                                                                         *)
(* Every step of Next is of one of a few kinds (StepKinds): whatever made  *)
(* an attempt fail, it rolls back and is retried or given up; whatever the *)
(* caller is told, a transaction takes effect in one way.                  *)
(***************************************************************************)
EXTENDS PgStore, SumTheorems, FiniteSetTheorems, TLAPS

Results == {"posted", "refused", "exhausted", "lost"}
Amounts == [Currencies -> Int]

-----------------------------------------------------------------------------
(* The kinds of steps.                                                     *)

Quiet(w) == (\E posting \in Postings : Post(w, posting)) \/ InsertTxn(w)

Retry(w) ==
    /\ pc[w] # "idle"
    /\ Rollback(w)
    /\ attempt[w] < MaxRetries
    /\ attempt' = [attempt EXCEPT ![w] = @ + 1]
    /\ pc' = [pc EXCEPT ![w] = "begin"]
    /\ UNCHANGED <<legs, answers, isolation, inserting>>

GiveUp(w) ==
    /\ pc[w] # "idle"
    /\ Rollback(w)
    /\ \E result \in Results \ {"posted"} : Answer(w, result)
    /\ UNCHANGED <<isolation, inserting>>

Seals(w) ==
    /\ pc[w] = "entries"
    /\ at[w] = Len(legs[w])
    /\ Sealable(w)
    /\ pc' = [pc EXCEPT ![w] = "commit"]
    /\ UNCHANGED <<db, legs, attempt, answers, txnVars, isolation, inserting>>

Commits(w) ==
    /\ pc[w] = "commit"
    /\ Install(w)
    /\ \E result \in {"posted", "lost"} : Answer(w, result)
    /\ UNCHANGED <<isolation, inserting>>

Kind(w) ==
    Quiet(w) \/ InsertEntry(w) \/ Retry(w) \/ GiveUp(w) \/ Seals(w) \/ Commits(w)

LEMMA Failing ==
    ASSUME NEW w \in Workers, NEW sqlstate, NEW result \in Results \ {"posted"},
           Fail(w, sqlstate, result), UNCHANGED <<isolation, inserting>>,
           pc[w] # "idle"
    PROVE  Retry(w) \/ GiveUp(w)
<1>1. CASE Retryable(sqlstate) /\ attempt[w] < MaxRetries
  BY <1>1 DEF Fail, Except, Again, Retry
<1>2. CASE Retryable(sqlstate) /\ ~(attempt[w] < MaxRetries)
  <2>1. Rollback(w) /\ Answer(w, "exhausted")
    BY <1>2 DEF Fail, Except, Again
  <2>2. QED BY <2>1 DEF GiveUp, Results
<1>3. CASE ~Retryable(sqlstate)
  BY <1>3 DEF Fail, Except, GiveUp
<1>4. QED BY <1>1, <1>2, <1>3

LEMMA StepKinds ==
    ASSUME Next
    PROVE  (\E w \in Workers : Kind(w)) \/ (\E d \in Writers : WriterStep(d))
<1>1. SUFFICES ASSUME NEW w \in Workers, WorkerStep(w) PROVE Kind(w)
  BY DEF Next
<1>2. CASE \E posting \in Postings : Post(w, posting)
  BY <1>2 DEF Kind, Quiet
<1>3. CASE InsertTxn(w)
  BY <1>3 DEF Kind, Quiet
<1>4. CASE InsertEntry(w)
  BY <1>4 DEF Kind
<1>r. "refused" \in Results \ {"posted"} /\ "lost" \in Results \ {"posted"}
  BY DEF Results
<1>5. CASE InsertFails(w)
  <2>1. UNCHANGED <<isolation, inserting>>
    BY <1>5 DEF InsertFails
  <2>p. pc[w] # "idle"
    BY <1>5 DEF InsertFails, HasLeg
  <2>2. \E sqlstate \in {"P0001", "40001", "40P01"} : Fail(w, sqlstate, "refused")
    BY <1>5 DEF InsertFails
  <2>3. QED BY <2>1, <2>2, <2>p, <1>r, Failing DEF Kind
<1>6. CASE Seal(w)
  <2>1. CASE Sealable(w)
    BY <1>6, <2>1 DEF Seal, Seals, Kind
  <2>2. CASE ~Sealable(w)
    <3>1. Fail(w, "P0001", "refused") /\ UNCHANGED <<isolation, inserting>> /\ pc[w] # "idle"
      BY <1>6, <2>2 DEF Seal
    <3>2. QED BY <3>1, <1>r, Failing DEF Kind
  <2>3. QED BY <2>1, <2>2
<1>7. CASE Commit(w)
  BY <1>7 DEF Commit, Commits, Kind
<1>8. CASE Conflict(w)
  <2>1. Fail(w, "40001", "refused") /\ UNCHANGED <<isolation, inserting>> /\ pc[w] # "idle"
    BY <1>8 DEF Conflict, InTransaction
  <2>2. QED BY <2>1, <1>r, Failing DEF Kind
<1>9. CASE Lose(w)
  <2>0. UNCHANGED <<isolation, inserting>> /\ pc[w] # "idle"
    BY <1>9 DEF Lose
  <2>1. CASE Fail(w, "none", "lost")
    BY <2>0, <2>1, <1>r, Failing DEF Kind
  <2>2. CASE pc[w] = "commit" /\ Install(w) /\ Except(w, "none", "lost")
    <3>1. Answer(w, "lost")
      BY <2>2 DEF Except, Retryable
    <3>2. QED BY <2>0, <2>2, <3>1 DEF Commits, Kind
  <2>3. QED BY <1>9, <2>1, <2>2 DEF Lose
<1>10. QED
  BY <1>1, <1>2, <1>3, <1>4, <1>5, <1>6, <1>7, <1>8, <1>9 DEF WorkerStep, Proceed

-----------------------------------------------------------------------------
(* Values.                                                                 *)

LEMMA Adding ==
    ASSUME NEW S, NEW f \in [S -> Int], NEW k \in S, NEW n \in Int
    PROVE  /\ Add(f, k, n) \in [S -> Int]
           /\ Add(f, k, n)[k] = f[k] + n
           /\ \A x \in S : x # k => Add(f, k, n)[x] = f[x]
BY DEF Add

LEMMA SignedInt == ASSUME NEW e \in Entry PROVE Signed(e) \in Int
BY DEF Signed, Entry

LEMMA LegsTyped ==
    ASSUME TypeOK, NEW w \in Workers
    PROVE  legs[w] \in Seq(Entry) /\ at[w] \in Nat /\ Len(legs[w]) \in Nat
<1>1. legs[w] \in Postings \cup {<<>>} /\ at[w] \in Nat
  BY DEF TypeOK
<1>2. <<>> \in Seq(Entry)
  OBVIOUS
<1>3. legs[w] \in Seq(Entry)
  BY <1>1, <1>2, EntriesAssumption
<1>4. QED BY <1>1, <1>3

LEMMA LegTyped ==
    ASSUME TypeOK, NEW w \in Workers, HasLeg(w)
    PROVE  Leg(w) \in Entry
<1>1. legs[w] \in Seq(Entry) /\ at[w] \in Nat /\ at[w] < Len(legs[w])
  BY LegsTyped DEF HasLeg
<1>2. at[w] + 1 \in 1..Len(legs[w])
  BY <1>1
<1>3. QED BY <1>1, <1>2 DEF Leg

LEMMA IdTyped ==
    ASSUME TypeOK, NEW w \in Workers
    PROVE  Id(w) \in TxnId /\ Id(w).actor = w /\ Id(w).call = Len(answers[w]) + 1
<1>1. answers[w] \in Seq(AnswerRow) /\ attempt[w] \in 0..MaxRetries
  BY DEF TypeOK
<1>2. Len(answers[w]) \in Nat /\ attempt[w] \in Nat
  BY <1>1, BoundsAssumption
<1>3. QED BY <1>2 DEF Id, TxnId

(* What the caller is told, appended to what it was told before. *)
Told(w, result) == [result |-> result, txn |-> Id(w), legs |-> legs[w]]

LEMMA AnswerTyped ==
    ASSUME TypeOK, NEW w \in Workers, NEW result \in Results, Answer(w, result),
           legs[w] \in Postings
    PROVE  /\ pc' = [pc EXCEPT ![w] = "idle"]
           /\ legs' = [legs EXCEPT ![w] = <<>>]
           /\ attempt' \in [Workers -> 0..MaxRetries]
           /\ answers' = [answers EXCEPT ![w] = Append(answers[w], Told(w, result))]
           /\ answers' \in [Workers -> Seq(AnswerRow)]
<1>1. Told(w, result) \in AnswerRow
  BY IdTyped DEF Told, AnswerRow, Results
<1>2. answers \in [Workers -> Seq(AnswerRow)] /\ attempt \in [Workers -> 0..MaxRetries]
  BY DEF TypeOK
<1>3. answers' = [answers EXCEPT ![w] = Append(answers[w], Told(w, result))]
  BY <1>2 DEF Answer, Told
<1>4. Append(answers[w], Told(w, result)) \in Seq(AnswerRow)
  BY <1>1, <1>2
<1>5. attempt' \in [Workers -> 0..MaxRetries]
  BY <1>2, BoundsAssumption DEF Answer
<1>6. QED BY <1>2, <1>3, <1>4, <1>5 DEF Answer

-----------------------------------------------------------------------------
(* The inductive invariant.                                                *)

(* Where an attempt stands: only rows it has locked are changed, and one   *)
(* that is to commit has found every account it touches at its floor.      *)
Attempt(w) ==
    /\ pc[w] \in {"idle", "begin"} => at[w] = 0
    /\ pc[w] # "idle" => legs[w] \in Postings
    /\ pc[w] = "commit" => at[w] = Len(legs[w]) /\ AtFloors(w)
    /\ \A a \in Accounts : a \notin Locked(w) => own[w][a] = 0

Attempts == \A w \in Workers : Attempt(w)

(* No row is locked twice. *)
LocksApart == \A v, w \in Workers : v # w => Locked(v) \cap Locked(w) = {}

(* Only a writer's transaction is ever committed unsealed. *)
OpenTxnsAreDirect ==
    /\ \A id \in txns \ sealed : id.actor \in Writers
    /\ \A d \in Writers : inserting[d] # <<>> =>
          inserting[d].txn \in txns /\ inserting[d].txn.actor \in Writers

(* A transaction of post() belongs to a call that has ended. *)
CallsOpen == \A id \in txns : id.actor \in Workers => id.call <= Len(answers[id.actor])

IInv ==
    /\ TypeOK
    /\ IsFiniteSet(journal)
    /\ Attempts
    /\ LocksApart
    /\ OpenTxnsAreDirect
    /\ CallsOpen
    /\ FloorsHeld
    /\ AnswersHold

-----------------------------------------------------------------------------
(* What a step leaves alone.                                               *)

LEMMA LockedSame ==
    ASSUME NEW w, legs'[w] = legs[w], at'[w] = at[w]
    PROVE  Locked(w)' = Locked(w)
BY DEF Locked

LEMMA NoneLocked ==
    ASSUME NEW w, at[w] = 0
    PROVE  Locked(w) = {}
BY DEF Locked

LEMMA Ended ==
    ASSUME TypeOK, NEW w \in Workers, Clear(w)
    PROVE  /\ at'[w] = 0 /\ own'[w] = Unchanged
           /\ at' \in [Workers -> Nat]
           /\ own' \in [Workers -> [Accounts -> Int]]
           /\ net' \in [Workers -> Amounts]
           /\ Locked(w)' = {}
<1>1. Unchanged \in [Accounts -> Int] /\ NoAmounts \in Amounts
  BY DEF Unchanged, NoAmounts, Amounts
<1>2. /\ at' = [at EXCEPT ![w] = 0]
      /\ own' = [own EXCEPT ![w] = Unchanged]
      /\ net' = [net EXCEPT ![w] = NoAmounts]
  BY DEF Clear
<1>3. /\ at \in [Workers -> Nat]
      /\ own \in [Workers -> [Accounts -> Int]]
      /\ net \in [Workers -> Amounts]
  BY DEF TypeOK, Amounts
<1>4. at'[w] = 0
  BY <1>2, <1>3
<1>5. Locked(w)' = {}
  BY <1>4 DEF Locked
<1>6. QED BY <1>1, <1>2, <1>3, <1>4, <1>5

LEMMA Others ==
    ASSUME TypeOK, NEW w \in Workers, Kind(w), NEW v \in Workers, v # w
    PROVE  /\ pc'[v] = pc[v] /\ legs'[v] = legs[v] /\ at'[v] = at[v]
           /\ own'[v] = own[v] /\ answers'[v] = answers[v]
           /\ Locked(v)' = Locked(v)
<1>0. /\ pc \in [Workers -> {"idle", "begin", "entries", "commit"}]
      /\ legs \in [Workers -> Postings \cup {<<>>}]
      /\ at \in [Workers -> Nat]
      /\ own \in [Workers -> [Accounts -> Int]]
      /\ answers \in [Workers -> Seq(AnswerRow)]
  BY DEF TypeOK
<1>1. /\ pc'[v] = pc[v] /\ legs'[v] = legs[v] /\ at'[v] = at[v]
      /\ own'[v] = own[v] /\ answers'[v] = answers[v]
  <2>1. CASE Quiet(w)
    BY <1>0, <2>1 DEF Quiet, Post, InsertTxn, txnVars
  <2>2. CASE InsertEntry(w)
    BY <1>0, <2>2 DEF InsertEntry, callVars
  <2>3. CASE Retry(w)
    BY <1>0, <2>3 DEF Retry, Rollback, Clear
  <2>4. CASE GiveUp(w)
    BY <1>0, <2>4 DEF GiveUp, Rollback, Clear, Answer
  <2>5. CASE Seals(w)
    BY <1>0, <2>5 DEF Seals, txnVars
  <2>6. CASE Commits(w)
    BY <1>0, <2>6 DEF Commits, Install, Clear, Answer
  <2>7. QED BY <2>1, <2>2, <2>3, <2>4, <2>5, <2>6 DEF Kind
<1>2. QED BY <1>1, LockedSame

(* Only a commit changes the database. *)
LEMMA DatabaseKept ==
    ASSUME NEW w \in Workers, Kind(w), ~Commits(w)
    PROVE  UNCHANGED db /\ UNCHANGED <<isolation, inserting>>
<1>1. CASE Quiet(w)
  BY <1>1 DEF Quiet, Post, InsertTxn
<1>2. CASE InsertEntry(w)
  BY <1>2 DEF InsertEntry
<1>3. CASE Retry(w)
  BY <1>3 DEF Retry, Rollback
<1>4. CASE GiveUp(w)
  BY <1>4 DEF GiveUp, Rollback
<1>5. CASE Seals(w)
  BY <1>5 DEF Seals
<1>6. QED BY <1>1, <1>2, <1>3, <1>4, <1>5 DEF Kind

(* A writer leaves the workers alone. *)
LEMMA WorkersKept ==
    ASSUME NEW d \in Writers, WriterStep(d)
    PROVE  UNCHANGED <<isolation, pc, legs, attempt, answers, at, own, net>>
BY DEF WriterStep, OpenTxn, GuardInsert, FinishInsert, SealDirect, workerVars, callVars

(* A commit adds its own changes of the rows it has locked. *)
LEMMA Committing ==
    ASSUME TypeOK, NEW w \in Workers, Attempt(w), Commits(w)
    PROVE  /\ balance' \in [Accounts -> Int]
           /\ \A a \in Accounts : balance'[a] = balance[a] + own[w][a]
           /\ \A a \in Accounts \ Locked(w) : balance'[a] = balance[a]
           /\ Locked(w) = {legs[w][k].account : k \in DOMAIN legs[w]}
<1>1. balance \in [Accounts -> Int] /\ own[w] \in [Accounts -> Int]
  BY DEF TypeOK
<1>2. balance' = [a \in Accounts |-> balance[a] + own[w][a]]
  BY DEF Commits, Install
<1>3. legs[w] \in Seq(Entry) /\ at[w] = Len(legs[w])
  BY LegsTyped DEF Commits, Attempt
<1>4. Locked(w) = {legs[w][k].account : k \in DOMAIN legs[w]}
  BY <1>3 DEF Locked
<1>5. QED BY <1>1, <1>2, <1>4 DEF Attempt

-----------------------------------------------------------------------------
(* Type correctness.                                                       *)

LEMMA LockedTyped ==
    ASSUME TypeOK, NEW w \in Workers
    PROVE  Locked(w) \subseteq Accounts
<1>1. legs[w] \in Seq(Entry) /\ at[w] \in Nat /\ at[w] <= Len(legs[w])
  BY LegsTyped DEF TypeOK
<1>2. \A k \in 1..at[w] : legs[w][k] \in Entry
  BY <1>1
<1>3. QED BY <1>2 DEF Locked, Entry

LEMMA OutdateTyped ==
    ASSUME TypeOK, NEW s, NEW accounts \in SUBSET Accounts, Outdate(s, accounts)
    PROVE  stale' \in [Workers -> SUBSET Accounts]
BY DEF Outdate, TypeOK

LEMMA TypeOfWorkers ==
    ASSUME TypeOK, Attempts, NEW w \in Workers, Kind(w)
    PROVE  /\ pc' \in [Workers -> {"idle", "begin", "entries", "commit"}]
           /\ legs' \in [Workers -> Postings \cup {<<>>}]
           /\ attempt' \in [Workers -> 0..MaxRetries]
           /\ at' \in [Workers -> Nat]
           /\ at'[w] <= Len(legs'[w])
           /\ own' \in [Workers -> [Accounts -> Int]]
           /\ net' \in [Workers -> Amounts]
           /\ stale' \in [Workers -> SUBSET Accounts]
           /\ answers' \in [Workers -> Seq(AnswerRow)]
<1>0. /\ pc \in [Workers -> {"idle", "begin", "entries", "commit"}]
      /\ legs \in [Workers -> Postings \cup {<<>>}]
      /\ attempt \in [Workers -> 0..MaxRetries]
      /\ at \in [Workers -> Nat]
      /\ at[w] <= Len(legs[w])
      /\ own \in [Workers -> [Accounts -> Int]]
      /\ net \in [Workers -> Amounts]
      /\ stale \in [Workers -> SUBSET Accounts]
      /\ answers \in [Workers -> Seq(AnswerRow)]
      /\ Attempt(w)
  BY DEF TypeOK, Amounts, Attempts
<1>1. CASE Quiet(w)
  <2>1. CASE \E posting \in Postings : Post(w, posting)
    <3>1. PICK posting \in Postings : Post(w, posting)
      BY <2>1
    <3>2. at[w] = 0
      BY <3>1, <1>0 DEF Post, Attempt
    <3>3. legs'[w] = posting /\ Len(posting) \in Nat
      BY <3>1, <1>0, EntriesAssumption DEF Post
    <3>4. UNCHANGED <<attempt, answers, at, own, net, stale>>
      BY <3>1 DEF Post, txnVars
    <3>5. /\ pc' = [pc EXCEPT ![w] = "begin"]
          /\ legs' = [legs EXCEPT ![w] = posting]
      BY <3>1 DEF Post
    <3>6. QED BY <1>0, <3>2, <3>3, <3>4, <3>5
  <2>2. CASE InsertTxn(w)
    BY <1>0, <2>2 DEF InsertTxn, txnVars
  <2>3. QED BY <1>1, <2>1, <2>2 DEF Quiet
<1>2. CASE InsertEntry(w)
  <2>1. HasLeg(w) /\ Leg(w) \in Entry
    BY <1>2, LegTyped DEF InsertEntry
  <2>2. Leg(w).account \in Accounts /\ Leg(w).currency \in Currencies /\ Signed(Leg(w)) \in Int
    BY <2>1, SignedInt DEF Entry
  <2>3. Len(legs[w]) \in Nat
    BY LegsTyped
  <2>4. /\ at' = [at EXCEPT ![w] = at[w] + 1]
        /\ own' = [own EXCEPT ![w] = Add(own[w], Leg(w).account, Signed(Leg(w)))]
        /\ net' = [net EXCEPT ![w] = Add(net[w], Leg(w).currency, Signed(Leg(w)))]
        /\ UNCHANGED <<pc, legs, attempt, answers, stale>>
    BY <1>2 DEF InsertEntry, callVars
  <2>5. Add(own[w], Leg(w).account, Signed(Leg(w))) \in [Accounts -> Int]
    BY <1>0, <2>2, Adding
  <2>6. Add(net[w], Leg(w).currency, Signed(Leg(w))) \in Amounts
    BY <1>0, <2>2, Adding DEF Amounts
  <2>7. at[w] + 1 \in Nat /\ at[w] + 1 <= Len(legs[w])
    BY <1>0, <2>1, <2>3 DEF HasLeg
  <2>8. QED BY <1>0, <2>4, <2>5, <2>6, <2>7
<1>3. CASE Retry(w)
  <2>1. Clear(w) /\ stale' = [stale EXCEPT ![w] = {}]
    BY <1>3 DEF Retry, Rollback
  <2>2. Len(legs[w]) \in Nat
    BY LegsTyped
  <2>3. attempt' \in [Workers -> 0..MaxRetries]
    BY <1>0, <1>3, BoundsAssumption DEF Retry
  <2>4. /\ pc' = [pc EXCEPT ![w] = "begin"]
        /\ UNCHANGED <<legs, answers>>
    BY <1>3 DEF Retry
  <2>5. QED BY <1>0, <2>1, <2>2, <2>3, <2>4, Ended
<1>a. ASSUME NEW result \in Results, Answer(w, result), pc[w] # "idle", Clear(w),
             stale' \in [Workers -> SUBSET Accounts]
      PROVE  /\ pc' \in [Workers -> {"idle", "begin", "entries", "commit"}]
             /\ legs' \in [Workers -> Postings \cup {<<>>}]
             /\ attempt' \in [Workers -> 0..MaxRetries]
             /\ at' \in [Workers -> Nat]
             /\ at'[w] <= Len(legs'[w])
             /\ own' \in [Workers -> [Accounts -> Int]]
             /\ net' \in [Workers -> Amounts]
             /\ stale' \in [Workers -> SUBSET Accounts]
             /\ answers' \in [Workers -> Seq(AnswerRow)]
  <2>1. legs[w] \in Postings
    BY <1>0, <1>a DEF Attempt
  <2>2. /\ pc' = [pc EXCEPT ![w] = "idle"]
        /\ legs' = [legs EXCEPT ![w] = <<>>]
        /\ attempt' \in [Workers -> 0..MaxRetries]
        /\ answers' \in [Workers -> Seq(AnswerRow)]
    BY <1>a, <2>1, AnswerTyped
  <2>3. /\ at'[w] = 0
        /\ at' \in [Workers -> Nat]
        /\ own' \in [Workers -> [Accounts -> Int]]
        /\ net' \in [Workers -> Amounts]
    BY <1>a, Ended
  <2>4. Len(legs'[w]) = 0
    BY <1>0, <2>2
  <2>5. at'[w] <= Len(legs'[w])
    BY <2>3, <2>4
  <2>6. pc' \in [Workers -> {"idle", "begin", "entries", "commit"}]
    BY <1>0, <2>2
  <2>7. legs' \in [Workers -> Postings \cup {<<>>}]
    BY <1>0, <2>2
  <2>8. QED BY <1>a, <2>2, <2>3, <2>5, <2>6, <2>7
<1>4. CASE GiveUp(w)
  <2>1. PICK result \in Results \ {"posted"} : Answer(w, result)
    BY <1>4 DEF GiveUp
  <2>2. Clear(w) /\ stale' \in [Workers -> SUBSET Accounts]
    BY <1>0, <1>4 DEF GiveUp, Rollback
  <2>3. QED BY <1>a, <2>1, <2>2, <1>4 DEF GiveUp
<1>5. CASE Seals(w)
  BY <1>0, <1>5 DEF Seals, txnVars
<1>6. CASE Commits(w)
  <2>1. PICK result \in {"posted", "lost"} : Answer(w, result)
    BY <1>6 DEF Commits
  <2>2. Clear(w) /\ Outdate(w, Locked(w))
    BY <1>6 DEF Commits, Install
  <2>3. stale' \in [Workers -> SUBSET Accounts]
    BY <2>2, LockedTyped, OutdateTyped
  <2>4. result \in Results /\ pc[w] # "idle"
    BY <1>6, <2>1 DEF Results, Commits
  <2>5. QED BY <1>a, <2>1, <2>2, <2>3, <2>4
<1>7. QED BY <1>1, <1>2, <1>3, <1>4, <1>5, <1>6 DEF Kind

JournalRow(ids) == [txn : ids, n : Nat, entry : Entry]

(* What Install makes of the database. *)
LEMMA TypeOfCommit ==
    ASSUME TypeOK, IsFiniteSet(journal), NEW w \in Workers, Attempt(w), Commits(w)
    PROVE  /\ txns' \subseteq TxnId
           /\ sealed' \subseteq txns'
           /\ journal' \subseteq JournalRow(txns')
           /\ totals' \in [txns' -> Amounts]
           /\ balance' \in [Accounts -> Int]
           /\ IsFiniteSet(journal')
<1> DEFINE new == {[txn |-> Id(w), n |-> k, entry |-> legs[w][k]] : k \in DOMAIN legs[w]}
<1>1. /\ txns' = txns \cup {Id(w)}
      /\ sealed' = sealed \cup {Id(w)}
      /\ journal' = journal \cup new
      /\ totals' = [id \in txns' |-> IF id = Id(w) THEN net[w] ELSE totals[id]]
  BY DEF Commits, Install
<1>2. /\ txns \subseteq TxnId /\ sealed \subseteq txns
      /\ journal \subseteq JournalRow(txns)
      /\ totals \in [txns -> Amounts] /\ net[w] \in Amounts
  BY DEF TypeOK, JournalRow, Amounts
<1>3. Id(w) \in TxnId
  BY IdTyped
<1>4. legs[w] \in Seq(Entry) /\ Len(legs[w]) \in Nat
  BY LegsTyped
<1>5. DOMAIN legs[w] = 1..Len(legs[w]) /\ \A k \in DOMAIN legs[w] : legs[w][k] \in Entry
  BY <1>4
<1>6. new \subseteq JournalRow(txns')
  BY <1>1, <1>5, <1>4 DEF JournalRow
<1>7. journal \subseteq JournalRow(txns')
  BY <1>1, <1>2 DEF JournalRow
<1>8. IsFiniteSet(new)
  <2>1. IsFiniteSet(1..Len(legs[w]))
    BY <1>4, FS_Interval
  <2>2. IsFiniteSet(DOMAIN legs[w])
    BY <1>5, <2>1
  <2> DEFINE f == [k \in DOMAIN legs[w] |-> [txn |-> Id(w), n |-> k, entry |-> legs[w][k]]]
  <2>3. f \in Surjection(DOMAIN legs[w], new)
    BY DEF Surjection
  <2>4. QED BY <2>2, <2>3, FS_Surjection
<1>9. IsFiniteSet(journal')
  BY <1>1, <1>8, FS_Union
<1>10. totals' \in [txns' -> Amounts]
  BY <1>1, <1>2
<1>11. balance' \in [Accounts -> Int]
  BY Committing
<1>12. QED BY <1>1, <1>2, <1>3, <1>6, <1>7, <1>9, <1>10, <1>11

LEMMA TypeOfWorkerStep ==
    ASSUME TypeOK, Attempts, IsFiniteSet(journal), NEW w \in Workers, Kind(w)
    PROVE  TypeOK' /\ IsFiniteSet(journal)'
<1>1. \A v \in Workers : at'[v] <= Len(legs'[v])
  <2>1. SUFFICES ASSUME NEW v \in Workers PROVE at'[v] <= Len(legs'[v])
    OBVIOUS
  <2>2. CASE v = w
    BY <2>2, TypeOfWorkers
  <2>3. CASE v # w
    <3>1. at'[v] = at[v] /\ legs'[v] = legs[v]
      BY <2>3, Others
    <3>2. QED BY <3>1 DEF TypeOK
  <2>4. QED BY <2>2, <2>3
<1>2. /\ txns' \subseteq TxnId
      /\ sealed' \subseteq txns'
      /\ journal' \subseteq JournalRow(txns')
      /\ totals' \in [txns' -> Amounts]
      /\ balance' \in [Accounts -> Int]
      /\ IsFiniteSet(journal')
  <2>1. CASE Commits(w)
    BY <2>1, TypeOfCommit DEF Attempts
  <2>2. CASE ~Commits(w)
    <3>1. UNCHANGED <<txns, sealed, journal, totals, balance>>
      BY <2>2, DatabaseKept DEF db
    <3>2. QED BY <3>1 DEF TypeOK, JournalRow, Amounts
  <2>3. QED BY <2>1, <2>2
<1>3. UNCHANGED <<isolation, inserting>>
  <2>1. CASE Commits(w)
    BY <2>1 DEF Commits
  <2>2. QED BY <2>1, DatabaseKept
<1>4. /\ isolation' \in [Workers -> {"SERIALIZABLE", "READ COMMITTED"}]
      /\ inserting' \in [Writers -> [txn : TxnId, entry : DirectEntries] \cup {<<>>}]
  BY <1>3 DEF TypeOK
<1>5. QED BY <1>1, <1>2, <1>4, TypeOfWorkers DEF TypeOK, JournalRow, Amounts

(* A writer's INSERT, when it runs. *)
LEMMA InsertingTyped ==
    ASSUME TypeOK, OpenTxnsAreDirect, NEW d \in Writers, inserting[d] # <<>>
    PROVE  /\ inserting[d].txn \in txns
           /\ inserting[d].txn.actor \in Writers
           /\ inserting[d].entry \in Entry
           /\ inserting[d].entry.account \in Accounts
           /\ inserting[d].entry.currency \in Currencies
<1>1. inserting[d] \in [txn : TxnId, entry : DirectEntries]
  BY DEF TypeOK
<1>2. inserting[d].entry \in Entry
  BY <1>1, EntriesAssumption
<1>3. QED BY <1>2 DEF OpenTxnsAreDirect, Entry

LEMMA DirectIdTyped ==
    ASSUME NEW d \in Writers
    PROVE  DirectId(d) \in TxnId /\ DirectId(d).actor = d
BY DEF DirectId, TxnId

LEMMA TypeOfWriterStep ==
    ASSUME TypeOK, OpenTxnsAreDirect, IsFiniteSet(journal), NEW d \in Writers, WriterStep(d)
    PROVE  TypeOK' /\ IsFiniteSet(journal)'
<1>0. /\ txns \subseteq TxnId /\ sealed \subseteq txns
      /\ journal \subseteq JournalRow(txns)
      /\ totals \in [txns -> Amounts]
      /\ balance \in [Accounts -> Int]
      /\ stale \in [Workers -> SUBSET Accounts]
      /\ inserting \in [Writers -> [txn : TxnId, entry : DirectEntries] \cup {<<>>}]
  BY DEF TypeOK, JournalRow, Amounts
<1>1. /\ txns' \subseteq TxnId
      /\ sealed' \subseteq txns'
      /\ journal' \subseteq JournalRow(txns')
      /\ totals' \in [txns' -> Amounts]
      /\ balance' \in [Accounts -> Int]
      /\ IsFiniteSet(journal')
      /\ stale' \in [Workers -> SUBSET Accounts]
      /\ inserting' \in [Writers -> [txn : TxnId, entry : DirectEntries] \cup {<<>>}]
  <2>1. CASE OpenTxn(d)
    <3>1. /\ txns' = txns \cup {DirectId(d)}
          /\ totals' = [id \in txns' |-> IF id = DirectId(d) THEN NoAmounts ELSE totals[id]]
          /\ UNCHANGED <<sealed, journal, balance, stale, inserting>>
      BY <2>1 DEF OpenTxn
    <3>2. NoAmounts \in Amounts
      BY DEF NoAmounts, Amounts
    <3>3. totals' \in [txns' -> Amounts]
      BY <1>0, <3>1, <3>2
    <3>4. journal' \subseteq JournalRow(txns')
      BY <1>0, <3>1 DEF JournalRow
    <3>5. QED BY <1>0, <3>1, <3>3, <3>4, DirectIdTyped
  <2>2. CASE \E id \in txns, e \in DirectEntries : GuardInsert(d, id, e)
    <3>1. PICK id \in txns, e \in DirectEntries : GuardInsert(d, id, e)
      BY <2>2
    <3>2. /\ inserting' = [inserting EXCEPT ![d] = [txn |-> id, entry |-> e]]
          /\ UNCHANGED <<txns, sealed, journal, totals, balance, stale>>
      BY <3>1 DEF GuardInsert, db
    <3>3. [txn |-> id, entry |-> e] \in [txn : TxnId, entry : DirectEntries]
      BY <1>0
    <3>4. QED BY <1>0, <3>2, <3>3
  <2>3. CASE FinishInsert(d)
    <3> DEFINE id == inserting[d].txn
               e == inserting[d].entry
               row == [txn |-> id, n |-> Cardinality(Rows(id)) + 1, entry |-> e]
    <3>1. /\ inserting[d] # <<>>
          /\ journal' = journal \cup {row}
          /\ totals' = [totals EXCEPT ![id] = Add(totals[id], e.currency, Signed(e))]
          /\ balance' = Add(balance, e.account, Signed(e))
          /\ Outdate(d, {e.account})
          /\ inserting' = [inserting EXCEPT ![d] = <<>>]
          /\ UNCHANGED <<txns, sealed>>
      BY <2>3 DEF FinishInsert
    <3>2. id \in txns /\ e \in Entry /\ e.account \in Accounts /\ e.currency \in Currencies
      BY <3>1, InsertingTyped
    <3>3. Signed(e) \in Int
      BY <3>2, SignedInt
    <3>4. Cardinality(Rows(id)) + 1 \in Nat
      <4>1. IsFiniteSet(Rows(id))
        BY FS_Subset DEF Rows
      <4>2. QED BY <4>1, FS_CardinalityType
    <3>5. row \in JournalRow(txns)
      BY <3>2, <3>4 DEF JournalRow
    <3>6. Add(totals[id], e.currency, Signed(e)) \in Amounts
      BY <1>0, <3>2, <3>3, Adding DEF Amounts
    <3>7. Add(balance, e.account, Signed(e)) \in [Accounts -> Int]
      BY <1>0, <3>2, <3>3, Adding
    <3>8. stale' \in [Workers -> SUBSET Accounts]
      BY <3>1, <3>2, OutdateTyped
    <3>9. IsFiniteSet(journal')
      BY <3>1, FS_AddElement
    <3> HIDE DEF id, e, row
    <3>10. totals' \in [txns' -> Amounts]
      BY <1>0, <3>1, <3>2, <3>6
    <3>11. inserting' \in [Writers -> [txn : TxnId, entry : DirectEntries] \cup {<<>>}]
      BY <1>0, <3>1
    <3>12. QED BY <1>0, <3>1, <3>5, <3>7, <3>8, <3>9, <3>10, <3>11
  <2>4. CASE \E id \in txns : SealDirect(d, id)
    BY <1>0, <2>4 DEF SealDirect
  <2>5. QED BY <2>1, <2>2, <2>3, <2>4 DEF WriterStep
<1>2. UNCHANGED <<isolation, pc, legs, attempt, answers, at, own, net>>
  BY WorkersKept
<1>3. QED BY <1>1, <1>2 DEF TypeOK, JournalRow, Amounts

-----------------------------------------------------------------------------
(* Locks and attempts.                                                     *)

(* InsertEntry locks one more row, which nobody else has. *)
LEMMA Locking ==
    ASSUME TypeOK, NEW w \in Workers, InsertEntry(w)
    PROVE  /\ Locked(w)' = Locked(w) \cup {Leg(w).account}
           /\ \A v \in Workers \ {w} : Leg(w).account \notin Locked(v)
<1>1. at[w] \in Nat /\ at'[w] = at[w] + 1 /\ legs'[w] = legs[w]
  BY DEF InsertEntry, callVars, TypeOK
<1>2. 1..(at[w] + 1) = (1..at[w]) \cup {at[w] + 1}
  BY <1>1
<1>3. Locked(w)' = {legs[w][k].account : k \in 1..(at[w] + 1)}
  BY <1>1 DEF Locked
<1>4. Locked(w)' = Locked(w) \cup {legs[w][at[w] + 1].account}
  BY <1>2, <1>3 DEF Locked
<1>5. QED BY <1>4 DEF Leg, InsertEntry, LockedByOther

(* The rows w has locked after a step: one more, or none, or the same. *)
LEMMA LockedAfter ==
    ASSUME TypeOK, NEW w \in Workers, Attempt(w), Kind(w), ~InsertEntry(w)
    PROVE  Locked(w)' \subseteq Locked(w)
<1>1. CASE Quiet(w)
  <2>1. at[w] = 0 /\ at' = at
    BY <1>1 DEF Quiet, Post, InsertTxn, txnVars, Attempt
  <2>2. QED BY <2>1 DEF Locked
<1>2. CASE Retry(w) \/ GiveUp(w) \/ Commits(w)
  BY <1>2, Ended DEF Retry, GiveUp, Commits, Rollback, Install
<1>3. CASE Seals(w)
  BY <1>3, LockedSame DEF Seals, txnVars
<1>4. QED BY <1>1, <1>2, <1>3 DEF Kind

LEMMA LocksApartStep ==
    ASSUME TypeOK, Attempts, LocksApart, NEW w \in Workers, Kind(w)
    PROVE  LocksApart'
<1>1. \A v \in Workers \ {w} : Locked(v)' = Locked(v)
  BY Others
<1>2. \A v \in Workers \ {w} : Locked(v)' \cap Locked(w)' = {}
  <2>1. CASE InsertEntry(w)
    BY <1>1, <2>1, Locking DEF LocksApart
  <2>2. CASE ~InsertEntry(w)
    BY <1>1, <2>2, LockedAfter DEF LocksApart, Attempts
  <2>3. QED BY <2>1, <2>2
<1>3. \A u, v \in Workers \ {w} : u # v => Locked(u)' \cap Locked(v)' = {}
  BY <1>1 DEF LocksApart
<1>4. QED BY <1>2, <1>3 DEF LocksApart

(* A commit leaves alone the balances somebody else is about to commit. *)
LEMMA FloorsOfOthers ==
    ASSUME TypeOK, Attempts, LocksApart, NEW w \in Workers, Kind(w),
           NEW v \in Workers, v # w, pc[v] = "commit", AtFloors(v)
    PROVE  AtFloors(v)'
<1>1. legs'[v] = legs[v] /\ own'[v] = own[v]
  BY Others
<1>2. at[v] = Len(legs[v]) /\ legs[v] \in Seq(Entry)
  BY LegsTyped DEF Attempts, Attempt
<1>3. \A k \in DOMAIN legs[v] :
         legs[v][k].account \in Locked(v) /\ legs[v][k].account \in Accounts
  <2>1. DOMAIN legs[v] = 1..at[v]
    BY <1>2
  <2>2. \A k \in DOMAIN legs[v] : legs[v][k] \in Entry
    BY <1>2
  <2>3. QED BY <2>1, <2>2 DEF Locked, Entry
<1>4. \A a \in Accounts : a \in Locked(v) => balance'[a] = balance[a]
  <2>1. CASE Commits(w)
    BY <2>1, Committing DEF LocksApart, Attempts
  <2>2. CASE ~Commits(w)
    BY <2>2, DatabaseKept DEF db
  <2>3. QED BY <2>1, <2>2
<1>5. QED BY <1>1, <1>3, <1>4 DEF AtFloors

LEMMA AttemptStep ==
    ASSUME TypeOK, Attempts, LocksApart, NEW w \in Workers, Kind(w)
    PROVE  Attempts'
<1>0. /\ pc \in [Workers -> {"idle", "begin", "entries", "commit"}]
      /\ legs \in [Workers -> Postings \cup {<<>>}]
      /\ own \in [Workers -> [Accounts -> Int]]
      /\ Attempt(w)
  BY DEF TypeOK, Attempts
<1>1. ASSUME NEW v \in Workers, v # w PROVE Attempt(v)'
  <2>1. /\ pc'[v] = pc[v] /\ legs'[v] = legs[v] /\ at'[v] = at[v]
        /\ own'[v] = own[v] /\ Locked(v)' = Locked(v)
    BY <1>1, Others
  <2>2. pc[v] = "commit" /\ AtFloors(v) => AtFloors(v)'
    BY <1>1, FloorsOfOthers
  <2>3. Attempt(v)
    BY DEF Attempts
  <2>4. QED BY <2>1, <2>2, <2>3 DEF Attempt
<1>2. Attempt(w)'
  <2>1. CASE Quiet(w)
    <3>1. CASE \E posting \in Postings : Post(w, posting)
      <4>1. PICK posting \in Postings : Post(w, posting)
        BY <3>1
      <4>2. at[w] = 0 /\ at'[w] = at[w] /\ own'[w] = own[w]
        BY <1>0, <4>1 DEF Post, txnVars, Attempt
      <4>3. Locked(w) = {} /\ Locked(w)' = {}
        BY <4>2, NoneLocked DEF Locked
      <4>4. pc'[w] = "begin" /\ legs'[w] = posting
        BY <1>0, <4>1 DEF Post
      <4>5. QED BY <1>0, <4>2, <4>3, <4>4 DEF Attempt
    <3>2. CASE InsertTxn(w)
      <4>1. pc[w] = "begin" /\ pc'[w] = "entries" /\ UNCHANGED <<at, own, legs>>
        BY <1>0, <3>2 DEF InsertTxn, txnVars
      <4>2. Locked(w)' = Locked(w)
        BY <4>1, LockedSame
      <4>3. QED BY <1>0, <4>1, <4>2 DEF Attempt
    <3>3. QED BY <2>1, <3>1, <3>2 DEF Quiet
  <2>2. CASE InsertEntry(w)
    <3>1. Leg(w) \in Entry /\ Signed(Leg(w)) \in Int /\ Leg(w).account \in Accounts
      BY <2>2, LegTyped, SignedInt DEF InsertEntry, Entry
    <3>2. own'[w] = Add(own[w], Leg(w).account, Signed(Leg(w)))
      BY <1>0, <2>2 DEF InsertEntry
    <3>3. \A a \in Accounts : a # Leg(w).account => own'[w][a] = own[w][a]
      <4>1. own[w] \in [Accounts -> Int]
        BY <1>0
      <4>2. \A a \in Accounts : a # Leg(w).account =>
               Add(own[w], Leg(w).account, Signed(Leg(w)))[a] = own[w][a]
        BY <4>1, <3>1, Adding
      <4>3. QED BY <3>2, <4>2
    <3>4. pc[w] = "entries" /\ UNCHANGED <<pc, legs>>
      BY <2>2 DEF InsertEntry, HasLeg, callVars
    <3>5. QED BY <1>0, <2>2, <3>3, <3>4, Locking DEF Attempt
  <2>3. CASE Retry(w)
    <3>1. Clear(w) /\ pc[w] # "idle" /\ legs' = legs /\ pc'[w] = "begin"
      BY <1>0, <2>3 DEF Retry, Rollback
    <3>2. at'[w] = 0 /\ own'[w] = Unchanged
      BY <3>1, Ended
    <3>3. QED BY <1>0, <3>1, <3>2 DEF Attempt, Unchanged
  <2>4. CASE GiveUp(w) \/ Commits(w)
    <3>1. Clear(w) /\ pc'[w] = "idle"
      BY <1>0, <2>4 DEF GiveUp, Commits, Rollback, Install, Answer
    <3>2. at'[w] = 0 /\ own'[w] = Unchanged
      BY <3>1, Ended
    <3>3. QED BY <3>1, <3>2 DEF Attempt, Unchanged
  <2>5. CASE Seals(w)
    <3>1. /\ pc[w] = "entries" /\ pc'[w] = "commit" /\ at[w] = Len(legs[w])
          /\ AtFloors(w)
          /\ UNCHANGED <<at, own, legs, balance>>
      BY <1>0, <2>5 DEF Seals, Sealable, txnVars, db
    <3>2. AtFloors(w)' /\ Locked(w)' = Locked(w)
      BY <3>1, LockedSame DEF AtFloors
    <3>3. QED BY <1>0, <3>1, <3>2 DEF Attempt
  <2>6. QED BY <2>1, <2>2, <2>3, <2>4, <2>5 DEF Kind
<1>3. QED BY <1>1, <1>2 DEF Attempts

LEMMA LocksApartWriter ==
    ASSUME LocksApart, NEW d \in Writers, WriterStep(d)
    PROVE  LocksApart'
<1>1. \A w \in Workers : Locked(w)' = Locked(w)
  BY WorkersKept DEF Locked
<1>2. QED BY <1>1 DEF LocksApart

(* A writer changes only balances no worker has locked. *)
LEMMA WriterBalances ==
    ASSUME TypeOK, OpenTxnsAreDirect, NEW d \in Writers, WriterStep(d),
           NEW a \in Accounts,
           ~FinishInsert(d) \/ a # inserting[d].entry.account
    PROVE  balance'[a] = balance[a]
<1>1. CASE ~FinishInsert(d)
  BY <1>1 DEF WriterStep, OpenTxn, GuardInsert, SealDirect, db
<1>2. CASE FinishInsert(d)
  <2>1. balance \in [Accounts -> Int]
    BY DEF TypeOK
  <2>2. inserting[d].entry \in Entry /\ inserting[d].entry.account \in Accounts
    BY <1>2, InsertingTyped DEF FinishInsert
  <2>3. balance' = Add(balance, inserting[d].entry.account, Signed(inserting[d].entry))
    BY <1>2 DEF FinishInsert
  <2>4. a # inserting[d].entry.account
    BY <1>2
  <2>5. Signed(inserting[d].entry) \in Int
    BY <2>2, SignedInt
  <2>6. Add(balance, inserting[d].entry.account, Signed(inserting[d].entry))[a] = balance[a]
    BY <2>1, <2>2, <2>4, <2>5, Adding
  <2>7. QED BY <2>3, <2>6
<1>3. QED BY <1>1, <1>2

LEMMA AttemptWriter ==
    ASSUME TypeOK, Attempts, OpenTxnsAreDirect, NEW d \in Writers, WriterStep(d)
    PROVE  Attempts'
<1>1. SUFFICES ASSUME NEW w \in Workers PROVE Attempt(w)'
  BY DEF Attempts
<1>2. Attempt(w) /\ UNCHANGED <<pc, legs, at, own>>
  BY WorkersKept DEF Attempts
<1>3. Locked(w)' = Locked(w)
  BY <1>2 DEF Locked
<1>4. ASSUME pc[w] = "commit", AtFloors(w) PROVE AtFloors(w)'
  <2>1. at[w] = Len(legs[w]) /\ legs[w] \in Seq(Entry)
    BY <1>2, <1>4, LegsTyped DEF Attempt
  <2>2. DOMAIN legs[w] = 1..at[w]
    BY <2>1
  <2>3. \A k \in DOMAIN legs[w] : legs[w][k] \in Entry
    BY <2>1
  <2>4. \A k \in DOMAIN legs[w] :
           legs[w][k].account \in Locked(w) /\ legs[w][k].account \in Accounts
    BY <2>2, <2>3 DEF Locked, Entry
  <2>5. \A a \in Accounts : a \in Locked(w) => balance'[a] = balance[a]
    <3>1. ASSUME NEW a \in Accounts, a \in Locked(w) PROVE balance'[a] = balance[a]
      <4>1. ~FinishInsert(d) \/ a # inserting[d].entry.account
        BY <3>1 DEF FinishInsert
      <4>2. QED BY <4>1, WriterBalances
    <3>2. QED BY <3>1
  <2>6. QED BY <1>2, <1>4, <2>4, <2>5 DEF AtFloors
<1>5. QED BY <1>2, <1>3, <1>4 DEF Attempt

-----------------------------------------------------------------------------
(* Transactions and calls.                                                 *)

LEMMA AnswersGrow ==
    ASSUME TypeOK, NEW w \in Workers, legs[w] \in Postings,
           NEW result \in Results, Answer(w, result)
    PROVE  /\ answers'[w] = Append(answers[w], Told(w, result))
           /\ Len(answers'[w]) = Len(answers[w]) + 1
           /\ \A n \in DOMAIN answers[w] : n \in DOMAIN answers'[w] /\ answers'[w][n] = answers[w][n]
           /\ \A n \in DOMAIN answers'[w] : n \in DOMAIN answers[w] \/ n = Len(answers[w]) + 1
           /\ answers'[w][Len(answers[w]) + 1] = Told(w, result)
<1>1. answers[w] \in Seq(AnswerRow)
  BY DEF TypeOK
<1>2. answers'[w] = Append(answers[w], Told(w, result))
  <2>1. answers' = [answers EXCEPT ![w] = Append(answers[w], Told(w, result))]
    BY AnswerTyped
  <2>2. answers \in [Workers -> Seq(AnswerRow)]
    BY DEF TypeOK
  <2>3. QED BY <2>1, <2>2
<1>3. Told(w, result) \in AnswerRow
  BY IdTyped DEF Told, AnswerRow, Results
<1>4. Len(answers[w]) \in Nat
  BY <1>1
<1> DEFINE row == Told(w, result)
           seq == answers[w]
<1> HIDE DEF row, seq
<1>5. ASSUME seq \in Seq(AnswerRow), row \in AnswerRow
      PROVE  /\ Len(Append(seq, row)) = Len(seq) + 1
             /\ \A n \in DOMAIN seq : n \in DOMAIN Append(seq, row) /\ Append(seq, row)[n] = seq[n]
             /\ \A n \in DOMAIN Append(seq, row) : n \in DOMAIN seq \/ n = Len(seq) + 1
             /\ Append(seq, row)[Len(seq) + 1] = row
  BY <1>5
<1>6. QED BY <1>1, <1>2, <1>3, <1>5 DEF row, seq

LEMMA OpenTxnsStep ==
    ASSUME TypeOK, OpenTxnsAreDirect, NEW w \in Workers, Kind(w)
    PROVE  OpenTxnsAreDirect'
<1>1. CASE Commits(w)
  BY <1>1 DEF Commits, Install, OpenTxnsAreDirect
<1>2. CASE ~Commits(w)
  BY <1>2, DatabaseKept DEF OpenTxnsAreDirect, db
<1>3. QED BY <1>1, <1>2

LEMMA OpenTxnsWriter ==
    ASSUME TypeOK, OpenTxnsAreDirect, NEW d \in Writers, WriterStep(d)
    PROVE  OpenTxnsAreDirect'
<1>1. CASE OpenTxn(d)
  BY <1>1, DirectIdTyped DEF OpenTxn, OpenTxnsAreDirect
<1>2. CASE \E id \in txns, e \in DirectEntries : GuardInsert(d, id, e)
  <2>1. PICK id \in txns, e \in DirectEntries : GuardInsert(d, id, e)
    BY <1>2
  <2>2. /\ id \in txns /\ id.actor \in Writers
        /\ inserting' = [inserting EXCEPT ![d] = [txn |-> id, entry |-> e]]
        /\ UNCHANGED <<txns, sealed>>
    BY <2>1 DEF GuardInsert, OpenTxnsAreDirect, db
  <2>3. \A c \in Writers : inserting'[c] = inserting[c] \/ inserting'[c] = [txn |-> id, entry |-> e]
    BY <2>2 DEF TypeOK
  <2>4. [txn |-> id, entry |-> e].txn = id
    OBVIOUS
  <2>5. QED BY <2>2, <2>3, <2>4 DEF OpenTxnsAreDirect
<1>3. CASE FinishInsert(d)
  <2>1. inserting' = [inserting EXCEPT ![d] = <<>>] /\ UNCHANGED <<txns, sealed>>
    BY <1>3 DEF FinishInsert
  <2>2. \A c \in Writers : inserting'[c] = inserting[c] \/ inserting'[c] = <<>>
    BY <2>1 DEF TypeOK
  <2>3. QED BY <2>1, <2>2 DEF OpenTxnsAreDirect
<1>4. CASE \E id \in txns : SealDirect(d, id)
  BY <1>4 DEF SealDirect, OpenTxnsAreDirect
<1>5. QED BY <1>1, <1>2, <1>3, <1>4 DEF WriterStep

(* What was answered stays answered. *)
LEMMA AnswersKept ==
    ASSUME TypeOK, Attempts, NEW w \in Workers, Kind(w), NEW v \in Workers
    PROVE  /\ Len(answers[v]) \in Nat /\ Len(answers'[v]) \in Nat
           /\ Len(answers[v]) <= Len(answers'[v])
           /\ \A n \in DOMAIN answers[v] : n \in DOMAIN answers'[v] /\ answers'[v][n] = answers[v][n]
<1>1. answers[v] \in Seq(AnswerRow) /\ answers[w] \in Seq(AnswerRow)
  BY DEF TypeOK
<1>2. CASE answers'[v] = answers[v]
  BY <1>1, <1>2
<1>3. CASE v # w
  BY <1>2, <1>3, Others
<1>4. CASE v = w /\ (GiveUp(w) \/ Commits(w))
  <2>1. PICK result \in Results : Answer(w, result)
    BY <1>4 DEF GiveUp, Commits, Results
  <2>2. legs[w] \in Postings
    BY <1>4 DEF GiveUp, Commits, Attempts, Attempt
  <2>3. /\ Len(answers'[w]) = Len(answers[w]) + 1
        /\ \A n \in DOMAIN answers[w] : n \in DOMAIN answers'[w] /\ answers'[w][n] = answers[w][n]
    BY <2>1, <2>2, AnswersGrow
  <2>4. Len(answers[w]) \in Nat
    BY <1>1
  <2>5. QED BY <1>4, <2>3, <2>4
<1>5. CASE v = w /\ ~(GiveUp(w) \/ Commits(w))
  <2>1. answers' = answers
    BY <1>5 DEF Kind, Quiet, Post, InsertTxn, InsertEntry, callVars, Retry, Seals
  <2>2. QED BY <1>2, <2>1
<1>6. QED BY <1>3, <1>4, <1>5

LEMMA CallsOpenStep ==
    ASSUME TypeOK, Attempts, CallsOpen, NEW w \in Workers, Kind(w)
    PROVE  CallsOpen'
<1>1. SUFFICES ASSUME NEW id \in txns', id.actor \in Workers
      PROVE  id.call <= Len(answers'[id.actor])
  BY DEF CallsOpen
<1>2. CASE id \in txns
  <2>1. id.call \in Nat /\ id.call <= Len(answers[id.actor])
    BY <1>1, <1>2 DEF CallsOpen, TypeOK, TxnId
  <2>2. QED BY <1>1, <2>1, AnswersKept
<1>3. CASE id \notin txns
  <2>1. Commits(w)
    BY <1>1, <1>3, DatabaseKept DEF db
  <2>2. id = Id(w)
    BY <1>1, <1>3, <2>1 DEF Commits, Install
  <2>3. PICK result \in Results : Answer(w, result)
    BY <2>1 DEF Commits, Results
  <2>4. legs[w] \in Postings
    BY <2>1 DEF Commits, Attempts, Attempt
  <2>5. Len(answers'[w]) = Len(answers[w]) + 1 /\ Len(answers[w]) \in Nat
    BY <2>3, <2>4, AnswersGrow, AnswersKept
  <2>6. QED BY <2>2, <2>5, IdTyped
<1>4. QED BY <1>2, <1>3

LEMMA CallsOpenWriter ==
    ASSUME CallsOpen, NEW d \in Writers, WriterStep(d)
    PROVE  CallsOpen'
<1>1. answers' = answers
  BY WorkersKept
<1>2. \A id \in txns' : id \in txns \/ id.actor \in Writers
  BY DirectIdTyped DEF WriterStep, OpenTxn, GuardInsert, FinishInsert, SealDirect, db
<1>3. QED BY <1>1, <1>2, ActorsAssumption DEF CallsOpen

-----------------------------------------------------------------------------
(* The floors.                                                             *)

LEMMA FloorsStep ==
    ASSUME TypeOK, Attempts, FloorsHeld, NEW w \in Workers, Kind(w)
    PROVE  FloorsHeld'
<1>1. CASE Commits(w)
  <2>1. SUFFICES ASSUME NEW a \in Accounts \ Overdraft,
                        \A row \in journal' : row.entry.account = a => row.txn.actor \in Workers
                 PROVE  balance'[a] >= Floor[a]
    BY DEF FloorsHeld
  <2>2. journal \subseteq journal'
    BY <1>1 DEF Commits, Install
  <2>3. balance[a] >= Floor[a]
    BY <2>1, <2>2 DEF FloorsHeld
  <2>4. CASE a \in Locked(w)
    <3>1. AtFloors(w) /\ Attempt(w)
      BY <1>1 DEF Commits, Attempts, Attempt
    <3>2. \E k \in DOMAIN legs[w] : legs[w][k].account = a
      BY <1>1, <2>4, <3>1, Committing
    <3>3. balance[a] + own[w][a] >= Floor[a]
      BY <2>1, <3>1, <3>2 DEF AtFloors
    <3>4. QED BY <1>1, <3>1, <3>3, Committing
  <2>5. CASE a \notin Locked(w)
    BY <1>1, <2>3, <2>5, Committing DEF Attempts
  <2>6. QED BY <2>4, <2>5
<1>2. CASE ~Commits(w)
  BY <1>2, DatabaseKept DEF FloorsHeld, db
<1>3. QED BY <1>1, <1>2

LEMMA FloorsWriter ==
    ASSUME TypeOK, OpenTxnsAreDirect, FloorsHeld, NEW d \in Writers, WriterStep(d)
    PROVE  FloorsHeld'
<1>1. SUFFICES ASSUME NEW a \in Accounts \ Overdraft,
                      \A row \in journal' : row.entry.account = a => row.txn.actor \in Workers
               PROVE  balance'[a] >= Floor[a]
  BY DEF FloorsHeld
<1>2. journal \subseteq journal'
  BY DEF WriterStep, OpenTxn, GuardInsert, FinishInsert, SealDirect, db
<1>3. balance[a] >= Floor[a]
  BY <1>1, <1>2 DEF FloorsHeld
<1>4. ~FinishInsert(d) \/ a # inserting[d].entry.account
  <2>1. SUFFICES ASSUME FinishInsert(d), a = inserting[d].entry.account PROVE FALSE
    OBVIOUS
  <2>2. inserting[d].txn.actor \in Writers
    BY <2>1, InsertingTyped DEF FinishInsert
  <2>3. [txn |-> inserting[d].txn, n |-> Cardinality(Rows(inserting[d].txn)) + 1,
         entry |-> inserting[d].entry] \in journal'
    BY <2>1 DEF FinishInsert
  <2>4. inserting[d].txn.actor \in Workers
    BY <1>1, <2>1, <2>3
  <2>5. QED BY <2>2, <2>4, ActorsAssumption
<1>5. QED BY <1>3, <1>4, WriterBalances

-----------------------------------------------------------------------------
(* The answers.                                                            *)

(* What AnswersHold asks of one answer. *)
Holds(w, n) ==
    LET a == answers[w][n]
    IN  /\ a.result = "posted" =>
             /\ TxnsOf(w, n) = {a.txn}
             /\ Rows(a.txn) = {[txn |-> a.txn, n |-> k, entry |-> a.legs[k]] :
                                   k \in DOMAIN a.legs}
        /\ a.result \in {"refused", "exhausted"} => TxnsOf(w, n) = {}
        /\ a.result = "lost" => TxnsOf(w, n) \subseteq {a.txn}

LEMMA HoldsStill ==
    ASSUME NEW v, NEW n, Holds(v, n), answers'[v][n] = answers[v][n],
           TxnsOf(v, n)' = TxnsOf(v, n),
           \A id \in TxnsOf(v, n) : Rows(id)' = Rows(id)
    PROVE  Holds(v, n)'
<1>1. CASE answers[v][n].result = "posted"
  <2>1. TxnsOf(v, n) = {answers[v][n].txn}
    BY <1>1 DEF Holds
  <2>2. Rows(answers[v][n].txn)' = Rows(answers[v][n].txn)
    <3>1. \A id : Rows(id)' = {row \in journal' : row.txn = id}
      BY DEF Rows
    <3>2. answers[v][n].txn \in TxnsOf(v, n)
      BY <2>1
    <3>3. QED BY <3>1, <3>2 DEF Rows
  <2>3. QED BY <1>1, <2>1, <2>2 DEF Holds
<1>2. QED BY <1>1 DEF Holds

LEMMA AnswersStep ==
    ASSUME TypeOK, Attempts, CallsOpen, AnswersHold, NEW w \in Workers, Kind(w)
    PROVE  AnswersHold'
<1>1. SUFFICES ASSUME NEW v \in Workers, NEW n \in DOMAIN answers'[v] PROVE Holds(v, n)'
  BY DEF AnswersHold, Holds
<1>t. /\ answers[v] \in Seq(AnswerRow) /\ Len(answers[v]) \in Nat
      /\ DOMAIN answers[v] = 1..Len(answers[v])
      /\ Id(w).actor = w /\ Id(w).call = Len(answers[w]) + 1
  <2>1. answers[v] \in Seq(AnswerRow)
    BY DEF TypeOK
  <2>2. QED BY <2>1, IdTyped
<1>d. /\ txns' = txns \/ (Commits(w) /\ txns' = txns \cup {Id(w)})
      /\ \A id : id # Id(w) => Rows(id)' = Rows(id)
  <2>1. CASE Commits(w)
    <3>1. /\ txns' = txns \cup {Id(w)}
          /\ journal' = journal \cup
                {[txn |-> Id(w), n |-> k, entry |-> legs[w][k]] : k \in DOMAIN legs[w]}
      BY <2>1 DEF Commits, Install
    <3>2. QED BY <2>1, <3>1 DEF Rows
  <2>2. CASE ~Commits(w)
    BY <2>2, DatabaseKept DEF db, Rows
  <2>3. QED BY <2>1, <2>2
<1>2. CASE n \in DOMAIN answers[v]
  <2>1. answers'[v][n] = answers[v][n]
    BY <1>2, AnswersKept
  <2>2. Id(w) \notin {id \in txns' : id.actor = v /\ id.call = n}
    BY <1>2, <1>t
  <2>3. TxnsOf(v, n)' = TxnsOf(v, n)
    BY <1>d, <2>2 DEF TxnsOf
  <2>4. \A id \in TxnsOf(v, n) : Rows(id)' = Rows(id)
    <3>1. \A id \in TxnsOf(v, n) : id # Id(w)
      BY <1>d, <2>2 DEF TxnsOf
    <3>2. QED BY <1>d, <3>1
  <2>5. Holds(v, n)
    BY <1>2 DEF AnswersHold, Holds
  <2>6. QED BY <2>1, <2>3, <2>4, <2>5, HoldsStill
<1>3. CASE n \notin DOMAIN answers[v]
  <2>1. v = w /\ (GiveUp(w) \/ Commits(w))
    <3>1. v = w
      BY <1>1, <1>3, Others
    <3>2. ASSUME ~(GiveUp(w) \/ Commits(w)) PROVE answers' = answers
      BY <3>2 DEF Kind, Quiet, Post, InsertTxn, InsertEntry, callVars, Retry, Seals
    <3>3. QED BY <1>1, <1>3, <3>1, <3>2
  <2>2. legs[w] \in Postings
    BY <2>1 DEF GiveUp, Commits, Attempts, Attempt
  <2>3. \A id \in txns : ~(id.actor = w /\ id.call = Len(answers[w]) + 1)
    <3>1. \A id \in txns : id.actor = w => id.call \in Nat /\ id.call <= Len(answers[w])
      BY DEF CallsOpen, TypeOK, TxnId
    <3>2. QED BY <3>1, <2>1, <1>t
  <2>4. CASE GiveUp(w) /\ ~Commits(w)
    <3>1. PICK result \in Results \ {"posted"} : Answer(w, result)
      BY <2>4 DEF GiveUp
    <3>2. n = Len(answers[w]) + 1 /\ answers'[w][n] = Told(w, result)
      BY <1>1, <1>3, <2>1, <2>2, <3>1, AnswersGrow
    <3>3. TxnsOf(w, n)' = {}
      BY <2>3, <2>4, <3>2, <1>d DEF TxnsOf
    <3>4. answers'[w][n].result # "posted"
      BY <3>1, <3>2 DEF Told, Results
    <3>5. QED BY <2>1, <3>3, <3>4 DEF Holds
  <2>5. CASE Commits(w)
    <3>1. PICK result \in {"posted", "lost"} : Answer(w, result)
      BY <2>5 DEF Commits
    <3>2. n = Len(answers[w]) + 1 /\ answers'[w][n] = Told(w, result)
      <4>1. result \in Results
        BY DEF Results
      <4>2. QED BY <1>1, <1>3, <2>1, <2>2, <3>1, <4>1, AnswersGrow
    <3>3. TxnsOf(w, n)' = {Id(w)}
      <4>1. txns' = txns \cup {Id(w)}
        BY <2>5 DEF Commits, Install
      <4>2. QED BY <2>1, <2>3, <3>2, <4>1, <1>t DEF TxnsOf
    <3>4. {row \in journal' : row.txn = Id(w)} =
            {[txn |-> Id(w), n |-> k, entry |-> legs[w][k]] : k \in DOMAIN legs[w]}
      <4>1. journal' = journal \cup
                {[txn |-> Id(w), n |-> k, entry |-> legs[w][k]] : k \in DOMAIN legs[w]}
        BY <2>5 DEF Commits, Install
      <4>2. Id(w) \notin txns
        BY <2>1, <2>3, <1>t
      <4>3. \A row \in journal : row.txn # Id(w)
        BY <4>2 DEF TypeOK
      <4>4. QED BY <4>1, <4>3
    <3>5. /\ answers'[w][n].result \in {"posted", "lost"}
          /\ answers'[w][n].txn = Id(w)
          /\ answers'[w][n].legs = legs[w]
      BY <3>1, <3>2 DEF Told
    <3> DEFINE id == Id(w)
               given == legs[w]
               rows == {row \in journal' : row.txn = id}
               asked == {[txn |-> id, n |-> k, entry |-> given[k]] : k \in DOMAIN given}
    <3>6. rows = asked
      BY <3>4
    <3> HIDE DEF id, given
    <3>7. /\ answers'[w][n].txn = id /\ answers'[w][n].legs = given
          /\ TxnsOf(w, n)' = {id}
      BY <3>3, <3>5 DEF id, given
    <3>8. Rows(answers[w][n].txn)' = rows
      BY <3>7 DEF Rows
    <3>9. QED BY <2>1, <3>5, <3>6, <3>7, <3>8 DEF Holds
  <2>6. QED BY <2>1, <2>4, <2>5
<1>4. QED BY <1>2, <1>3

LEMMA AnswersWriter ==
    ASSUME TypeOK, OpenTxnsAreDirect, AnswersHold, NEW d \in Writers, WriterStep(d)
    PROVE  AnswersHold'
<1>1. SUFFICES ASSUME NEW v \in Workers, NEW n \in DOMAIN answers'[v] PROVE Holds(v, n)'
  BY DEF AnswersHold, Holds
<1>2. answers' = answers
  BY WorkersKept
<1>3. /\ \A id \in txns' : id \in txns \/ id.actor \in Writers
      /\ txns \subseteq txns'
  BY DirectIdTyped DEF WriterStep, OpenTxn, GuardInsert, FinishInsert, SealDirect, db
<1>4. \A row \in journal' : row \in journal \/ row.txn.actor \in Writers
  <2>1. CASE FinishInsert(d)
    BY <2>1, InsertingTyped DEF FinishInsert
  <2>2. CASE ~FinishInsert(d)
    BY <2>2 DEF WriterStep, OpenTxn, GuardInsert, SealDirect, db
  <2>3. QED BY <2>1, <2>2
<1>5. journal \subseteq journal'
  BY DEF WriterStep, OpenTxn, GuardInsert, FinishInsert, SealDirect, db
<1>6. v \notin Writers
  BY ActorsAssumption
<1>7. TxnsOf(v, n)' = TxnsOf(v, n)
  BY <1>3, <1>6 DEF TxnsOf
<1>8. \A id \in TxnsOf(v, n) : Rows(id)' = Rows(id)
  BY <1>4, <1>5, <1>6 DEF TxnsOf, Rows
<1>9. Holds(v, n)
  BY <1>1, <1>2 DEF AnswersHold, Holds
<1>10. QED BY <1>2, <1>7, <1>8, <1>9, HoldsStill

-----------------------------------------------------------------------------
LEMMA Initially == ASSUME Init PROVE IInv
<1>1. TypeOK
  <2>1. Unchanged \in [Accounts -> Int] /\ NoAmounts \in [Currencies -> Int]
    BY DEF Unchanged, NoAmounts
  <2>2. <<>> \in Seq(AnswerRow) /\ Len(<<>>) = 0
    OBVIOUS
  <2>3. \A w \in Workers : at[w] <= Len(legs[w])
    <3>1. \A w \in Workers : at[w] = 0 /\ legs[w] = <<>>
      BY DEF Init
    <3>2. QED BY <3>1, <2>2
  <2>4. /\ txns \subseteq TxnId /\ sealed \subseteq txns
        /\ journal \subseteq [txn : txns, n : Nat, entry : Entry]
        /\ totals \in [txns -> [Currencies -> Int]]
        /\ balance \in [Accounts -> Int]
    <3>1. /\ txns = {} /\ sealed = {} /\ journal = {}
          /\ totals = [id \in {} |-> NoAmounts]
          /\ balance = [a \in Accounts |-> 0]
      BY DEF Init
    <3>2. totals \in [txns -> [Currencies -> Int]]
      BY <2>1, <3>1
    <3>3. balance \in [Accounts -> Int]
      BY <3>1
    <3>4. QED BY <3>1, <3>2, <3>3
  <2>5. /\ pc \in [Workers -> {"idle", "begin", "entries", "commit"}]
        /\ legs \in [Workers -> Postings \cup {<<>>}]
        /\ attempt \in [Workers -> 0..MaxRetries]
        /\ at \in [Workers -> Nat]
        /\ stale \in [Workers -> SUBSET Accounts]
        /\ isolation \in [Workers -> {"SERIALIZABLE", "READ COMMITTED"}]
        /\ inserting \in [Writers -> [txn : TxnId, entry : DirectEntries] \cup {<<>>}]
    <3>1. /\ pc = [w \in Workers |-> "idle"]
          /\ legs = [w \in Workers |-> <<>>]
          /\ attempt = [w \in Workers |-> 0]
          /\ at = [w \in Workers |-> 0]
          /\ stale = [w \in Workers |-> {}]
          /\ inserting = [d \in Writers |-> <<>>]
          /\ isolation \in [Workers -> {"SERIALIZABLE", "READ COMMITTED"}]
      BY DEF Init
    <3>2. attempt \in [Workers -> 0..MaxRetries]
      <4>1. 0 \in 0..MaxRetries
        BY BoundsAssumption
      <4>2. QED BY <3>1, <4>1
    <3>3. legs \in [Workers -> Postings \cup {<<>>}]
      BY <3>1
    <3>4. inserting \in [Writers -> [txn : TxnId, entry : DirectEntries] \cup {<<>>}]
      BY <3>1
    <3>5. QED BY <3>1, <3>2, <3>3, <3>4
  <2>6. /\ own \in [Workers -> [Accounts -> Int]]
        /\ net \in [Workers -> [Currencies -> Int]]
        /\ answers \in [Workers -> Seq(AnswerRow)]
    BY <2>1, <2>2 DEF Init
  <2>7. QED BY <2>3, <2>4, <2>5, <2>6 DEF TypeOK
<1>2. IsFiniteSet(journal)
  BY FS_EmptySet DEF Init
<1>3. \A w \in Workers : Locked(w) = {}
  BY NoneLocked DEF Init
<1>4. Attempts /\ LocksApart
  BY <1>3 DEF Init, Attempts, Attempt, LocksApart, Unchanged
<1>5. OpenTxnsAreDirect /\ CallsOpen
  BY DEF Init, OpenTxnsAreDirect, CallsOpen
<1>6. FloorsHeld
  BY AccountsAssumption DEF Init, FloorsHeld
<1>7. AnswersHold
  <2>1. \A w \in Workers : DOMAIN answers[w] = {}
    <3>1. \A w \in Workers : answers[w] = <<>>
      BY DEF Init
    <3>2. DOMAIN <<>> = {}
      OBVIOUS
    <3>3. QED BY <3>1, <3>2
  <2>2. QED BY <2>1 DEF AnswersHold
<1>8. QED BY <1>1, <1>2, <1>4, <1>5, <1>6, <1>7 DEF IInv

LEMMA Inductive == ASSUME IInv, [Next]_vars PROVE IInv'
<1>1. CASE \E w \in Workers : Kind(w)
  <2>1. PICK w \in Workers : Kind(w)
    BY <1>1
  <2>2. TypeOK' /\ IsFiniteSet(journal)'
    BY <2>1, TypeOfWorkerStep DEF IInv
  <2>3. Attempts' /\ LocksApart'
    BY <2>1, AttemptStep, LocksApartStep DEF IInv
  <2>4. OpenTxnsAreDirect' /\ CallsOpen'
    BY <2>1, OpenTxnsStep, CallsOpenStep DEF IInv
  <2>5. FloorsHeld' /\ AnswersHold'
    BY <2>1, FloorsStep, AnswersStep DEF IInv
  <2>6. QED BY <2>2, <2>3, <2>4, <2>5 DEF IInv
<1>2. CASE \E d \in Writers : WriterStep(d)
  <2>1. PICK d \in Writers : WriterStep(d)
    BY <1>2
  <2>2. TypeOK' /\ IsFiniteSet(journal)'
    BY <2>1, TypeOfWriterStep DEF IInv
  <2>3. Attempts' /\ LocksApart'
    BY <2>1, AttemptWriter, LocksApartWriter DEF IInv
  <2>4. OpenTxnsAreDirect' /\ CallsOpen'
    BY <2>1, OpenTxnsWriter, CallsOpenWriter DEF IInv
  <2>5. FloorsHeld' /\ AnswersHold'
    BY <2>1, FloorsWriter, AnswersWriter DEF IInv
  <2>6. QED BY <2>2, <2>3, <2>4, <2>5 DEF IInv
<1>3. CASE UNCHANGED vars
  <2>1. UNCHANGED <<txns, sealed, journal, totals, balance, isolation, pc, legs, attempt,
                    at, own, net, stale, answers, inserting>>
    BY <1>3 DEF vars, db, callVars, txnVars
  <2>2. TypeOK' /\ IsFiniteSet(journal)'
    BY <2>1 DEF IInv, TypeOK
  <2>l. \A w \in Workers : Locked(w)' = Locked(w)
    BY <2>1 DEF Locked
  <2>f. \A w \in Workers : AtFloors(w)' = AtFloors(w)
    BY <2>1 DEF AtFloors
  <2>3. Attempts' /\ LocksApart'
    BY <2>1, <2>l, <2>f DEF IInv, Attempts, Attempt, LocksApart
  <2>4. OpenTxnsAreDirect' /\ CallsOpen' /\ FloorsHeld'
    BY <2>1 DEF IInv, OpenTxnsAreDirect, CallsOpen, FloorsHeld
  <2>5. AnswersHold'
    BY <2>1 DEF IInv, AnswersHold, TxnsOf, Rows
  <2>6. QED BY <2>2, <2>3, <2>4, <2>5 DEF IInv
<1>4. QED BY <1>1, <1>2, <1>3, StepKinds

LEMMA Invariance == Spec => []IInv
<1>1. Init => IInv
  BY Initially
<1>2. IInv /\ [Next]_vars => IInv'
  BY Inductive
<1>3. QED BY <1>1, <1>2, PTL DEF Spec

(* The variables of PgStore keep their types. *)
THEOREM TypeCorrect == Spec => []TypeOK
<1>1. IInv => TypeOK
  BY DEF IInv
<1>2. QED BY <1>1, Invariance, PTL

(* The floor of an account only post() writes to holds at SERIALIZABLE and *)
(* at READ COMMITTED: the balance row is locked from the upsert of the     *)
(* entry to COMMIT, so the seal never judges a balance another transaction *)
(* is changing.                                                            *)
THEOREM FloorsAtAnyIsolation == Spec => []FloorsHeld
<1>1. IInv => FloorsHeld
  BY DEF IInv
<1>2. QED BY <1>1, Invariance, PTL

(* run_serializable never calls a posting done that is not in the journal, *)
(* nor given up or refused one that is, and never posts twice.             *)
THEOREM AnswersAreTrue == Spec => []AnswersHold
<1>1. IInv => AnswersHold
  BY DEF IInv
<1>2. QED BY <1>1, Invariance, PTL

-----------------------------------------------------------------------------
(* The sums.  What the triggers add up entry by entry -- balances, an      *)
(* attempt's own changes, its total per currency -- is at all times what   *)
(* the rows add up to.                                                     *)

EntryRows(rows) == IsFiniteSet(rows) /\ \A row \in rows : row.entry \in Entry

(* Debits less credits is the sum of the signed amounts. *)
LEMMA DebitsAreSigned ==
    ASSUME NEW rows, EntryRows(rows)
    PROVE  DebitsLessCredits(rows) =
               SumFunctionOnSet([row \in rows |-> Signed(row.entry)], rows)
<1> DEFINE amounts == [row \in rows |-> row.entry.amount]
           side(d) == {row \in rows : row.entry.direction = d}
           only(d) == [row \in rows |-> IF row \in side(d) THEN amounts[row] ELSE 0]
           back == [row \in rows |-> (-1) * only("C")[row]]
           signed == [row \in rows |-> Signed(row.entry)]
<1>1. IsFiniteSet(rows)
  BY DEF EntryRows
<1>2. \A row \in rows : amounts[row] \in Int /\ row.entry.direction \in {"D", "C"}
  BY DEF EntryRows, Entry
<1>3. DebitsLessCredits(rows) =
        SumFunctionOnSet(amounts, side("D")) - SumFunctionOnSet(amounts, side("C"))
  BY DEF DebitsLessCredits
<1>4. ASSUME NEW d PROVE SumFunctionOnSet(amounts, side(d)) = SumFunctionOnSet(only(d), rows)
  <2>1. side(d) \in SUBSET rows
    OBVIOUS
  <2>2. \A row \in rows : only(d)[row] = IF row \in side(d) THEN amounts[row] ELSE 0
    OBVIOUS
  <2> HIDE DEF amounts, side, only
  <2> QED BY <1>1, <1>2, <2>1, <2>2, SumOfSelected
<1>5. \A row \in rows : only("D")[row] \in Int /\ only("C")[row] \in Int
  BY <1>2
<1>6. SumFunctionOnSet(back, rows) = (-1) * SumFunctionOnSet(only("C"), rows)
  <2>1. \A row \in rows : back[row] = (-1) * only("C")[row]
    OBVIOUS
  <2> HIDE DEF back, only
  <2> QED BY <1>1, <1>5, <2>1, SumOfMultiples
<1>7. \A row \in rows : back[row] \in Int /\ signed[row] = only("D")[row] + back[row]
  BY <1>2 DEF Signed
<1>8. SumFunctionOnSet(signed, rows) =
        SumFunctionOnSet(only("D"), rows) + SumFunctionOnSet(back, rows)
  <2> HIDE DEF back, only, signed
  <2> QED BY <1>1, <1>5, <1>7, SumOfSums
<1>9. SumFunctionOnSet(only("D"), rows) \in Int /\ SumFunctionOnSet(only("C"), rows) \in Int
  <2> HIDE DEF only
  <2> QED BY <1>1, <1>5, SumIsInt
<1>10. SumFunctionOnSet(amounts, side("D")) = SumFunctionOnSet(only("D"), rows)
       /\ SumFunctionOnSet(amounts, side("C")) = SumFunctionOnSet(only("C"), rows)
  BY <1>4
<1> HIDE DEF amounts, side, only, back
<1>11. DebitsLessCredits(rows) = SumFunctionOnSet(signed, rows)
  BY <1>3, <1>6, <1>8, <1>9, <1>10
<1> QED BY <1>11

LEMMA DebitsInt ==
    ASSUME NEW rows, EntryRows(rows)
    PROVE  DebitsLessCredits(rows) \in Int
<1> DEFINE signed == [row \in rows |-> Signed(row.entry)]
<1>1. \A row \in rows : signed[row] \in Int
  BY SignedInt DEF EntryRows
<1>2. DebitsLessCredits(rows) = SumFunctionOnSet(signed, rows)
  BY DebitsAreSigned
<1> HIDE DEF signed
<1> QED BY <1>1, <1>2, SumIsInt DEF EntryRows

LEMMA DebitsOfNone == DebitsLessCredits({}) = 0
<1>1. EntryRows({})
  BY FS_EmptySet DEF EntryRows
<1>2. DebitsLessCredits({}) = SumFunctionOnSet([row \in {} |-> Signed(row.entry)], {})
  BY <1>1, DebitsAreSigned
<1> QED BY <1>2, SumOfNone

(* Rows that are not there yet add their own debits less credits. *)
LEMMA DebitsOfUnion ==
    ASSUME NEW S, NEW T, EntryRows(S), EntryRows(T), S \cap T = {}
    PROVE  /\ EntryRows(S \cup T)
           /\ DebitsLessCredits(S \cup T) = DebitsLessCredits(S) + DebitsLessCredits(T)
<1> DEFINE all == S \cup T
           f == [row \in all |-> Signed(row.entry)]
           g == [row \in S |-> Signed(row.entry)]
           h == [row \in T |-> Signed(row.entry)]
<1>1. EntryRows(all)
  BY FS_Union DEF EntryRows
<1>2. \A row \in all : f[row] \in Int
  BY <1>1, SignedInt DEF EntryRows
<1>3. (\A row \in S : f[row] = g[row]) /\ (\A row \in T : f[row] = h[row])
  OBVIOUS
<1>4. /\ DebitsLessCredits(all) = SumFunctionOnSet(f, all)
      /\ DebitsLessCredits(S) = SumFunctionOnSet(g, S)
      /\ DebitsLessCredits(T) = SumFunctionOnSet(h, T)
  BY <1>1, DebitsAreSigned
<1>5. SumFunctionOnSet(f, all) = SumFunctionOnSet(f, S) + SumFunctionOnSet(f, T)
  <2> HIDE DEF f
  <2> QED BY <1>2, SumOverUnion DEF EntryRows
<1>6. SumFunctionOnSet(f, S) = SumFunctionOnSet(g, S)
      /\ SumFunctionOnSet(f, T) = SumFunctionOnSet(h, T)
  <2> HIDE DEF f, g, h
  <2> QED BY <1>3, SumOfEquals DEF EntryRows
<1> HIDE DEF f, g, h
<1> QED BY <1>1, <1>4, <1>5, <1>6

LEMMA DebitsOfOne ==
    ASSUME NEW row, row.entry \in Entry
    PROVE  EntryRows({row}) /\ DebitsLessCredits({row}) = Signed(row.entry)
<1> DEFINE f == [r \in {row} |-> Signed(r.entry)]
<1>1. EntryRows({row})
  BY FS_Singleton DEF EntryRows
<1>2. f[row] = Signed(row.entry) /\ f[row] \in Int
  BY SignedInt
<1>3. DebitsLessCredits({row}) = SumFunctionOnSet(f, {row})
  BY <1>1, DebitsAreSigned
<1> HIDE DEF f
<1> QED BY <1>1, <1>2, <1>3, SumOfOne

LEMMA RowsOfRows ==
    ASSUME NEW S, EntryRows(S), NEW T \in SUBSET S
    PROVE  EntryRows(T)
BY FS_Subset DEF EntryRows

On(rows, a) == {row \in rows : row.entry.account = a}
In(rows, c) == {row \in rows : row.entry.currency = c}

(* One more row: its account and its currency move by its signed amount.   *)
LEMMA OneMoreRow ==
    ASSUME NEW S, EntryRows(S), NEW row, row.entry \in Entry, row \notin S
    PROVE  /\ EntryRows(S \cup {row})
           /\ \A a : DebitsLessCredits(On(S \cup {row}, a)) =
                 DebitsLessCredits(On(S, a)) + (IF row.entry.account = a THEN Signed(row.entry) ELSE 0)
           /\ \A c : DebitsLessCredits(In(S \cup {row}, c)) =
                 DebitsLessCredits(In(S, c)) + (IF row.entry.currency = c THEN Signed(row.entry) ELSE 0)
<1>1. EntryRows(S \cup {row})
  BY DebitsOfOne, DebitsOfUnion
<1>2. ASSUME NEW T \in SUBSET S
      PROVE  /\ DebitsLessCredits(T) \in Int
             /\ DebitsLessCredits(T \cup {row}) = DebitsLessCredits(T) + Signed(row.entry)
  BY RowsOfRows, DebitsInt, DebitsOfOne, DebitsOfUnion
<1>3. ASSUME NEW a
      PROVE  DebitsLessCredits(On(S \cup {row}, a)) =
                 DebitsLessCredits(On(S, a)) + (IF row.entry.account = a THEN Signed(row.entry) ELSE 0)
  <2>1. On(S, a) \in SUBSET S
    BY DEF On
  <2>2. DebitsLessCredits(On(S, a)) \in Int
    BY <1>2, <2>1
  <2>3. CASE row.entry.account = a
    <3>1. On(S \cup {row}, a) = On(S, a) \cup {row}
      BY <2>3 DEF On
    <3>2. DebitsLessCredits(On(S, a) \cup {row}) = DebitsLessCredits(On(S, a)) + Signed(row.entry)
      BY <1>2, <2>1
    <3> QED BY <2>3, <3>1, <3>2
  <2>4. CASE row.entry.account # a
    <3>1. On(S \cup {row}, a) = On(S, a)
      BY <2>4 DEF On
    <3> QED BY <2>2, <2>4, <3>1
  <2> QED BY <2>3, <2>4
<1>4. ASSUME NEW c
      PROVE  DebitsLessCredits(In(S \cup {row}, c)) =
                 DebitsLessCredits(In(S, c)) + (IF row.entry.currency = c THEN Signed(row.entry) ELSE 0)
  <2>1. In(S, c) \in SUBSET S
    BY DEF In
  <2>2. DebitsLessCredits(In(S, c)) \in Int
    BY <1>2, <2>1
  <2>3. CASE row.entry.currency = c
    <3>1. In(S \cup {row}, c) = In(S, c) \cup {row}
      BY <2>3 DEF In
    <3>2. DebitsLessCredits(In(S, c) \cup {row}) = DebitsLessCredits(In(S, c)) + Signed(row.entry)
      BY <1>2, <2>1
    <3> QED BY <2>3, <3>1, <3>2
  <2>4. CASE row.entry.currency # c
    <3>1. In(S \cup {row}, c) = In(S, c)
      BY <2>4 DEF In
    <3> QED BY <2>2, <2>4, <3>1
  <2> QED BY <2>3, <2>4
<1> QED BY <1>1, <1>3, <1>4

(* The rows an attempt has inserted and not committed. *)
RowOf(w, k) == [txn |-> Id(w), n |-> k, entry |-> legs[w][k]]
Pending(w) == {RowOf(w, k) : k \in 1..at[w]}

(* What the attempt holds in its totals is what those rows add up to, and  *)
(* it is sealed only when they balance.                                    *)
PendingSums(w) ==
    /\ \A a \in Accounts : own[w][a] = DebitsLessCredits(On(Pending(w), a))
    /\ \A c \in Currencies : net[w][c] = DebitsLessCredits(In(Pending(w), c))
    /\ pc[w] = "commit" => Balanced(net[w])

(* A writer's rows are numbered up to their count: the next one is new.    *)
RowsNumbered ==
    \A row \in journal : row.txn.actor \in Writers => row.n <= Cardinality(Rows(row.txn))

SumsInv ==
    /\ \A w \in Workers : PendingSums(w)
    /\ RowsNumbered
    /\ CacheMatchesJournal
    /\ PostingsBalance

LEMMA PendingTyped ==
    ASSUME TypeOK, NEW w \in Workers
    PROVE  EntryRows(Pending(w)) /\ (at[w] = 0 => Pending(w) = {})
<1>1. legs[w] \in Seq(Entry) /\ at[w] \in Nat /\ at[w] <= Len(legs[w])
  BY LegsTyped DEF TypeOK
<1>2. \A row \in Pending(w) : row.entry \in Entry
  BY <1>1 DEF Pending, RowOf
<1>3. IsFiniteSet(1..at[w])
  BY <1>1, FS_Interval
<1>4. IsFiniteSet(Pending(w))
  <2> DEFINE f == [k \in 1..at[w] |-> RowOf(w, k)]
  <2>1. f \in Surjection(1..at[w], Pending(w))
    BY DEF Surjection, Pending
  <2> QED BY <1>3, <2>1, FS_Surjection
<1>5. at[w] = 0 => Pending(w) = {}
  BY DEF Pending
<1> QED BY <1>2, <1>4, <1>5 DEF EntryRows

(* An attempt that has ended, or has not begun, holds nothing. *)
LEMMA NothingPending ==
    ASSUME NEW w, at'[w] = 0, own'[w] = Unchanged, net'[w] = NoAmounts, pc'[w] # "commit"
    PROVE  PendingSums(w)'
<1>1. Pending(w)' = {}
  BY DEF Pending
<1>2. (\A a : On({}, a) = {}) /\ (\A c : In({}, c) = {})
  BY DEF On, In
<1>3. (\A a \in Accounts : own'[w][a] = 0) /\ (\A c \in Currencies : net'[w][c] = 0)
  BY DEF Unchanged, NoAmounts
<1> QED BY <1>1, <1>2, <1>3, DebitsOfNone DEF PendingSums

(* An attempt that is not touched holds what it held. *)
LEMMA SamePending ==
    ASSUME NEW w, PendingSums(w), Id(w)' = Id(w), legs'[w] = legs[w], at'[w] = at[w],
           own'[w] = own[w], net'[w] = net[w], pc'[w] = "commit" => Balanced(net[w])
    PROVE  PendingSums(w)'
<1>1. Pending(w)' = Pending(w)
  BY DEF Pending, RowOf
<1> QED BY <1>1 DEF PendingSums, Balanced

LEMMA PendingStep ==
    ASSUME IInv, NEW w \in Workers, PendingSums(w), Kind(w)
    PROVE  PendingSums(w)'
<1>0. /\ pc \in [Workers -> {"idle", "begin", "entries", "commit"}]
      /\ legs \in [Workers -> Postings \cup {<<>>}]
      /\ at \in [Workers -> Nat] /\ at[w] \in Nat
      /\ own \in [Workers -> [Accounts -> Int]]
      /\ net \in [Workers -> Amounts]
      /\ Attempt(w) /\ TypeOK
  BY DEF IInv, TypeOK, Attempts, Amounts
<1>1. CASE Quiet(w)
  <2>1. /\ at[w] = 0 /\ pc'[w] \in {"begin", "entries"}
        /\ UNCHANGED <<at, own, net>>
    BY <1>0, <1>1 DEF Quiet, Post, InsertTxn, txnVars, Attempt
  <2>2. Pending(w) = {} /\ Pending(w)' = {}
    BY <2>1 DEF Pending
  <2> QED BY <2>1, <2>2 DEF PendingSums
<1>2. CASE InsertEntry(w)
  <2> DEFINE row == RowOf(w, at[w] + 1)
  <2>1. /\ at'[w] = at[w] + 1 /\ pc[w] = "entries" /\ UNCHANGED <<pc, legs, attempt, answers>>
        /\ own'[w] = Add(own[w], Leg(w).account, Signed(Leg(w)))
        /\ net'[w] = Add(net[w], Leg(w).currency, Signed(Leg(w)))
    BY <1>0, <1>2 DEF InsertEntry, callVars, HasLeg
  <2>2. Leg(w) \in Entry /\ row.entry = Leg(w)
    BY <1>0, <1>2, LegTyped DEF InsertEntry, RowOf, Leg
  <2>3. Leg(w).account \in Accounts /\ Leg(w).currency \in Currencies /\ Signed(Leg(w)) \in Int
    BY <2>2, SignedInt DEF Entry
  <2>4. Pending(w)' = Pending(w) \cup {row}
    <3>1. 1..(at[w] + 1) = (1..at[w]) \cup {at[w] + 1}
      BY <1>0
    <3>2. \A k : RowOf(w, k)' = [txn |-> Id(w), n |-> k, entry |-> legs[w][k]]
      BY <2>1 DEF RowOf, Id
    <3>3. Pending(w)' = {RowOf(w, k) : k \in 1..(at[w] + 1)}
      BY <2>1, <3>2 DEF Pending, RowOf
    <3> QED BY <3>1, <3>3 DEF Pending
  <2>5. row \notin Pending(w)
    <3>1. \A k : RowOf(w, k).n = k
      BY DEF RowOf
    <3>2. \A k \in 1..at[w] : k # at[w] + 1
      BY <1>0
    <3>3. ASSUME NEW k \in 1..at[w], RowOf(w, k) = RowOf(w, at[w] + 1) PROVE FALSE
      <4>1. RowOf(w, k).n = k /\ RowOf(w, at[w] + 1).n = at[w] + 1
        BY <3>1
      <4> QED BY <3>2, <3>3, <4>1
    <3> QED BY <3>3 DEF Pending
  <2>6. EntryRows(Pending(w))
    BY <1>0, PendingTyped
  <2> HIDE DEF row
  <2>7. /\ \A a : DebitsLessCredits(On(Pending(w)', a)) =
               DebitsLessCredits(On(Pending(w), a)) + (IF Leg(w).account = a THEN Signed(Leg(w)) ELSE 0)
        /\ \A c : DebitsLessCredits(In(Pending(w)', c)) =
               DebitsLessCredits(In(Pending(w), c)) + (IF Leg(w).currency = c THEN Signed(Leg(w)) ELSE 0)
    BY <2>2, <2>4, <2>5, <2>6, OneMoreRow
  <2>8. own[w] \in [Accounts -> Int] /\ net[w] \in [Currencies -> Int]
    BY <1>0 DEF Amounts
  <2>9. ASSUME NEW a \in Accounts PROVE own'[w][a] = DebitsLessCredits(On(Pending(w)', a))
    <3>1. own[w][a] = DebitsLessCredits(On(Pending(w), a)) /\ own[w][a] \in Int
      BY <2>8 DEF PendingSums
    <3>2. own'[w][a] = own[w][a] + (IF Leg(w).account = a THEN Signed(Leg(w)) ELSE 0)
      <4> DEFINE f == own[w]
                 k == Leg(w).account
                 m == Signed(Leg(w))
      <4>1. f \in [Accounts -> Int] /\ k \in Accounts /\ m \in Int /\ f[a] \in Int
        BY <2>3, <2>8, <3>1
      <4>2. own'[w] = Add(f, k, m)
        BY <2>1
      <4> HIDE DEF f, k, m
      <4>3. Add(f, k, m)[k] = f[k] + m /\ \A y \in Accounts : y # k => Add(f, k, m)[y] = f[y]
        BY <4>1, Adding
      <4>4. Add(f, k, m)[a] = f[a] + (IF k = a THEN m ELSE 0)
        BY <4>1, <4>3
      <4> QED BY <4>2, <4>4 DEF f, k, m
    <3> QED BY <2>7, <3>1, <3>2
  <2>10. ASSUME NEW c \in Currencies PROVE net'[w][c] = DebitsLessCredits(In(Pending(w)', c))
    <3>1. net[w][c] = DebitsLessCredits(In(Pending(w), c)) /\ net[w][c] \in Int
      BY <2>8 DEF PendingSums
    <3>2. net'[w][c] = net[w][c] + (IF Leg(w).currency = c THEN Signed(Leg(w)) ELSE 0)
      <4> DEFINE f == net[w]
                 k == Leg(w).currency
                 m == Signed(Leg(w))
      <4>1. f \in [Currencies -> Int] /\ k \in Currencies /\ m \in Int /\ f[c] \in Int
        BY <2>3, <2>8, <3>1
      <4>2. net'[w] = Add(f, k, m)
        BY <2>1
      <4> HIDE DEF f, k, m
      <4>3. Add(f, k, m)[k] = f[k] + m /\ \A y \in Currencies : y # k => Add(f, k, m)[y] = f[y]
        BY <4>1, Adding
      <4>4. Add(f, k, m)[c] = f[c] + (IF k = c THEN m ELSE 0)
        BY <4>1, <4>3
      <4> QED BY <4>2, <4>4 DEF f, k, m
    <3> QED BY <2>7, <3>1, <3>2
  <2> QED BY <2>1, <2>9, <2>10 DEF PendingSums
<1>3. CASE Retry(w) \/ GiveUp(w) \/ Commits(w)
  <2>1. Clear(w) /\ pc'[w] \in {"begin", "idle"}
    BY <1>0, <1>3 DEF Retry, GiveUp, Commits, Rollback, Install, Answer
  <2>2. at'[w] = 0 /\ own'[w] = Unchanged /\ net'[w] = NoAmounts
    BY <1>0, <2>1 DEF Clear
  <2> QED BY <2>1, <2>2, NothingPending
<1>4. CASE Seals(w)
  <2>1. /\ UNCHANGED <<legs, attempt, answers, at, own, net>>
        /\ Balanced(net[w])
    BY <1>4 DEF Seals, Sealable, txnVars
  <2>2. Id(w)' = Id(w)
    BY <2>1 DEF Id
  <2> QED BY <2>1, <2>2, SamePending
<1> QED BY <1>1, <1>2, <1>3, <1>4 DEF Kind

LEMMA PendingOfOthers ==
    ASSUME IInv, NEW w \in Workers, Kind(w), NEW v \in Workers, v # w, PendingSums(v)
    PROVE  PendingSums(v)'
<1>1. /\ pc'[v] = pc[v] /\ legs'[v] = legs[v] /\ at'[v] = at[v]
      /\ own'[v] = own[v] /\ answers'[v] = answers[v]
  BY Others DEF IInv
<1>2. net'[v] = net[v] /\ attempt'[v] = attempt[v]
  <2>0. net \in [Workers -> Amounts] /\ attempt \in [Workers -> 0..MaxRetries]
    BY DEF IInv, TypeOK, Amounts
  <2>1. CASE Quiet(w)
    BY <2>1 DEF Quiet, Post, InsertTxn, txnVars
  <2>2. CASE InsertEntry(w)
    BY <2>0, <2>2 DEF InsertEntry, callVars
  <2>3. CASE Retry(w)
    BY <2>0, <2>3 DEF Retry, Rollback, Clear
  <2>4. CASE GiveUp(w)
    BY <2>0, <2>4 DEF GiveUp, Rollback, Clear, Answer
  <2>5. CASE Seals(w)
    BY <2>5 DEF Seals, txnVars
  <2>6. CASE Commits(w)
    BY <2>0, <2>6 DEF Commits, Install, Clear, Answer
  <2> QED BY <2>1, <2>2, <2>3, <2>4, <2>5, <2>6 DEF Kind
<1>3. Id(v)' = Id(v)
  BY <1>1, <1>2 DEF Id
<1>4. pc'[v] = "commit" => Balanced(net[v])
  BY <1>1 DEF PendingSums
<1> QED BY <1>1, <1>2, <1>3, <1>4, SamePending

-----------------------------------------------------------------------------
(* A posting of a worker is not in the journal before it commits. *)
LEMMA IdIsNew ==
    ASSUME IInv, NEW w \in Workers
    PROVE  Id(w) \notin txns /\ Pending(w) \cap journal = {}
           /\ \A row \in Pending(w) : row.txn = Id(w)
<1>1. Id(w).actor = w /\ Id(w).call = Len(answers[w]) + 1
  BY IdTyped DEF IInv
<1>2. Len(answers[w]) \in Nat
  <2>1. answers[w] \in Seq(AnswerRow)
    BY DEF IInv, TypeOK
  <2> QED BY <2>1
<1>3. Id(w) \notin txns
  <2> SUFFICES ASSUME Id(w) \in txns PROVE FALSE
    OBVIOUS
  <2>1. Id(w).call <= Len(answers[w])
    BY <1>1 DEF IInv, CallsOpen
  <2> QED BY <1>1, <1>2, <2>1
<1>4. \A row \in Pending(w) : row.txn = Id(w)
  BY DEF Pending, RowOf
<1>5. \A row \in journal : row.txn \in txns
  BY DEF IInv, TypeOK
<1> QED BY <1>3, <1>4, <1>5

LEMMA JournalTyped ==
    ASSUME IInv
    PROVE  EntryRows(journal)
<1>1. TypeOK /\ IsFiniteSet(journal)
  BY DEF IInv
<1>2. \A row \in journal : row.entry \in Entry
  BY <1>1 DEF TypeOK
<1> QED BY <1>1, <1>2 DEF EntryRows

(* What a commit adds to the journal is what the attempt had inserted. *)
LEMMA CommitAddsPending ==
    ASSUME IInv, NEW w \in Workers, Commits(w)
    PROVE  /\ journal' = journal \cup Pending(w)
           /\ txns' = txns \cup {Id(w)}
           /\ sealed' = sealed \cup {Id(w)}
<1>1. pc[w] = "commit" /\ Install(w)
  BY DEF Commits
<1>2. at[w] = Len(legs[w]) /\ legs[w] \in Seq(Entry)
  BY <1>1, LegsTyped DEF IInv, Attempts, Attempt
<1>3. DOMAIN legs[w] = 1..at[w]
  BY <1>2
<1>4. Pending(w) = {[txn |-> Id(w), n |-> k, entry |-> legs[w][k]] : k \in DOMAIN legs[w]}
  BY <1>3 DEF Pending, RowOf
<1> QED BY <1>1, <1>4 DEF Install

LEMMA SumsOfWorkerStep ==
    ASSUME IInv, SumsInv, NEW w \in Workers, Kind(w)
    PROVE  SumsInv'
<1>1. ASSUME NEW v \in Workers PROVE PendingSums(v)'
  BY PendingStep, PendingOfOthers DEF SumsInv
<1>2. CASE ~Commits(w)
  <2>1. UNCHANGED <<txns, sealed, journal, balance>>
    BY <1>2, DatabaseKept DEF db
  <2>2. RowsNumbered' /\ CacheMatchesJournal' /\ PostingsBalance'
    BY <2>1 DEF SumsInv, RowsNumbered, CacheMatchesJournal, PostingsBalance, SumsToZero, Rows
  <2> QED BY <1>1, <2>2 DEF SumsInv
<1>3. CASE Commits(w)
  <2>1. /\ journal' = journal \cup Pending(w)
        /\ txns' = txns \cup {Id(w)}
        /\ sealed' = sealed \cup {Id(w)}
    BY <1>3, CommitAddsPending
  <2>2. Id(w) \notin txns /\ Pending(w) \cap journal = {}
        /\ \A row \in Pending(w) : row.txn = Id(w)
    BY IdIsNew
  <2>3. Id(w).actor = w /\ w \notin Writers /\ TypeOK
    BY IdTyped, ActorsAssumption DEF IInv
  <2>4. EntryRows(journal) /\ EntryRows(Pending(w))
    BY <2>3, JournalTyped, PendingTyped
  <2>5. \A row \in journal : row.txn \in txns
    BY DEF IInv, TypeOK
  <2>6. \A id : id # Id(w) => Rows(id)' = Rows(id)
    BY <2>1, <2>2 DEF Rows
  <2>7. RowsNumbered'
    <3> SUFFICES ASSUME NEW row \in journal', row.txn.actor \in Writers
                 PROVE  row.n <= Cardinality(Rows(row.txn)')
      BY DEF RowsNumbered
    <3>1. row.txn # Id(w)
      BY <2>3
    <3>2. row \in journal
      BY <2>1, <2>2, <3>1
    <3>3. Rows(row.txn)' = Rows(row.txn)
      BY <2>1, <2>2, <3>1 DEF Rows
    <3> QED BY <3>2, <3>3 DEF SumsInv, RowsNumbered
  <2>8. ASSUME NEW a \in Accounts
        PROVE  balance'[a] = DebitsLessCredits(On(journal', a))
    <3>1. On(journal', a) = On(journal, a) \cup On(Pending(w), a)
      BY <2>1 DEF On
    <3>2. EntryRows(On(journal, a)) /\ EntryRows(On(Pending(w), a))
          /\ On(journal, a) \cap On(Pending(w), a) = {}
      BY <2>2, <2>4, RowsOfRows DEF On
    <3>3. DebitsLessCredits(On(journal', a)) =
            DebitsLessCredits(On(journal, a)) + DebitsLessCredits(On(Pending(w), a))
      BY <3>1, <3>2, DebitsOfUnion
    <3>4. balance[a] = DebitsLessCredits(On(journal, a))
          /\ own[w][a] = DebitsLessCredits(On(Pending(w), a))
      BY DEF SumsInv, CacheMatchesJournal, PendingSums, On
    <3>5. balance'[a] = balance[a] + own[w][a]
      BY <1>3, <2>3, Committing DEF IInv, Attempts
    <3> QED BY <3>3, <3>4, <3>5
  <2>9. ASSUME NEW id \in txns', id.actor \in Workers
        PROVE  id \in sealed' /\ SumsToZero(id)'
    <3>1. CASE id # Id(w)
      <4>1. id \in txns
        BY <2>1, <3>1
      <4>2. Rows(id)' = Rows(id)
        BY <2>1, <2>2, <3>1 DEF Rows
      <4>3. id \in sealed /\ SumsToZero(id)
        BY <2>9, <4>1 DEF SumsInv, PostingsBalance
      <4> QED BY <2>1, <4>2, <4>3 DEF SumsToZero
    <3>2. CASE id = Id(w)
      <4>1. Rows(id)' = Pending(w)
        <5>1. Rows(id)' = {row \in journal' : row.txn = Id(w)}
          BY <3>2 DEF Rows, Id
        <5> QED BY <2>1, <2>2, <2>5, <5>1
      <4>2. \A c \in Currencies : net[w][c] = 0 /\ net[w][c] = DebitsLessCredits(In(Pending(w), c))
        BY <1>3 DEF Commits, SumsInv, PendingSums, Balanced
      <4>3. \A c \in Currencies :
              DebitsLessCredits({row \in Pending(w) : row.entry.currency = c}) = 0
        BY <4>2 DEF In
      <4> QED BY <2>1, <3>2, <4>1, <4>3 DEF SumsToZero
    <3> QED BY <3>1, <3>2
  <2>10. CacheMatchesJournal'
    BY <2>8 DEF CacheMatchesJournal, On
  <2>11. PostingsBalance'
    BY <2>9 DEF PostingsBalance
  <2> QED BY <1>1, <2>7, <2>10, <2>11 DEF SumsInv
<1> QED BY <1>2, <1>3

LEMMA SumsOfWriterStep ==
    ASSUME IInv, SumsInv, NEW d \in Writers, WriterStep(d)
    PROVE  SumsInv'
<1>1. ASSUME NEW w \in Workers PROVE PendingSums(w)'
  <2>1. UNCHANGED <<pc, legs, attempt, answers, at, own, net>>
    BY WorkersKept
  <2>2. Id(w)' = Id(w) /\ PendingSums(w)
    BY <2>1 DEF Id, SumsInv
  <2>3. pc[w] = "commit" => Balanced(net[w])
    BY <2>2 DEF PendingSums
  <2> QED BY <2>1, <2>2, <2>3, SamePending
<1>2. CASE ~FinishInsert(d)
  <2>1. /\ UNCHANGED <<journal, balance>>
        /\ sealed \subseteq sealed'
        /\ \A id \in txns' : id \in txns \/ id.actor \in Writers
    BY <1>2, DirectIdTyped DEF WriterStep, OpenTxn, GuardInsert, SealDirect, db
  <2>2. RowsNumbered' /\ CacheMatchesJournal'
    BY <2>1 DEF SumsInv, RowsNumbered, CacheMatchesJournal, Rows
  <2>3. \A id : SumsToZero(id)' = SumsToZero(id)
    BY <2>1 DEF SumsToZero, Rows
  <2>4. PostingsBalance'
    BY <2>1, <2>3, ActorsAssumption DEF SumsInv, PostingsBalance
  <2> QED BY <1>1, <2>2, <2>4 DEF SumsInv
<1>3. CASE FinishInsert(d)
  <2> DEFINE id == inserting[d].txn
             e == inserting[d].entry
             row == [txn |-> id, n |-> Cardinality(Rows(id)) + 1, entry |-> e]
  <2>1. /\ inserting[d] # <<>>
        /\ journal' = journal \cup {row}
        /\ balance' = Add(balance, e.account, Signed(e))
        /\ UNCHANGED <<txns, sealed>>
    BY <1>3 DEF FinishInsert
  <2>2. /\ id \in txns /\ id.actor \in Writers
        /\ e \in Entry /\ e.account \in Accounts
    BY <2>1, InsertingTyped DEF IInv
  <2>3. row.txn = id /\ row.entry = e /\ row.n = Cardinality(Rows(id)) + 1
    OBVIOUS
  <2>4. EntryRows(journal) /\ IsFiniteSet(journal)
    BY JournalTyped DEF IInv
  <2>5. IsFiniteSet(Rows(id)) /\ Cardinality(Rows(id)) \in Nat
    <3>1. IsFiniteSet(Rows(id))
      BY <2>4, FS_Subset DEF Rows
    <3> QED BY <3>1, FS_CardinalityType
  <2> HIDE DEF id, e, row
  <2>6. \A r \in journal : r.n \in Nat
    BY DEF IInv, TypeOK
  <2>7. row \notin journal
    <3> SUFFICES ASSUME row \in journal PROVE FALSE
      OBVIOUS
    <3>1. row.n <= Cardinality(Rows(id))
      BY <2>2, <2>3 DEF SumsInv, RowsNumbered
    <3> QED BY <2>3, <2>5, <3>1
  <2>8. RowsNumbered'
    <3> SUFFICES ASSUME NEW r \in journal', r.txn.actor \in Writers
                 PROVE  r.n <= Cardinality(Rows(r.txn)')
      BY DEF RowsNumbered
    <3>1. CASE r.txn = id
      <4>2. row \notin Rows(id)
        BY <2>7 DEF Rows
      <4>3. Cardinality(Rows(id) \cup {row}) = Cardinality(Rows(id)) + 1
        BY <2>5, <4>2, FS_AddElement
      <4>4. r = row \/ r \in journal
        BY <2>1
      <4>5. r.n <= Cardinality(Rows(id)) + 1
        <5>1. CASE r = row
          BY <2>3, <2>5, <5>1
        <5>2. CASE r \in journal
          <6>1. r.n <= Cardinality(Rows(id)) /\ r.n \in Nat
            BY <2>6, <3>1, <5>2 DEF SumsInv, RowsNumbered
          <6> QED BY <2>5, <6>1
        <5> QED BY <4>4, <5>1, <5>2
      <4>6. Rows(r.txn)' = Rows(id) \cup {row}
        <5>1. Rows(r.txn)' = {q \in journal' : q.txn = r.txn}
          BY DEF Rows
        <5>2. {q \in journal' : q.txn = id} = Rows(id) \cup {row}
          BY <2>1, <2>3 DEF Rows
        <5> QED BY <3>1, <5>1, <5>2
      <4> QED BY <4>3, <4>5, <4>6
    <3>2. CASE r.txn # id
      <4>1. r \in journal
        BY <2>1, <2>3, <3>2
      <4>2. Rows(r.txn)' = Rows(r.txn)
        BY <2>1, <2>3, <3>2 DEF Rows
      <4> QED BY <4>1, <4>2 DEF SumsInv, RowsNumbered
    <3> QED BY <3>1, <3>2
  <2>9. ASSUME NEW a \in Accounts
        PROVE  balance'[a] = DebitsLessCredits(On(journal', a))
    <3>1. DebitsLessCredits(On(journal', a)) =
            DebitsLessCredits(On(journal, a)) + (IF e.account = a THEN Signed(e) ELSE 0)
      BY <2>1, <2>2, <2>3, <2>4, <2>7, OneMoreRow
    <3>2. balance[a] = DebitsLessCredits(On(journal, a)) /\ balance[a] \in Int
      BY DEF SumsInv, CacheMatchesJournal, On, IInv, TypeOK
    <3>3. balance'[a] = balance[a] + (IF e.account = a THEN Signed(e) ELSE 0)
      <4> DEFINE k == e.account
                 m == Signed(e)
      <4>1. balance \in [Accounts -> Int] /\ k \in Accounts /\ m \in Int
        BY <2>2, SignedInt DEF IInv, TypeOK
      <4>2. balance' = Add(balance, k, m)
        BY <2>1
      <4> HIDE DEF k, m
      <4>3. Add(balance, k, m)[k] = balance[k] + m
            /\ \A y \in Accounts : y # k => Add(balance, k, m)[y] = balance[y]
        BY <4>1, Adding
      <4>4. Add(balance, k, m)[a] = balance[a] + (IF k = a THEN m ELSE 0)
        BY <3>2, <4>1, <4>3
      <4> QED BY <4>2, <4>4 DEF k, m
    <3> QED BY <3>1, <3>2, <3>3
  <2>10. CacheMatchesJournal'
    BY <2>9 DEF CacheMatchesJournal, On
  <2>11. ASSUME NEW x \in txns', x.actor \in Workers
         PROVE  x \in sealed' /\ SumsToZero(x)'
    <3>1. x # id /\ x \in txns
      BY <2>1, <2>2, <2>11, ActorsAssumption
    <3>2. Rows(x)' = Rows(x)
      BY <2>1, <2>3, <3>1 DEF Rows
    <3>3. x \in sealed /\ SumsToZero(x)
      BY <2>11, <3>1 DEF SumsInv, PostingsBalance
    <3> QED BY <2>1, <3>2, <3>3 DEF SumsToZero
  <2>12. PostingsBalance'
    BY <2>11 DEF PostingsBalance
  <2> QED BY <1>1, <2>8, <2>10, <2>12 DEF SumsInv
<1> QED BY <1>2, <1>3

LEMMA SumsInvariant == Spec => []SumsInv
<1>1. Init => SumsInv
  <2> SUFFICES ASSUME Init PROVE SumsInv
    OBVIOUS
  <2>1. \A w \in Workers : /\ at[w] = 0 /\ own[w] = Unchanged /\ net[w] = NoAmounts
                            /\ pc[w] = "idle"
    BY DEF Init
  <2>2. (\A a : On({}, a) = {}) /\ (\A c : In({}, c) = {})
    BY DEF On, In
  <2>3. ASSUME NEW w \in Workers PROVE PendingSums(w)
    <3>1. Pending(w) = {}
      BY <2>1 DEF Pending
    <3> QED BY <2>1, <2>2, <3>1, DebitsOfNone DEF PendingSums, Unchanged, NoAmounts
  <2>4. journal = {} /\ txns = {} /\ \A a \in Accounts : balance[a] = 0
    BY DEF Init
  <2>5. CacheMatchesJournal
    BY <2>2, <2>4, DebitsOfNone DEF CacheMatchesJournal, On
  <2> QED BY <2>3, <2>4, <2>5 DEF SumsInv, RowsNumbered, PostingsBalance
<1>2. IInv /\ SumsInv /\ [Next]_vars => SumsInv'
  <2> SUFFICES ASSUME IInv, SumsInv, [Next]_vars PROVE SumsInv'
    OBVIOUS
  <2>1. CASE Next
    BY <2>1, StepKinds, SumsOfWorkerStep, SumsOfWriterStep
  <2>2. CASE UNCHANGED vars
    <3>1. UNCHANGED <<txns, sealed, journal, balance, pc, legs, attempt, at, own, net, answers>>
      BY <2>2 DEF vars, db, callVars, txnVars
    <3>2. ASSUME NEW w \in Workers PROVE PendingSums(w)'
      <4>1. Id(w)' = Id(w) /\ PendingSums(w)
        BY <3>1 DEF Id, SumsInv
      <4>2. pc[w] = "commit" => Balanced(net[w])
        BY <4>1 DEF PendingSums
      <4> QED BY <3>1, <4>1, <4>2, SamePending
    <3>3. RowsNumbered' /\ CacheMatchesJournal' /\ PostingsBalance'
      BY <3>1 DEF SumsInv, RowsNumbered, CacheMatchesJournal, PostingsBalance, SumsToZero, Rows
    <3> QED BY <3>2, <3>3 DEF SumsInv
  <2> QED BY <2>1, <2>2
<1> QED BY <1>1, <1>2, Invariance, PTL DEF Spec

(* I3: every stored balance is the sum of the journal's entries, whoever   *)
(* wrote them, at either isolation level and however attempts failed.      *)
THEOREM CacheIsTheSum == Spec => []CacheMatchesJournal
<1>1. SumsInv => CacheMatchesJournal
  BY DEF SumsInv
<1> QED BY <1>1, SumsInvariant, PTL

(* I1 for what post() commits: all of it, sealed, and in balance in every  *)
(* currency.                                                               *)
THEOREM PostingsAreWhole == Spec => []PostingsBalance
<1>1. SumsInv => PostingsBalance
  BY DEF SumsInv
<1> QED BY <1>1, SumsInvariant, PTL
=============================================================================
