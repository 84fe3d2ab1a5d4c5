---------------------------- MODULE TreasuryProofs ----------------------------
(***************************************************************************)
(* Theorems about the parts of module Treasury, for any values of their    *)
(* constants: the rate store (Rates), the scheme rules (Schemes), the book *)
(* in two currencies (Fx) and the split of an amount (Money); and the      *)
(* composition, which is a behaviour of each part.                         *)
(*                                                                         *)
(* Rates.  Whatever the stores race for, a committed rate stays and stays  *)
(* the only one of its quote, and what a caller was given is on record     *)
(* unless its process died with the row.  The argument is the write lock:  *)
(* rows wait in the transaction of a store that holds it, at most one      *)
(* store does, and no row was inserted on a quote committed already.       *)
(*                                                                         *)
(* Schemes.  The limits are checked one step at a time, against the        *)
(* original amount and the original day.  They hold for the whole life     *)
(* because nothing else moves what they are measured by: the last          *)
(* increment is never older than the authorization, and its own day is     *)
(* what the check looked at.                                               *)
(*                                                                         *)
(* Fx.  Each posting moves the sums of both books by nothing; while one    *)
(* result stands at a time and is reversed once, the unrealised account is *)
(* that result.  The adjustment is a sum of rounding errors of half a unit *)
(* each.                                                                   *)
(*                                                                         *)
(* Splits.  Exactly as many indices rank below the remainder as it has     *)
(* units; and no exchange of units helps, because the fractions that got   *)
(* one are no smaller than those that got none.                            *)
(***************************************************************************)
EXTENDS Treasury, SequenceTheorems, SumTheorems, TLAPS

-----------------------------------------------------------------------------
(* The rate store.                                                          *)

Locked == {"reserved", "pending"}

OneRowPerQuote(rows) == \A r1, r2 \in rows : r1.quote = r2.quote => r1 = r2

NoneOn(rows, q) == \A row \in rows : row.quote # q

WantedBy(call) ==
    [quote |-> Head(call.todo), rate |-> call.file[Head(call.todo).currency]]

(* A store, with its rows, its lock and its call, against the table.       *)
StoreOK(table, rows, held, call) ==
    /\ rows # {} => held \in Locked
    /\ OneRowPerQuote(rows)
    /\ \A row \in rows : NoneOn(table, row.quote)
    /\ call.pc # "idle" => call.todo # <<>>
    /\ call.pc = "insert" => NoneOn(rows, Head(call.todo))
    /\ call.pc = "commit" => held \in Locked /\ WantedBy(call) \in rows
    /\ call.got \subseteq table \cup rows

StoreInv(s) == StoreOK(rates, inserted[s], lock[s], rateCall[s])

OneWriter == \A s, t \in Stores : lock[s] \in Locked /\ lock[t] \in Locked => s = t

Held(row) == row \in rates \/ (\E s \in Stores : row \in inserted[s]) \/ row \in lost

RatesInv ==
    /\ RateTypeOK
    /\ OneRowPerQuote(rates)
    /\ \A s \in Stores : StoreInv(s)
    /\ OneWriter
    /\ \A row \in RateRow : row \in given => Held(row)

RateCall ==
    [pc : {"idle", "look", "insert", "commit", "read"}, todo : Seq(Quotes),
     file : [Currencies -> Nat], got : SUBSET RateRow, missing : BOOLEAN]

-----------------------------------------------------------------------------
(* Typing.                                                                 *)

LEMMA QuotesTyped ==
    ASSUME NEW d \in QuoteDays, NEW list \in CurrencyLists, list # <<>>
    PROVE  QuotesOf(d, list) \in Seq(Quotes) /\ QuotesOf(d, list) # <<>>
<1>1. list \in Seq(Currencies)
  BY RateConstants
<1>2. Len(list) \in Nat /\ Len(list) > 0
  BY <1>1, EmptySeq
<1>3. \A i \in 1 .. 2 * Len(list) : (i + 1) \div 2 \in 1 .. Len(list)
  BY <1>2, SMT
<1>4. \A i \in 1 .. 2 * Len(list) : list[(i + 1) \div 2] \in Currencies
  BY <1>1, <1>3, ElementOfSeq
<1>5. \A i \in 1 .. 2 * Len(list) : QuotesOf(d, list)[i] \in Quotes
  BY <1>4 DEF QuotesOf, Quotes, Kinds
<1>6. 2 * Len(list) \in Nat
  BY <1>2
<1>7. QuotesOf(d, list) \in [1 .. 2 * Len(list) -> Quotes]
  BY <1>5 DEF QuotesOf
<1>8. QuotesOf(d, list) \in Seq(Quotes)
  BY <1>6, <1>7, IsASeq
<1>9. 1 \in DOMAIN QuotesOf(d, list)
  BY <1>2, <1>7, SMT
<1>10. DOMAIN <<>> = {}
  OBVIOUS
<1> QED BY <1>8, <1>9, <1>10

LEMMA WantedTyped ==
    ASSUME NEW call \in RateCall, call.todo # <<>>
    PROVE  /\ Head(call.todo) \in Quotes
           /\ WantedBy(call) \in RateRow
           /\ WantedBy(call).quote = Head(call.todo)
           /\ Tail(call.todo) \in Seq(Quotes)
           /\ Len(call.todo) # 1 => Tail(call.todo) # <<>>
<1>1. call.todo \in Seq(Quotes) /\ call.file \in [Currencies -> Nat]
  BY DEF RateCall
<1>2. Head(call.todo) \in Quotes /\ Tail(call.todo) \in Seq(Quotes)
  BY <1>1, HeadTailProperties
<1>3. Head(call.todo).currency \in Currencies
  BY <1>2 DEF Quotes
<1>4. Len(Tail(call.todo)) = Len(call.todo) - 1 /\ Len(call.todo) \in Nat
  BY <1>1, HeadTailProperties
<1>5. Len(call.todo) # 1 => Tail(call.todo) # <<>>
  <2>1. ASSUME Tail(call.todo) = <<>> PROVE Len(Tail(call.todo)) = 0
    BY <2>1, EmptySeq
  <2>2. ASSUME Tail(call.todo) = <<>> PROVE Len(call.todo) = 1
    <3> DEFINE n == Len(call.todo)
    <3> DEFINE m == Len(Tail(call.todo))
    <3>1. n \in Nat /\ m = n - 1 /\ m = 0
      BY <1>4, <2>1, <2>2
    <3> HIDE DEF n, m
    <3>2. n = 1
      BY <3>1
    <3> QED BY <3>2 DEF n
  <2> QED BY <2>2
<1> QED BY <1>1, <1>2, <1>3, <1>5 DEF WantedBy, RateRow

(* What NextQuote makes of a call. *)
LEMMA NextQuoteCall ==
    ASSUME RateTypeOK, NEW s \in Stores, rateCall[s].todo # <<>>, NextQuote(s)
    PROVE  \E call \in RateCall :
              /\ rateCall' = [rateCall EXCEPT ![s] = call]
              /\ call.pc \in {"idle", "look"} /\ call.got = {}
              /\ call.pc # "idle" => call.todo # <<>>
<1>1. rateCall[s] \in RateCall
  BY DEF RateTypeOK, RateCall
<1>2. CASE Len(rateCall[s].todo) = 1
  <2>1. NoFile \in [Currencies -> Nat]
    BY DEF NoFile
  <2>2. <<>> \in Seq(Quotes)
    BY EmptySeq
  <2>3. IdleRateCall \in RateCall
    BY <2>1, <2>2 DEF IdleRateCall, RateCallAt, RateCall
  <2>4. IdleRateCall.pc = "idle" /\ IdleRateCall.got = {}
    BY DEF IdleRateCall, RateCallAt
  <2> QED BY <1>2, <2>3, <2>4 DEF NextQuote, CallBecomes
<1>3. CASE Len(rateCall[s].todo) # 1
  <2> DEFINE call == RateCallAt("look", Tail(rateCall[s].todo), rateCall[s].file, {}, FALSE)
  <2>1. call \in RateCall
    BY <1>1, WantedTyped DEF RateCallAt, RateCall
  <2>2. call.pc = "look" /\ call.got = {} /\ call.todo = Tail(rateCall[s].todo)
    BY DEF RateCallAt
  <2>3. call.todo # <<>>
    BY <1>1, <1>3, <2>2, WantedTyped
  <2>4. rateCall' = [rateCall EXCEPT ![s] = call]
    BY <1>3 DEF NextQuote, CallBecomes
  <2> HIDE DEF call
  <2> QED BY <2>1, <2>2, <2>3, <2>4
<1> QED BY <1>2, <1>3

LEMMA IdleCallTyped ==
    IdleRateCall \in RateCall /\ IdleRateCall.pc = "idle" /\ IdleRateCall.got = {}
<1>1. NoFile \in [Currencies -> Nat]
  BY DEF NoFile
<1>2. <<>> \in Seq(Quotes)
  BY EmptySeq
<1> QED BY <1>1, <1>2 DEF IdleRateCall, RateCallAt, RateCall

-----------------------------------------------------------------------------
(* One step of one store.                                                  *)

LockStates == {"none", "shared", "reserved", "pending"}

(* The other stores keep what they have. *)
OthersKeep(s) ==
    \A t \in Stores : t # s =>
        inserted'[t] = inserted[t] /\ lock'[t] = lock[t] /\ rateCall'[t] = rateCall[t]

(* The lock is taken only while no other store has it. *)
LockTaken(s) == lock'[s] \in Locked => lock[s] \in Locked \/ MayReserve(s)

(* The table stays, or takes the rows of the store that holds the lock.    *)
TableGrows(s) ==
    rates' = rates \/ (rates' = rates \cup inserted[s] /\ (inserted[s] # {} => lock[s] \in Locked))

LEMMA OthersStayOK ==
    ASSUME RatesInv, NEW s \in Stores, NEW t \in Stores, t # s, OthersKeep(s), TableGrows(s)
    PROVE  StoreInv(t)'
<1>1. inserted'[t] = inserted[t] /\ lock'[t] = lock[t] /\ rateCall'[t] = rateCall[t]
  BY DEF OthersKeep
<1>2. StoreOK(rates, inserted[t], lock[t], rateCall[t])
  BY DEF RatesInv, StoreInv
<1>3. StoreOK(rates', inserted[t], lock[t], rateCall[t])
  <2>1. CASE rates' = rates
    BY <1>2, <2>1
  <2>2. CASE rates' = rates \cup inserted[s] /\ inserted[s] # {} /\ lock[s] \in Locked
    <3>1. lock[t] \notin Locked
      BY <2>2 DEF RatesInv, OneWriter
    <3>2. inserted[t] = {}
      BY <1>2, <3>1 DEF StoreOK
    <3>3. \A row \in inserted[t] : NoneOn(rates', row.quote)
      BY <3>2
    <3>4. rateCall[t].got \subseteq rates' \cup inserted[t]
      BY <1>2, <2>2 DEF StoreOK
    <3> QED BY <1>2, <3>3, <3>4 DEF StoreOK
  <2>3. CASE rates' = rates \cup inserted[s] /\ inserted[s] = {}
    BY <1>2, <2>3
  <2> QED BY <2>1, <2>2, <2>3 DEF TableGrows
<1> QED BY <1>1, <1>3 DEF StoreInv

LEMMA TableStaysOneRowPerQuote ==
    ASSUME RatesInv, NEW s \in Stores, TableGrows(s)
    PROVE  OneRowPerQuote(rates')
<1>1. OneRowPerQuote(inserted[s]) /\ \A row \in inserted[s] : NoneOn(rates, row.quote)
  BY DEF RatesInv, StoreInv, StoreOK
<1>2. OneRowPerQuote(rates)
  BY DEF RatesInv
<1>3. CASE rates' = rates
  BY <1>2, <1>3
<1>4. CASE rates' = rates \cup inserted[s]
  <2> SUFFICES ASSUME NEW r1 \in rates', NEW r2 \in rates', r1.quote = r2.quote
               PROVE  r1 = r2
    BY DEF OneRowPerQuote
  <2>1. CASE r1 \in rates /\ r2 \in rates
    BY <1>2, <2>1 DEF OneRowPerQuote
  <2>2. CASE r1 \in inserted[s] /\ r2 \in inserted[s]
    BY <1>1, <2>2 DEF OneRowPerQuote
  <2>3. CASE r1 \in inserted[s] /\ r2 \in rates
    BY <1>1, <2>3 DEF NoneOn
  <2>4. CASE r1 \in rates /\ r2 \in inserted[s]
    BY <1>1, <2>4 DEF NoneOn
  <2> QED BY <1>4, <2>1, <2>2, <2>3, <2>4
<1> QED BY <1>3, <1>4 DEF TableGrows

LEMMA StepOfOne ==
    ASSUME RatesInv, RateTypeOK', NEW s \in Stores, StoreInv(s)',
           OthersKeep(s), LockTaken(s), TableGrows(s),
           \A row \in RateRow : row \in given' => Held(row)'
    PROVE  RatesInv'
<1>1. OneRowPerQuote(rates')
  BY TableStaysOneRowPerQuote
<1>2. \A t \in Stores : StoreInv(t)'
  BY OthersStayOK
<1>3. OneWriter'
  <2> SUFFICES ASSUME NEW t \in Stores, NEW u \in Stores,
                      lock'[t] \in Locked, lock'[u] \in Locked, t # u
               PROVE  FALSE
    BY DEF OneWriter
  <2>1. OneWriter
    BY DEF RatesInv
  <2>2. CASE t # s /\ u # s
    BY <2>1, <2>2 DEF OneWriter, OthersKeep
  <2>3. ASSUME NEW o \in Stores, o # s, lock'[o] \in Locked, lock'[s] \in Locked PROVE FALSE
    <3>1. lock[o] \in Locked
      BY <2>3 DEF OthersKeep
    <3>2. ~MayReserve(s)
      BY <2>3, <3>1 DEF MayReserve, Others, Locked
    <3>3. lock[s] \in Locked
      BY <2>3, <3>2 DEF LockTaken
    <3> QED BY <2>1, <2>3, <3>1, <3>3 DEF OneWriter
  <2> QED BY <2>2, <2>3
<1>4. OneRowPerQuote(rates)' = OneRowPerQuote(rates')
  BY DEF OneRowPerQuote
<1> QED BY <1>1, <1>2, <1>3, <1>4 DEF RatesInv

(* A step that neither inserts nor commits nor ends the process.           *)
LEMMA QuietStep ==
    ASSUME RatesInv, NEW s \in Stores, NEW c \in RateCall, NEW l \in LockStates,
           UNCHANGED <<rates, inserted, lost>>,
           inTx' \in [Stores -> BOOLEAN],
           lock' = [lock EXCEPT ![s] = l],
           rateCall' = [rateCall EXCEPT ![s] = c],
           StoreOK(rates, inserted[s], l, c),
           l \in Locked => lock[s] \in Locked \/ MayReserve(s),
           given' \subseteq given \cup Visible(s)
    PROVE  RatesInv'
<1>1. RateTypeOK
  BY DEF RatesInv
<1>2. rates \subseteq RateRow /\ inserted[s] \subseteq RateRow /\ given \subseteq RateRow
  BY <1>1 DEF RateTypeOK
<1>3. given' \subseteq RateRow
  BY <1>2 DEF Visible
<1>4. rateCall' \in [Stores -> RateCall] /\ lock' \in [Stores -> LockStates]
  BY <1>1 DEF RateTypeOK, RateCall, LockStates
<1>5. RateTypeOK'
  BY <1>1, <1>3, <1>4 DEF RateTypeOK, RateCall, LockStates
<1>6. lock'[s] = l /\ rateCall'[s] = c
  BY <1>1 DEF RateTypeOK
<1>7. StoreInv(s)'
  BY <1>6 DEF StoreInv
<1>8. OthersKeep(s)
  BY <1>1 DEF OthersKeep, RateTypeOK
<1>9. LockTaken(s) /\ TableGrows(s)
  BY <1>6 DEF LockTaken, TableGrows
<1>10. ASSUME NEW row \in RateRow, row \in given' PROVE Held(row)'
  <2>1. Held(row)' <=> Held(row)
    BY DEF Held
  <2>2. CASE row \in given
    BY <2>1, <2>2 DEF RatesInv
  <2>3. CASE row \in Visible(s)
    BY <2>1, <2>3 DEF Held, Visible
  <2> QED BY <1>10, <2>2, <2>3
<1> QED BY <1>5, <1>7, <1>8, <1>9, <1>10, StepOfOne

-----------------------------------------------------------------------------
(* The actions.                                                            *)

LEMMA StoreTyped ==
    ASSUME RatesInv, NEW s \in Stores
    PROVE  /\ rateCall[s] \in RateCall /\ lock[s] \in LockStates
           /\ lock = [lock EXCEPT ![s] = lock[s]]
           /\ StoreOK(rates, inserted[s], lock[s], rateCall[s])
           /\ rateCall[s].pc # "idle" => rateCall[s].todo # <<>>
           /\ rates \subseteq RateRow /\ inserted[s] \subseteq RateRow
           /\ inTx \in [Stores -> BOOLEAN]
<1>1. RateTypeOK
  BY DEF RatesInv
<1>2. rateCall[s] \in RateCall /\ lock[s] \in LockStates
  BY <1>1 DEF RateTypeOK, RateCall, LockStates
<1>3. lock = [lock EXCEPT ![s] = lock[s]]
  BY <1>1 DEF RateTypeOK
<1>4. StoreOK(rates, inserted[s], lock[s], rateCall[s])
  BY DEF RatesInv, StoreInv
<1>5. rateCall[s].pc # "idle" => rateCall[s].todo # <<>>
  BY <1>4 DEF StoreOK
<1>6. rates \subseteq RateRow /\ inserted[s] \subseteq RateRow /\ inTx \in [Stores -> BOOLEAN]
  BY <1>1 DEF RateTypeOK
<1> QED BY <1>2, <1>3, <1>4, <1>5, <1>6

(* A call that has inserted nothing and got nothing asks little. *)
LEMMA PlainCallOK ==
    ASSUME RatesInv, NEW s \in Stores, NEW l, NEW c,
           lock[s] \in Locked => l \in Locked,
           c.pc \in {"idle", "look", "read"}, c.got = {},
           c.pc # "idle" => c.todo # <<>>
    PROVE  StoreOK(rates, inserted[s], l, c)
BY StoreTyped DEF StoreOK

LEMMA ReadLock ==
    ASSUME RatesInv, NEW s \in Stores, LockAfterRead(s)
    PROVE  \E l \in LockStates :
              /\ lock' = [lock EXCEPT ![s] = l]
              /\ l \in Locked <=> lock[s] \in Locked
<1>1. lock \in [Stores -> LockStates]
  BY DEF RatesInv, RateTypeOK, LockStates
<1> DEFINE l == IF inTx[s] /\ lock[s] = "none" THEN "shared" ELSE lock[s]
<1>2. l \in LockStates /\ (l \in Locked <=> lock[s] \in Locked)
  BY <1>1 DEF LockStates, Locked
<1>3. lock' = [lock EXCEPT ![s] = l]
  BY DEF LockAfterRead
<1> QED BY <1>2, <1>3

LEMMA InsertLock ==
    ASSUME RatesInv, NEW s \in Stores, LockAfterInsert(s)
    PROVE  \E l \in LockStates : l \in Locked /\ lock' = [lock EXCEPT ![s] = l]
<1> DEFINE l == IF lock[s] = "pending" THEN "pending" ELSE "reserved"
<1>1. l \in LockStates /\ l \in Locked
  BY DEF LockStates, Locked
<1>2. lock' = [lock EXCEPT ![s] = l]
  BY DEF LockAfterInsert
<1> QED BY <1>1, <1>2

(* A new call of an idle store. *)
LEMMA NewCall ==
    ASSUME RatesInv, NEW s \in Stores, NEW c \in RateCall,
           rateCall' = [rateCall EXCEPT ![s] = c],
           c.pc \in {"look", "read"}, c.got = {}, c.todo # <<>>,
           UnchangedRows, UnchangedHistory, UNCHANGED <<inTx, lock>>
    PROVE  RatesInv'
<1>1. StoreOK(rates, inserted[s], lock[s], c)
  BY PlainCallOK
<1>2. given' \subseteq given \cup Visible(s)
  BY DEF UnchangedHistory
<1>3. UNCHANGED <<rates, inserted, lost>>
  BY DEF UnchangedRows, UnchangedHistory
<1>4. lock' = [lock EXCEPT ![s] = lock[s]] /\ lock[s] \in LockStates
  BY StoreTyped
<1>5. inTx' \in [Stores -> BOOLEAN]
  BY StoreTyped
<1> QED BY <1>1, <1>2, <1>3, <1>4, <1>5, QuietStep

LEMMA CallStarts ==
    ASSUME RatesInv, NEW s \in Stores,
           \/ \E q \in Quotes, r \in RateValues : Publish(s, q, r)
           \/ \E d \in QuoteDays, list \in CurrencyLists, file \in [Currencies -> RateValues] :
                 FetchEcb(s, d, list, file)
           \/ \E d \in QuoteDays, list \in CurrencyLists : StartRateSet(s, d, list)
    PROVE  RatesInv'
<1>1. CASE \E q \in Quotes, r \in RateValues : Publish(s, q, r)
  <2> PICK q \in Quotes, r \in RateValues : Publish(s, q, r)
    BY <1>1
  <2> DEFINE c == RateCallAt("look", <<q>>, [x \in Currencies |-> r], {}, FALSE)
  <2>1. <<q>> \in Seq(Quotes)
    OBVIOUS
  <2>2. [x \in Currencies |-> r] \in [Currencies -> Nat]
    BY RateConstants
  <2>3. c \in RateCall
    BY <2>1, <2>2 DEF RateCallAt, RateCall
  <2>4. <<q>> # <<>>
    OBVIOUS
  <2>5. c.pc = "look" /\ c.got = {} /\ c.todo # <<>>
    BY <2>4 DEF RateCallAt
  <2>6. rateCall' = [rateCall EXCEPT ![s] = c]
    BY DEF Publish, CallBecomes
  <2>7. UnchangedRows /\ UnchangedHistory /\ UNCHANGED <<inTx, lock>>
    BY DEF Publish
  <2> HIDE DEF c
  <2> QED BY <2>3, <2>5, <2>6, <2>7, NewCall
<1>2. CASE \E d \in QuoteDays, list \in CurrencyLists, file \in [Currencies -> RateValues] :
              FetchEcb(s, d, list, file)
  <2> PICK d \in QuoteDays, list \in CurrencyLists, file \in [Currencies -> RateValues] :
         FetchEcb(s, d, list, file)
    BY <1>2
  <2> DEFINE c == RateCallAt("look", QuotesOf(d, list), file, {}, FALSE)
  <2>1. QuotesOf(d, list) \in Seq(Quotes) /\ QuotesOf(d, list) # <<>>
    BY QuotesTyped DEF FetchEcb
  <2>2. file \in [Currencies -> Nat]
    BY RateConstants
  <2>3. c \in RateCall
    BY <2>1, <2>2 DEF RateCallAt, RateCall
  <2>4. c.pc = "look" /\ c.got = {} /\ c.todo # <<>>
    BY <2>1 DEF RateCallAt
  <2>5. rateCall' = [rateCall EXCEPT ![s] = c]
    BY DEF FetchEcb, CallBecomes
  <2>6. UnchangedRows /\ UnchangedHistory /\ UNCHANGED <<inTx, lock>>
    BY DEF FetchEcb
  <2> HIDE DEF c
  <2> QED BY <2>3, <2>4, <2>5, <2>6, NewCall
<1>3. CASE \E d \in QuoteDays, list \in CurrencyLists : StartRateSet(s, d, list)
  <2> PICK d \in QuoteDays, list \in CurrencyLists : StartRateSet(s, d, list)
    BY <1>3
  <2> DEFINE c == RateCallAt("read", QuotesOf(d, list), NoFile, {}, FALSE)
  <2>1. QuotesOf(d, list) \in Seq(Quotes) /\ QuotesOf(d, list) # <<>>
    BY QuotesTyped DEF StartRateSet
  <2>2. NoFile \in [Currencies -> Nat]
    BY DEF NoFile
  <2>3. c \in RateCall
    BY <2>1, <2>2 DEF RateCallAt, RateCall
  <2>4. c.pc = "read" /\ c.got = {} /\ c.todo # <<>>
    BY <2>1 DEF RateCallAt
  <2>5. rateCall' = [rateCall EXCEPT ![s] = c]
    BY DEF StartRateSet, CallBecomes
  <2>6. UnchangedRows /\ UnchangedHistory /\ UNCHANGED <<inTx, lock>>
    BY DEF StartRateSet
  <2> HIDE DEF c
  <2> QED BY <2>3, <2>4, <2>5, <2>6, NewCall
<1> QED BY <1>1, <1>2, <1>3

LEMMA Looks ==
    ASSUME RatesInv, NEW s \in Stores, LookFree(s) \/ LookSame(s)
    PROVE  RatesInv'
<1>1. CASE LookFree(s)
  <2> DEFINE c == RateCallAt("insert", rateCall[s].todo, rateCall[s].file, {}, FALSE)
  <2>1. rateCall[s].pc = "look" /\ OnQuote(Visible(s), Head(rateCall[s].todo)) = {}
    BY <1>1 DEF LookFree
  <2>2. rateCall[s].todo # <<>>
    BY <2>1, StoreTyped
  <2>3. c \in RateCall
    BY StoreTyped DEF RateCallAt, RateCall
  <2>4. c.pc = "insert" /\ c.got = {} /\ c.todo = rateCall[s].todo
    BY DEF RateCallAt
  <2>5. NoneOn(inserted[s], Head(rateCall[s].todo))
    BY <2>1 DEF OnQuote, Visible, NoneOn
  <2>6. PICK l \in LockStates :
           lock' = [lock EXCEPT ![s] = l] /\ (l \in Locked <=> lock[s] \in Locked)
    BY <1>1, ReadLock DEF LookFree
  <2>7. rateCall' = [rateCall EXCEPT ![s] = c]
    BY <1>1 DEF LookFree, CallBecomes
  <2> HIDE DEF c
  <2>8. StoreOK(rates, inserted[s], l, c)
    BY <2>2, <2>4, <2>5, <2>6, StoreTyped DEF StoreOK
  <2>9. UNCHANGED <<rates, inserted, lost>> /\ inTx' \in [Stores -> BOOLEAN]
        /\ given' \subseteq given \cup Visible(s)
    BY <1>1, StoreTyped DEF LookFree, UnchangedRows, UnchangedHistory
  <2> QED BY <2>3, <2>6, <2>7, <2>8, <2>9, QuietStep
<1>2. CASE LookSame(s)
  <2>1. rateCall[s].todo # <<>>
    BY <1>2, StoreTyped DEF LookSame
  <2>2. PICK c \in RateCall :
           /\ rateCall' = [rateCall EXCEPT ![s] = c]
           /\ c.pc \in {"idle", "look"} /\ c.got = {}
           /\ c.pc # "idle" => c.todo # <<>>
    BY <1>2, <2>1, NextQuoteCall DEF LookSame, RatesInv
  <2>3. PICK l \in LockStates :
           lock' = [lock EXCEPT ![s] = l] /\ (l \in Locked <=> lock[s] \in Locked)
    BY <1>2, ReadLock DEF LookSame
  <2>4. StoreOK(rates, inserted[s], l, c)
    BY <2>2, <2>3, PlainCallOK
  <2>5. UNCHANGED <<rates, inserted, lost>> /\ inTx' \in [Stores -> BOOLEAN]
        /\ given' \subseteq given \cup Visible(s)
    BY <1>2, StoreTyped DEF LookSame, UnchangedRows
  <2> QED BY <2>2, <2>3, <2>4, <2>5, QuietStep
<1> QED BY <1>1, <1>2

(* The calls that raise. *)
LEMMA RaisingStep ==
    ASSUME RatesInv, NEW s \in Stores, NEW l \in LockStates, Raise(s),
           UnchangedRows, UnchangedHistory,
           inTx' \in [Stores -> BOOLEAN],
           lock' = [lock EXCEPT ![s] = l],
           lock[s] \in Locked => l \in Locked,
           l \in Locked => lock[s] \in Locked \/ MayReserve(s)
    PROVE  RatesInv'
<1>1. StoreOK(rates, inserted[s], l, IdleRateCall)
  BY IdleCallTyped, PlainCallOK
<1>2. rateCall' = [rateCall EXCEPT ![s] = IdleRateCall]
  BY DEF Raise, CallBecomes
<1>3. UNCHANGED <<rates, inserted, lost>> /\ given' \subseteq given \cup Visible(s)
  BY DEF UnchangedRows, UnchangedHistory
<1> QED BY <1>1, <1>2, <1>3, IdleCallTyped, QuietStep

LEMMA Raises ==
    ASSUME RatesInv, NEW s \in Stores,
           LookOther(s) \/ InsertTaken(s) \/ InsertBusy(s) \/ CommitBusy(s) \/ ReadBusy(s)
    PROVE  RatesInv'
<1>1. CASE LookOther(s)
  <2>1. PICK l \in LockStates :
           lock' = [lock EXCEPT ![s] = l] /\ (l \in Locked <=> lock[s] \in Locked)
    BY <1>1, ReadLock DEF LookOther
  <2>2. Raise(s) /\ UnchangedRows /\ UnchangedHistory /\ inTx' \in [Stores -> BOOLEAN]
    BY <1>1, StoreTyped DEF LookOther
  <2> QED BY <2>1, <2>2, RaisingStep
<1>2. CASE InsertTaken(s)
  <2>1. PICK l \in LockStates : l \in Locked /\ lock' = [lock EXCEPT ![s] = l]
    BY <1>2, InsertLock DEF InsertTaken
  <2>2. Raise(s) /\ UnchangedRows /\ UnchangedHistory /\ inTx' \in [Stores -> BOOLEAN]
    BY <1>2, StoreTyped DEF InsertTaken
  <2>3. MayReserve(s)
    BY <1>2 DEF InsertTaken
  <2> QED BY <2>1, <2>2, <2>3, RaisingStep
<1>3. CASE InsertBusy(s)
  <2>1. Raise(s) /\ UnchangedRows /\ UnchangedHistory /\ inTx' \in [Stores -> BOOLEAN]
    BY <1>3, StoreTyped DEF InsertBusy
  <2>2. lock' = [lock EXCEPT ![s] = lock[s]] /\ lock[s] \in LockStates
    BY <1>3, StoreTyped DEF InsertBusy
  <2> QED BY <2>1, <2>2, RaisingStep
<1>4. CASE CommitBusy(s)
  <2>1. Raise(s) /\ UnchangedRows /\ UnchangedHistory /\ inTx' \in [Stores -> BOOLEAN]
    BY <1>4, StoreTyped DEF CommitBusy
  <2>2. lock' = [lock EXCEPT ![s] = "pending"]
    BY <1>4 DEF CommitBusy
  <2>3. lock[s] \in Locked
    BY <1>4, StoreTyped DEF CommitBusy, StoreOK
  <2>4. "pending" \in LockStates /\ "pending" \in Locked
    BY DEF LockStates, Locked
  <2> QED BY <2>1, <2>2, <2>3, <2>4, RaisingStep
<1>5. CASE ReadBusy(s)
  <2>1. Raise(s) /\ UnchangedRows /\ UnchangedHistory /\ inTx' \in [Stores -> BOOLEAN]
    BY <1>5, StoreTyped DEF ReadBusy
  <2>2. lock' = [lock EXCEPT ![s] = lock[s]] /\ lock[s] \in LockStates
    BY <1>5, StoreTyped DEF ReadBusy
  <2> QED BY <2>1, <2>2, RaisingStep
<1> QED BY <1>1, <1>2, <1>3, <1>4, <1>5

LEMMA Reads ==
    ASSUME RatesInv, NEW s \in Stores, ReadRate(s)
    PROVE  RatesInv'
<1> DEFINE found   == OnQuote(Visible(s), Head(rateCall[s].todo))
           got     == rateCall[s].got \cup found
           missing == rateCall[s].missing \/ found = {}
           c       == RateCallAt("read", Tail(rateCall[s].todo), NoFile, got, missing)
<1>1. found \subseteq Visible(s)
  BY DEF OnQuote
<1>2. got \subseteq rates \cup inserted[s]
  BY <1>1, StoreTyped DEF StoreOK, Visible
<1>3. rateCall[s].pc = "read" /\ rateCall[s].todo # <<>>
  BY StoreTyped DEF ReadRate
<1>4. PICK l \in LockStates :
         lock' = [lock EXCEPT ![s] = l] /\ (l \in Locked <=> lock[s] \in Locked)
  BY ReadLock DEF ReadRate
<1>5. UNCHANGED <<rates, inserted, lost>> /\ inTx' \in [Stores -> BOOLEAN]
  BY StoreTyped DEF ReadRate, UnchangedRows
<1>6. CASE Len(rateCall[s].todo) > 1
  <2>1. rateCall' = [rateCall EXCEPT ![s] = c] /\ given' = given
    BY <1>6 DEF ReadRate, CallBecomes
  <2>2. missing \in BOOLEAN
    BY StoreTyped DEF RateCall
  <2>3. NoFile \in [Currencies -> Nat]
    BY DEF NoFile
  <2>4. got \subseteq RateRow
    BY <1>2, StoreTyped
  <2>5. Tail(rateCall[s].todo) \in Seq(Quotes) /\ Tail(rateCall[s].todo) # <<>>
    <3>1. rateCall[s] \in RateCall
      BY StoreTyped
    <3>2. ~(1 > 1)
      OBVIOUS
    <3>3. Len(rateCall[s].todo) # 1
      BY <1>6, <3>2, Zenon
    <3> QED BY <1>3, <3>1, <3>3, WantedTyped
  <2> HIDE DEF got, missing
  <2>6. c \in RateCall
    BY <2>2, <2>3, <2>4, <2>5 DEF RateCallAt, RateCall
  <2>7. c.pc = "read" /\ c.todo # <<>> /\ c.got = got
    BY <2>5 DEF RateCallAt
  <2> HIDE DEF c
  <2>8. StoreOK(rates, inserted[s], l, c)
    BY <1>2, <1>4, <2>7, StoreTyped DEF StoreOK
  <2>9. given' \subseteq given \cup Visible(s)
    BY <2>1
  <2> QED BY <1>4, <1>5, <2>1, <2>6, <2>8, <2>9, QuietStep
<1>7. CASE ~(Len(rateCall[s].todo) > 1)
  <2>1. rateCall' = [rateCall EXCEPT ![s] = IdleRateCall]
    BY <1>7 DEF ReadRate, Raise, CallBecomes
  <2>2. given' = IF missing THEN given ELSE given \cup got
    BY <1>7 DEF ReadRate
  <2>3. given' \subseteq given \cup Visible(s)
    BY <1>2, <2>2 DEF Visible
  <2>4. StoreOK(rates, inserted[s], l, IdleRateCall)
    BY <1>4, IdleCallTyped, PlainCallOK
  <2> QED BY <1>4, <1>5, <2>1, <2>3, <2>4, IdleCallTyped, QuietStep
<1> QED BY <1>6, <1>7

LEMMA WantedIs ==
    ASSUME NEW s \in Stores
    PROVE  Wanted(s) = WantedBy(rateCall[s])
BY DEF Wanted, WantedBy

LEMMA Inserts ==
    ASSUME RatesInv, NEW s \in Stores, Insert(s)
    PROVE  RatesInv'
<1> DEFINE q == Head(rateCall[s].todo)
           w == Wanted(s)
           c == RateCallAt("commit", rateCall[s].todo, rateCall[s].file, {}, FALSE)
<1>1. RateTypeOK
  BY DEF RatesInv
<1>2. rateCall[s].pc = "insert" /\ rateCall[s].todo # <<>> /\ NoneOn(inserted[s], q)
  BY StoreTyped DEF Insert, StoreOK
<1>3. rateCall[s] \in RateCall
  BY StoreTyped
<1>4. w \in RateRow /\ w.quote = q
  BY <1>2, <1>3, WantedTyped, WantedIs
<1>5. NoneOn(rates, q)
  BY DEF Insert, OnQuote, NoneOn
<1>6. PICK l \in LockStates : l \in Locked /\ lock' = [lock EXCEPT ![s] = l]
  BY InsertLock DEF Insert
<1>7. c \in RateCall
  BY <1>3 DEF RateCallAt, RateCall
<1>8. c.pc = "commit" /\ c.got = {} /\ c.todo # <<>> /\ WantedBy(c) = w
  BY <1>2 DEF RateCallAt, Wanted, WantedBy
<1>9. rateCall' = [rateCall EXCEPT ![s] = c] /\ inserted' = [inserted EXCEPT ![s] = @ \cup {w}]
  BY DEF Insert, CallBecomes
<1>10. UNCHANGED <<rates, given, lost>> /\ inTx' \in [Stores -> BOOLEAN]
  BY StoreTyped DEF Insert, UnchangedHistory
<1> HIDE DEF c, w, q
<1>11. rateCall' \in [Stores -> RateCall] /\ lock' \in [Stores -> LockStates]
  BY <1>1, <1>6, <1>7, <1>9 DEF RateTypeOK, RateCall, LockStates
<1>12. inserted' \in [Stores -> SUBSET RateRow] /\ inserted'[s] = inserted[s] \cup {w}
  BY <1>1, <1>4, <1>9 DEF RateTypeOK
<1>13. RateTypeOK'
  BY <1>1, <1>10, <1>11, <1>12 DEF RateTypeOK, RateCall, LockStates
<1>14. lock'[s] = l /\ rateCall'[s] = c
  BY <1>1, <1>6, <1>9 DEF RateTypeOK
<1>15. OneRowPerQuote(inserted[s]) /\ \A row \in inserted[s] : NoneOn(rates, row.quote)
  BY StoreTyped DEF StoreOK
<1>16. OneRowPerQuote(inserted[s] \cup {w})
  BY <1>2, <1>4, <1>15 DEF OneRowPerQuote, NoneOn
<1>17. \A row \in inserted[s] \cup {w} : NoneOn(rates, row.quote)
  BY <1>4, <1>5, <1>15
<1>18. StoreOK(rates, inserted[s] \cup {w}, l, c)
  BY <1>6, <1>8, <1>16, <1>17 DEF StoreOK
<1>19. StoreInv(s)'
  BY <1>10, <1>12, <1>14, <1>18 DEF StoreInv
<1>20. OthersKeep(s)
  BY <1>1, <1>6, <1>9 DEF OthersKeep, RateTypeOK
<1>21. LockTaken(s) /\ TableGrows(s)
  BY <1>10 DEF Insert, LockTaken, TableGrows
<1>22. \A row \in RateRow : row \in given' => Held(row)'
  <2> SUFFICES ASSUME NEW row \in RateRow, row \in given' PROVE Held(row)'
    OBVIOUS
  <2>1. Held(row)
    BY <1>10 DEF RatesInv
  <2>2. \A t \in Stores : inserted[t] \subseteq inserted'[t]
    BY <1>12, <1>20 DEF OthersKeep
  <2> QED BY <1>10, <2>1, <2>2 DEF Held
<1> QED BY <1>13, <1>19, <1>20, <1>21, <1>22, StepOfOne

LEMMA Commits ==
    ASSUME RatesInv, NEW s \in Stores, CommitRates(s)
    PROVE  RatesInv'
<1>1. RateTypeOK
  BY DEF RatesInv
<1>2. rateCall[s].pc = "commit" /\ rateCall[s].todo # <<>> /\ lock[s] \in Locked
      /\ Wanted(s) \in inserted[s]
  BY StoreTyped, WantedIs DEF CommitRates, StoreOK
<1>3. PICK c \in RateCall :
         /\ rateCall' = [rateCall EXCEPT ![s] = c]
         /\ c.pc \in {"idle", "look"} /\ c.got = {}
         /\ c.pc # "idle" => c.todo # <<>>
  BY <1>1, <1>2, NextQuoteCall DEF CommitRates
<1>4. /\ rates' = rates \cup inserted[s]
      /\ inserted' = [inserted EXCEPT ![s] = {}]
      /\ inTx' = [inTx EXCEPT ![s] = FALSE]
      /\ lock' = [lock EXCEPT ![s] = "none"]
      /\ given' = given \cup {Wanted(s)}
      /\ lost' = lost
  BY DEF CommitRates
<1>5. rateCall' \in [Stores -> RateCall] /\ lock' \in [Stores -> LockStates]
  BY <1>1, <1>3, <1>4 DEF RateTypeOK, RateCall, LockStates
<1>6. rates' \subseteq RateRow /\ given' \subseteq RateRow
  BY <1>1, <1>2, <1>4 DEF RateTypeOK
<1>7. RateTypeOK'
  BY <1>1, <1>4, <1>5, <1>6 DEF RateTypeOK, RateCall, LockStates
<1>8. inserted'[s] = {} /\ lock'[s] = "none" /\ rateCall'[s] = c
  BY <1>1, <1>3, <1>4 DEF RateTypeOK
<1>9. StoreOK(rates', {}, "none", c)
  BY <1>3 DEF StoreOK, OneRowPerQuote
<1>10. StoreInv(s)'
  BY <1>8, <1>9 DEF StoreInv
<1>11. OthersKeep(s)
  BY <1>1, <1>3, <1>4 DEF OthersKeep, RateTypeOK
<1>12. LockTaken(s) /\ TableGrows(s)
  BY <1>2, <1>4, <1>8 DEF LockTaken, TableGrows, Locked
<1>13. \A row \in RateRow : row \in given' => Held(row)'
  <2> SUFFICES ASSUME NEW row \in RateRow, row \in given' PROVE Held(row)'
    OBVIOUS
  <2>1. CASE row = Wanted(s)
    BY <1>2, <1>4, <2>1 DEF Held
  <2>2. CASE row \in given
    <3>1. Held(row)
      BY <2>2 DEF RatesInv
    <3>2. \A t \in Stores : t # s => inserted'[t] = inserted[t]
      BY <1>11 DEF OthersKeep
    <3> QED BY <1>4, <3>1, <3>2 DEF Held
  <2> QED BY <1>4, <2>1, <2>2
<1> QED BY <1>7, <1>10, <1>11, <1>12, <1>13, StepOfOne

LEMMA Dies ==
    ASSUME RatesInv, NEW s \in Stores, StoreDies(s)
    PROVE  RatesInv'
<1>1. RateTypeOK
  BY DEF RatesInv
<1>2. /\ rates' = rates /\ given' = given
      /\ inserted' = [inserted EXCEPT ![s] = {}]
      /\ inTx' = [inTx EXCEPT ![s] = FALSE]
      /\ lock' = [lock EXCEPT ![s] = "none"]
      /\ rateCall' = [rateCall EXCEPT ![s] = IdleRateCall]
      /\ lost' = lost \cup inserted[s]
  BY DEF StoreDies, Raise, CallBecomes
<1>3. rateCall' \in [Stores -> RateCall] /\ lock' \in [Stores -> LockStates]
  BY <1>1, <1>2, IdleCallTyped DEF RateTypeOK, RateCall, LockStates
<1>4. RateTypeOK'
  BY <1>1, <1>2, <1>3 DEF RateTypeOK, RateCall, LockStates
<1>5. inserted'[s] = {} /\ lock'[s] = "none" /\ rateCall'[s] = IdleRateCall
  BY <1>1, <1>2 DEF RateTypeOK
<1>6. StoreOK(rates', {}, "none", IdleRateCall)
  BY IdleCallTyped DEF StoreOK, OneRowPerQuote
<1>7. StoreInv(s)'
  BY <1>5, <1>6 DEF StoreInv
<1>8. OthersKeep(s)
  BY <1>1, <1>2 DEF OthersKeep, RateTypeOK
<1>9. LockTaken(s) /\ TableGrows(s)
  BY <1>2, <1>5 DEF LockTaken, TableGrows, Locked
<1>10. \A row \in RateRow : row \in given' => Held(row)'
  <2> SUFFICES ASSUME NEW row \in RateRow, row \in given' PROVE Held(row)'
    OBVIOUS
  <2>1. Held(row)
    BY <1>2 DEF RatesInv
  <2>2. \A t \in Stores : t # s => inserted'[t] = inserted[t]
    BY <1>8 DEF OthersKeep
  <2> QED BY <1>2, <2>1, <2>2 DEF Held
<1> QED BY <1>4, <1>7, <1>8, <1>9, <1>10, StepOfOne

-----------------------------------------------------------------------------
(* The theorems.                                                           *)

LEMMA RatesStart == RatesInit => RatesInv
<1> SUFFICES ASSUME RatesInit PROVE RatesInv
  OBVIOUS
<1>1. RateTypeOK
  BY IdleCallTyped DEF RatesInit, RateTypeOK, RateCall
<1>2. \A s \in Stores : StoreInv(s)
  BY IdleCallTyped DEF RatesInit, StoreInv, StoreOK, OneRowPerQuote
<1> QED BY <1>1, <1>2 DEF RatesInit, RatesInv, OneRowPerQuote, OneWriter, Locked

LEMMA RatesStep == RatesInv /\ [RatesNext]_rateVars => RatesInv'
<1> SUFFICES ASSUME RatesInv, [RatesNext]_rateVars PROVE RatesInv'
  OBVIOUS
<1>1. CASE UNCHANGED rateVars
  BY <1>1 DEF rateVars, RatesInv, RateTypeOK, StoreInv, OneWriter, Held
<1>2. CASE RatesNext
  <2> PICK s \in Stores :
         \/ \E q \in Quotes, r \in RateValues : Publish(s, q, r)
         \/ \E d \in QuoteDays, list \in CurrencyLists, file \in [Currencies -> RateValues] :
               FetchEcb(s, d, list, file)
         \/ \E d \in QuoteDays, list \in CurrencyLists : StartRateSet(s, d, list)
         \/ LookFree(s) \/ LookSame(s) \/ LookOther(s)
         \/ Insert(s) \/ InsertTaken(s) \/ InsertBusy(s)
         \/ CommitRates(s) \/ CommitBusy(s)
         \/ ReadRate(s) \/ ReadBusy(s)
         \/ StoreDies(s)
    BY <1>2 DEF RatesNext
  <2> QED BY CallStarts, Looks, Raises, Reads, Inserts, Commits, Dies
<1> QED BY <1>1, <1>2

LEMMA RatesInvariant == RatesSpec => []RatesInv
BY RatesStart, RatesStep, PTL DEF RatesSpec

(* Every variable of the rate store keeps its type. *)
THEOREM RatesTyped == RatesSpec => []RateTypeOK
<1>1. RatesInv => RateTypeOK
  BY DEF RatesInv
<1> QED BY <1>1, RatesInvariant, PTL

(* What publish returned or a RateSet held stays on record, unless the     *)
(* process died with the row.                                              *)
THEOREM GivenStand == RatesSpec => []GivenRatesStand
<1>1. RatesInv => GivenRatesStand
  <2> SUFFICES ASSUME RatesInv, NEW row \in given
               PROVE  \/ OnQuote(rates, row.quote) = {row}
                      \/ \E s \in Stores : row \in inserted[s]
                      \/ row \in lost
    BY DEF GivenRatesStand
  <2>1. row \in RateRow
    BY DEF RatesInv, RateTypeOK
  <2>2. Held(row)
    BY <2>1 DEF RatesInv
  <2>3. row \in rates => OnQuote(rates, row.quote) = {row}
    BY DEF RatesInv, OneRowPerQuote, OnQuote
  <2> QED BY <2>2, <2>3 DEF Held
<1> QED BY <1>1, RatesInvariant, PTL

(* A committed rate stays, and stays the only one of its quote. *)
THEOREM Immutable == RatesSpec => RatesImmutable
<1>1. RatesInv /\ RatesInv' /\ [RatesNext]_rateVars =>
        [/\ rates \subseteq rates'
         /\ \A row \in rates : OnQuote(rates', row.quote) = {row}]_rateVars
  <2> SUFFICES ASSUME RatesInv, RatesInv', RatesNext
               PROVE  /\ rates \subseteq rates'
                      /\ \A row \in rates : OnQuote(rates', row.quote) = {row}
    OBVIOUS
  <2>1. rates \subseteq rates'
    BY DEF RatesNext, Publish, FetchEcb, StartRateSet, LookFree, LookSame, LookOther, Insert,
           InsertTaken, InsertBusy, CommitRates, CommitBusy, ReadRate, ReadBusy, StoreDies,
           UnchangedRows
  <2>2. \A r1, r2 \in rates' : r1.quote = r2.quote => r1 = r2
    BY DEF RatesInv, OneRowPerQuote
  <2>3. \A row \in rates : OnQuote(rates', row.quote) = {row}
    BY <2>1, <2>2 DEF OnQuote
  <2> QED BY <2>1, <2>3
<1> QED BY <1>1, RatesInvariant, PTL DEF RatesSpec, RatesImmutable

-----------------------------------------------------------------------------
(* The scheme rules.                                                        *)

RuleOK(r) ==
    /\ r.increments \in Nat /\ r.percent \in Nat /\ r.days \in Nat /\ r.decrement \in BOOLEAN
    /\ r.percent >= 100

SchemeInv ==
    /\ SchemeTypeOK
    /\ WithinScheme
    /\ raisedAt <= auth.age

LEMMA RuleFields == \A s \in SchemeNames : RuleOK(Rules[s])
<1> SUFFICES ASSUME NEW s \in SchemeNames PROVE RuleOK(Rules[s])
  OBVIOUS
<1>1. CASE s = "visa"
  <2>1. Rules[s] = SchemeRule(5, 115, 30, TRUE)
    BY <1>1 DEF Rules, SchemeNames
  <2> QED BY <2>1 DEF RuleOK, SchemeRule
<1>2. CASE s = "mastercard"
  <2>1. Rules[s] = SchemeRule(4, 120, 30, TRUE)
    BY <1>2 DEF Rules, SchemeNames
  <2> QED BY <2>1 DEF RuleOK, SchemeRule
<1>3. CASE s = "amex"
  <2>1. Rules[s] = SchemeRule(3, 110, 7, TRUE)
    BY <1>3 DEF Rules, SchemeNames
  <2> QED BY <2>1 DEF RuleOK, SchemeRule
<1>4. CASE s = "interac"
  <2>1. Rules[s] = SchemeRule(0, 100, 1, FALSE)
    BY <1>4 DEF Rules, SchemeNames
  <2> QED BY <2>1 DEF RuleOK, SchemeRule
<1> QED BY <1>1, <1>2, <1>3, <1>4 DEF SchemeNames

AuthRow ==
    [scheme : SchemeNames \cup {"unknown"}, eligible : BOOLEAN,
     original : Nat, current : Nat \ {0}, captured : Nat, increments : Nat,
     age : Nat, open : BOOLEAN]

LEMMA AuthTyped ==
    ASSUME NEW scheme \in SchemeNames \cup {"unknown"}, NEW eligible \in BOOLEAN,
           NEW original \in Nat, NEW current \in Nat \ {0}, NEW captured \in Nat,
           NEW increments \in Nat, NEW age \in Nat, NEW open \in BOOLEAN
    PROVE  Auth(scheme, eligible, original, current, captured, increments, age, open) \in AuthRow
BY DEF Auth, AuthRow

LEMMA OldAuth ==
    ASSUME SchemeTypeOK
    PROVE  /\ auth \in AuthRow /\ raisedAt \in Nat
           /\ auth.scheme \in SchemeNames \cup {"unknown"} /\ auth.eligible \in BOOLEAN
           /\ auth.original \in Nat /\ auth.current \in Nat \ {0} /\ auth.captured \in Nat
           /\ auth.increments \in Nat /\ auth.age \in Nat /\ auth.open \in BOOLEAN
<1>1. auth \in AuthRow /\ raisedAt \in Nat
  BY DEF SchemeTypeOK, AuthRow
<1> QED BY <1>1 DEF AuthRow

(* An amount below the rounded-down ceiling is within the ratio. *)
LEMMA BelowCeiling ==
    ASSUME NEW original \in Nat, NEW percent \in Nat, NEW n \in Int,
           n <= (original * percent) \div 100
    PROVE  100 * n <= percent * original
<1> DEFINE m == original * percent
<1>1. m \in Nat /\ m = percent * original
  OBVIOUS
<1> HIDE DEF m
<1>2. 100 * (m \div 100) <= m
  BY <1>1
<1>3. n <= m \div 100
  BY DEF m
<1>4. 100 * n <= 100 * (m \div 100)
  BY <1>1, <1>3
<1>5. 100 * n <= m
  BY <1>1, <1>2, <1>4
<1> QED BY <1>1, <1>5

LEMMA WholeIsWithin ==
    ASSUME NEW n \in Nat, NEW percent \in Nat, percent >= 100
    PROVE  100 * n <= percent * n
OBVIOUS

-----------------------------------------------------------------------------
(* A new authorization. *)
LEMMA NewFine ==
    ASSUME NEW s \in SchemeNames \cup {"unknown"}, NEW e \in BOOLEAN, NEW n \in Originals,
           auth = NewAuth(s, e, n), raisedAt = 0
    PROVE  SchemeInv
<1>1. n \in Nat \ {0} /\ n \in Nat
  BY SchemeConstants
<1>2. auth \in AuthRow
  BY <1>1, AuthTyped DEF NewAuth
<1>3. /\ auth.scheme = s /\ auth.original = n /\ auth.current = n /\ auth.increments = 0
      /\ auth.age = 0
  BY DEF NewAuth, Auth
<1>4. SchemeTypeOK
  BY <1>2 DEF SchemeTypeOK, AuthRow
<1>5. WithinScheme
  <2> SUFFICES ASSUME s \in SchemeNames
               PROVE  /\ 100 * n <= Rules[s].percent * n
                      /\ 0 <= Rules[s].increments /\ 0 <= Rules[s].days
    BY <1>3 DEF WithinScheme
  <2>1. RuleOK(Rules[s])
    BY RuleFields
  <2>2. /\ Rules[s].percent \in Nat /\ Rules[s].percent >= 100
        /\ 0 <= Rules[s].increments /\ 0 <= Rules[s].days
    BY <2>1 DEF RuleOK
  <2>3. 100 * n <= Rules[s].percent * n
    BY <1>1, <2>2, WholeIsWithin
  <2> QED BY <2>2, <2>3
<1> QED BY <1>3, <1>4, <1>5 DEF SchemeInv

LEMMA NewFineNext ==
    ASSUME NEW s \in SchemeNames \cup {"unknown"}, NEW e \in BOOLEAN, NEW n \in Originals,
           auth' = NewAuth(s, e, n), raisedAt' = 0
    PROVE  SchemeInv'
<1>1. n \in Nat \ {0} /\ n \in Nat
  BY SchemeConstants
<1>2. auth' \in AuthRow
  BY <1>1, AuthTyped DEF NewAuth
<1>3. /\ auth'.scheme = s /\ auth'.original = n /\ auth'.current = n
      /\ auth'.increments = 0 /\ auth'.age = 0
  BY DEF NewAuth, Auth
<1>4. SchemeTypeOK'
  BY <1>2 DEF SchemeTypeOK, AuthRow
<1>5. WithinScheme'
  <2> SUFFICES ASSUME s \in SchemeNames
               PROVE  /\ 100 * n <= Rules[s].percent * n
                      /\ 0 <= Rules[s].increments /\ 0 <= Rules[s].days
    BY <1>3 DEF WithinScheme
  <2>1. RuleOK(Rules[s])
    BY RuleFields
  <2>2. /\ Rules[s].percent \in Nat /\ Rules[s].percent >= 100
        /\ 0 <= Rules[s].increments /\ 0 <= Rules[s].days
    BY <2>1 DEF RuleOK
  <2>3. 100 * n <= Rules[s].percent * n
    BY <1>1, <2>2, WholeIsWithin
  <2> QED BY <2>2, <2>3
<1> QED BY <1>3, <1>4, <1>5 DEF SchemeInv

LEMMA AdjustFine ==
    ASSUME SchemeInv, NEW delta \in Int, delta # 0, AdjustChecked(delta)
    PROVE  SchemeInv'
<1> DEFINE a == auth
           after == a.current + delta
           increments == IF delta > 0 THEN a.increments + 1 ELSE a.increments
           row == Auth(a.scheme, a.eligible, a.original, after, a.captured, increments,
                       a.age, TRUE)
           raised == IF delta > 0 THEN a.age ELSE raisedAt
           r == Rules[a.scheme]
<1>1. /\ a \in AuthRow /\ raisedAt \in Nat
      /\ a.scheme \in SchemeNames \cup {"unknown"} /\ a.eligible \in BOOLEAN
      /\ a.original \in Nat /\ a.current \in Nat \ {0} /\ a.captured \in Nat
      /\ a.increments \in Nat /\ a.age \in Nat
  BY OldAuth DEF SchemeInv
<1>2. /\ CheckAdjustment(a, delta) /\ after > 0 /\ auth' = row /\ raisedAt' = raised
  BY DEF AdjustChecked
<1>3. a.scheme \in SchemeNames /\ a.age <= r.days
  BY <1>2 DEF CheckAdjustment, MayDecrement, MayIncrement
<1>4. RuleOK(r)
  BY <1>3, RuleFields
<1>5. after \in Nat \ {0} /\ increments \in Nat /\ raised \in Nat
  BY <1>1, <1>2
<1>6. raisedAt <= a.age /\ 100 * a.current <= r.percent * a.original
         /\ a.increments <= r.increments /\ raisedAt <= r.days
  BY <1>3 DEF SchemeInv, WithinScheme
<1>7. /\ raised <= a.age /\ raised <= r.days
      /\ 100 * after <= r.percent * a.original /\ increments <= r.increments
  <2>1. CASE delta > 0
    <3>1. a.increments < r.increments /\ after <= (a.original * r.percent) \div 100
      BY <1>2, <2>1 DEF CheckAdjustment, MayIncrement, Ceiling
    <3>2. 100 * after <= r.percent * a.original
      BY <1>1, <1>4, <1>5, <3>1, BelowCeiling DEF RuleOK
    <3>3. increments = a.increments + 1 /\ raised = a.age
      BY <2>1
    <3>4. a.increments + 1 <= r.increments
      BY <1>1, <1>4, <3>1 DEF RuleOK
    <3>5. a.age <= a.age
      BY <1>1
    <3> QED BY <1>3, <3>2, <3>3, <3>4, <3>5
  <2>2. CASE delta < 0
    <3>1. increments = a.increments /\ raised = raisedAt
      BY <2>2
    <3>2. 100 * after <= 100 * a.current
      BY <1>1, <2>2
    <3>3. r.percent * a.original \in Nat
      BY <1>1, <1>4 DEF RuleOK
    <3>4. 100 * after <= r.percent * a.original
      BY <1>1, <1>5, <1>6, <3>2, <3>3
    <3> QED BY <1>6, <3>1, <3>4
  <2> QED BY <2>1, <2>2
<1> HIDE DEF after, increments, raised
<1>8. row \in AuthRow
  BY <1>1, <1>5, AuthTyped
<1>9. /\ row.scheme = a.scheme /\ row.original = a.original /\ row.current = after
      /\ row.increments = increments /\ row.age = a.age
  BY DEF Auth
<1> HIDE DEF row
<1>10. SchemeTypeOK'
  BY <1>2, <1>5, <1>8 DEF SchemeTypeOK, AuthRow
<1>11. WithinScheme'
  BY <1>2, <1>7, <1>9 DEF WithinScheme
<1> QED BY <1>2, <1>7, <1>9, <1>10, <1>11 DEF SchemeInv

(* Neither a capture nor a day moves what the limits are measured by. *)
LEMMA AgesFine ==
    ASSUME SchemeInv, NEW captured \in Nat, NEW age \in Nat, NEW open \in BOOLEAN,
           age >= auth.age, raisedAt' = raisedAt,
           auth' = Auth(auth.scheme, auth.eligible, auth.original, auth.current, captured,
                        auth.increments, age, open)
    PROVE  SchemeInv'
<1> DEFINE row == Auth(auth.scheme, auth.eligible, auth.original, auth.current, captured,
                       auth.increments, age, open)
<1>1. /\ auth.scheme \in SchemeNames \cup {"unknown"} /\ auth.eligible \in BOOLEAN
      /\ auth.original \in Nat /\ auth.current \in Nat \ {0} /\ auth.increments \in Nat
      /\ auth.age \in Nat /\ raisedAt \in Nat
  BY OldAuth DEF SchemeInv
<1>2. row \in AuthRow
  BY <1>1, AuthTyped
<1>3. /\ row.scheme = auth.scheme /\ row.original = auth.original
      /\ row.current = auth.current /\ row.increments = auth.increments /\ row.age = age
  BY DEF Auth
<1>4. auth' = row
  OBVIOUS
<1> HIDE DEF row
<1>5. SchemeTypeOK'
  BY <1>1, <1>2, <1>4 DEF SchemeTypeOK, AuthRow
<1>6. WithinScheme'
  BY <1>3, <1>4 DEF SchemeInv, WithinScheme
<1>7. raisedAt <= age
  BY <1>1 DEF SchemeInv
<1> QED BY <1>3, <1>4, <1>5, <1>6, <1>7 DEF SchemeInv

LEMMA SchemesStart == SchemeInit => SchemeInv
BY NewFine DEF SchemeInit

LEMMA SchemesStep == SchemeInv /\ [SchemeNext]_schemeVars => SchemeInv'
<1> SUFFICES ASSUME SchemeInv, [SchemeNext]_schemeVars PROVE SchemeInv'
  OBVIOUS
<1>1. /\ auth.original \in Nat /\ auth.current \in Nat \ {0} /\ auth.captured \in Nat
      /\ auth.age \in Nat /\ auth.open \in BOOLEAN
  BY OldAuth DEF SchemeInv
<1>2. CASE UNCHANGED schemeVars
  BY <1>2 DEF schemeVars, SchemeInv, SchemeTypeOK, WithinScheme
<1>3. ASSUME NEW delta \in -auth.current .. auth.original, delta # 0, AdjustChecked(delta)
      PROVE  SchemeInv'
  <2>1. delta \in Int
    BY <1>1
  <2> QED BY <1>3, <2>1, AdjustFine
<1>4. ASSUME NEW n \in 1 .. auth.current, CapturePart(n)
      PROVE  SchemeInv'
  <2>1. auth.captured + n \in Nat /\ (auth.captured + n < auth.current) \in BOOLEAN
           /\ auth.age >= auth.age
    BY <1>1
  <2>2. /\ auth' = Auth(auth.scheme, auth.eligible, auth.original, auth.current,
                        auth.captured + n, auth.increments, auth.age,
                        auth.captured + n < auth.current)
        /\ raisedAt' = raisedAt
    BY <1>4 DEF CapturePart
  <2> QED BY <1>1, <2>1, <2>2, AgesFine
<1>5. ASSUME NEW n \in 1 .. MaxAge, DaysPass(n)
      PROVE  SchemeInv'
  <2>1. auth.age + n \in Nat /\ auth.age + n >= auth.age
    BY <1>1, SchemeConstants
  <2>2. /\ auth' = Auth(auth.scheme, auth.eligible, auth.original, auth.current,
                        auth.captured, auth.increments, auth.age + n, auth.open)
        /\ raisedAt' = raisedAt
    BY <1>5 DEF DaysPass
  <2> QED BY <1>1, <2>1, <2>2, AgesFine
<1>6. CASE Reauthorize
  <2>1. auth.scheme \in SchemeNames \cup {"unknown"} /\ auth.eligible \in BOOLEAN
    BY OldAuth DEF SchemeInv
  <2>2. PICK n \in Originals : auth' = NewAuth(auth.scheme, auth.eligible, n)
    BY <1>6 DEF Reauthorize
  <2>3. raisedAt' = 0
    BY <1>6 DEF Reauthorize
  <2> QED BY <2>1, <2>2, <2>3, NewFineNext
<1> QED BY <1>2, <1>3, <1>4, <1>5, <1>6 DEF SchemeNext

LEMMA AlwaysSchemeInv == SchemeSpec => []SchemeInv
BY SchemesStart, SchemesStep, PTL DEF SchemeSpec

(* An authorization and its context keep their types; no adjustment makes  *)
(* an amount zero or negative (adjustments.py:80-91).                      *)
THEOREM SchemesTyped == SchemeSpec => []SchemeTypeOK
<1>1. SchemeInv => SchemeTypeOK
  BY DEF SchemeInv
<1> QED BY <1>1, AlwaysSchemeInv, PTL

(* No life of an authorization leaves the ratio to its original amount,    *)
(* the number of increments or the days of its scheme (schemes.py).        *)
THEOREM LimitsHold == SchemeSpec => []WithinScheme
<1>1. SchemeInv => WithinScheme
  BY DEF SchemeInv
<1> QED BY <1>1, AlwaysSchemeInv, PTL

-----------------------------------------------------------------------------
(* The book in two currencies.                                              *)

(* Rounding.                                                               *)

(* Half an even is at most half a unit away.                               *)
LEMMA RoundedHalfAway ==
    ASSUME NEW n \in Int, NEW d \in Nat \ {0}
    PROVE  /\ RoundHalfEven(n, d) \in Int
           /\ -d <= 2 * (RoundHalfEven(n, d) * d - n)
           /\ 2 * (RoundHalfEven(n, d) * d - n) <= d
<1> DEFINE q == n \div d
           m == n % d
<1>1. q \in Int /\ m \in Int /\ 0 <= m /\ m < d /\ n = d * q + m
  OBVIOUS
<1>2. q * d = d * q /\ (q + 1) * d = d * q + d /\ d * q \in Int
  BY <1>1
<1>3. CASE RoundHalfEven(n, d) = q /\ 2 * m <= d
  <2> HIDE DEF q, m
  <2> QED BY <1>1, <1>2, <1>3
<1>4. CASE RoundHalfEven(n, d) = q + 1 /\ d <= 2 * m
  <2> HIDE DEF q, m
  <2> QED BY <1>1, <1>2, <1>4
<1>5. (RoundHalfEven(n, d) = q /\ 2 * m <= d) \/ (RoundHalfEven(n, d) = q + 1 /\ d <= 2 * m)
  <2>1. RoundHalfEven(n, d) = IF 2 * m < d \/ (2 * m = d /\ q % 2 = 0) THEN q ELSE q + 1
    BY DEF RoundHalfEven
  <2> HIDE DEF q, m
  <2> QED BY <2>1, <1>1
<1> QED BY <1>3, <1>4, <1>5

(* A conversion is an integer, for any amount and rate in use.             *)
LEMMA ConvertsToInt ==
    ASSUME NEW n \in Int, NEW r \in FxRates
    PROVE  Convert(n, r) \in Int
<1>1. r.num \in Nat /\ r.den \in Nat \ {0}
  BY FxConstants
<1>2. n * r.num \in Int
  BY <1>1
<1> QED BY <1>1, <1>2, RoundedHalfAway DEF Convert

-----------------------------------------------------------------------------
(* The books.                                                              *)

(* A finite number of accounts; the customers' are none of the others.     *)
LEMMA FiniteAccounts ==
    /\ IsFiniteSet(ForeignAccounts) /\ IsFiniteSet(HomeAccounts) /\ IsFiniteSet(FxJobs)
    /\ \A c \in Customers : c # "position" /\ c # "gain_loss" /\ c # "unrealised"
    /\ \A c \in Customers : c \in ForeignAccounts /\ c \in HomeAccounts
    /\ "position" \in ForeignAccounts /\ {"position", "gain_loss", "unrealised"} \subseteq HomeAccounts
<1>1. /\ IsFiniteSet(Customers) /\ IsFiniteSet(FxJobs)
      /\ Customers \cap {"position", "gain_loss", "unrealised"} = {}
  BY FxConstants
<1>2. IsFiniteSet({"position"}) /\ IsFiniteSet({"position", "gain_loss", "unrealised"})
  <2>1. IsFiniteSet({"position"}) /\ IsFiniteSet({"gain_loss"}) /\ IsFiniteSet({"unrealised"})
    BY FS_Singleton
  <2>2. {"position", "gain_loss", "unrealised"} = ({"position"} \cup {"gain_loss"}) \cup {"unrealised"}
    OBVIOUS
  <2> QED BY <2>1, <2>2, FS_Union
<1>3. /\ IsFiniteSet(Customers \cup {"position"})
      /\ IsFiniteSet(Customers \cup {"position", "gain_loss", "unrealised"})
  BY <1>1, <1>2, FS_Union
<1> QED BY <1>1, <1>3 DEF ForeignAccounts, HomeAccounts

(* Two entries in the home book move its sum by what they add.             *)
LEMMA HomeSumAfterEntries ==
    ASSUME NEW f \in [HomeAccounts -> Int], NEW g \in [HomeAccounts -> Int],
           NEW x \in HomeAccounts, NEW y \in HomeAccounts, x # y, NEW m \in Int, NEW n \in Int,
           g[x] = f[x] + m, g[y] = f[y] + n, \A z \in HomeAccounts \ {x, y} : g[z] = f[z]
    PROVE  SumFunction(g) = SumFunction(f) + (m + n)
BY FiniteAccounts, SumAfterEntries

(* While the protocol is followed, one result stands at most.              *)
OneStands ==
    followed => \A j, k \in FxJobs : Standing(j) /\ Standing(k) => j = k

FxInv == FxTypeOK /\ FxBooksMatch /\ OneStands

FxJob == [pc : {"idle", "post", "struck", "reversed"}, delta : Int]

(* What the books say of the results, in the terms of FxBooksMatch. *)
MovementIsRight ==
    followed =>
        /\ \A j \in FxJobs : Standing(j) => home["unrealised"] = fxJob[j].delta
        /\ (\A j \in FxJobs : ~Standing(j)) => home["unrealised"] = 0

(* Striking a result keeps the book square and off the position.           *)
LEMMA StrikeIsSquare ==
    ASSUME home \in [HomeAccounts -> Int], NEW delta \in Int
    PROVE  LET h == WithUnrealised(delta)
           IN  /\ h \in [HomeAccounts -> Int]
               /\ SumFunction(h) = SumFunction(home)
               /\ h["position"] = home["position"]
               /\ h["unrealised"] = home["unrealised"] + delta
<1> DEFINE h == WithUnrealised(delta)
<1>1. {"position", "gain_loss", "unrealised"} \subseteq HomeAccounts /\ IsFiniteSet(HomeAccounts)
  BY FiniteAccounts
<1>2. /\ h \in [HomeAccounts -> Int] /\ h["position"] = home["position"]
      /\ h["unrealised"] = home["unrealised"] + delta /\ h["gain_loss"] = home["gain_loss"] + -delta
      /\ \A a \in HomeAccounts \ {"unrealised", "gain_loss"} : h[a] = home[a]
  BY <1>1 DEF WithUnrealised
<1>3. SumFunction(h) = SumFunction(home) + (delta + -delta)
  <2>1. "unrealised" \in HomeAccounts /\ "gain_loss" \in HomeAccounts /\ -delta \in Int
    BY <1>1
  <2> DEFINE minus == -delta
  <2>2. h["gain_loss"] = home["gain_loss"] + minus /\ minus \in Int
    BY <1>2, <2>1
  <2> HIDE DEF h, minus
  <2>3. SumFunction(h) = SumFunction(home) + (delta + minus)
    BY <2>1, <2>2, <1>2, HomeSumAfterEntries
  <2> QED BY <2>3 DEF minus
<1>4. SumFunction(home) \in Int /\ SumFunction(home) + (delta + -delta) = SumFunction(home)
  <2>1. SumFunction(home) \in Int
    BY <1>1, SumsToInt
  <2> QED BY <2>1
<1> QED BY <1>2, <1>3, <1>4

(* A conversion against a sale keeps both books square.                    *)
LEMMA SellKeepsBooks ==
    ASSUME FxInv, NEW c \in Customers, NEW n \in 1 .. MaxAmount, NEW r \in FxRates,
           NEW booking \in Int, Sell(c, n, r, booking)
    PROVE  FxInv'
<1> DEFINE converted == Convert(n, r)
           gain == converted - booking
           h == [home EXCEPT ![c] = @ + converted, !["position"] = @ + (gain - converted)]
<1>0. n \in Int
  BY FxConstants
<1>1. converted \in Int /\ gain \in Int /\ gain - converted = -booking
  BY <1>0, ConvertsToInt
<1>2. /\ c # "position" /\ c # "gain_loss" /\ c # "unrealised"
      /\ c \in ForeignAccounts /\ c \in HomeAccounts /\ "position" \in ForeignAccounts
      /\ "position" \in HomeAccounts /\ "gain_loss" \in HomeAccounts /\ "unrealised" \in HomeAccounts
      /\ IsFiniteSet(ForeignAccounts) /\ IsFiniteSet(HomeAccounts)
  BY FiniteAccounts
<1>3. foreign \in [ForeignAccounts -> Int] /\ home \in [HomeAccounts -> Int] /\ bookedValue \in Int
  BY DEF FxInv, FxTypeOK
<1>4. /\ foreign' \in [ForeignAccounts -> Int]
      /\ foreign'[c] = foreign[c] + -n /\ foreign'["position"] = foreign["position"] + n
      /\ \A a \in ForeignAccounts \ {c, "position"} : foreign'[a] = foreign[a]
  BY <1>0, <1>2, <1>3 DEF Sell
<1>5. foreign' \in [ForeignAccounts -> Int] /\ SumFunction(foreign') = 0
  <2>1. -n \in Int /\ -n + n = 0 /\ SumFunction(foreign) = 0
    BY <1>0 DEF FxInv, FxBooksMatch
  <2>2. SumFunction(foreign') = SumFunction(foreign) + (-n + n)
    BY <1>0, <1>2, <1>3, <1>4, <2>1, SumAfterEntries
  <2> QED BY <1>4, <2>1, <2>2
<1>6. /\ h \in [HomeAccounts -> Int]
      /\ SumFunction(h) = SumFunction(home) + (converted + (gain - converted))
  <2>1. gain - converted \in Int
    BY <1>1
  <2>2. /\ h \in [HomeAccounts -> Int] /\ h[c] = home[c] + converted
        /\ h["position"] = home["position"] + (gain - converted)
        /\ \A a \in HomeAccounts \ {c, "position"} : h[a] = home[a]
    <3> HIDE DEF converted, gain
    <3> QED BY <1>1, <2>1, <1>2, <1>3
  <2>3. SumFunction(h) = SumFunction(home) + (converted + (gain - converted))
    <3> HIDE DEF converted, gain, h
    <3> QED BY <1>1, <2>1, <2>2, <1>2, <1>3, SumAfterEntries
  <2> QED BY <2>2, <2>3
<1>7. /\ home' \in [HomeAccounts -> Int] /\ home'["gain_loss"] = h["gain_loss"] + -gain
      /\ \A a \in HomeAccounts \ {"gain_loss"} : home'[a] = h[a]
      /\ home'["position"] = home["position"] - booking
      /\ home'["unrealised"] = home["unrealised"]
  <2>1. home' = [home EXCEPT ![c] = @ + converted, !["position"] = @ - converted + gain,
                             !["gain_loss"] = @ - gain]
    BY DEF Sell
  <2> HIDE DEF converted
  <2> QED BY <2>1, <1>1, <1>2, <1>3
<1>8. SumFunction(home') = 0
  <2>1. SumFunction(home') = SumFunction(h) + -gain
    <3>1. -gain \in Int
      BY <1>1
    <3> HIDE DEF h, gain
    <3> QED BY <3>1, <1>2, <1>6, <1>7, SumAfterUpdate
  <2>2. SumFunction(home) = 0
    BY DEF FxInv, FxBooksMatch
  <2> HIDE DEF h, gain, converted
  <2> QED BY <2>1, <2>2, <1>1, <1>6
<1>9. FxTypeOK'
  BY <1>3, <1>5, <1>7, FxConstants DEF FxInv, FxTypeOK, Sell, Counted
<1>10. FxBooksMatch' /\ OneStands'
  <2>1. bookedValue' = bookedValue + booking /\ fxJob' = fxJob /\ followed' = followed
    BY DEF Sell
  <2>2. /\ home["position"] = -bookedValue
        /\ MovementIsRight /\ OneStands
    BY DEF FxInv, FxBooksMatch, MovementIsRight
  <2>3. home'["position"] = -bookedValue'
    BY <1>3, <1>7, <2>1, <2>2
  <2>4. MovementIsRight' /\ OneStands'
    BY <1>7, <2>1, <2>2 DEF MovementIsRight, OneStands, Standing
  <2> QED BY <1>5, <1>8, <2>3, <2>4 DEF FxBooksMatch, MovementIsRight
<1> QED BY <1>9, <1>10 DEF FxInv

(* So does a conversion against a purchase.                                *)
LEMMA BuyKeepsBooks ==
    ASSUME FxInv, NEW c \in Customers, NEW n \in 1 .. MaxAmount, NEW r \in FxRates, Buy(c, n, r)
    PROVE  FxInv'
<1> DEFINE converted == Convert(n, r)
<1>0. n \in Int
  BY FxConstants
<1>1. /\ converted \in Int /\ -converted \in Int /\ -n \in Int
      /\ converted + -converted = 0 /\ -n + n = 0
  BY <1>0, ConvertsToInt
<1>2. /\ c # "position" /\ c # "gain_loss" /\ c # "unrealised"
      /\ c \in ForeignAccounts /\ c \in HomeAccounts /\ "position" \in ForeignAccounts
      /\ "position" \in HomeAccounts /\ "gain_loss" \in HomeAccounts /\ "unrealised" \in HomeAccounts
      /\ IsFiniteSet(ForeignAccounts) /\ IsFiniteSet(HomeAccounts)
  BY FiniteAccounts
<1>3. /\ foreign \in [ForeignAccounts -> Int] /\ home \in [HomeAccounts -> Int] /\ bookedValue \in Int
      /\ SumFunction(foreign) = 0 /\ SumFunction(home) = 0
  BY DEF FxInv, FxTypeOK, FxBooksMatch
<1>4. /\ foreign' \in [ForeignAccounts -> Int]
      /\ foreign'[c] = foreign[c] + converted
      /\ foreign'["position"] = foreign["position"] + -converted
      /\ \A a \in ForeignAccounts \ {c, "position"} : foreign'[a] = foreign[a]
  <2>1. foreign' = [foreign EXCEPT ![c] = @ + converted, !["position"] = @ - converted]
    BY DEF Buy
  <2> HIDE DEF converted
  <2> QED BY <2>1, <1>1, <1>2, <1>3
<1>5. /\ home' \in [HomeAccounts -> Int]
      /\ home'[c] = home[c] + -n /\ home'["position"] = home["position"] + n
      /\ home'["unrealised"] = home["unrealised"]
      /\ \A a \in HomeAccounts \ {c, "position"} : home'[a] = home[a]
  BY <1>0, <1>2, <1>3 DEF Buy
<1> HIDE DEF converted
<1>6. foreign' \in [ForeignAccounts -> Int] /\ SumFunction(foreign') = 0
  <2>1. SumFunction(foreign') = SumFunction(foreign) + (converted + -converted)
    BY <1>1, <1>2, <1>3, <1>4, SumAfterEntries
  <2> QED BY <1>1, <1>3, <1>4, <2>1
<1>7. home' \in [HomeAccounts -> Int] /\ SumFunction(home') = 0
  <2>1. SumFunction(home') = SumFunction(home) + (-n + n)
    <3> DEFINE minus == -n
    <3>1. /\ minus \in Int /\ home'[c] = home[c] + minus
          /\ home'["position"] = home["position"] + n
          /\ \A a \in HomeAccounts \ {c, "position"} : home'[a] = home[a]
      BY <1>1, <1>5
    <3>2. /\ home \in [HomeAccounts -> Int] /\ home' \in [HomeAccounts -> Int]
          /\ c # "position" /\ c \in HomeAccounts /\ "position" \in HomeAccounts
      BY <1>2, <1>3, <1>5
    <3> HIDE DEF minus
    <3>3. SumFunction(home') = SumFunction(home) + (minus + n)
      BY <3>1, <3>2, <1>0, HomeSumAfterEntries
    <3> QED BY <3>3 DEF minus
  <2> QED BY <1>1, <1>3, <1>5, <2>1
<1>9. FxTypeOK'
  BY <1>0, <1>3, <1>6, <1>7, FxConstants DEF FxInv, FxTypeOK, Buy, Counted
<1>10. FxBooksMatch' /\ OneStands'
  <2>1. bookedValue' = bookedValue - n /\ fxJob' = fxJob /\ followed' = followed
    BY DEF Buy
  <2>2. /\ home["position"] = -bookedValue
        /\ MovementIsRight /\ OneStands
    BY DEF FxInv, FxBooksMatch, MovementIsRight
  <2>3. home'["position"] = -bookedValue'
    BY <1>0, <1>3, <1>5, <2>1, <2>2
  <2>4. MovementIsRight' /\ OneStands'
    BY <1>5, <2>1, <2>2 DEF MovementIsRight, OneStands, Standing
  <2> QED BY <1>6, <1>7, <2>3, <2>4 DEF FxBooksMatch, MovementIsRight
<1> QED BY <1>9, <1>10 DEF FxInv

(* A step of a revaluing job keeps them too, whatever the rates are now.   *)
LEMMA JobKeepsBooks ==
    ASSUME FxInv, NEW j \in FxJobs,
           (\E booked, current \in FxRates : ReadPosition(j, booked, current))
              \/ Strike(j) \/ Reverse(j) \/ JobDies(j)
    PROVE  FxInv'
<1>1. /\ fxJob \in [FxJobs -> FxJob] /\ fxJob[j].delta \in Int /\ -fxJob[j].delta \in Int
      /\ home \in [HomeAccounts -> Int] /\ home["unrealised"] \in Int /\ followed \in BOOLEAN
  BY FiniteAccounts DEF FxInv, FxTypeOK, FxJob
<1>2. /\ SumFunction(foreign) = 0 /\ SumFunction(home) = 0 /\ home["position"] = -bookedValue
      /\ MovementIsRight /\ OneStands
  BY DEF FxInv, FxBooksMatch, MovementIsRight
<1>3. \A pc \in {"idle", "post", "struck", "reversed"}, delta \in Int : JobAt(pc, delta) \in FxJob
  BY DEF JobAt, FxJob
<1>4. SUFFICES /\ FxTypeOK' /\ SumFunction(foreign') = 0 /\ SumFunction(home') = 0
               /\ home'["position"] = -bookedValue'
               /\ MovementIsRight' /\ OneStands'
  BY DEF FxInv, FxBooksMatch, MovementIsRight
<1>5. CASE \E booked, current \in FxRates : ReadPosition(j, booked, current)
  <2>1. PICK booked, current \in FxRates : ReadPosition(j, booked, current)
    BY <1>5
  <2> DEFINE position == foreign["position"]
             delta == Convert(position, current) - Convert(position, booked)
  <2>2. delta \in Int
    <3>1. position \in Int
      BY FiniteAccounts DEF FxInv, FxTypeOK
    <3> QED BY <3>1, ConvertsToInt
  <2>3. /\ fxJob[j].pc \in {"idle", "reversed"} /\ fxJob' = [fxJob EXCEPT ![j] = JobAt("post", delta)]
        /\ UNCHANGED <<foreign, home, postings, bookedValue, followed>>
    BY <2>1 DEF ReadPosition, JobBecomes
  <2> HIDE DEF delta
  <2>4. /\ fxJob' \in [FxJobs -> FxJob] /\ fxJob'[j].pc = "post"
        /\ \A k \in FxJobs \ {j} : fxJob'[k] = fxJob[k]
    BY <1>1, <1>3, <2>2, <2>3 DEF JobAt
  <2>5. FxTypeOK'
    BY <2>3, <2>4 DEF FxInv, FxTypeOK, FxJob
  <2>6. MovementIsRight' /\ OneStands'
    <3>1. \A k \in FxJobs : /\ Standing(k)' <=> Standing(k)
                            /\ Standing(k) => fxJob'[k] = fxJob[k]
      BY <2>3, <2>4 DEF Standing
    <3>2. OneStands'
      BY <1>2, <2>3, <3>1 DEF OneStands
    <3>3. ASSUME followed'
          PROVE  /\ \A k \in FxJobs : Standing(k)' => home'["unrealised"] = fxJob'[k].delta
                 /\ (\A k \in FxJobs : ~Standing(k)') => home'["unrealised"] = 0
      <4>1. /\ \A k \in FxJobs : Standing(k) => home["unrealised"] = fxJob[k].delta
            /\ (\A k \in FxJobs : ~Standing(k)) => home["unrealised"] = 0
        BY <1>2, <2>3, <3>3 DEF MovementIsRight
      <4>2. home' = home
        BY <2>3
      <4> QED BY <3>1, <4>1, <4>2
    <3> QED BY <3>2, <3>3 DEF MovementIsRight
  <2> QED BY <1>2, <2>3, <2>5, <2>6
<1>6. CASE Strike(j)
  <2> DEFINE delta == fxJob[j].delta
  <2>1. /\ fxJob[j].pc = "post" /\ fxJob' = [fxJob EXCEPT ![j] = JobAt("struck", delta)]
        /\ home' = WithUnrealised(delta) /\ UNCHANGED <<foreign, bookedValue>>
        /\ followed' = (followed /\ \A k \in FxJobs : ~Standing(k))
        /\ postings' \in 0 .. MaxPostings
    BY <1>6, FxConstants DEF Strike, JobBecomes, Counted, FxInv, FxTypeOK
  <2>2. delta \in Int
    BY <1>1
  <2> HIDE DEF delta
  <2>3. /\ fxJob' \in [FxJobs -> FxJob] /\ fxJob'[j].delta = delta
        /\ \A k \in FxJobs \ {j} : fxJob'[k] = fxJob[k]
    BY <1>1, <1>3, <2>1, <2>2 DEF JobAt
  <2>4. /\ home' \in [HomeAccounts -> Int] /\ SumFunction(home') = SumFunction(home)
        /\ home'["position"] = home["position"] /\ home'["unrealised"] = home["unrealised"] + delta
    BY <1>1, <2>1, <2>2, StrikeIsSquare
  <2>5. FxTypeOK'
    <3>1. followed' \in BOOLEAN
      BY <2>1
    <3> QED BY <2>1, <2>3, <2>4, <3>1 DEF FxInv, FxTypeOK, FxJob
  <2>6. ASSUME followed'
        PROVE  /\ home'["unrealised"] = fxJob'[j].delta
               /\ \A k \in FxJobs : Standing(k)' <=> k = j
    <3>1. followed /\ \A k \in FxJobs : ~Standing(k)
      BY <2>1, <2>6
    <3>2. home["unrealised"] = 0
      BY <1>2, <3>1 DEF MovementIsRight
    <3>3. Standing(j)'
      BY <1>1, <2>1 DEF Standing, JobAt
    <3>4. \A k \in FxJobs \ {j} : ~Standing(k)'
      BY <2>3, <3>1 DEF Standing
    <3> QED BY <2>2, <2>3, <2>4, <3>2, <3>3, <3>4
  <2>7. MovementIsRight' /\ OneStands'
    BY <2>6 DEF MovementIsRight, OneStands
  <2> QED BY <1>2, <2>1, <2>4, <2>5, <2>7
<1>7. CASE Reverse(j)
  <2> DEFINE delta == fxJob[j].delta
  <2>1. /\ fxJob' = [fxJob EXCEPT ![j] = JobAt("reversed", delta)]
        /\ home' = WithUnrealised(-delta) /\ UNCHANGED <<foreign, bookedValue>>
        /\ followed' = (followed /\ Standing(j))
        /\ postings' \in 0 .. MaxPostings
    BY <1>7, FxConstants DEF Reverse, JobBecomes, Counted, FxInv, FxTypeOK
  <2>2. delta \in Int /\ -delta \in Int
    BY <1>1
  <2>3. followed /\ Standing(j) => home["unrealised"] = delta
    BY <1>2 DEF MovementIsRight
  <2> HIDE DEF delta
  <2>4. /\ fxJob' \in [FxJobs -> FxJob] /\ fxJob'[j].pc = "reversed"
        /\ \A k \in FxJobs \ {j} : fxJob'[k] = fxJob[k]
    BY <1>1, <1>3, <2>1, <2>2 DEF JobAt
  <2>5. /\ home' \in [HomeAccounts -> Int] /\ SumFunction(home') = SumFunction(home)
        /\ home'["position"] = home["position"] /\ home'["unrealised"] = home["unrealised"] + -delta
    BY <1>1, <2>1, <2>2, StrikeIsSquare
  <2>6. FxTypeOK'
    <3>1. followed' \in BOOLEAN
      BY <2>1
    <3> QED BY <2>1, <2>4, <2>5, <3>1 DEF FxInv, FxTypeOK, FxJob
  <2>7. ASSUME followed'
        PROVE  home'["unrealised"] = 0 /\ \A k \in FxJobs : ~Standing(k)'
    <3>1. followed /\ Standing(j)
      BY <2>1, <2>7
    <3>2. \A k \in FxJobs \ {j} : ~Standing(k)
      BY <1>2, <3>1 DEF OneStands
    <3>3. \A k \in FxJobs : ~Standing(k)'
      BY <2>4, <3>2 DEF Standing
    <3> QED BY <2>2, <2>3, <2>5, <3>1, <3>3
  <2>8. MovementIsRight' /\ OneStands'
    BY <2>7 DEF MovementIsRight, OneStands
  <2> QED BY <1>2, <2>1, <2>5, <2>6, <2>8
<1>8. CASE JobDies(j)
  <2>1. /\ fxJob' = [fxJob EXCEPT ![j] = JobAt("idle", 0)]
        /\ UNCHANGED <<foreign, home, postings, bookedValue>>
        /\ followed' = (followed /\ ~Standing(j))
    BY <1>8 DEF JobDies, JobBecomes
  <2>2. /\ fxJob' \in [FxJobs -> FxJob] /\ fxJob'[j].pc = "idle"
        /\ \A k \in FxJobs \ {j} : fxJob'[k] = fxJob[k]
    BY <1>1, <1>3, <2>1 DEF JobAt
  <2>3. FxTypeOK'
    <3>1. followed' \in BOOLEAN
      BY <2>1
    <3> QED BY <2>1, <2>2, <3>1 DEF FxInv, FxTypeOK, FxJob
  <2>4. followed' => \A k \in FxJobs : /\ Standing(k)' <=> Standing(k)
                                       /\ Standing(k) => fxJob'[k] = fxJob[k]
    BY <2>1, <2>2 DEF Standing
  <2>5. OneStands'
    BY <1>2, <2>1, <2>4 DEF OneStands
  <2>6. MovementIsRight'
    <3>1. SUFFICES ASSUME followed'
                   PROVE  /\ \A k \in FxJobs : Standing(k)' => home'["unrealised"] = fxJob'[k].delta
                          /\ (\A k \in FxJobs : ~Standing(k)') => home'["unrealised"] = 0
      BY DEF MovementIsRight
    <3>2. /\ \A k \in FxJobs : Standing(k) => home["unrealised"] = fxJob[k].delta
          /\ (\A k \in FxJobs : ~Standing(k)) => home["unrealised"] = 0
      BY <1>2, <2>1, <3>1 DEF MovementIsRight
    <3>3. home' = home
      BY <2>1
    <3> QED BY <2>4, <3>1, <3>2, <3>3
  <2> QED BY <1>2, <2>1, <2>3, <2>5, <2>6
<1> QED BY <1>5, <1>6, <1>7, <1>8

(* The books start empty and square.                                       *)
LEMMA FxInvStarts == FxInit => FxInv
<1> SUFFICES ASSUME FxInit PROVE FxInv
  OBVIOUS
<1>1. FxTypeOK
  BY FxConstants DEF FxInit, FxTypeOK, JobAt
<1>2. SumFunction(foreign) = 0 /\ SumFunction(home) = 0
  <2>1. \A S, f : IsFiniteSet(S) /\ DOMAIN f = S /\ (\A x \in S : f[x] = 0) => SumFunction(f) = 0
    BY SumOfZeros DEF SumFunction
  <2>2. /\ DOMAIN foreign = ForeignAccounts /\ \A a \in ForeignAccounts : foreign[a] = 0
        /\ DOMAIN home = HomeAccounts /\ \A a \in HomeAccounts : home[a] = 0
    BY DEF FxInit
  <2> QED BY <2>1, <2>2, FiniteAccounts
<1>3. home["position"] = -bookedValue /\ home["unrealised"] = 0
  <2>1. home["position"] = 0 /\ home["unrealised"] = 0 /\ bookedValue = 0
    BY FiniteAccounts DEF FxInit
  <2>2. \A n \in Int : n + n = n => n = -n
    OBVIOUS
  <2>3. 0 \in Int /\ 0 + 0 = 0
    OBVIOUS
  <2> QED BY <2>1, <2>2, <2>3, Zenon
<1>4. FxBooksMatch /\ OneStands
  <2>1. \A j \in FxJobs : ~Standing(j)
    BY DEF FxInit, Standing, JobAt
  <2> QED BY <1>2, <1>3, <2>1 DEF FxBooksMatch, OneStands
<1> QED BY <1>1, <1>4 DEF FxInv

(* Every step keeps them.                                                  *)
LEMMA FxInvKept == FxInv /\ [FxNext]_fxVars => FxInv'
<1> SUFFICES ASSUME FxInv, [FxNext]_fxVars PROVE FxInv'
  OBVIOUS
<1>1. ASSUME NEW c \in Customers, NEW n \in 1 .. MaxAmount, NEW r \in FxRates,
             Buy(c, n, r) \/ \E booked \in FxRates : Sell(c, n, r, Convert(n, booked))
      PROVE  FxInv'
  <2>1. \A booked \in FxRates : Convert(n, booked) \in Int
    <3>1. n \in Int
      BY FxConstants
    <3> QED BY <3>1, ConvertsToInt
  <2> QED BY <1>1, <2>1, BuyKeepsBooks, SellKeepsBooks
<1>2. ASSUME UNCHANGED fxVars PROVE FxInv'
  BY <1>2 DEF FxInv, FxTypeOK, FxBooksMatch, OneStands, Standing, fxVars
<1> QED BY <1>1, <1>2, JobKeepsBooks DEF FxNext

(* The two books are always square and the home side of the position is    *)
(* what the conversions were booked at (fx.py, maintenance.py).  Where the *)
(* protocol of the revaluation was followed, fx:unrealised_pnl is the one  *)
(* movement that stands, or nothing.                                       *)
THEOREM BooksMatch == FxSpec => [](FxTypeOK /\ FxBooksMatch)
<1>1. FxSpec => []FxInv
  BY FxInvStarts, FxInvKept, PTL DEF FxSpec
<1> QED BY <1>1, PTL DEF FxInv

-----------------------------------------------------------------------------
(* The translation adjustment.                                             *)

(* One account: its reported value, scaled, is within half a scale of what *)
(* the unrounded rate makes of it.                                         *)
LEMMA ReportedWithinHalf ==
    ASSUME NEW n \in Int, NEW r \in FxRates, NEW k \in Nat \ {0}
    PROVE  /\ 2 * (Convert(n, r) * (r.den * k) - n * (r.num * k)) <= r.den * k
           /\ -(r.den * k) <= 2 * (Convert(n, r) * (r.den * k) - n * (r.num * k))
<1> DEFINE c == Convert(n, r)
           e == 2 * (c * r.den - n * r.num)
<1>1. r.num \in Nat /\ r.den \in Nat \ {0} /\ n * r.num \in Int /\ c \in Int
  BY FxConstants, ConvertsToInt
<1>2. e \in Int /\ -r.den <= e /\ e <= r.den
  <2> DEFINE m == n * r.num
             d == r.den
  <2>1. m \in Int /\ d \in Nat \ {0}
    BY <1>1
  <2> HIDE DEF m, d
  <2>2. /\ RoundHalfEven(m, d) \in Int /\ -d <= 2 * (RoundHalfEven(m, d) * d - m)
        /\ 2 * (RoundHalfEven(m, d) * d - m) <= d
    BY <2>1, RoundedHalfAway
  <2>3. RoundHalfEven(m, d) = c
    BY DEF Convert, m, d
  <2>4. c * d \in Int
    BY <2>1, <2>2, <2>3
  <2>5. e = 2 * (c * d - m)
    BY DEF m, d
  <2> HIDE DEF e, c
  <2>6. e \in Int /\ -d <= e /\ e <= d
    BY <2>1, <2>2, <2>3, <2>4, <2>5
  <2> QED BY <2>6 DEF d
<1>3. 2 * (c * (r.den * k) - n * (r.num * k)) = e * k
  <2> DEFINE d == r.den
             m == r.num
  <2>1. \A a, b, x, y \in Int : 2 * (a * (x * k) - b * (y * k)) = (2 * (a * x - b * y)) * k
    OBVIOUS
  <2> HIDE DEF c
  <2> QED BY <1>1, <2>1
<1>4. \A x \in Int, d \in Nat : x <= d => x * k <= d * k
  OBVIOUS
<1>5. \A x \in Int, d \in Nat : -d <= x => -(d * k) <= x * k
  OBVIOUS
<1> HIDE DEF e
<1> QED BY <1>1, <1>2, <1>3, <1>4, <1>5

(* While the books are square, the adjustment is what the rates make of    *)
(* the income statement.                                                   *)
LEMMA AdjustmentOfSquareBooks == FxInv => AdjustmentIsRateMovement
<1> SUFFICES ASSUME FxInv, NEW closing \in FxRates, NEW average \in FxRates
             PROVE  LET income == SumFunction([a \in ForeignAccounts |->
                              IF KindOf[a] \in IncomeStatement THEN foreign[a] ELSE 0])
                        scale  == closing.den * average.den
                        moved  == average.num * closing.den - closing.num * average.den
                    IN  2 * Abs(TranslationAdjustment(closing, average) * scale + income * moved)
                           <= Cardinality(ForeignAccounts) * scale
  BY DEF AdjustmentIsRateMovement
<1> DEFINE earned == [a \in ForeignAccounts |->
                         IF KindOf[a] \in IncomeStatement THEN foreign[a] ELSE 0]
           scale == closing.den * average.den
           even  == closing.num * average.den
           moved == average.num * closing.den - closing.num * average.den
           reported == Reported(closing, average)
           weight(a) == IF KindOf[a] \in BalanceSheet THEN even ELSE average.num * closing.den
           exact == [a \in ForeignAccounts |-> foreign[a] * weight(a)]
           base  == [a \in ForeignAccounts |-> even * foreign[a]]
           extra == [a \in ForeignAccounts |-> moved * earned[a]]
           scaled == [a \in ForeignAccounts |-> scale * reported[a]]
           error == [a \in ForeignAccounts |-> scaled[a] - exact[a]]
           twice == [a \in ForeignAccounts |-> 2 * error[a]]
           Sum(f) == SumFunctionOnSet(f, ForeignAccounts)
<1>1. /\ closing.num \in Nat /\ closing.den \in Nat \ {0}
      /\ average.num \in Nat /\ average.den \in Nat \ {0}
  BY FxConstants
<1>2. /\ scale \in Nat \ {0} /\ even \in Nat /\ moved \in Int
      /\ average.num * closing.den \in Nat /\ even + moved = average.num * closing.den
  <2>1. \A x, y \in Nat \ {0} : x * y \in Nat \ {0}
    OBVIOUS
  <2>2. \A x, y \in Nat : x * y \in Nat
    OBVIOUS
  <2>3. scale \in Nat \ {0} /\ even \in Nat /\ average.num * closing.den \in Nat
    BY <1>1, <2>1, <2>2
  <2> QED BY <2>3
<1>3. IsFiniteSet(ForeignAccounts) /\ foreign \in [ForeignAccounts -> Int] /\ Sum(foreign) = 0
         /\ SumFunction(home) = 0
  BY FiniteAccounts, SumsToInt DEF FxInv, FxTypeOK, FxBooksMatch
<1>4. \A a \in ForeignAccounts : (KindOf[a] \in BalanceSheet) # (KindOf[a] \in IncomeStatement)
  BY FxConstants DEF BalanceSheet, IncomeStatement
<1>5. ASSUME NEW a \in ForeignAccounts
      PROVE  /\ foreign[a] \in Int /\ earned[a] \in Int /\ reported[a] \in Int
             /\ weight(a) \in Nat
             /\ base[a] \in Int /\ extra[a] \in Int
             /\ exact[a] = base[a] + extra[a]
             /\ scaled[a] \in Int /\ exact[a] \in Int /\ error[a] \in Int
             /\ twice[a] \in Int /\ -scale <= twice[a] /\ twice[a] <= scale
  <2>1. foreign[a] \in Int /\ earned[a] \in Int
    BY <1>3
  <2>2. reported[a] = Convert(foreign[a], RateFor(a, closing, average)) /\ reported[a] \in Int
    BY <2>1, ConvertsToInt DEF Reported, RateFor
  <2>3. weight(a) \in Nat
    BY <1>2
  <2>4. \A x, y \in Int : x * y \in Int
    OBVIOUS
  <2>5. /\ base[a] = even * foreign[a] /\ extra[a] = moved * earned[a]
        /\ exact[a] = foreign[a] * weight(a) /\ scaled[a] = scale * reported[a]
        /\ error[a] = scaled[a] - exact[a] /\ twice[a] = 2 * error[a]
    BY DEF Reported
  <2>6. /\ base[a] \in Int /\ extra[a] \in Int /\ exact[a] \in Int /\ scaled[a] \in Int
    <3> HIDE DEF base, extra, exact, scaled, even, moved, scale, reported, weight, earned
    <3> QED BY <1>2, <2>1, <2>2, <2>3, <2>4, <2>5
  <2>7. error[a] \in Int /\ twice[a] \in Int
    <3> HIDE DEF exact, scaled, error, twice
    <3> QED BY <2>5, <2>6
  <2>8. CASE KindOf[a] \in BalanceSheet
    <3>1. weight(a) = even /\ earned[a] = 0 /\ RateFor(a, closing, average) = closing
      BY <1>4, <2>8 DEF RateFor
    <3>2. exact[a] = base[a] + extra[a]
      <4> DEFINE n == foreign[a]
      <4>1. \A x, y, z \in Int : z = 0 => x * y = y * x + moved * z
        <5> HIDE DEF moved
        <5> QED BY <1>2
      <4> HIDE DEF even, moved, base, extra, exact, earned, weight
      <4> QED BY <1>2, <2>1, <2>5, <3>1, <4>1
    <3>3. -scale <= twice[a] /\ twice[a] <= scale
      <4> DEFINE n == foreign[a]
                 c == Convert(n, closing)
      <4>1. /\ 2 * (c * (closing.den * average.den) - n * (closing.num * average.den))
                   <= closing.den * average.den
            /\ -(closing.den * average.den)
                   <= 2 * (c * (closing.den * average.den) - n * (closing.num * average.den))
        BY <1>1, <2>1, ReportedWithinHalf
      <4>2. twice[a] = 2 * (scale * c - n * even)
        <5> HIDE DEF twice, error, scaled, exact, scale, even, weight, reported
        <5> QED BY <2>2, <2>5, <3>1
      <4>3. scale * c = c * scale
        <5>1. c \in Int
          BY <2>2, <3>1
        <5> HIDE DEF c, scale
        <5> QED BY <1>2, <5>1
      <4> HIDE DEF c, twice
      <4> QED BY <4>1, <4>2, <4>3
    <3> QED BY <2>1, <2>2, <2>3, <2>6, <2>7, <3>2, <3>3
  <2>9. CASE KindOf[a] \notin BalanceSheet
    <3>1. weight(a) = average.num * closing.den /\ earned[a] = foreign[a]
             /\ RateFor(a, closing, average) = average
      BY <1>4, <2>9 DEF RateFor
    <3>2. exact[a] = base[a] + extra[a]
      <4>1. \A x, w, y, z \in Int : w = y + z => x * w = y * x + z * x
        OBVIOUS
      <4> HIDE DEF even, moved, base, extra, exact, earned, weight
      <4> QED BY <1>2, <2>1, <2>5, <3>1, <4>1
    <3>3. -scale <= twice[a] /\ twice[a] <= scale
      <4> DEFINE n == foreign[a]
                 c == Convert(n, average)
                 s == average.den * closing.den
      <4>1. /\ 2 * (c * s - n * (average.num * closing.den)) <= s
            /\ -s <= 2 * (c * s - n * (average.num * closing.den))
        BY <1>1, <2>1, ReportedWithinHalf
      <4>2. twice[a] = 2 * (scale * c - n * (average.num * closing.den))
        <5> HIDE DEF twice, error, scaled, exact, scale, weight, reported
        <5> QED BY <2>2, <2>5, <3>1
      <4>3. scale * c = c * scale /\ scale = s
        <5>1. c \in Int
          BY <2>2, <3>1
        <5>2. scale = s
          BY <1>1
        <5> HIDE DEF c, scale
        <5> QED BY <1>2, <5>1, <5>2
      <4> HIDE DEF c, twice, s, scale
      <4> QED BY <4>1, <4>2, <4>3
    <3> QED BY <2>1, <2>2, <2>3, <2>6, <2>7, <3>2, <3>3
  <2> QED BY <2>8, <2>9
<1>6. /\ SumFunction(reported) = Sum(reported) /\ SumFunction(earned) = Sum(earned)
      /\ Sum(reported) \in Int /\ Sum(earned) \in Int
  <2>1. reported \in [ForeignAccounts -> Int]
    <3>1. \A a \in ForeignAccounts : Convert(foreign[a], RateFor(a, closing, average)) \in Int
      BY <1>3, ConvertsToInt DEF RateFor
    <3> QED BY <3>1 DEF Reported
  <2>2. earned \in [ForeignAccounts -> Int]
    BY <1>3
  <2> HIDE DEF reported, earned
  <2> QED BY <1>3, <2>1, <2>2, SumsToInt
<1> HIDE DEF earned, scale, even, moved, reported, weight, exact, base, extra, scaled, error, twice
<1>7. Sum(base) = 0
  <2>1. \A a \in ForeignAccounts : foreign[a] \in Int /\ base[a] = even * foreign[a]
    BY <1>3 DEF base
  <2>2. Sum(base) = even * Sum(foreign)
    <3> DEFINE f == foreign
    <3>1. \A a \in ForeignAccounts : f[a] \in Int /\ base[a] = even * f[a]
      BY <2>1
    <3> HIDE DEF f
    <3>2. SumFunctionOnSet(base, ForeignAccounts) = even * SumFunctionOnSet(f, ForeignAccounts)
      BY <1>2, <3>1, FiniteAccounts, SumOfMultiples
    <3> QED BY <3>2 DEF f
  <2> QED BY <1>2, <1>3, <2>2
<1>8. Sum(extra) = moved * Sum(earned)
  <2>1. \A a \in ForeignAccounts : earned[a] \in Int /\ extra[a] = moved * earned[a]
    BY <1>5 DEF extra
  <2> QED BY <1>2, <1>3, <2>1, SumOfMultiples
<1>9. Sum(exact) = Sum(base) + Sum(extra)
  <2>1. \A a \in ForeignAccounts :
            base[a] \in Int /\ extra[a] \in Int /\ exact[a] = base[a] + extra[a]
    BY <1>5
  <2> QED BY <1>3, <2>1, SumOfSums
<1>10. Sum(scaled) = scale * Sum(reported)
  <2>1. \A a \in ForeignAccounts : reported[a] \in Int /\ scaled[a] = scale * reported[a]
    BY <1>5 DEF scaled
  <2> QED BY <1>2, <1>3, <2>1, SumOfMultiples
<1>11. Sum(scaled) = Sum(error) + Sum(exact)
  <2>1. \A a \in ForeignAccounts :
            error[a] \in Int /\ exact[a] \in Int /\ scaled[a] = error[a] + exact[a]
    BY <1>5 DEF error
  <2> QED BY <1>3, <2>1, SumOfSums
<1>12. Sum(twice) = 2 * Sum(error)
  <2>1. \A a \in ForeignAccounts : error[a] \in Int /\ twice[a] = 2 * error[a]
    BY <1>5 DEF twice
  <2> QED BY <1>3, <2>1, SumOfMultiples
<1>13. /\ -(Cardinality(ForeignAccounts) * scale) <= Sum(twice)
       /\ Sum(twice) <= Cardinality(ForeignAccounts) * scale
  <2>1. \A a \in ForeignAccounts : twice[a] \in Int /\ -scale <= twice[a] /\ twice[a] <= scale
    BY <1>5
  <2>2. scale \in Int
    BY <1>2
  <2> QED BY <2>1, <2>2, FiniteAccounts, SumIsBounded
<1>14. Sum(error) \in Int
  <2>1. \A a \in ForeignAccounts : error[a] \in Int
    BY <1>5
  <2> QED BY <1>3, <2>1, SumIsInt
<1>15. TranslationAdjustment(closing, average) * scale + Sum(earned) * moved = -Sum(error)
  <2>1. TranslationAdjustment(closing, average) = -(Sum(reported) + 0)
    BY <1>3, <1>6 DEF TranslationAdjustment, reported
  <2> DEFINE r == Sum(reported)
             i == Sum(earned)
             e == Sum(error)
  <2>2. r \in Int /\ i \in Int /\ e \in Int
    BY <1>6, <1>14
  <2>3. scale * r = e + (0 + moved * i)
    BY <1>7, <1>8, <1>9, <1>10, <1>11
  <2> HIDE DEF r, i, e
  <2>4. (-(r + 0)) * scale + i * moved = -e
    <3>1. (-(r + 0)) * scale = -(scale * r) /\ i * moved = moved * i
      BY <1>2, <2>2
    <3>2. scale * r \in Int /\ moved * i \in Int
      BY <1>2, <2>2
    <3> DEFINE p == scale * r
               q == moved * i
    <3> HIDE DEF p, q
    <3>3. p = e + (0 + q) /\ p \in Int /\ q \in Int
      BY <2>3, <3>2 DEF p, q
    <3>4. -p + q = -e
      BY <2>2, <3>3
    <3> QED BY <3>1, <3>4 DEF p, q
  <2> QED BY <2>1, <2>4 DEF r, i, e
<1>16. 2 * Abs(-Sum(error)) <= Cardinality(ForeignAccounts) * scale
  <2> DEFINE e == Sum(error)
             k == Cardinality(ForeignAccounts) * scale
  <2>1. -k <= 2 * e /\ 2 * e <= k /\ e \in Int /\ k \in Int
    <3>1. Cardinality(ForeignAccounts) \in Nat
      BY <1>3, FS_CardinalityType
    <3> QED BY <1>2, <1>12, <1>13, <1>14, <3>1
  <2> HIDE DEF e, k
  <2>2. 2 * Abs(-e) <= k
    BY <2>1 DEF Abs
  <2> QED BY <2>2 DEF e, k
<1>17. 2 * Abs(TranslationAdjustment(closing, average) * scale + SumFunction(earned) * moved)
           <= Cardinality(ForeignAccounts) * scale
  BY <1>6, <1>15, <1>16
<1> QED BY <1>17 DEF earned, scale, moved

(* Consolidation: with any rates, the cumulative translation adjustment is *)
(* the movement of the rates on the income statement (reporting.py).       *)
THEOREM AdjustmentIsHonest == FxSpec => []AdjustmentIsRateMovement
<1>1. FxSpec => []FxInv
  BY FxInvStarts, FxInvKept, PTL DEF FxSpec
<1> QED BY <1>1, AdjustmentOfSquareBooks, PTL

-----------------------------------------------------------------------------
(* The split of an amount.                                                 *)

(* i comes before j when the extra units are handed out.                   *)
Before(fraction, i, j) == fraction[i] > fraction[j] \/ (fraction[i] = fraction[j] /\ i < j)

(* Ranks are places from 0, in that order, all different.                  *)
LEMMA RanksAreOrdered ==
    ASSUME NEW N \in Nat, NEW fraction \in [1 .. N -> Int], NEW i \in 1 .. N, NEW j \in 1 .. N
    PROVE  /\ Ranked(fraction, i) \in 0 .. N - 1
           /\ Before(fraction, i, j) => Ranked(fraction, i) < Ranked(fraction, j)
           /\ i # j => Ranked(fraction, i) # Ranked(fraction, j)
<1> DEFINE Ahead(k) == {h \in 1 .. N : Before(fraction, h, k)}
<1>1. ASSUME NEW k \in 1 .. N
      PROVE  /\ Ranked(fraction, k) = Cardinality(Ahead(k))
             /\ IsFiniteSet(Ahead(k)) /\ Cardinality(Ahead(k)) \in 0 .. N - 1
  <2>1. DOMAIN fraction = 1 .. N
    OBVIOUS
  <2>2. Ranked(fraction, k) = Cardinality(Ahead(k))
    BY <2>1 DEF Ranked, Before
  <2>3. IsFiniteSet(1 .. N) /\ Cardinality(1 .. N) = N
    BY FS_Interval
  <2>4. IsFiniteSet((1 .. N) \ {k}) /\ Cardinality((1 .. N) \ {k}) = N - 1
    BY <2>3, FS_RemoveElement
  <2>5. Ahead(k) \subseteq (1 .. N) \ {k}
    BY DEF Before
  <2>6. IsFiniteSet(Ahead(k)) /\ Cardinality(Ahead(k)) <= N - 1
    <3> HIDE DEF Ahead
    <3> QED BY <2>4, <2>5, FS_Subset
  <2>7. Cardinality(Ahead(k)) \in Nat
    <3> HIDE DEF Ahead
    <3> QED BY <2>6, FS_CardinalityType
  <2> QED BY <2>2, <2>6, <2>7
<1>2. ASSUME NEW h \in 1 .. N, NEW k \in 1 .. N, Before(fraction, h, k)
      PROVE  Ranked(fraction, h) < Ranked(fraction, k)
  <2>1. h \notin Ahead(h) /\ Ahead(h) \cup {h} \subseteq Ahead(k)
    BY <1>2 DEF Before
  <2> HIDE DEF Ahead
  <2>2. IsFiniteSet(Ahead(h)) /\ IsFiniteSet(Ahead(k))
    BY <1>1
  <2>3. Cardinality(Ahead(h) \cup {h}) = Cardinality(Ahead(h)) + 1
    BY <2>1, <2>2, FS_AddElement
  <2>4. Cardinality(Ahead(h) \cup {h}) <= Cardinality(Ahead(k))
    BY <2>1, <2>2, FS_Subset
  <2>5. Cardinality(Ahead(h)) \in Nat /\ Cardinality(Ahead(k)) \in Nat
    BY <1>1
  <2>6. Cardinality(Ahead(h)) < Cardinality(Ahead(k))
    BY <2>3, <2>4, <2>5
  <2> QED BY <1>1, <2>6
<1>3. i # j => Before(fraction, i, j) \/ Before(fraction, j, i)
  BY DEF Before
<1>4. Ranked(fraction, i) \in 0 .. N - 1 /\ Ranked(fraction, j) \in 0 .. N - 1
  BY <1>1
<1> QED BY <1>2, <1>3, <1>4

(* So every place is taken, and as many indices rank below m as m says.    *)
LEMMA RanksAreAllPlaces ==
    ASSUME NEW N \in Nat, NEW fraction \in [1 .. N -> Int], NEW m \in 0 .. N
    PROVE  /\ \A r \in 0 .. N - 1 : \E i \in 1 .. N : Ranked(fraction, i) = r
           /\ IsFiniteSet({i \in 1 .. N : Ranked(fraction, i) < m})
           /\ Cardinality({i \in 1 .. N : Ranked(fraction, i) < m}) = m
<1> DEFINE rank == [i \in 1 .. N |-> Ranked(fraction, i)]
           S == {i \in 1 .. N : Ranked(fraction, i) < m}
           below == [i \in S |-> Ranked(fraction, i)]
<1>1. \A i \in 1 .. N : rank[i] \in 0 .. N - 1
  BY RanksAreOrdered
<1>2. \A i, j \in 1 .. N : rank[i] = rank[j] => i = j
  BY RanksAreOrdered
<1>3. rank \in Injection(1 .. N, 0 .. N - 1)
  BY <1>1, <1>2 DEF Injection, IsInjective
<1>4. /\ IsFiniteSet(1 .. N) /\ IsFiniteSet(0 .. N - 1)
      /\ Cardinality(1 .. N) = N /\ Cardinality(0 .. N - 1) = N
  BY FS_Interval
<1>5. rank \in Surjection(1 .. N, 0 .. N - 1)
  <2> HIDE DEF rank
  <2> QED BY <1>3, <1>4, FS_Injection
<1>6. \A r \in 0 .. N - 1 : \E i \in 1 .. N : Ranked(fraction, i) = r
  BY <1>5 DEF Surjection
<1>7. IsFiniteSet(S)
  <2>1. S \subseteq 1 .. N
    OBVIOUS
  <2> HIDE DEF S
  <2> QED BY <1>4, <2>1, FS_Subset
<1>8. below \in Bijection(S, 0 .. m - 1)
  <2>1. below \in [S -> 0 .. m - 1]
    <3>1. \A i \in S : Ranked(fraction, i) \in 0 .. N - 1 /\ Ranked(fraction, i) < m
      BY RanksAreOrdered
    <3> QED BY <3>1
  <2>2. \A i, j \in S : below[i] = below[j] => i = j
    BY <1>2
  <2>3. \A r \in 0 .. m - 1 : \E i \in S : below[i] = r
    <3> SUFFICES ASSUME NEW r \in 0 .. m - 1 PROVE \E i \in S : below[i] = r
      OBVIOUS
    <3>1. r \in 0 .. N - 1 /\ r < m
      OBVIOUS
    <3>2. PICK i \in 1 .. N : Ranked(fraction, i) = r
      BY <1>6, <3>1
    <3> QED BY <3>1, <3>2
  <2> HIDE DEF below, S
  <2>4. DOMAIN below = S
    BY <2>1
  <2> QED BY <2>1, <2>2, <2>3, <2>4 DEF Bijection, Injection, Surjection, IsInjective
<1>9. Cardinality(0 .. m - 1) = Cardinality(S)
  <2> HIDE DEF below, S
  <2>1. ExistsBijection(S, 0 .. m - 1)
    BY <1>8 DEF ExistsBijection
  <2> QED BY <1>7, <2>1, FS_Bijection
<1>10. Cardinality(0 .. m - 1) = m
  BY FS_Interval
<1> QED BY <1>6, <1>7, <1>9, <1>10

(* Between the fractions that rank below m and the others lies a value.    *)
LEMMA Threshold ==
    ASSUME NEW N \in Nat, NEW T \in Nat, NEW fraction \in [1 .. N -> 0 .. T], NEW m \in 0 .. N
    PROVE  \E edge \in 0 .. T : \A i \in 1 .. N :
              /\ Ranked(fraction, i) < m => fraction[i] >= edge
              /\ ~(Ranked(fraction, i) < m) => fraction[i] <= edge
<1>0. fraction \in [1 .. N -> Int]
  OBVIOUS
<1>1. CASE m = 0
  <2>1. \A i \in 1 .. N : ~(Ranked(fraction, i) < 0) /\ fraction[i] <= T
    BY <1>0, RanksAreOrdered
  <2> QED BY <1>1, <2>1
<1>2. CASE m # 0
  <2>1. m - 1 \in 0 .. N - 1
    BY <1>2
  <2>2. PICK last \in 1 .. N : Ranked(fraction, last) = m - 1
    BY <1>0, <2>1, RanksAreAllPlaces
  <2>3. ASSUME NEW i \in 1 .. N
        PROVE  /\ Ranked(fraction, i) < m => fraction[i] >= fraction[last]
               /\ ~(Ranked(fraction, i) < m) => fraction[i] <= fraction[last]
    <3>1. Ranked(fraction, i) \in 0 .. N - 1
      BY <1>0, RanksAreOrdered
    <3>2. fraction[last] > fraction[i] => Ranked(fraction, last) < Ranked(fraction, i)
      BY <1>0, RanksAreOrdered DEF Before
    <3>3. fraction[i] > fraction[last] => Ranked(fraction, i) < Ranked(fraction, last)
      BY <1>0, RanksAreOrdered DEF Before
    <3>4. fraction[i] \in Int /\ fraction[last] \in Int
      OBVIOUS
    <3> QED BY <2>2, <3>1, <3>2, <3>3, <3>4
  <2>4. fraction[last] \in 0 .. T
    OBVIOUS
  <2> QED BY <2>3, <2>4
<1> QED BY <1>1, <1>2

(* A unit given where the fraction is no smaller than the edge, or none    *)
(* where it is no larger, is best at the price T - 2 * edge of a unit.     *)
LEMMA BestAtThePrice ==
    ASSUME NEW T \in Nat, NEW f \in Nat, f < T, NEW edge \in 0 .. T,
           NEW c \in {0, 1}, NEW d \in Int,
           c = 1 => f >= edge, c = 0 => f <= edge
    PROVE  Abs(T * c - f) + (T - 2 * edge) * d <= Abs(T * d - f) + (T - 2 * edge) * c
<1>1. /\ T * d \in Int /\ edge * d \in Int
      /\ (T - 2 * edge) * d = T * d - 2 * (edge * d)
  OBVIOUS
<1>2. d = 0 => T * d = 0 /\ edge * d = 0
  OBVIOUS
<1>3. d >= 1 => T * d >= T /\ edge * d >= edge
  OBVIOUS
<1>4. d <= -1 => T * d <= -T /\ T * d <= edge * d
  <2> SUFFICES ASSUME d <= -1 PROVE T * d <= -T /\ T * d <= edge * d
    OBVIOUS
  <2> DEFINE e == -d
  <2>1. e \in Nat /\ e >= 1 /\ d = -e
    OBVIOUS
  <2> HIDE DEF e
  <2>2. T * e >= T /\ T * e >= edge * e
    BY <2>1
  <2>3. T * d = -(T * e) /\ edge * d = -(edge * e)
    BY <2>1
  <2>4. T * e \in Int /\ edge * e \in Int
    BY <2>1
  <2> QED BY <2>2, <2>3, <2>4
<1> DEFINE x == T * d
           y == edge * d
<1>5. /\ x \in Int /\ y \in Int
      /\ d = 0 => x = 0 /\ y = 0
      /\ d >= 1 => x >= T /\ y >= edge
      /\ d <= -1 => x <= -T /\ x <= y
  BY <1>1, <1>2, <1>3, <1>4
<1> HIDE DEF x, y
<1>6. d = 0 \/ d >= 1 \/ d <= -1
  OBVIOUS
<1>7. CASE c = 0
  <2>1. Abs(0 - f) + (x - 2 * y) <= Abs(x - f) + 0
    BY <1>5, <1>6, <1>7 DEF Abs
  <2>2. T * c = 0 /\ (T - 2 * edge) * c = 0
    BY <1>7
  <2> QED BY <1>1, <2>1, <2>2 DEF x, y
<1>8. CASE c = 1
  <2>1. Abs(T - f) + (x - 2 * y) <= Abs(x - f) + (T - 2 * edge)
    BY <1>5, <1>6, <1>8 DEF Abs
  <2>2. T * c = T /\ (T - 2 * edge) * c = T - 2 * edge
    BY <1>8
  <2> QED BY <1>1, <2>1, <2>2 DEF x, y
<1> QED BY <1>7, <1>8

(* The terms of Allocate.                                                  *)
Sign(a) == IF a < 0 THEN -1 ELSE 1
Exact(a, w) == [i \in DOMAIN w |-> Abs(a) * w[i]]
Base(a, w) == [i \in DOMAIN w |-> Exact(a, w)[i] \div SumFunction(w)]
Fraction(a, w) == [i \in DOMAIN w |-> Exact(a, w)[i] % SumFunction(w)]
Left(a, w) == Abs(a) - SumFunction(Base(a, w))
Extra(a, w) == [i \in DOMAIN w |-> Cardinality({k \in 0 .. Left(a, w) - 1 :
                    k % Cardinality(DOMAIN w) = Ranked(Fraction(a, w), i)})]

(* The exact share of index i, in units of 1/total, is its base, in whole  *)
(* units, and its fraction of one.                                         *)
ShareIsCut(a, w, i) ==
    /\ Fraction(a, w)[i] < SumFunction(w)
    /\ Abs(a) * w[i] = SumFunction(w) * Base(a, w)[i] + Fraction(a, w)[i]

LEMMA AllocateIs ==
    ASSUME NEW a, NEW w
    PROVE  Allocate(a, w) = [i \in DOMAIN w |-> Sign(a) * (Base(a, w)[i] + Extra(a, w)[i])]
BY DEF Allocate, Sign, Exact, Base, Fraction, Left, Extra

(* Weights are at least zero, and not all of them are zero.                *)
GoodWeights(N, w) == w \in [1 .. N -> Nat] /\ \E i \in 1 .. N : w[i] > 0

LEMMA TotalIsPositive ==
    ASSUME NEW N \in Nat, NEW w, GoodWeights(N, w)
    PROVE  SumFunction(w) \in Nat \ {0} /\ SumFunction(w) = SumFunctionOnSet(w, 1 .. N)
<1>1. w \in [1 .. N -> Nat] /\ w \in [1 .. N -> Int] /\ IsFiniteSet(1 .. N)
  <2>1. w \in [1 .. N -> Nat]
    BY DEF GoodWeights
  <2>2. w \in [1 .. N -> Int]
    BY <2>1
  <2>3. IsFiniteSet(1 .. N)
    BY FS_Interval
  <2> QED BY <2>1, <2>2, <2>3
<1>2. SumFunction(w) = SumFunctionOnSet(w, 1 .. N) /\ SumFunction(w) \in Int
  BY <1>1, SumsToInt
<1>3. PICK i \in 1 .. N : w[i] > 0
  BY DEF GoodWeights
<1> DEFINE r == (1 .. N) \ {i}
           zero == [j \in 1 .. N |-> 0]
<1>4. SumFunctionOnSet(w, 1 .. N) = w[i] + SumFunctionOnSet(w, r)
  <2>1. \A j \in 1 .. N : w[j] \in Int
    BY <1>1
  <2> QED BY <1>1, <2>1, SumWithout
<1>5. IsFiniteSet(r)
  BY <1>1, FS_RemoveElement
<1>6. \A j \in r : w[j] \in Int /\ zero[j] \in Int /\ zero[j] <= w[j]
  BY <1>1
<1>7. \A j \in r : zero[j] = 0
  OBVIOUS
<1> HIDE DEF r, zero
<1>8. SumFunctionOnSet(zero, r) = 0
  BY <1>5, <1>7, SumOfZeros
<1>9. SumFunctionOnSet(w, r) \in Int
  BY <1>5, <1>6, SumIsInt
<1>10. SumFunctionOnSet(zero, r) <= SumFunctionOnSet(w, r)
  BY <1>5, <1>6, SumIsMonotonic
<1>11. w[i] \in Nat
  BY <1>1
<1> QED BY <1>2, <1>3, <1>4, <1>8, <1>9, <1>10, <1>11

(* Division with a remainder.                                              *)
LEMMA DivMod ==
    ASSUME NEW x \in Nat, NEW t \in Nat \ {0}
    PROVE  /\ x \div t \in Nat /\ x % t \in Nat /\ x % t < t
           /\ x = t * (x \div t) + (x % t)
<1>1. x \div t \in Nat
  OBVIOUS
<1>2. x % t \in Nat /\ x % t < t
  OBVIOUS
<1>3. x = t * (x \div t) + (x % t)
  OBVIOUS
<1> QED BY <1>1, <1>2, <1>3

(* What is left over is less than one unit for each weight, and as many    *)
(* indices get a unit of it.                                               *)
LEMMA SplitTerms ==
    ASSUME NEW N \in Nat, NEW w, GoodWeights(N, w), NEW a \in Int
    PROVE  /\ Abs(a) \in Nat /\ DOMAIN w = 1 .. N
           /\ Base(a, w) \in [1 .. N -> Nat]
           /\ Fraction(a, w) \in [1 .. N -> Nat]
           /\ \A i \in 1 .. N : ShareIsCut(a, w, i)
           /\ Left(a, w) \in 0 .. N - 1
           /\ \A i \in 1 .. N : Extra(a, w)[i] =
                 IF Ranked(Fraction(a, w), i) < Left(a, w) THEN 1 ELSE 0
           /\ SumFunction(Base(a, w)) + Left(a, w) = Abs(a)
           /\ SumFunctionOnSet(Extra(a, w), 1 .. N) = Left(a, w)
<1> DEFINE T == SumFunction(w)
           n == Abs(a)
           e == Exact(a, w)
           b == Base(a, w)
           f == Fraction(a, w)
           m == Left(a, w)
           S == 1 .. N
           Sum(g) == SumFunctionOnSet(g, S)
<1>1. /\ T \in Nat \ {0} /\ T = Sum(w) /\ n \in Nat /\ DOMAIN w = S /\ w \in [S -> Nat]
      /\ IsFiniteSet(S) /\ Cardinality(S) = N
  <2>1. T \in Nat \ {0} /\ T = Sum(w)
    BY TotalIsPositive
  <2>2. n \in Nat
    BY DEF Abs
  <2>3. DOMAIN w = S /\ w \in [S -> Nat]
    BY DEF GoodWeights
  <2>4. IsFiniteSet(S) /\ Cardinality(S) = N
    BY FS_Interval
  <2> QED BY <2>1, <2>2, <2>3, <2>4
<1>2. \A i \in S : e[i] = n * w[i] /\ e[i] \in Nat /\ w[i] \in Int
  BY <1>1 DEF Exact
<1>3. \A i \in S : /\ b[i] = e[i] \div T /\ f[i] = e[i] % T
                   /\ b[i] \in Nat /\ f[i] \in Nat /\ f[i] < T /\ e[i] = T * b[i] + f[i]
  <2> SUFFICES ASSUME NEW i \in S
               PROVE  /\ b[i] = e[i] \div T /\ f[i] = e[i] % T
                      /\ b[i] \in Nat /\ f[i] \in Nat /\ f[i] < T /\ e[i] = T * b[i] + f[i]
    OBVIOUS
  <2>1. b[i] = e[i] \div T /\ f[i] = e[i] % T
    BY <1>1 DEF Base, Fraction
  <2>3. e[i] \in Nat
    BY <1>2
  <2> HIDE DEF e, b, f, T
  <2> QED BY <1>1, <2>1, <2>3, DivMod
<1>4. b \in [S -> Nat] /\ b \in [S -> Int] /\ f \in [S -> Nat]
  <2>1. b = [i \in S |-> b[i]] /\ f = [i \in S |-> f[i]]
    BY <1>1 DEF Base, Fraction
  <2> HIDE DEF b, f
  <2> QED BY <1>3, <2>1
<1>5. SumFunction(b) = Sum(b) /\ Sum(b) \in Int /\ m = n - Sum(b)
  <2>1. m = n - SumFunction(b)
    BY DEF Left
  <2> HIDE DEF b, m
  <2>2. SumFunction(b) = Sum(b) /\ SumFunction(b) \in Int
    BY <1>1, <1>4, SumsToInt
  <2> QED BY <2>1, <2>2
<1> DEFINE scaled == [i \in S |-> T * b[i]]
<1>6. Sum(e) = n * T /\ Sum(e) = Sum(scaled) + Sum(f) /\ Sum(scaled) = T * Sum(b)
  <2>1. \A i \in S : w[i] \in Int /\ e[i] = n * w[i]
    BY <1>2
  <2>2. \A i \in S : b[i] \in Int /\ scaled[i] = T * b[i]
    BY <1>3
  <2>3. \A i \in S : scaled[i] \in Int /\ f[i] \in Int /\ e[i] = scaled[i] + f[i]
    <3>1. \A x \in Int : T * x \in Int
      BY <1>1
    <3> HIDE DEF e, scaled, f, T, b
    <3> QED BY <1>3, <2>2, <3>1
  <2> HIDE DEF e, b, f, T, n, scaled, S
  <2> n \in Int /\ T \in Int
    BY <1>1
  <2>4. Sum(e) = n * Sum(w)
    <3>1. IsFiniteSet(S)
      BY <1>1
    <3> QED BY <2>1, <3>1, SumOfMultiples
  <2>5. Sum(scaled) = T * Sum(b)
    BY <1>1, <2>2, SumOfMultiples
  <2>6. Sum(e) = Sum(scaled) + Sum(f)
    BY <1>1, <2>3, SumOfSums
  <2> QED BY <1>1, <2>4, <2>5, <2>6
<1>7. 0 <= Sum(f) /\ Sum(f) <= N * (T - 1) /\ Sum(f) \in Int
  <2> DEFINE zero == [i \in S |-> 0]
             k == T - 1
  <2>1. /\ \A i \in S : f[i] \in Int /\ -k <= f[i] /\ f[i] <= k
        /\ \A i \in S : zero[i] \in Int /\ f[i] \in Int /\ zero[i] <= f[i]
        /\ \A i \in S : zero[i] = 0
        /\ k \in Int
    <3> HIDE DEF f, T
    <3> QED BY <1>1, <1>3
  <2> HIDE DEF f, T, zero, k, S
  <2>2. Sum(f) \in Int /\ Sum(f) <= Cardinality(S) * k
    BY <1>1, <2>1, SumIsBounded
  <2>3. Sum(zero) = 0
    BY <1>1, <2>1, SumOfZeros
  <2>4. Sum(zero) <= Sum(f)
    BY <1>1, <2>1, SumIsMonotonic
  <2> QED BY <1>1, <2>2, <2>3, <2>4 DEF k
<1>8. m \in 0 .. N - 1
  <2> DEFINE q == Sum(b)
             r == Sum(f)
  <2>1. /\ T * n = T * q + r /\ q \in Int /\ r \in Int /\ 0 <= r /\ r <= N * (T - 1)
        /\ m = n - q /\ m \in Int
    <3>1. n * T = T * q + r
      BY <1>6
    <3>2. n * T = T * n
      <4> HIDE DEF n, T
      <4> QED BY <1>1
    <3> HIDE DEF n, T, q, r, m
    <3> QED BY <1>1, <1>5, <1>7, <3>1, <3>2 DEF q, r
  <2> HIDE DEF T, n, q, r, m
  <2>2. T * m = r
    <3>1. \A x, y \in Int : T * (x - y) = T * x - T * y
      BY <1>1
    <3>2. T * n \in Int /\ T * q \in Int /\ n \in Int
      BY <1>1, <2>1
    <3>3. T * m = T * n - T * q
      BY <2>1, <3>1, <3>2
    <3> DEFINE tn == T * n
               tq == T * q
    <3>4. tn = tq + r /\ tn \in Int /\ tq \in Int
      BY <2>1, <3>2
    <3> HIDE DEF tn, tq
    <3>5. tn - tq = r
      BY <2>1, <3>4
    <3> QED BY <3>3, <3>5 DEF tn, tq
  <2>3. N * (T - 1) = T * N - N
    BY <1>1
  <2>4. m >= 0
    <3> SUFFICES ASSUME m <= -1 PROVE FALSE
      BY <2>1
    <3>1. T * m <= -T
      <4>1. T * (-1 - m) >= 0
        <5>1. -1 - m \in Nat
          BY <2>1
        <5>2. \A x \in Nat : T * x >= 0
          BY <1>1
        <5> QED BY <5>1, <5>2
      <4>2. T * (-1 - m) = -T - T * m
        <5>1. \A x \in Int : T * (-1 - x) = -T - T * x
          BY <1>1
        <5> QED BY <2>1, <5>1
      <4>3. T * m \in Int
        BY <1>1, <2>1
      <4> QED BY <1>1, <4>1, <4>2, <4>3
    <3> QED BY <1>1, <2>1, <2>2, <3>1
  <2>5. m <= N - 1
    <3> SUFFICES ASSUME m >= N PROVE FALSE
      BY <2>1
    <3>1. T * m >= T * N /\ T * N \in Int
      <4>1. T * (m - N) >= 0
        BY <1>1, <2>1
      <4>2. T * (m - N) = T * m - T * N
        BY <1>1, <2>1
      <4>3. T * m \in Int /\ T * N \in Int
        BY <1>1, <2>1
      <4> QED BY <4>1, <4>2, <4>3
    <3>2. N >= 1
      <4> SUFFICES ASSUME N = 0 PROVE FALSE
        OBVIOUS
      <4>1. S = {}
        OBVIOUS
      <4>2. \E i \in S : w[i] > 0
        BY DEF GoodWeights
      <4> QED BY <4>1, <4>2
    <3> DEFINE tN == T * N
               tm == T * m
    <3>3. tm >= tN /\ tN \in Int /\ tm = r /\ r <= tN - N
      BY <2>1, <2>2, <2>3, <3>1
    <3> HIDE DEF tN, tm
    <3> QED BY <2>1, <3>2, <3>3
  <2> QED BY <2>1, <2>4, <2>5
<1>9. ASSUME NEW i \in S
      PROVE  Extra(a, w)[i] = IF Ranked(f, i) < m THEN 1 ELSE 0
  <2> DEFINE r == Ranked(f, i)
             K == {k \in 0 .. m - 1 : k % N = r}
  <2>1. Extra(a, w)[i] = Cardinality(K)
    BY <1>1 DEF Extra
  <2>2. r \in 0 .. N - 1
    <3>1. f \in [1 .. N -> Int]
      <4> HIDE DEF f
      <4> QED BY <1>4
    <3> HIDE DEF f
    <3> QED BY <3>1, RanksAreOrdered
  <2> HIDE DEF r, m
  <2>3. \A k \in 0 .. m - 1 : k % N = k
    <3>1. \A k \in 0 .. N - 1 : k % N = k
      OBVIOUS
    <3>2. \A k \in 0 .. m - 1 : k \in 0 .. N - 1
      BY <1>8
    <3> QED BY <3>1, <3>2
  <2>4. K = IF r < m THEN {r} ELSE {}
    BY <1>8, <2>2, <2>3
  <2>5. Cardinality({r}) = 1 /\ Cardinality({}) = 0
    BY FS_Singleton, FS_EmptySet
  <2> HIDE DEF K
  <2> QED BY <2>1, <2>4, <2>5 DEF r
<1>10. SumFunctionOnSet(Extra(a, w), S) = m
  <2> DEFINE R == {i \in S : Ranked(f, i) < m}
             one == [i \in S |-> 1]
  <2>1. f \in [1 .. N -> Int] /\ m \in 0 .. N
    <3> HIDE DEF f, m
    <3> QED BY <1>4, <1>8
  <2>2. IsFiniteSet(R) /\ Cardinality(R) = m
    <3> HIDE DEF f, m
    <3> QED BY <2>1, RanksAreAllPlaces
  <2>3. /\ R \in SUBSET S /\ \A i \in S : one[i] \in Int
        /\ \A i \in R : one[i] = 1
        /\ \A i \in S : Extra(a, w)[i] = IF i \in R THEN one[i] ELSE 0
    BY <1>9
  <2> DEFINE x == Extra(a, w)
  <2>4. \A i \in S : x[i] = IF i \in R THEN one[i] ELSE 0
    BY <2>3
  <2> HIDE DEF R, one, S, x, m
  <2>5. SumFunctionOnSet(one, R) = SumFunctionOnSet(x, S)
    BY <1>1, <2>3, <2>4, SumOfSelected
  <2>6. SumFunctionOnSet(one, R) = Cardinality(R)
    BY <2>2, <2>3, SumOfOnes
  <2> QED BY <2>2, <2>5, <2>6 DEF x
<1>11. \A i \in S : ShareIsCut(a, w, i)
  BY <1>2, <1>3 DEF ShareIsCut
<1>12. SumFunction(b) + m = n
  <2> HIDE DEF b, m, n
  <2> QED BY <1>1, <1>5
<1> QED BY <1>1, <1>4, <1>8, <1>9, <1>10, <1>11, <1>12

(* How far the part i of a division is from its exact share.               *)
Off(p, a, w) == [i \in DOMAIN p |-> Abs(p[i] * SumFunction(w) - a * w[i])]

(* The parts add up to the amount.                                         *)
LEMMA PartsAddUp ==
    ASSUME NEW N \in Nat, NEW w, GoodWeights(N, w), NEW a \in Int
    PROVE  Allocate(a, w) \in [1 .. N -> Int] /\ SumFunction(Allocate(a, w)) = a
<1> DEFINE S == 1 .. N
           p == Allocate(a, w)
           b == Base(a, w)
           x == Extra(a, w)
           u == [i \in S |-> b[i] + x[i]]
           Sum(g) == SumFunctionOnSet(g, S)
<1>1. IsFiniteSet(S)
  BY FS_Interval
<1>2. b \in [S -> Int] /\ Abs(a) \in Nat
  <2>1. b \in [S -> Nat] /\ Abs(a) \in Nat
    BY SplitTerms
  <2> HIDE DEF b
  <2> QED BY <2>1
<1>3. \A i \in S : x[i] \in Int
  <2>1. \A i \in S : x[i] = IF Ranked(Fraction(a, w), i) < Left(a, w) THEN 1 ELSE 0
    BY SplitTerms
  <2> HIDE DEF x
  <2> QED BY <2>1
<1>4. p = [i \in S |-> Sign(a) * u[i]]
  <2>1. DOMAIN w = S
    BY SplitTerms
  <2>2. p = [i \in DOMAIN w |-> Sign(a) * (b[i] + x[i])]
    BY AllocateIs
  <2> HIDE DEF p, b, x
  <2> QED BY <2>1, <2>2
<1>5. Sign(a) \in Int /\ Sign(a) * Abs(a) = a
  BY DEF Sign, Abs
<1>6. SumFunction(b) + Left(a, w) = Abs(a) /\ Sum(x) = Left(a, w)
  BY SplitTerms
<1>7. \A i \in S : b[i] \in Int /\ x[i] \in Int /\ u[i] = b[i] + x[i]
  <2> HIDE DEF b, x
  <2> QED BY <1>2, <1>3
<1>8. \A i \in S : u[i] \in Int
  <2> HIDE DEF b, x
  <2> QED BY <1>2, <1>3
<1>9. p \in [S -> Int] /\ \A i \in S : p[i] = Sign(a) * u[i]
  <2> HIDE DEF p, u
  <2>1. \A i \in S : Sign(a) * u[i] \in Int
    BY <1>5, <1>8
  <2> QED BY <1>4, <2>1
<1> HIDE DEF p, b, x, u, S
<1>10. SumFunction(b) = Sum(b)
  BY <1>1, <1>2, SumsToInt
<1>11. SumFunction(p) = Sum(p)
  BY <1>1, <1>9, SumsToInt
<1>12. Sum(u) = Sum(b) + Sum(x)
  BY <1>1, <1>7, SumOfSums
<1>13. Sum(p) = Sign(a) * Sum(u)
  BY <1>1, <1>5, <1>8, <1>9, SumOfMultiples
<1>14. Sum(u) = Abs(a)
  BY <1>6, <1>10, <1>12
<1> QED BY <1>5, <1>9, <1>11, <1>13, <1>14 DEF p, S

(* The distance of a part in terms of the remainder of its share.          *)
LEMMA OffBy ==
    ASSUME NEW T \in Int, NEW v \in Int, NEW b \in Int, NEW f \in Int, NEW q \in Int, NEW a \in Int,
           Abs(a) * v = T * b + f
    PROVE  Abs(q * T - a * v) = Abs(T * (Sign(a) * q - b) - f)
<1> DEFINE qT == T * q
           av == a * v
           bT == T * b
<1>1. qT \in Int /\ av \in Int /\ bT \in Int /\ q * T = qT
  OBVIOUS
<1>2. CASE a < 0
  <2>1. Abs(a) = -a /\ Sign(a) = -1
    BY <1>2 DEF Abs, Sign
  <2>2. (-a) * v = -av
    OBVIOUS
  <2>3. -av = bT + f
    BY <2>1, <2>2
  <2>4. T * (Sign(a) * q - b) = -qT - bT
    <3>1. \A x \in Int : T * (-1 * x - b) = -(T * x) - T * b
      OBVIOUS
    <3> QED BY <2>1, <3>1
  <2> HIDE DEF qT, av, bT
  <2>5. Abs(qT - av) = Abs((-qT - bT) - f)
    BY <1>1, <2>3 DEF Abs
  <2> QED BY <1>1, <2>4, <2>5 DEF av
<1>3. CASE ~(a < 0)
  <2>1. Abs(a) = a /\ Sign(a) = 1
    BY <1>3 DEF Abs, Sign
  <2>3. av = bT + f
    BY <2>1
  <2>4. T * (Sign(a) * q - b) = qT - bT
    <3>1. \A x \in Int : T * (1 * x - b) = (T * x) - T * b
      OBVIOUS
    <3> QED BY <2>1, <3>1
  <2> HIDE DEF qT, av, bT
  <2>5. Abs(qT - av) = Abs((qT - bT) - f)
    BY <1>1, <2>3 DEF Abs
  <2> QED BY <1>1, <2>4, <2>5 DEF av
<1> QED BY <1>2, <1>3

(* No division into integers is nearer to the exact shares: at the price   *)
(* of a unit that the ranks set, each part of Allocate is best, and every  *)
(* division spends the same number of units.                               *)
LEMMA NoneIsNearer ==
    ASSUME NEW N \in Nat, NEW w, GoodWeights(N, w), NEW a \in Int,
           NEW q \in [1 .. N -> Int], SumFunction(q) = a
    PROVE  SumFunction(Off(Allocate(a, w), a, w)) <= SumFunction(Off(q, a, w))
<1> DEFINE S == 1 .. N
           p == Allocate(a, w)
           b == Base(a, w)
           x == Extra(a, w)
           f == Fraction(a, w)
           m == Left(a, w)
           T == SumFunction(w)
           sq == [i \in S |-> Sign(a) * q[i]]
           d == [i \in S |-> sq[i] - b[i]]
           Sum(g) == SumFunctionOnSet(g, S)
<1>1. IsFiniteSet(S)
  BY FS_Interval
<1>2. T \in Nat \ {0} /\ w \in [S -> Nat]
  BY TotalIsPositive DEF GoodWeights
<1>3. b \in [S -> Nat] /\ f \in [S -> Nat] /\ m \in 0 .. N - 1 /\ Abs(a) \in Nat /\ DOMAIN w = S
  BY SplitTerms
<1>4. \A i \in S : f[i] < T /\ Abs(a) * w[i] = T * b[i] + f[i]
  <2>1. \A i \in S : ShareIsCut(a, w, i)
    BY SplitTerms
  <2> QED BY <2>1 DEF ShareIsCut
<1>5. \A i \in S : x[i] = IF Ranked(f, i) < m THEN 1 ELSE 0
  BY SplitTerms
<1>6. SumFunction(b) + m = Abs(a) /\ Sum(x) = m
  BY SplitTerms
<1>7. /\ Sign(a) \in Int /\ Sign(a) * a = Abs(a)
      /\ \A y \in Int : Sign(a) * y \in Int /\ Sign(a) * (Sign(a) * y) = y
  <2>1. Sign(a) \in {1, -1}
    BY DEF Sign
  <2>2. Sign(a) * a = Abs(a)
    BY DEF Sign, Abs
  <2> QED BY <2>1, <2>2
<1>8. p \in [S -> Int] /\ \A i \in S : p[i] = Sign(a) * (b[i] + x[i])
  <2>1. p \in [S -> Int]
    BY PartsAddUp
  <2>2. p = [i \in DOMAIN w |-> Sign(a) * (b[i] + x[i])]
    BY AllocateIs
  <2> HIDE DEF p, b, x
  <2> QED BY <1>3, <2>1, <2>2
<1>9. PICK edge \in 0 .. T : \A i \in S :
          /\ Ranked(f, i) < m => f[i] >= edge
          /\ ~(Ranked(f, i) < m) => f[i] <= edge
  <2>1. f \in [1 .. N -> 0 .. T] /\ m \in 0 .. N /\ T \in Nat
    <3> HIDE DEF f, m, T
    <3> QED BY <1>2, <1>3, <1>4
  <2> HIDE DEF f, m, T
  <2> QED BY <2>1, Threshold
<1> DEFINE lambda == T - 2 * edge
           offp == Off(p, a, w)
           offq == Off(q, a, w)
           dear == [i \in S |-> lambda * d[i]]
           paid == [i \in S |-> lambda * x[i]]
           lhs == [i \in S |-> offp[i] + dear[i]]
           rhs == [i \in S |-> offq[i] + paid[i]]
<1>10. \A i \in S : sq[i] = Sign(a) * q[i] /\ d[i] = sq[i] - b[i]
                     /\ dear[i] = lambda * d[i] /\ paid[i] = lambda * x[i]
                     /\ lhs[i] = offp[i] + dear[i] /\ rhs[i] = offq[i] + paid[i]
  OBVIOUS
<1>11. /\ \A i \in S : offp[i] = Abs(p[i] * T - a * w[i]) /\ offq[i] = Abs(q[i] * T - a * w[i])
       /\ DOMAIN offp = S /\ DOMAIN offq = S
       /\ offp = [i \in S |-> offp[i]] /\ offq = [i \in S |-> offq[i]]
  <2>1. DOMAIN p = S /\ DOMAIN q = S
    <3> HIDE DEF p
    <3> QED BY <1>8
  <2> HIDE DEF p
  <2> QED BY <2>1 DEF Off
<1>12. lambda \in Int /\ T \in Int
  <2> HIDE DEF T
  <2> QED BY <1>2
<1> HIDE DEF S, p, b, x, f, m, T, sq, d, lambda, offp, offq, dear, paid, lhs, rhs
<1>13. ASSUME NEW i \in S
       PROVE  /\ b[i] \in Int /\ x[i] \in {0, 1} /\ f[i] \in Nat /\ q[i] \in Int /\ sq[i] \in Int
              /\ p[i] \in Int /\ w[i] \in Int /\ d[i] \in Int /\ d[i] = sq[i] - b[i]
  <2>1. b[i] \in Int /\ f[i] \in Nat /\ p[i] \in Int /\ w[i] \in Int
    BY <1>2, <1>3, <1>8
  <2>2. x[i] \in {0, 1}
    BY <1>5
  <2>3. q[i] \in Int
    BY DEF S
  <2>4. sq[i] \in Int
    BY <1>7, <1>10, <2>3
  <2> QED BY <1>10, <2>1, <2>2, <2>3, <2>4
<1>14. ASSUME NEW i \in S
       PROVE  /\ offp[i] = Abs(T * x[i] - f[i]) /\ offq[i] = Abs(T * d[i] - f[i])
              /\ offp[i] \in Int /\ offq[i] \in Int
  <2>1. Abs(a) * w[i] = T * b[i] + f[i]
    BY <1>4
  <2>2. Abs(p[i] * T - a * w[i]) = Abs(T * (Sign(a) * p[i] - b[i]) - f[i])
    BY <1>12, <1>13, <2>1, OffBy
  <2>3. Abs(q[i] * T - a * w[i]) = Abs(T * (Sign(a) * q[i] - b[i]) - f[i])
    BY <1>12, <1>13, <2>1, OffBy
  <2>4. Sign(a) * p[i] - b[i] = x[i]
    <3>1. b[i] + x[i] \in Int
      BY <1>13
    <3>2. Sign(a) * p[i] = b[i] + x[i]
      BY <1>7, <1>8, <3>1
    <3> QED BY <1>13, <3>2
  <2>5. Sign(a) * q[i] - b[i] = d[i]
    BY <1>10
  <2>6. offp[i] = Abs(T * x[i] - f[i]) /\ offq[i] = Abs(T * d[i] - f[i])
    BY <1>11, <2>2, <2>3, <2>4, <2>5
  <2>7. \A y \in Int : T * y - f[i] \in Int
    BY <1>12, <1>13
  <2>8. \A y \in Int : Abs(y) \in Int
    BY DEF Abs
  <2>9. x[i] \in Int /\ d[i] \in Int
    BY <1>13
  <2> QED BY <2>6, <2>7, <2>8, <2>9
<1>15. ASSUME NEW i \in S
       PROVE  /\ dear[i] \in Int /\ paid[i] \in Int /\ lhs[i] \in Int /\ rhs[i] \in Int
              /\ lhs[i] <= rhs[i]
  <2>1. dear[i] = lambda * d[i] /\ paid[i] = lambda * x[i]
    BY <1>10
  <2>2. x[i] \in Int /\ d[i] \in Int
    BY <1>13
  <2>3. dear[i] \in Int /\ paid[i] \in Int
    BY <1>12, <2>1, <2>2
  <2>4. lhs[i] = offp[i] + dear[i] /\ rhs[i] = offq[i] + paid[i]
    BY <1>10
  <2>5. lhs[i] \in Int /\ rhs[i] \in Int
    BY <1>14, <2>3, <2>4
  <2>6. (x[i] = 1 => f[i] >= edge) /\ (x[i] = 0 => f[i] <= edge)
    BY <1>5, <1>9
  <2>7. f[i] < T /\ T \in Nat
    BY <1>2, <1>4
  <2>8. Abs(T * x[i] - f[i]) + (T - 2 * edge) * d[i] <= Abs(T * d[i] - f[i]) + (T - 2 * edge) * x[i]
    BY <1>13, <2>6, <2>7, BestAtThePrice
  <2>9. lhs[i] <= rhs[i]
    BY <1>14, <2>1, <2>4, <2>8 DEF lambda
  <2> QED BY <2>3, <2>5, <2>9
<1>16. Sum(lhs) = Sum(offp) + Sum(dear)
  <2>1. \A i \in S : offp[i] \in Int /\ dear[i] \in Int /\ lhs[i] = offp[i] + dear[i]
    BY <1>10, <1>14, <1>15
  <2> QED BY <1>1, <2>1, SumOfSums
<1>17. Sum(rhs) = Sum(offq) + Sum(paid)
  <2>1. \A i \in S : offq[i] \in Int /\ paid[i] \in Int /\ rhs[i] = offq[i] + paid[i]
    BY <1>10, <1>14, <1>15
  <2> QED BY <1>1, <2>1, SumOfSums
<1>18. Sum(lhs) <= Sum(rhs)
  <2>1. \A i \in S : lhs[i] \in Int /\ rhs[i] \in Int /\ lhs[i] <= rhs[i]
    BY <1>15
  <2> QED BY <1>1, <2>1, SumIsMonotonic
<1>19. Sum(paid) = lambda * Sum(x)
  <2>1. \A i \in S : x[i] \in Int /\ paid[i] = lambda * x[i]
    BY <1>10, <1>13
  <2> QED BY <1>1, <1>12, <2>1, SumOfMultiples
<1>20. Sum(dear) = lambda * Sum(d)
  <2>1. \A i \in S : d[i] \in Int /\ dear[i] = lambda * d[i]
    BY <1>10, <1>13
  <2> QED BY <1>1, <1>12, <2>1, SumOfMultiples
<1>21. Sum(d) = Sum(x)
  <2>1. \A i \in S : d[i] \in Int /\ b[i] \in Int /\ sq[i] = d[i] + b[i]
    BY <1>13
  <2>2. Sum(sq) = Sum(d) + Sum(b)
    BY <1>1, <2>1, SumOfSums
  <2>3. \A i \in S : q[i] \in Int /\ sq[i] = Sign(a) * q[i]
    BY <1>10, <1>13
  <2>4. Sum(sq) = Sign(a) * Sum(q)
    <3>1. Sign(a) \in Int
      BY <1>7
    <3> QED BY <1>1, <2>3, <3>1, SumOfMultiples
  <2>5. q \in [S -> Int] /\ b \in [S -> Int]
    BY <1>3 DEF S
  <2>6. SumFunction(q) = Sum(q)
    BY <1>1, <2>5, SumsToInt
  <2>7. SumFunction(b) = Sum(b) /\ SumFunction(b) \in Int
    BY <1>1, <2>5, SumsToInt
  <2>8. Sum(d) \in Int
    BY <1>1, <2>1, SumIsInt
  <2>9. Sum(sq) = Abs(a)
    BY <1>7, <2>4, <2>6
  <2>10. m \in Int
    BY <1>3
  <2> QED BY <1>6, <2>2, <2>7, <2>8, <2>9, <2>10
<1>22. Sum(offp) \in Int /\ Sum(offq) \in Int /\ Sum(paid) \in Int
  <2>1. \A i \in S : offp[i] \in Int /\ offq[i] \in Int /\ paid[i] \in Int
    BY <1>14, <1>15
  <2> QED BY <1>1, <2>1, SumIsInt
<1>23. SumFunction(offp) = Sum(offp) /\ SumFunction(offq) = Sum(offq)
  <2>1. offp \in [S -> Int] /\ offq \in [S -> Int]
    BY <1>11, <1>14
  <2> QED BY <1>1, <2>1, SumsToInt
<1>24. Sum(dear) = Sum(paid)
  BY <1>19, <1>20, <1>21
<1>25. Sum(offp) <= Sum(offq)
  BY <1>16, <1>17, <1>18, <1>22, <1>24
<1> QED BY <1>23, <1>25 DEF offp, offq, p

(* Of two equal weights the first gets no less.                            *)
LEMMA FirstGetsNoLess ==
    ASSUME NEW N \in Nat, NEW w, GoodWeights(N, w), NEW a \in Int,
           NEW i \in 1 .. N, NEW j \in 1 .. N, i < j, w[i] = w[j]
    PROVE  Abs(Allocate(a, w)[i]) >= Abs(Allocate(a, w)[j])
<1> DEFINE b == Base(a, w)
           x == Extra(a, w)
           f == Fraction(a, w)
           m == Left(a, w)
<1>1. DOMAIN w = 1 .. N /\ b \in [1 .. N -> Nat] /\ f \in [1 .. N -> Nat] /\ m \in 0 .. N - 1
  BY SplitTerms
<1>2. b[i] = b[j] /\ f[i] = f[j]
  BY <1>1 DEF Base, Fraction, Exact
<1>3. \A k \in 1 .. N : x[k] = IF Ranked(f, k) < m THEN 1 ELSE 0
  BY SplitTerms
<1>4. Allocate(a, w) = [k \in DOMAIN w |-> Sign(a) * (b[k] + x[k])]
  BY AllocateIs
<1> HIDE DEF b, x, f, m
<1>5. Ranked(f, i) < Ranked(f, j) /\ Ranked(f, i) \in Int /\ Ranked(f, j) \in Int
  <2>1. f \in [1 .. N -> Int]
    BY <1>1
  <2>2. Before(f, i, j)
    BY <1>2 DEF Before
  <2> QED BY <2>1, <2>2, RanksAreOrdered
<1>6. x[i] \in {0, 1} /\ x[j] \in {0, 1} /\ x[i] >= x[j]
  BY <1>1, <1>3, <1>5
<1>7. Sign(a) = 1 \/ Sign(a) = -1
  BY DEF Sign
<1>8. \A n \in Nat : Abs(Sign(a) * n) = n
  BY <1>7 DEF Abs
<1>9. b[i] \in Nat /\ b[i] + x[i] \in Nat /\ b[j] + x[j] \in Nat
  BY <1>1, <1>6
<1>10. /\ Allocate(a, w)[i] = Sign(a) * (b[i] + x[i])
       /\ Allocate(a, w)[j] = Sign(a) * (b[j] + x[j])
  BY <1>1, <1>4
<1>11. b[i] + x[i] >= b[j] + x[j]
  BY <1>2, <1>6, <1>9
<1> QED BY <1>8, <1>9, <1>10, <1>11

(* What is known of the split: it is not answered yet, or answered by what *)
(* Allocate makes of its amount and weights.                               *)
SplitInv ==
    /\ split.amount \in Int /\ split.weights \in Weights
    /\ split.parts \in {{}, {Allocate(split.amount, split.weights)}}

LEMMA WeightsAreGood ==
    ASSUME NEW w \in Weights
    PROVE  Heads \in Nat /\ GoodWeights(Heads, w)
BY TreasuryConstants DEF Weights, GoodWeights

LEMMA SplitsStart == TreasuryInit => SplitInv
<1> SUFFICES ASSUME TreasuryInit PROVE SplitInv
  OBVIOUS
<1>1. CASE part = "split"
  <2>1. PICK n \in -MaxSplit .. MaxSplit, w \in Weights : split = SplitCall(n, w, {})
    BY <1>1 DEF TreasuryInit
  <2>2. split.amount = n /\ split.weights = w /\ split.parts = {}
    BY <2>1 DEF SplitCall
  <2>3. n \in Int
    OBVIOUS
  <2> QED BY <2>2, <2>3 DEF SplitInv
<1>2. CASE part # "split"
  <2>1. split = SplitCall(1, [i \in 1 .. Heads |-> 1], {})
    BY <1>2 DEF TreasuryInit, EvenSplit
  <2>2. /\ split.amount = 1 /\ split.weights = [i \in 1 .. Heads |-> 1]
        /\ split.parts = {}
    BY <2>1 DEF SplitCall
  <2>3. [i \in 1 .. Heads |-> 1] \in Weights
    BY TreasuryConstants DEF Weights
  <2> QED BY <2>2, <2>3 DEF SplitInv
<1> QED BY <1>1, <1>2

LEMMA SplitsKept == SplitInv /\ [TreasuryNext]_treasuryVars => SplitInv'
<1> SUFFICES ASSUME SplitInv, [TreasuryNext]_treasuryVars PROVE SplitInv'
  OBVIOUS
<1>1. CASE Divide
  <2>1. /\ split'.amount = split.amount /\ split'.weights = split.weights
        /\ split'.parts = {Allocate(split.amount, split.weights)}
    BY <1>1 DEF Divide, SplitCall
  <2> QED BY <2>1 DEF SplitInv, Weights
<1>2. CASE split' = split
  BY <1>2 DEF SplitInv, Weights
<1> QED BY <1>1, <1>2 DEF TreasuryNext, treasuryVars

(* The split of an amount, fx.py:47-73, for any amounts, weights and       *)
(* number of parts: what Allocate answers adds up to the amount, no other  *)
(* division of it is nearer to the exact shares, and equal weights differ  *)
(* by their order only.                                                    *)
THEOREM SplitsAreExact == TreasurySpec => []SplitIsExact
<1>1. SplitInv => SplitIsExact
  <2> SUFFICES ASSUME SplitInv, NEW parts \in split.parts
               PROVE  /\ SumFunction(parts) = split.amount
                      /\ \A other \in Divisions : Distance(parts) <= Distance(other)
                      /\ \A i, j \in 1 .. Heads :
                            i < j /\ split.weights[i] = split.weights[j]
                                => Abs(parts[i]) >= Abs(parts[j])
    BY DEF SplitIsExact
  <2> DEFINE a == split.amount
             w == split.weights
  <2>1. a \in Int /\ w \in Weights /\ parts = Allocate(a, w)
    BY DEF SplitInv
  <2>2. Heads \in Nat /\ GoodWeights(Heads, w)
    BY <2>1, WeightsAreGood
  <2>3. \A p : Distance(p) = SumFunction(Off(p, a, w))
    BY DEF Distance, Off
  <2> HIDE DEF a, w
  <2>4. SumFunction(parts) = a
    BY <2>1, <2>2, PartsAddUp
  <2>5. ASSUME NEW other \in Divisions PROVE Distance(parts) <= Distance(other)
    <3>1. other \in [1 .. Heads -> Int] /\ SumFunction(other) = a
      BY DEF Divisions, a
    <3>2. SumFunction(Off(parts, a, w)) <= SumFunction(Off(other, a, w))
      BY <2>1, <2>2, <3>1, NoneIsNearer
    <3> QED BY <2>3, <3>2
  <2>6. \A i, j \in 1 .. Heads : i < j /\ w[i] = w[j] => Abs(parts[i]) >= Abs(parts[j])
    BY <2>1, <2>2, FirstGetsNoLess
  <2> QED BY <2>4, <2>5, <2>6 DEF a, w
<1> QED BY SplitsStart, SplitsKept, <1>1, PTL DEF TreasurySpec

-----------------------------------------------------------------------------
(* The composition.                                                        *)

LEMMA StepsOfTheParts ==
    ASSUME [TreasuryNext]_treasuryVars
    PROVE  [RatesNext]_rateVars /\ [FxNext]_fxVars /\ [SchemeNext]_schemeVars
<1>1. CASE /\ part = "rates" /\ RatesNext
           /\ UNCHANGED <<part, split, fxVars, schemeVars>>
  BY <1>1
<1>2. CASE part = "fx" /\ FxNext /\ UNCHANGED <<part, split, rateVars, schemeVars>>
  BY <1>2
<1>3. CASE /\ part = "schemes" /\ SchemeNext
           /\ UNCHANGED <<part, split, rateVars, fxVars>>
  BY <1>3
<1>4. CASE part = "split" /\ Divide /\ UNCHANGED <<part, rateVars, fxVars, schemeVars>>
  BY <1>4
<1>5. CASE UNCHANGED treasuryVars
  BY <1>5 DEF treasuryVars
<1> QED BY <1>1, <1>2, <1>3, <1>4, <1>5 DEF TreasuryNext

(* Each behaviour of the composition is one of every part: what is proved  *)
(* of the store of rates.py, the revaluation and the scheme rules holds of *)
(* the behaviours that the run of module MCTreasury explores.              *)
THEOREM PartsImplemented == TreasurySpec => RatesSpec /\ FxSpec /\ SchemeSpec
<1>1. TreasuryInit => RatesInit /\ FxInit /\ SchemeInit
  BY DEF TreasuryInit
<1>2. [TreasuryNext]_treasuryVars
          => [RatesNext]_rateVars /\ [FxNext]_fxVars /\ [SchemeNext]_schemeVars
  BY StepsOfTheParts
<1> QED BY <1>1, <1>2, PTL DEF TreasurySpec, RatesSpec, FxSpec, SchemeSpec

(* Every variable of the composition keeps its type: the lock of a store   *)
(* (rates.py:105-156), a revaluation's step, an authorization's fields.    *)
THEOREM TreasuryTypes == TreasurySpec => []TypesOK
<1>1. RateTypeOK /\ (FxTypeOK /\ FxBooksMatch) /\ SchemeTypeOK => TypesOK
  BY DEF TypesOK
<1> QED BY <1>1, PartsImplemented, RatesTyped, BooksMatch, SchemesTyped, PTL
=============================================================================
