-------------------------------- MODULE Rates --------------------------------
(***************************************************************************)
(* src/ledger/rates.py: the table fx_rate, shared by several RateStores    *)
(* (processes that publish, fetch and report) through one SQLite file.     *)
(*                                                                         *)
(* A RateStore is one sqlite3 connection in Python's default mode: an      *)
(* INSERT opens a transaction, only commit() ends it, and no path of the   *)
(* code rolls back.  What an exception leaves open therefore stays open    *)
(* into the next call of that store, locks included.                       *)
(*                                                                         *)
(* SQLite's locks are modelled from how the code meets them, with the      *)
(* rollback journal the store leaves at its default: a SELECT takes a      *)
(* shared lock, which it keeps only inside a transaction; an INSERT        *)
(* reserves the file; COMMIT waits for the other readers, and one that     *)
(* gives up stays pending, which keeps new readers out.                    *)
(***************************************************************************)
EXTENDS Naturals, Sequences

CONSTANTS
    Stores,         \* connections, each used by one process
    QuoteDays,      \* quote_date
    Currencies,     \* base; the reporting currency is fixed
    CurrencyLists,  \* the currencies arguments: sequences of currencies
    RateValues      \* the rates callers publish, 0 standing for any below 1

Kinds == {"closing", "average"}

Quotes == [day : QuoteDays, currency : Currencies, kind : Kinds]

ASSUME RateConstants ==
    /\ CurrencyLists \subseteq Seq(Currencies)
    /\ RateValues \subseteq Nat

VARIABLES
    rates,      \* table fx_rate, committed: rows [quote, rate]
    inserted,   \* the rows in each store's open transaction
    inTx,       \* whether the store's connection is in a transaction
    lock,       \* the lock it keeps between its statements
    rateCall,   \* the call each store is in: [pc, todo, file, got, missing]
    given,      \* history: the rates that publish returned or a RateSet held
    lost        \* history: rows whose process died before COMMIT

rateVars == <<rates, inserted, inTx, lock, rateCall, given, lost>>

RateRow == [quote : Quotes, rate : Nat]

RateCallAt(pc, todo, file, got, missing) ==
    [pc |-> pc, todo |-> todo, file |-> file, got |-> got, missing |-> missing]

NoFile == [c \in Currencies |-> 0]

IdleRateCall == RateCallAt("idle", <<>>, NoFile, {}, FALSE)

RateTypeOK ==
    /\ rates \subseteq RateRow
    /\ inserted \in [Stores -> SUBSET RateRow]
    /\ inTx \in [Stores -> BOOLEAN]
    /\ lock \in [Stores -> {"none", "shared", "reserved", "pending"}]
    /\ rateCall \in [Stores ->
          [pc : {"idle", "look", "insert", "commit", "read"}, todo : Seq(Quotes),
           file : [Currencies -> Nat], got : SUBSET RateRow, missing : BOOLEAN]]
    /\ given \subseteq RateRow
    /\ lost \subseteq RateRow

RatesInit ==
    /\ rates = {}
    /\ inserted = [s \in Stores |-> {}]
    /\ inTx = [s \in Stores |-> FALSE]
    /\ lock = [s \in Stores |-> "none"]
    /\ rateCall = [s \in Stores |-> IdleRateCall]
    /\ given = {}
    /\ lost = {}

-----------------------------------------------------------------------------
(* Statements.                                                             *)

Others(s) == Stores \ {s}

(* A SELECT gets its shared lock, or has one, unless another store's       *)
(* COMMIT is pending.                                                      *)
MayRead(s) == lock[s] # "none" \/ \A o \in Others(s) : lock[o] # "pending"

MayReserve(s) == \A o \in Others(s) : lock[o] \notin {"reserved", "pending"}

MayCommit(s) == \A o \in Others(s) : lock[o] = "none"

(* The connection sees its own rows besides the committed ones. *)
Visible(s) == rates \cup inserted[s]

OnQuote(rows, q) == {row \in rows : row.quote = q}

(* The locks that a SELECT and an INSERT leave behind. *)
LockAfterRead(s) ==
    lock' = [lock EXCEPT ![s] = IF inTx[s] /\ @ = "none" THEN "shared" ELSE @]

LockAfterInsert(s) ==
    lock' = [lock EXCEPT ![s] = IF @ = "pending" THEN "pending" ELSE "reserved"]

(* The quotes of a list of currencies: both kinds of each, in order. *)
QuotesOf(day, list) ==
    [i \in 1 .. 2 * Len(list) |->
        [day |-> day, currency |-> list[(i + 1) \div 2],
         kind |-> IF i % 2 = 1 THEN "closing" ELSE "average"]]

-----------------------------------------------------------------------------
(* publish, alone and from fetch_ecb.                                      *)

CallBecomes(s, call) == rateCall' = [rateCall EXCEPT ![s] = call]

(* The call raises. *)
Raise(s) == CallBecomes(s, IdleRateCall)

(* The quote is settled: fetch_ecb goes on to its next. *)
NextQuote(s) ==
    LET call == rateCall[s]
    IN  IF Len(call.todo) = 1
          THEN CallBecomes(s, IdleRateCall)
          ELSE CallBecomes(s, RateCallAt("look", Tail(call.todo), call.file, {}, FALSE))

UnchangedRows == UNCHANGED <<rates, inserted>>
UnchangedHistory == UNCHANGED <<given, lost>>

(* An unknown kind or source, a float or a rate that is not positive       *)
(* raises before anything is read.                                         *)
Publish(s, quote, rate) ==
    /\ rateCall[s].pc = "idle"
    /\ rate > 0
    /\ CallBecomes(s, RateCallAt("look", <<quote>>, [c \in Currencies |-> rate], {}, FALSE))
    /\ UnchangedRows /\ UnchangedHistory /\ UNCHANGED <<inTx, lock>>

(* The file gives one rate per currency, used for both kinds; currencies   *)
(* it does not list are not in the list either.                            *)
FetchEcb(s, day, list, file) ==
    /\ rateCall[s].pc = "idle"
    /\ list # <<>>
    /\ \A c \in Currencies : file[c] > 0
    /\ CallBecomes(s, RateCallAt("look", QuotesOf(day, list), file, {}, FALSE))
    /\ UnchangedRows /\ UnchangedHistory /\ UNCHANGED <<inTx, lock>>

Wanted(s) ==
    LET q == Head(rateCall[s].todo)
    IN  [quote |-> q, rate |-> rateCall[s].file[q.currency]]

(* SELECT rate ... : the quote is new. *)
LookFree(s) ==
    LET call == rateCall[s]
    IN  /\ call.pc = "look" /\ MayRead(s)
        /\ OnQuote(Visible(s), Head(call.todo)) = {}
        /\ LockAfterRead(s)
        /\ CallBecomes(s, RateCallAt("insert", call.todo, call.file, {}, FALSE))
        /\ UnchangedRows /\ UnchangedHistory /\ UNCHANGED inTx

(* It is published at this very rate: the row is returned. *)
LookSame(s) ==
    /\ rateCall[s].pc = "look" /\ MayRead(s)
    /\ Wanted(s) \in Visible(s)
    /\ LockAfterRead(s)
    /\ given' = given \cup {Wanted(s)}
    /\ NextQuote(s)
    /\ UnchangedRows /\ UNCHANGED <<inTx, lost>>

(* At another one: RateImmutable. *)
LookOther(s) ==
    /\ rateCall[s].pc = "look" /\ MayRead(s)
    /\ OnQuote(Visible(s), Head(rateCall[s].todo)) # {}
    /\ Wanted(s) \notin Visible(s)
    /\ LockAfterRead(s)
    /\ Raise(s)
    /\ UnchangedRows /\ UnchangedHistory /\ UNCHANGED inTx

(* Slip: an upsert. *)
InsertOrReplace(s) ==
    LET call == rateCall[s]
        kept == {row \in rates : row.quote # Head(call.todo)}
    IN  /\ call.pc = "insert" /\ MayReserve(s)
        /\ inTx' = [inTx EXCEPT ![s] = TRUE]
        /\ LockAfterInsert(s)
        /\ rates' = kept
        /\ inserted' = [inserted EXCEPT ![s] = @ \cup {Wanted(s)}]
        /\ CallBecomes(s, RateCallAt("commit", call.todo, call.file, {}, FALSE))
        /\ UnchangedHistory

(* Python opens the transaction before the INSERT. *)
Insert(s) ==
    LET call == rateCall[s]
    IN  /\ call.pc = "insert" /\ MayReserve(s)
        /\ OnQuote(rates, Head(call.todo)) = {}
        /\ inTx' = [inTx EXCEPT ![s] = TRUE]
        /\ LockAfterInsert(s)
        /\ inserted' = [inserted EXCEPT ![s] = @ \cup {Wanted(s)}]
        /\ CallBecomes(s, RateCallAt("commit", call.todo, call.file, {}, FALSE))
        /\ UNCHANGED rates /\ UnchangedHistory

(* Slip: the IntegrityError is taken for the rate being there already.     *)
InsertTakenForPublished(s) ==
    /\ rateCall[s].pc = "insert" /\ MayReserve(s)
    /\ OnQuote(rates, Head(rateCall[s].todo)) # {}
    /\ inTx' = [inTx EXCEPT ![s] = TRUE]
    /\ LockAfterInsert(s)
    /\ given' = given \cup {Wanted(s)}
    /\ NextQuote(s)
    /\ UnchangedRows /\ UNCHANGED lost

(* Another store published the quote since the SELECT: IntegrityError.     *)
(* The transaction and its reservation stay.                               *)
InsertTaken(s) ==
    /\ rateCall[s].pc = "insert" /\ MayReserve(s)
    /\ OnQuote(rates, Head(rateCall[s].todo)) # {}
    /\ inTx' = [inTx EXCEPT ![s] = TRUE]
    /\ LockAfterInsert(s)
    /\ Raise(s)
    /\ UnchangedRows /\ UnchangedHistory

(* "database is locked": the transaction stays. *)
InsertBusy(s) ==
    /\ rateCall[s].pc = "insert" /\ ~MayReserve(s)
    /\ inTx' = [inTx EXCEPT ![s] = TRUE]
    /\ Raise(s)
    /\ UnchangedRows /\ UnchangedHistory /\ UNCHANGED lock

(* commit(), of whatever the transaction has gathered. *)
CommitRates(s) ==
    /\ rateCall[s].pc = "commit" /\ MayCommit(s)
    /\ rates' = rates \cup inserted[s]
    /\ inserted' = [inserted EXCEPT ![s] = {}]
    /\ inTx' = [inTx EXCEPT ![s] = FALSE]
    /\ lock' = [lock EXCEPT ![s] = "none"]
    /\ given' = given \cup {Wanted(s)}
    /\ NextQuote(s)
    /\ UNCHANGED lost

CommitBusy(s) ==
    /\ rateCall[s].pc = "commit" /\ ~MayCommit(s)
    /\ lock' = [lock EXCEPT ![s] = "pending"]
    /\ Raise(s)
    /\ UnchangedRows /\ UnchangedHistory /\ UNCHANGED inTx

-----------------------------------------------------------------------------
(* rate_set: one get after the other.                                      *)

StartRateSet(s, day, list) ==
    /\ rateCall[s].pc = "idle"
    /\ list # <<>>
    /\ CallBecomes(s, RateCallAt("read", QuotesOf(day, list), NoFile, {}, FALSE))
    /\ UnchangedRows /\ UnchangedHistory /\ UNCHANGED <<inTx, lock>>

(* The last get decides: with every rate there, the RateSet is handed out; *)
(* with one missing, RateNotFound.                                         *)
ReadRate(s) ==
    LET call  == rateCall[s]
        found == OnQuote(Visible(s), Head(call.todo))
        got   == call.got \cup found
        missing == call.missing \/ found = {}
    IN  /\ call.pc = "read" /\ MayRead(s)
        /\ LockAfterRead(s)
        /\ IF Len(call.todo) > 1
             THEN /\ CallBecomes(s, RateCallAt("read", Tail(call.todo), NoFile, got, missing))
                  /\ UNCHANGED given
             ELSE /\ Raise(s)
                  /\ given' = IF missing THEN given ELSE given \cup got
        /\ UnchangedRows /\ UNCHANGED <<inTx, lost>>

ReadBusy(s) ==
    /\ rateCall[s].pc \in {"look", "read"} /\ ~MayRead(s)
    /\ Raise(s)
    /\ UnchangedRows /\ UnchangedHistory /\ UNCHANGED <<inTx, lock>>

-----------------------------------------------------------------------------
(* The process dies, or closes its connection: SQLite rolls back.          *)
StoreDies(s) ==
    /\ inserted' = [inserted EXCEPT ![s] = {}]
    /\ inTx' = [inTx EXCEPT ![s] = FALSE]
    /\ lock' = [lock EXCEPT ![s] = "none"]
    /\ Raise(s)
    /\ lost' = lost \cup inserted[s]
    /\ UNCHANGED <<rates, given>>

RatesNext ==
    \E s \in Stores :
       \/ \E q \in Quotes, r \in RateValues : Publish(s, q, r)
       \/ \E d \in QuoteDays, list \in CurrencyLists, file \in [Currencies -> RateValues] :
             FetchEcb(s, d, list, file)
       \/ \E d \in QuoteDays, list \in CurrencyLists : StartRateSet(s, d, list)
       \/ LookFree(s) \/ LookSame(s) \/ LookOther(s)
       \/ Insert(s) \/ InsertTaken(s) \/ InsertBusy(s)
       \/ CommitRates(s) \/ CommitBusy(s)
       \/ ReadRate(s) \/ ReadBusy(s)
       \/ StoreDies(s)

RatesSpec == RatesInit /\ [][RatesNext]_rateVars

-----------------------------------------------------------------------------
(* Properties.                                                             *)

(* rates.py:14-17, "IMMUTABLE ONCE PUBLISHED": whatever publishers race,   *)
(* what is committed stays, and no quote gets a second rate.               *)
RatesImmutable ==
    [][/\ rates \subseteq rates'
       /\ \A row \in rates : OnQuote(rates', row.quote) = {row}]_rateVars

(* A rate that publish returned or a RateSet held is on record for good,   *)
(* or is still in the transaction of a living store, or its process died   *)
(* with it: a set read rate by rate between other stores' commits mixes    *)
(* nothing that was ever taken back otherwise.                             *)
GivenRatesStand ==
    \A row \in given :
        \/ OnQuote(rates, row.quote) = {row}
        \/ \E s \in Stores : row \in inserted[s]
        \/ row \in lost
=============================================================================
