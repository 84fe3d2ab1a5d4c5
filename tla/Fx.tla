---------------------------------- MODULE Fx ----------------------------------
(***************************************************************************)
(* A book in two currencies: the conversions of src/ledger/fx.py, the      *)
(* revaluation of src/ledger/maintenance.py and the consolidation of       *)
(* src/ledger/reporting.py.                                                *)
(*                                                                         *)
(* Each currency has the accounts of the customers and the FX position;    *)
(* the home (reporting) currency has fx:gain_loss and fx:unrealised_pnl    *)
(* too.  Balances are signed, debits positive.  A posting is one step of   *)
(* the ledger (module Ledger).                                             *)
(***************************************************************************)
EXTENDS Money

CONSTANTS
    Customers,
    KindOf,        \* the kind of each account in the foreign currency
    FxJobs,        \* processes that revalue the position
    FxRates,       \* the rates in use
    MaxAmount,     \* bound: what one conversion converts
    MaxPostings    \* bound: transactions posted

ForeignAccounts == Customers \cup {"position"}
HomeAccounts == Customers \cup {"position", "gain_loss", "unrealised"}

BalanceSheet == {"asset", "liability", "equity"}
IncomeStatement == {"revenue", "expense"}

ASSUME FxConstants ==
    /\ IsFiniteSet(Customers) /\ IsFiniteSet(FxJobs)
    /\ Customers \cap {"position", "gain_loss", "unrealised"} = {}
    /\ KindOf \in [ForeignAccounts -> BalanceSheet \cup IncomeStatement]
    /\ FxRates \subseteq [num : Nat \ {0}, den : Nat \ {0}]
    /\ MaxAmount \in Nat /\ MaxPostings \in Nat

VARIABLES
    foreign,     \* balances in the foreign currency
    home,        \* balances in the home currency
    fxJob,       \* each job: [pc, delta], delta the unrealised_minor of the result it holds
    postings,    \* how many transactions were posted
    bookedValue, \* history: the home value the conversions were booked at
    followed     \* history: no result was struck beside another, lost or reversed again

fxVars == <<foreign, home, fxJob, postings, bookedValue, followed>>

JobAt(pc, delta) == [pc |-> pc, delta |-> delta]

FxTypeOK ==
    /\ foreign \in [ForeignAccounts -> Int]
    /\ home \in [HomeAccounts -> Int]
    /\ fxJob \in [FxJobs -> [pc : {"idle", "post", "struck", "reversed"}, delta : Int]]
    /\ postings \in 0 .. MaxPostings
    /\ bookedValue \in Int
    /\ followed \in BOOLEAN

FxInit ==
    /\ foreign = [a \in ForeignAccounts |-> 0]
    /\ home = [a \in HomeAccounts |-> 0]
    /\ fxJob = [j \in FxJobs |-> JobAt("idle", 0)]
    /\ postings = 0
    /\ bookedValue = 0
    /\ followed = TRUE

Counted == postings < MaxPostings /\ postings' = postings + 1

-----------------------------------------------------------------------------
(* conversion_entries, posted.  Entries must be positive: an amount that   *)
(* converts to nothing is refused.                                         *)

(* A customer sells foreign currency.  What the rate gives over the        *)
(* booking value is a gain, booked against the position.                   *)
Sell(c, amount, rate, booking) ==
    LET converted == Convert(amount, rate)
        gain      == converted - booking
    IN  /\ Counted
        /\ amount > 0 /\ converted > 0
        /\ foreign' = [foreign EXCEPT ![c] = @ - amount, !["position"] = @ + amount]
        /\ home' = [home EXCEPT ![c] = @ + converted,
                                !["position"] = @ - converted + gain,
                                !["gain_loss"] = @ - gain]
        /\ bookedValue' = bookedValue + booking
        /\ UNCHANGED <<fxJob, followed>>

(* A customer buys foreign currency with home currency.  A gain or loss    *)
(* would be an entry in the foreign currency on fx:gain_loss, an account   *)
(* of the home currency: the trigger on entry currencies refuses the whole *)
(* posting, so only conversions at the booking value go through.           *)
Buy(c, amount, rate) ==
    LET converted == Convert(amount, rate)
    IN  /\ Counted
        /\ amount > 0 /\ converted > 0
        /\ home' = [home EXCEPT ![c] = @ - amount, !["position"] = @ + amount]
        /\ foreign' = [foreign EXCEPT ![c] = @ + converted, !["position"] = @ - converted]
        /\ bookedValue' = bookedValue - amount
        /\ UNCHANGED <<fxJob, followed>>

-----------------------------------------------------------------------------
(* Revaluation.                                                            *)

JobBecomes(j, job) == fxJob' = [fxJob EXCEPT ![j] = job]

(* A result that is in the books and that somebody still holds. *)
Standing(j) == fxJob[j].pc = "struck"

(* revalue_fx_position reads the position and values it, outside any       *)
(* transaction.  With no position or no difference there is nothing to     *)
(* post, nor to reverse.  A caller that holds a result already and keeps   *)
(* it is two jobs, one that drops it is JobDies first.                     *)
ReadPosition(j, booked, current) ==
    LET position == foreign["position"]
        delta    == Convert(position, current) - Convert(position, booked)
    IN  /\ fxJob[j].pc \in {"idle", "reversed"}
        /\ position # 0 /\ delta # 0
        /\ JobBecomes(j, JobAt("post", delta))
        /\ UNCHANGED <<foreign, home, postings, bookedValue, followed>>

(* What striking a result does to the home book. *)
WithUnrealised(delta) ==
    [home EXCEPT !["unrealised"] = @ + delta, !["gain_loss"] = @ - delta]

Strike(j) ==
    /\ fxJob[j].pc = "post"
    /\ Counted
    /\ home' = WithUnrealised(fxJob[j].delta)
    /\ JobBecomes(j, JobAt("struck", fxJob[j].delta))
    /\ followed' = (followed /\ \A k \in FxJobs : ~Standing(k))
    /\ UNCHANGED <<foreign, bookedValue>>

(* Slip: the reversal posts the same sides. *)
ReverseSameSide(j) ==
    /\ fxJob[j].pc \in {"struck", "reversed"}
    /\ Counted
    /\ home' = WithUnrealised(fxJob[j].delta)
    /\ JobBecomes(j, JobAt("reversed", fxJob[j].delta))
    /\ followed' = (followed /\ Standing(j))
    /\ UNCHANGED <<foreign, bookedValue>>

(* reverse_revaluation looks at its argument and at nothing else: a result *)
(* can be reversed again.                                                  *)
Reverse(j) ==
    /\ fxJob[j].pc \in {"struck", "reversed"}
    /\ Counted
    /\ home' = WithUnrealised(-fxJob[j].delta)
    /\ JobBecomes(j, JobAt("reversed", fxJob[j].delta))
    /\ followed' = (followed /\ Standing(j))
    /\ UNCHANGED <<foreign, bookedValue>>

(* The posting raises, the process dies, or the caller drops what it was   *)
(* given: the result is in no table, so what was struck can no longer be   *)
(* reversed.                                                               *)
JobDies(j) ==
    /\ fxJob[j].pc # "idle"
    /\ JobBecomes(j, JobAt("idle", 0))
    /\ followed' = (followed /\ ~Standing(j))
    /\ UNCHANGED <<foreign, home, postings, bookedValue>>

FxNext ==
    \/ \E c \in Customers, n \in 1 .. MaxAmount, r \in FxRates :
          \/ Buy(c, n, r)
          \/ \E booked \in FxRates : Sell(c, n, r, Convert(n, booked))
    \/ \E j \in FxJobs :
          \/ \E booked, current \in FxRates : ReadPosition(j, booked, current)
          \/ Strike(j) \/ Reverse(j) \/ JobDies(j)

FxSpec == FxInit /\ [][FxNext]_fxVars

-----------------------------------------------------------------------------
(* consolidate: what the home book makes of the foreign one.               *)

(* Slip: the two kinds of rate the wrong way round. *)
RateForSwapped(a, closing, average) ==
    IF KindOf[a] \in BalanceSheet THEN average ELSE closing

(* RateSet.rate_for *)
RateFor(a, closing, average) == IF KindOf[a] \in BalanceSheet THEN closing ELSE average

Reported(closing, average) ==
    [a \in ForeignAccounts |-> Convert(foreign[a], RateFor(a, closing, average))]

(* The home accounts are reported at 1. *)
TranslationAdjustment(closing, average) ==
    -(SumFunction(Reported(closing, average)) + SumFunction(home))

-----------------------------------------------------------------------------
(* Properties.                                                             *)

(* Both books are square at every moment, and the home side of the FX      *)
(* position is worth what the conversions were booked at, whatever the     *)
(* rates did since: gains and losses are on fx:gain_loss and neither on    *)
(* the position nor on the customer.  And where the caller followed the    *)
(* protocol (one result at a time, reversed once before the next, none     *)
(* lost), fx:unrealised_pnl is the one movement that stands, or nothing,   *)
(* with any conversions between the job's steps.  Nothing in the code      *)
(* makes the caller follow it: two jobs that strike one movement, or a     *)
(* second reversal, book it twice (maintenance.py:19-20 has it otherwise). *)
FxBooksMatch ==
    /\ SumFunction(foreign) = 0 /\ SumFunction(home) = 0
    /\ home["position"] = -bookedValue
    /\ followed =>
        /\ \A j \in FxJobs : Standing(j) => home["unrealised"] = fxJob[j].delta
        /\ (\A j \in FxJobs : ~Standing(j)) => home["unrealised"] = 0

(* reporting.py:17-22: the cumulative translation adjustment is what the   *)
(* two rates make of the income statement, and nothing else, up to half a  *)
(* unit of rounding for each account.                                      *)
AdjustmentIsRateMovement ==
    \A closing, average \in FxRates :
        LET income == SumFunction([a \in ForeignAccounts |->
                         IF KindOf[a] \in IncomeStatement THEN foreign[a] ELSE 0])
            scale  == closing.den * average.den
            moved  == average.num * closing.den - closing.num * average.den
        IN  2 * Abs(TranslationAdjustment(closing, average) * scale + income * moved)
               <= Cardinality(ForeignAccounts) * scale
=============================================================================
