------------------------------ MODULE Payments ------------------------------
(***************************************************************************)
(* src/ledger/payments.py, src/ledger/adjustments.py and the expiry job of *)
(* src/ledger/maintenance.py: the payment table beside the amounts its     *)
(* postings booked.                                                        *)
(*                                                                         *)
(* A call runs inside one BEGIN IMMEDIATE transaction, its read of the     *)
(* payment row included, so it is one step (module Ledger has the steps,   *)
(* and shows that a retry under an idempotency key takes effect once).     *)
(* The expiry job is not: it reads the table once, outside a transaction,  *)
(* and then expires row by row what it read.                               *)
(*                                                                         *)
(* booked[p] is what the entries posted for payment p add up to on each    *)
(* account, holds:pending_settlement and holds:auth_receivable as one      *)
(* (every posting moves them by the same amount).                          *)
(***************************************************************************)
EXTENDS Integers

CONSTANTS
    Payments,   \* payment ids
    Jobs,       \* processes that may run expire_authorizations
    MaxAmount   \* bound: the amount an authorization may grow to

ASSUME ConstantsAssumption == MaxAmount \in Nat

VARIABLES
    payment,    \* table payment, with the state "none" for no row
    booked,     \* history: what the journal holds for each payment
    job,        \* each job: the rows it read, and those still to be expired
    outdated    \* history: the payments a job expired from a row that had changed since

vars == <<payment, booked, job, outdated>>

States == {"none", "authorized", "partially_captured", "captured", "voided",
           "partially_refunded", "refunded", "expired"}

(* ALLOWED: what an action may make of a state. *)
Allowed(state, action) ==
    CASE state \in {"authorized", "partially_captured"} /\ action = "capture"
            -> {"partially_captured", "captured"}
      [] state = "authorized" /\ action = "void" -> {"voided"}
      [] state \in {"captured", "partially_captured", "partially_refunded"} /\ action = "refund"
            -> {"partially_refunded", "refunded"}
      [] OTHER -> {}

(* _guard looks the pair up and leaves the outcome to its caller. *)
Guard(p, action) == Allowed(payment[p].state, action) # {}

Row(state, authorized, captured, refunded, fee) ==
    [state |-> state, authorized |-> authorized, captured |-> captured,
     refunded |-> refunded, fee |-> fee]

NoRow == Row("none", 0, 0, 0, 0)

Books(hold, network, payable, fees) ==
    [hold |-> hold, network |-> network, payable |-> payable, fees |-> fees]

PaymentRow == [state : States, authorized : Nat, captured : Nat, refunded : Nat, fee : Nat]

IdleJob == [todo |-> {}, seen |-> [p \in Payments |-> NoRow]]

TypeOK ==
    /\ payment \in [Payments -> PaymentRow]
    /\ booked \in [Payments -> [hold : Int, network : Int, payable : Int, fees : Int]]
    /\ job \in [Jobs -> [todo : SUBSET Payments, seen : [Payments -> PaymentRow]]]
    /\ outdated \subseteq Payments

Init ==
    /\ payment = [p \in Payments |-> NoRow]
    /\ booked = [p \in Payments |-> Books(0, 0, 0, 0)]
    /\ job = [j \in Jobs |-> IdleJob]
    /\ outdated = {}

Remaining(row) == row.authorized - row.captured

Open(row) == row.state \in {"authorized", "partially_captured"}

(* Slip: the share is rounded up. *)
FeeBackRoundedUp(row, amount) == (row.fee * amount + row.captured - 1) \div row.captured

(* The share of the fee a refund gives back. *)
FeeBack(row, amount) == (row.fee * amount) \div row.captured

Written(p, row, books) ==
    /\ payment' = [payment EXCEPT ![p] = row]
    /\ booked' = [booked EXCEPT ![p] = books]

-----------------------------------------------------------------------------
(* The calls.  One whose guard fails raises and changes nothing, and so    *)
(* does one whose posting fails.  An entry's amount must be positive: a    *)
(* fee that takes the whole amount leaves no entry for the merchant.       *)

Authorize(p, amount) ==
    /\ payment[p].state = "none"
    /\ amount > 0
    /\ Written(p, Row("authorized", amount, 0, 0, 0), Books(amount, 0, 0, 0))

(* Slip: any capture closes the authorization. *)
CaptureCloses(p, amount, fee) ==
    LET row == payment[p]
        b   == booked[p]
    IN  /\ Guard(p, "capture")
        /\ 0 < amount /\ amount <= Remaining(row)
        /\ 0 <= fee /\ fee < amount
        /\ Written(p,
              Row("captured", row.authorized, row.captured + amount, row.refunded, row.fee + fee),
              Books(b.hold - amount, b.network + amount,
                    b.payable + (amount - fee), b.fees + fee))

(* Slip: the fee may be all of the amount, as payments.py:168 alone says.  *)
CaptureAllAsFee(p, amount, fee) ==
    LET row == payment[p]
        b   == booked[p]
        captured == row.captured + amount
    IN  /\ Guard(p, "capture")
        /\ 0 < amount /\ amount <= Remaining(row)
        /\ 0 <= fee /\ fee <= amount
        /\ Written(p,
              Row(IF captured = row.authorized THEN "captured" ELSE "partially_captured",
                  row.authorized, captured, row.refunded, row.fee + fee),
              Books(b.hold - amount, b.network + amount,
                    b.payable + (amount - fee), b.fees + fee))

Capture(p, amount, fee) ==
    LET row == payment[p]
        b   == booked[p]
        captured == row.captured + amount
    IN  /\ Guard(p, "capture")
        /\ 0 < amount /\ amount <= Remaining(row)
        /\ 0 <= fee /\ fee < amount
        /\ Written(p,
              Row(IF captured = row.authorized THEN "captured" ELSE "partially_captured",
                  row.authorized, captured, row.refunded, row.fee + fee),
              Books(b.hold - amount, b.network + amount,
                    b.payable + (amount - fee), b.fees + fee))

Void(p) ==
    LET row == payment[p]
        b   == booked[p]
    IN  /\ Guard(p, "void")
        /\ Written(p,
              Row("voided", row.authorized, row.captured, row.refunded, row.fee),
              Books(b.hold - Remaining(row), b.network, b.payable, b.fees))

Refund(p, amount, refundFee) ==
    LET row == payment[p]
        b   == booked[p]
        feeBack  == IF refundFee THEN FeeBack(row, amount) ELSE 0
        refunded == row.refunded + amount
    IN  /\ Guard(p, "refund")
        /\ 0 < amount /\ amount <= row.captured - row.refunded
        /\ feeBack < amount
        /\ Written(p,
              Row(IF refunded = row.captured THEN "refunded" ELSE "partially_refunded",
                  row.authorized, row.captured, refunded, row.fee),
              Books(b.hold, b.network - amount,
                    b.payable - (amount - feeBack), b.fees - feeBack))

(* Slip: a decrement of any size. *)
AdjustUnguarded(p, delta) ==
    LET row == payment[p]
        b   == booked[p]
    IN  /\ delta # 0
        /\ Guard(p, "capture")
        /\ Written(p,
              Row(row.state, row.authorized + delta, row.captured, row.refunded, row.fee),
              Books(b.hold + delta, b.network, b.payable, b.fees))

Adjust(p, delta) ==
    LET row == payment[p]
        b   == booked[p]
        after == row.authorized + delta
    IN  /\ delta # 0
        /\ Guard(p, "capture")
        /\ after > 0 /\ after >= row.captured
        /\ Written(p,
              Row(row.state, after, row.captured, row.refunded, row.fee),
              Books(b.hold + delta, b.network, b.payable, b.fees))

Call(p) ==
    /\ UNCHANGED <<job, outdated>>
    /\ \/ \E n \in 1 .. MaxAmount : Authorize(p, n)
       \/ \E n \in 1 .. MaxAmount : \E fee \in 0 .. MaxAmount : Capture(p, n, fee)
       \/ Void(p)
       \/ \E n \in 1 .. MaxAmount : \E refundFee \in BOOLEAN : Refund(p, n, refundFee)
       \/ \E delta \in -MaxAmount .. MaxAmount :
             payment[p].authorized + delta <= MaxAmount /\ Adjust(p, delta)

-----------------------------------------------------------------------------
(* expire_authorizations.                                                  *)

(* Slip: whatever has something left to capture is taken for open. *)
StartFromRemainders(j) ==
    /\ job[j].todo = {}
    /\ \E stale \in SUBSET {p \in Payments : Remaining(payment[p]) > 0} :
          /\ stale # {}
          /\ job' = [job EXCEPT ![j] =
                [todo |-> stale,
                 seen |-> [p \in Payments |-> IF p \in stale THEN payment[p] ELSE NoRow]]]
    /\ UNCHANGED <<payment, booked, outdated>>

(* The rows old enough are those the clock makes so: any of the open ones. *)
StartExpiry(j) ==
    /\ job[j].todo = {}
    /\ \E stale \in SUBSET {p \in Payments : Open(payment[p]) /\ Remaining(payment[p]) > 0} :
          /\ stale # {}
          /\ job' = [job EXCEPT ![j] =
                [todo |-> stale,
                 seen |-> [p \in Payments |-> IF p \in stale THEN payment[p] ELSE NoRow]]]
    /\ UNCHANGED <<payment, booked, outdated>>

JobWithout(work, p) ==
    [todo |-> work.todo \ {p}, seen |-> [work.seen EXCEPT ![p] = NoRow]]

(* Slip: the whole authorization is released, captured or not. *)
ExpireWhole(j, p) ==
    LET row == payment[p]
        b   == booked[p]
    IN  /\ p \in job[j].todo
        /\ Written(p,
              Row("expired", row.authorized, row.captured, row.refunded, row.fee),
              Books(b.hold - job[j].seen[p].authorized, b.network, b.payable, b.fees))
        /\ job' = [job EXCEPT ![j] = JobWithout(@, p)]
        /\ outdated' = IF job[j].seen[p] = row THEN outdated ELSE outdated \cup {p}

(* One transaction per row: release what the row that was read had left to *)
(* capture, and set the state whatever it is by now.                       *)
Expire(j, p) ==
    LET row == payment[p]
        b   == booked[p]
    IN  /\ p \in job[j].todo
        /\ Written(p,
              Row("expired", row.authorized, row.captured, row.refunded, row.fee),
              Books(b.hold - Remaining(job[j].seen[p]), b.network, b.payable, b.fees))
        /\ job' = [job EXCEPT ![j] = JobWithout(@, p)]
        /\ outdated' = IF job[j].seen[p] = row THEN outdated ELSE outdated \cup {p}

(* A posting raises (the lock, a closed month) or the process dies: the    *)
(* rows not yet expired are left for another run.                          *)
ExpiryFails(j) ==
    /\ job[j].todo # {}
    /\ job' = [job EXCEPT ![j] = IdleJob]
    /\ UNCHANGED <<payment, booked, outdated>>

Next ==
    \/ \E p \in Payments : Call(p)
    \/ \E j \in Jobs :
          StartExpiry(j) \/ ExpiryFails(j) \/ (\E p \in Payments : Expire(j, p))

Spec == Init /\ [][Next]_vars

-----------------------------------------------------------------------------
(* Properties.                                                             *)

(* "Held funds are not moved funds": what the books hold for a payment is  *)
(* what it may still capture, and nothing once it is voided or expired --  *)
(* unless a job expired it from a row that a call or another job had       *)
(* changed since the job read it.                                          *)
HoldsMatch ==
    \A p \in Payments \ outdated :
        booked[p].hold =
            IF payment[p].state \in {"voided", "expired"} THEN 0 ELSE Remaining(payment[p])

(* Whatever calls and jobs interleave: the network owes what was captured  *)
(* and not refunded, no more is refunded than was captured nor captured    *)
(* than authorized, merchant and fee share what the network owes, and      *)
(* rounding the fee down on every partial refund never gives back more of  *)
(* it than was earned.                                                     *)
MoneyMatches ==
    \A p \in Payments :
        LET row == payment[p]
            b   == booked[p]
        IN  /\ b.network = row.captured - row.refunded
            /\ b.payable + b.fees = b.network
            /\ row.refunded <= row.captured /\ row.captured <= row.authorized
            /\ 0 <= b.fees /\ b.fees <= row.fee

(* A refund within the refundable amount never fails for want of an entry  *)
(* for the merchant, with or without its fee.                              *)
RefundsCanPost ==
    \A p \in Payments :
        Guard(p, "refund") =>
            \A n \in 1 .. payment[p].captured - payment[p].refunded :
                FeeBack(payment[p], n) < n

LegalChange(p) ==
    LET old == payment[p].state
        new == payment'[p].state
    IN  \/ new = old
        \/ old = "none" /\ new = "authorized"
        \/ \E action \in {"capture", "void", "refund"} : new \in Allowed(old, action)
        \/ Open(payment[p]) /\ new = "expired"

(* payments.py:44-46, "anything not listed here is unreachable": a state   *)
(* changes along the table, or from an open state to "expired".            *)
LegalTransitions == [][\A p \in Payments : LegalChange(p)]_vars

(* The table is left in one way only: by a job that expires a payment from *)
(* a row that has changed since the job read it.                           *)
OnlyStaleJobsLeaveTheTable == [][\A p \in Payments \ outdated' : LegalChange(p)]_vars

(* payments.py:132-133, "the uncaptured remainder stays held until         *)
(* void/expiry": what is still held is still open to a void or an expiry.  *)
HoldsAreReleasable ==
    \A p \in Payments \ outdated : booked[p].hold > 0 => Open(payment[p])

(* That fails in one way only: the payment was refunded before all of it   *)
(* was captured, and neither void nor capture nor expiry takes it now.     *)
OnlyRefundsStrandHolds ==
    \A p \in Payments \ outdated :
        booked[p].hold > 0 => Open(payment[p]) \/ payment[p].refunded > 0
=============================================================================
