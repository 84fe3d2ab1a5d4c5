------------------------------- MODULE Schemes -------------------------------
(***************************************************************************)
(* src/ledger/schemes.py: what a card scheme allows an open authorization  *)
(* to become, consulted before every adjustment of the ledger              *)
(* (src/ledger/adjustments.py, module Payments).                           *)
(*                                                                         *)
(* The caller keeps what the check needs and the ledger does not track:    *)
(* the original amount, its day and the number of increments.              *)
(***************************************************************************)
EXTENDS Integers

CONSTANTS
    Originals,  \* amounts an authorization starts with
    MaxAge      \* bound: days an authorization is followed

ASSUME SchemeConstants == Originals \subseteq Nat \ {0} /\ MaxAge \in Nat

SchemeRule(increments, percent, days, decrement) ==
    [increments |-> increments, percent |-> percent, days |-> days, decrement |-> decrement]

SchemeNames == {"visa", "mastercard", "amex", "interac"}

(* ASSUMED_RULES: max_cumulative_ratio in hundredths; all of them allow    *)
(* increments for the eligible merchant categories only.                   *)
Rules == [s \in SchemeNames |->
    CASE s = "visa"       -> SchemeRule(5, 115, 30, TRUE)
      [] s = "mastercard" -> SchemeRule(4, 120, 30, TRUE)
      [] s = "amex"       -> SchemeRule(3, 110, 7, TRUE)
      [] s = "interac"    -> SchemeRule(0, 100, 1, FALSE)]

VARIABLES
    auth,     \* the authorization and its AuthorizationContext
    raisedAt  \* history: its age at the last increment

schemeVars == <<auth, raisedAt>>

(* open: in a state that adjust accepts.  eligible: its mcc is one of      *)
(* INCREMENTAL_MCC.                                                        *)
Auth(scheme, eligible, original, current, captured, increments, age, open) ==
    [scheme |-> scheme, eligible |-> eligible, original |-> original, current |-> current,
     captured |-> captured, increments |-> increments, age |-> age, open |-> open]

SchemeTypeOK ==
    /\ auth \in [scheme : SchemeNames \cup {"unknown"}, eligible : BOOLEAN,
                 original : Nat, current : Nat \ {0}, captured : Nat, increments : Nat,
                 age : Nat, open : BOOLEAN]
    /\ raisedAt \in Nat

NewAuth(scheme, eligible, amount) ==
    Auth(scheme, eligible, amount, amount, 0, 0, 0, TRUE)

SchemeInit ==
    /\ \E s \in SchemeNames \cup {"unknown"}, e \in BOOLEAN, n \in Originals :
          auth = NewAuth(s, e, n)
    /\ raisedAt = 0

-----------------------------------------------------------------------------
(* check_adjustment.                                                       *)

Ceiling(a) == (a.original * Rules[a.scheme].percent) \div 100

MayDecrement(a) ==
    /\ a.scheme \in SchemeNames
    /\ a.age <= Rules[a.scheme].days
    /\ Rules[a.scheme].decrement

MayIncrement(a, delta) ==
    /\ a.scheme \in SchemeNames
    /\ a.age <= Rules[a.scheme].days
    /\ Rules[a.scheme].increments # 0
    /\ a.increments < Rules[a.scheme].increments
    /\ a.eligible
    /\ a.current + delta <= Ceiling(a)

(* check_adjustment, for delta # 0. *)
CheckAdjustment(a, delta) ==
    (delta < 0 /\ MayDecrement(a)) \/ (delta > 0 /\ MayIncrement(a, delta))

-----------------------------------------------------------------------------
(* The life of an authorization.                                           *)

(* Slip: an increment restarts the clock. *)
AdjustRestartsClock(delta) ==
    LET a == auth
    IN  /\ a.open /\ CheckAdjustment(a, delta)
        /\ a.current + delta > 0 /\ a.current + delta >= a.captured
        /\ auth' = Auth(a.scheme, a.eligible, a.original, a.current + delta, a.captured,
                        IF delta > 0 THEN a.increments + 1 ELSE a.increments,
                        IF delta > 0 THEN 0 ELSE a.age, TRUE)
        /\ raisedAt' = IF delta > 0 THEN raisedAt + a.age ELSE raisedAt

(* Slip: the check alone, which leaves a decrement's size to the ledger. *)
AdjustUnguarded(delta) ==
    LET a == auth
    IN  /\ a.open /\ CheckAdjustment(a, delta)
        /\ auth' = Auth(a.scheme, a.eligible, a.original, a.current + delta, a.captured,
                        IF delta > 0 THEN a.increments + 1 ELSE a.increments, a.age, TRUE)
        /\ raisedAt' = IF delta > 0 THEN a.age ELSE raisedAt

(* The check, then the ledger's adjust with its own two guards. *)
AdjustChecked(delta) ==
    LET a == auth
    IN  /\ a.open /\ CheckAdjustment(a, delta)
        /\ a.current + delta > 0 /\ a.current + delta >= a.captured
        /\ auth' = Auth(a.scheme, a.eligible, a.original, a.current + delta, a.captured,
                        IF delta > 0 THEN a.increments + 1 ELSE a.increments, a.age, TRUE)
        /\ raisedAt' = IF delta > 0 THEN a.age ELSE raisedAt

(* A capture of all that is authorized ends the adjustments. *)
CapturePart(n) ==
    LET a == auth
    IN  /\ a.open
        /\ n > 0 /\ a.captured + n <= a.current
        /\ auth' = Auth(a.scheme, a.eligible, a.original, a.current, a.captured + n,
                        a.increments, a.age, a.captured + n < a.current)
        /\ UNCHANGED raisedAt

DaysPass(n) ==
    LET a == auth
    IN  /\ a.age + n <= MaxAge
        /\ auth' = Auth(a.scheme, a.eligible, a.original, a.current, a.captured,
                        a.increments, a.age + n, a.open)
        /\ UNCHANGED raisedAt

(* Void and authorize anew: the one way to restart the clock. *)
Reauthorize ==
    /\ auth.captured = 0
    /\ \E n \in Originals : auth' = NewAuth(auth.scheme, auth.eligible, n)
    /\ raisedAt' = 0

SchemeNext ==
    \/ \E delta \in -auth.current .. auth.original : delta # 0 /\ AdjustChecked(delta)
    \/ \E n \in 1 .. auth.current : CapturePart(n)
    \/ \E n \in 1 .. MaxAge : DaysPass(n)
    \/ Reauthorize

SchemeSpec == SchemeInit /\ [][SchemeNext]_schemeVars

-----------------------------------------------------------------------------
(* Properties.                                                             *)

(* schemes.py:139-151 and :185-196: whatever increments, decrements and    *)
(* captures follow each other, an authorization never outgrows the ratio   *)
(* to its original amount nor the number of increments, and none is        *)
(* raised past the days that run from its original day.                    *)
WithinScheme ==
    auth.scheme \in SchemeNames =>
        /\ 100 * auth.current <= Rules[auth.scheme].percent * auth.original
        /\ auth.increments <= Rules[auth.scheme].increments
        /\ raisedAt <= Rules[auth.scheme].days
=============================================================================
