------------------------------- MODULE Treasury -------------------------------
(***************************************************************************)
(* The rate store, the two-currency book, the scheme rules and the split   *)
(* of an amount share no state: each behaviour follows one of them, and    *)
(* the others rest in an initial state.                                    *)
(***************************************************************************)
EXTENDS Rates, Fx, Schemes

CONSTANTS
    Parts,      \* the parts that are followed
    Days,       \* bound: the ages at which an authorization is looked at
    MaxLost,    \* bound: the rows whose process dies before COMMIT
    Heads,      \* how many weights a split has
    MaxWeight,  \* bound: the largest weight
    MaxSplit    \* bound: the largest amount, either sign

ASSUME TreasuryConstants ==
    Heads \in Nat \ {0} /\ MaxWeight \in Nat \ {0} /\ MaxSplit \in Nat \ {0}

VARIABLES
    part,   \* which part this behaviour follows
    split   \* an allocate call: [amount, weights, parts], parts once answered

treasuryVars == <<part, split, rateVars, fxVars, schemeVars>>

Weights == {w \in [1 .. Heads -> 0 .. MaxWeight] : \E i \in 1 .. Heads : w[i] > 0}

SplitCall(amount, weights, parts) == [amount |-> amount, weights |-> weights, parts |-> parts]

EvenSplit == SplitCall(1, [i \in 1 .. Heads |-> 1], {})

TreasuryInit ==
    /\ part \in Parts
    /\ RatesInit /\ FxInit /\ SchemeInit
    /\ part # "schemes" => auth = NewAuth("unknown", FALSE, 10)
    /\ IF part = "split"
         THEN \E n \in -MaxSplit .. MaxSplit, w \in Weights : split = SplitCall(n, w, {})
         ELSE split = EvenSplit

Divide ==
    /\ split.parts = {}
    /\ split' = SplitCall(split.amount, split.weights, {Allocate(split.amount, split.weights)})

TreasuryNext ==
    \/ /\ part = "rates" /\ RatesNext /\ Cardinality(lost') <= MaxLost
       /\ UNCHANGED <<part, split, fxVars, schemeVars>>
    \/ part = "fx" /\ FxNext /\ UNCHANGED <<part, split, rateVars, schemeVars>>
    \/ /\ part = "schemes" /\ SchemeNext /\ auth'.age \in Days
       /\ UNCHANGED <<part, split, rateVars, fxVars>>
    \/ part = "split" /\ Divide /\ UNCHANGED <<part, rateVars, fxVars, schemeVars>>

TreasurySpec == TreasuryInit /\ [][TreasuryNext]_treasuryVars

(* Every variable of the rate store, the two-currency book and the scheme  *)
(* rules keeps its type: the lock a store keeps, the step of each call,    *)
(* the number of postings and increments.                                  *)
TypesOK == RateTypeOK /\ FxTypeOK /\ SchemeTypeOK

(* How far a division is from the exact shares, in units of 1/total. *)
Distance(parts) ==
    SumFunction([i \in DOMAIN parts |->
        Abs(parts[i] * SumFunction(split.weights) - split.amount * split.weights[i])])

Divisions ==
    {p \in [1 .. Heads -> -MaxSplit .. MaxSplit] : SumFunction(p) = split.amount}

(* fx.py:48-53, allocate's docstring: the parts add up to the whole, no    *)
(* unit is invented or lost; no other division is nearer to the exact      *)
(* shares (the largest fractions get the leftover); and of two equal       *)
(* weights the first gets no less.  The module's docstring (fx.py:13-15)   *)
(* names another rule, the largest allocation, which the code does not     *)
(* follow.                                                                 *)
SplitIsExact ==
    \A parts \in split.parts :
        /\ SumFunction(parts) = split.amount
        /\ \A other \in Divisions : Distance(parts) <= Distance(other)
        /\ \A i, j \in 1 .. Heads :
              i < j /\ split.weights[i] = split.weights[j] => Abs(parts[i]) >= Abs(parts[j])
=============================================================================
