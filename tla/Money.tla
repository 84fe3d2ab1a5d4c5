-------------------------------- MODULE Money --------------------------------
(***************************************************************************)
(* The arithmetic of src/ledger/fx.py and src/ledger/reporting.py on       *)
(* integer minor units.  A rate, a Decimal in the code, is a fraction      *)
(* [num, den]: the product with an amount is exact (the 28 digits of the   *)
(* code's context hold every amount and rate of a ledger).                 *)
(***************************************************************************)
EXTENDS Integers, FiniteSetsExt, Functions

Rate(num, den) == [num |-> num, den |-> den]

One == Rate(1, 1)

(* n/d for d > 0, ROUND_HALF_EVEN. *)
RoundHalfEven(n, d) ==
    LET down == n \div d
        rest == 2 * (n % d)
    IN  IF rest < d \/ (rest = d /\ down % 2 = 0) THEN down ELSE down + 1

(* fx.convert and reporting.translate. *)
Convert(amount, rate) == RoundHalfEven(amount * rate.num, rate.den)

-----------------------------------------------------------------------------
(* allocate: the largest-remainder split of an amount over weights.        *)

Abs(n) == IF n < 0 THEN -n ELSE n

(* Slip: the smallest fractions come first. *)
RankedBackwards(fraction, i) ==
    Cardinality({j \in DOMAIN fraction :
        fraction[j] < fraction[i] \/ (fraction[j] = fraction[i] /\ j < i)})

(* The place of index i, from 0, when the larger fractions come first and  *)
(* ties go by index.                                                       *)
Ranked(fraction, i) ==
    Cardinality({j \in DOMAIN fraction :
        fraction[j] > fraction[i] \/ (fraction[j] = fraction[i] /\ j < i)})

(* Weights are not negative, and not all zero. *)
Allocate(amount, weights) ==
    LET total     == SumFunction(weights)
        sign      == IF amount < 0 THEN -1 ELSE 1
        exact     == [i \in DOMAIN weights |-> Abs(amount) * weights[i]]
        base      == [i \in DOMAIN weights |-> exact[i] \div total]
        fraction  == [i \in DOMAIN weights |-> exact[i] % total]
        remainder == Abs(amount) - SumFunction(base)
        extra(i)  == Cardinality({k \in 0 .. remainder - 1 :
                        k % Cardinality(DOMAIN weights) = Ranked(fraction, i)})
    IN  [i \in DOMAIN weights |-> sign * (base[i] + extra(i))]
=============================================================================
