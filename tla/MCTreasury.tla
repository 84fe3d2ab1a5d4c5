----------------------------- MODULE MCTreasury -----------------------------
(***************************************************************************)
(* Two stores race for the two quotes of a currency.  Amounts of one and   *)
(* two at 3/2 and 1/2 make ties that go down and up.  An original of 10    *)
(* leaves the ceilings 10, 11 (twice) and 12.  Authorizations are looked   *)
(* at on the days around the ends of the schemes' clocks, 1, 7 and 30.     *)
(***************************************************************************)
EXTENDS Treasury, TLC

CONSTANTS s1, s2, d1, usd, alice, sales, f1, f2

TwoStores == {s1, s2}
OneDay == {d1}
OneCurrency == {usd}
OneList == {<<usd>>}
TwoRates == {0, 1, 2}

TwoAccounts == {alice, sales}
KindsOfAccounts == [a \in {alice, sales, "position"} |->
    IF a = sales THEN "revenue" ELSE "asset"]
TwoJobs == {f1, f2}
SomeRates == {Rate(1, 2), Rate(3, 2)}

OneOriginal == {10}
DaysAroundTheClocks == {0, 1, 2, 7, 8, 30, 31}

Symmetric == Permutations(TwoStores) \cup Permutations(TwoJobs)
=============================================================================
