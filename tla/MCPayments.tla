----------------------------- MODULE MCPayments -----------------------------
(***************************************************************************)
(* Behind no service, two payments that the library's callers work on:     *)
(* four units to authorize make two partial captures and several refunds,  *)
(* with fees that do not divide evenly; a second payment of two units lets *)
(* a job be half way.  Behind the service, one payment: two handlers race  *)
(* every request under two keys and the payment's own, the job beside      *)
(* them.                                                                   *)
(***************************************************************************)
EXTENDS Desk, TLC

CONSTANTS p1, p2, j1, h1, h2, k1, k2, a1

TwoPayments == {p1, p2}
OnePayment == {p1}
OneJob == {j1}
TwoHandlers == {h1, h2}
SomeKeys == {k1, k2, a1}
AuthKeys == [p \in Payments |-> a1]

RequestsOn(p) ==
    {Request("authorize", p, 2, 0), Request("capture", p, 1, 0), Request("capture", p, 2, 1),
     Request("refund", p, 1, 1), Request("void", p, 1, 0), Request("postings", p, 1, 0)}

NoneOrOne == {{}, {p1}}

FourAndTwo == [p \in Payments |-> IF p = p1 THEN 4 ELSE 2]
None == {{}}
One == {{p1}}

SomeRequests == UNION {RequestsOn(p) : p \in Payments}

Symmetric == Permutations(TwoHandlers) \cup Permutations({k1, k2})
=============================================================================
