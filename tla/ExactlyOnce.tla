---------------------------- MODULE ExactlyOnce ----------------------------
(***************************************************************************)
(* What the idempotent posting path promises a caller (core.py, the        *)
(* docstrings of run_idempotent and post_idempotent), with no threads,     *)
(* locks, transactions or crashes in sight: a request takes effect in one  *)
(* step; a key takes effect at most once, ever; a successful answer names  *)
(* an effect that happened and that is the asking request's own; a         *)
(* conflict is reported only for a key that was used with another payload. *)
(* Module Ledger is shown to implement this specification.                 *)
(***************************************************************************)
EXTENDS Naturals, Sequences

CONSTANTS
    Requests,   \* records [key, payload]
    NoKey       \* the key of a request that carries none

VARIABLES
    effects,    \* the requests that took effect, in the order they did
    answers     \* every answer given that promises something: [request, outcome, txn]

vars == <<effects, answers>>

Init == effects = <<>> /\ answers = {}

HasTakenEffect(k) == \E n \in 1 .. Len(effects) : effects[n].key = k

Perform(r) ==
    /\ r.key # NoKey => ~HasTakenEffect(r.key)
    /\ effects' = Append(effects, r)
    /\ UNCHANGED answers

Give(r, outcome, txn) ==
    /\ answers' = answers \cup {[request |-> r, outcome |-> outcome, txn |-> txn]}
    /\ UNCHANGED effects

Succeed(r) ==
    \E n \in 1 .. Len(effects), outcome \in {"posted", "replayed"} :
        /\ effects[n] = r
        /\ Give(r, outcome, n)

Conflict(r) ==
    /\ \E n \in 1 .. Len(effects) :
          effects[n].key = r.key /\ effects[n].payload # r.payload
    /\ Give(r, "conflict", 0)

Next == \E r \in Requests : Perform(r) \/ Succeed(r) \/ Conflict(r)

Spec == Init /\ [][Next]_vars
=============================================================================
