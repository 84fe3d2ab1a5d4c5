---------------------------- MODULE MCPgSnapshot ----------------------------
(***************************************************************************)
(* Two writers are enough for an id to commit above one still in flight,   *)
(* two takers for one checkpoint to overwrite another, one account for a   *)
(* reader to miss an entry.                                                *)
(***************************************************************************)
EXTENDS PgSnapshot

CONSTANTS w1, w2, k1, k2, r1, a1

MCWriters == {w1, w2}
MCTakers == {k1, k2}
OneTaker == {k1}
MCReaders == {r1}
MCAccounts == {a1}
=============================================================================
