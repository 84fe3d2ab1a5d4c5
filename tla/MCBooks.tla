------------------------------ MODULE MCBooks -------------------------------
(***************************************************************************)
(* Two transactions let one be in flight while another has committed; two  *)
(* moments make the earlier one settled; two months let a posting made in  *)
(* the open one be dated into the closed one.  One job can replace its own *)
(* rows of a moment.                                                       *)
(***************************************************************************)
EXTENDS Books, TLC

CONSTANTS k1, r1, c1, o1, jan, feb

MCTakers == {k1}
MCReaders == {r1}
MCClerks == {c1}
MCApprovers == {o1}
MCMonths == {jan, feb}

Symmetric == Permutations(MCMonths)
=============================================================================
