-------------------------------- MODULE Desk --------------------------------
(***************************************************************************)
(* Payments as their callers reach them: each behaviour works on some of   *)
(* them through the HTTP service (module Api), or on all of them through   *)
(* the library (module Payments).                                          *)
(***************************************************************************)
EXTENDS Api

CONSTANTS
    Fronts,  \* the sets of payments served over HTTP
    Most     \* bound: the amount each payment may grow to

VARIABLE served   \* the payments this behaviour works on over HTTP; none: by the library

DeskInit == ApiInit /\ served \in Fronts

DeskNext ==
    /\ UNCHANGED served
    /\ \/ served = {} /\ Next /\ UNCHANGED <<keys, effects, left, handler>>
       \/ /\ served # {} /\ ApiNext
          /\ \A h \in Handlers : handler'[h].request.payment \in served \cup {"none"}
    /\ \A p \in Payments : payment'[p].authorized <= Most[p]

DeskSpec == DeskInit /\ [][DeskNext]_<<served, apiVars>>

(* Every variable of the payments and of the service keeps its type: no    *)
(* amount is negative, no handler holds a body or a key unknown to it.     *)
TypesOK == TypeOK /\ ApiTypeOK

(* OneEffectPerKey, where every call comes over HTTP: the library's own    *)
(* callers record no key.                                                  *)
ServedOnce == served # {} => OneEffectPerKey
=============================================================================
