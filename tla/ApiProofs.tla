------------------------------ MODULE ApiProofs ------------------------------
(***************************************************************************)
(* Theorems about module Api, for any handlers, keys, bodies and payments: *)
(* what the service does to the payments are steps of module Payments, so  *)
(* all that was proved of them holds behind the service too; each key has  *)
(* one effect; a client is shown its payment as a work of its key or after *)
(* it left it; and what is captured and refunded of a payment is what its  *)
(* keys account for, amount by amount.                                     *)
(*                                                                         *)
(* The argument follows a handler: its flag was true only if the key was   *)
(* there, keys stay, and between two works on a payment only an expiry     *)
(* touches it.  The totals move with the one key that a step adds.         *)
(***************************************************************************)
EXTENDS Desk, PaymentsProofs, SequenceTheorems, SumTheorems

NoneIsNew ==
    \A p \in Payments :
        payment[p].state = "none" => payment[p].captured = 0 /\ payment[p].refunded = 0

(* The payment of key k is as the work of k or of a later key left it.     *)
FollowsKey(k, row) ==
    \E i \in Keys :
        /\ KeyTaken(i) /\ keys[i].request.payment = keys[k].request.payment
        /\ keys[i].txn >= keys[k].txn
        /\ StillAs(left[i], row)

KeyInv ==
    \A k \in Keys : keys[k] # NoKeyRow =>
        /\ keys[k].request \in Requests
        /\ FollowsKey(k, payment[keys[k].request.payment])

(* A handler, against a table of keys and the rows they left. *)
ShowsLeft(table, rows, r) ==
    \E i \in Keys :
        /\ table[i] # NoKeyRow /\ table[i].request.payment = r.request.payment
        /\ table[i].txn >= r.txn
        /\ StillAs(rows[i], r.shown)

HandlerOK(table, rows, r) ==
    /\ r.pc # "idle" => r.key \in Keys /\ r.request \in Requests
    /\ r.own => ~r.flag
    /\ r.pc \in {"lookup", "work", "recheck"} => ~r.own
    /\ r.pc = "lookup" /\ r.flag => table[r.key] # NoKeyRow /\ AsksFirst(r.request)
    /\ r.pc \in {"work", "recheck"} => ~r.flag
    /\ r.pc \in {"show", "answered"} => table[r.key] = KeyRow(r.request, r.txn)
    /\ r.pc \in {"show", "answered"} /\ ~AsksFirst(r.request) => r.flag \/ r.own
    /\ r.pc = "answered" /\ AsksFirst(r.request) => ShowsLeft(table, rows, r)

HandlerRow ==
    [pc : {"idle", "lookup", "work", "recheck", "show", "answered"},
     key : Keys \cup {"none"}, request : Requests \cup {NoRequest}, flag : BOOLEAN,
     txn : Nat, own : BOOLEAN, shown : PaymentRow]

AInv ==
    /\ SoundInv
    /\ ApiTypeOK
    /\ NoneIsNew
    /\ KeyInv
    /\ \A h \in Handlers : HandlerOK(keys, left, handler[h])
    /\ KeysMatchEffects

-----------------------------------------------------------------------------
(* What a step does to a payment row.                                      *)

LEMMA RequestFields ==
    ASSUME NEW request \in Requests
    PROVE  /\ request.op \in Endpoints /\ request.payment \in Payments
           /\ request.amount \in 1 .. MaxAmount /\ request.fee \in 0 .. MaxAmount
           /\ request.amount \in Nat /\ request.fee \in Nat
           /\ request # NoRequest
<1>1. request \in [op : Endpoints, payment : Payments,
                   amount : 1 .. MaxAmount, fee : 0 .. MaxAmount]
  BY ApiConstants
<1>2. /\ request.op \in Endpoints /\ request.payment \in Payments
      /\ request.amount \in 1 .. MaxAmount /\ request.fee \in 0 .. MaxAmount
  BY <1>1
<1>3. request.amount \in Nat /\ request.fee \in Nat
  BY <1>2, ConstantsAssumption
<1>4. NoRequest.op = "none"
  BY DEF NoRequest
<1>5. request # NoRequest
  BY <1>2, <1>4 DEF Endpoints
<1> QED BY <1>2, <1>3, <1>5

LEMMA OldRow ==
    ASSUME SoundInv, NEW p \in Payments
    PROVE  /\ payment[p].state \in States /\ payment[p].authorized \in Nat
           /\ payment[p].captured \in Nat /\ payment[p].refunded \in Nat
           /\ payment[p].fee \in Nat
           /\ payment \in [Payments -> PaymentRow]
<1>1. Sound(payment[p], booked[p])
  BY DEF SoundInv
<1>2. payment \in [Payments -> PaymentRow]
  BY DEF SoundInv, TypeOK
<1> QED BY <1>1, <1>2, Fields

(* A call writes one row, which then exists. *)
Wrote(p) ==
    \E row : payment' = [payment EXCEPT ![p] = row] /\ row.state # "none"

LEMMA EffectWrites ==
    ASSUME NEW request \in Requests, Effect(request)
    PROVE  payment' = payment \/ Wrote(request.payment)
<1> DEFINE p   == request.payment
           n   == request.amount
           old == payment[p]
<1>row. ASSUME NEW state, NEW a, NEW c, NEW r, NEW f, NEW books, state # "none",
               Written(p, Row(state, a, c, r, f), books)
        PROVE  Wrote(p)
  <2>1. Row(state, a, c, r, f).state = state
    BY DEF Row
  <2>2. payment' = [payment EXCEPT ![p] = Row(state, a, c, r, f)]
    BY <1>row DEF Written
  <2> QED BY <1>row, <2>1, <2>2 DEF Wrote
<1>1. CASE request.op = "postings" /\ UNCHANGED <<payment, booked>>
  BY <1>1
<1>2. CASE Authorize(p, n)
  BY <1>2, <1>row DEF Authorize
<1>3. CASE Capture(p, n, request.fee)
  BY <1>3, <1>row DEF Capture
<1>4. CASE Void(p)
  BY <1>4, <1>row DEF Void
<1>5. CASE Refund(p, n, request.fee # 0)
  BY <1>5, <1>row DEF Refund
<1> QED BY <1>1, <1>2, <1>3, <1>4, <1>5 DEF Effect

(* An expiry leaves the amounts alone. *)
LEMMA ExpireOnlyCloses ==
    ASSUME SoundInv, NEW j \in Jobs, NEW p \in Payments, Expire(j, p), NEW q \in Payments
    PROVE  /\ payment'[q].state \in {payment[q].state, "expired"}
           /\ payment'[q].authorized = payment[q].authorized
           /\ payment'[q].captured = payment[q].captured
           /\ payment'[q].refunded = payment[q].refunded
           /\ payment'[q].fee = payment[q].fee
<1> DEFINE old == payment[p]
           row == Row("expired", old.authorized, old.captured, old.refunded, old.fee)
<1>1. payment' = [payment EXCEPT ![p] = row]
  BY DEF Expire, Written
<1>2. /\ row.state = "expired" /\ row.captured = old.captured /\ row.fee = old.fee
      /\ row.refunded = old.refunded /\ row.authorized = old.authorized
  BY DEF Row
<1>3. payment'[q] = IF q = p THEN row ELSE payment[q]
  <2>1. payment \in [Payments -> PaymentRow]
    BY OldRow
  <2> HIDE DEF row
  <2> QED BY <1>1, <2>1
<1> HIDE DEF row
<1> QED BY <1>2, <1>3

-----------------------------------------------------------------------------
(* Every step of the service is a step of the payments.                    *)

LEMMA EffectIsCall ==
    ASSUME NEW request \in Requests, Effect(request), UNCHANGED <<job, outdated>>
    PROVE  [Next]_vars
<1> DEFINE p == request.payment
           n == request.amount
           f == request.fee
<1>1. p \in Payments /\ n \in 1 .. MaxAmount /\ f \in 0 .. MaxAmount
  BY RequestFields
<1>2. CASE UNCHANGED <<payment, booked>>
  BY <1>2 DEF vars
<1>3. CASE Authorize(p, n)
  <2>1. Call(p)
    BY <1>1, <1>3 DEF Call
  <2> QED BY <1>1, <2>1 DEF Next
<1>4. CASE Capture(p, n, f)
  <2>1. Call(p)
    BY <1>1, <1>4 DEF Call
  <2> QED BY <1>1, <2>1 DEF Next
<1>5. CASE Void(p)
  <2>1. Call(p)
    BY <1>5 DEF Call
  <2> QED BY <1>1, <2>1 DEF Next
<1>6. CASE Refund(p, n, f # 0)
  <2>1. (f # 0) \in BOOLEAN
    OBVIOUS
  <2>2. \E m \in 1 .. MaxAmount : \E refundFee \in BOOLEAN : Refund(p, m, refundFee)
    BY <1>1, <1>6, <2>1, Zenon
  <2>3. Call(p)
    BY <2>2 DEF Call
  <2> QED BY <1>1, <2>3 DEF Next
<1> QED BY <1>2, <1>3, <1>4, <1>5, <1>6 DEF Effect

LEMMA AtWork ==
    ASSUME AInv, NEW h \in Handlers, handler[h].pc # "idle"
    PROVE  handler[h].key \in Keys /\ handler[h].request \in Requests
BY DEF AInv, HandlerOK

(* What a step is to the payments: none, an effect, or the job's. *)
LEMMA StepKinds ==
    ASSUME AInv, [ApiNext]_apiVars
    PROVE  \/ UNCHANGED vars
           \/ \E h \in Handlers : Work(h) /\ handler[h].request \in Requests
           \/ /\ UNCHANGED <<keys, effects, left, handler>>
              /\ \E j \in Jobs :
                    StartExpiry(j) \/ ExpiryFails(j) \/ (\E p \in Payments : Expire(j, p))
<1>1. CASE UNCHANGED apiVars
  BY <1>1 DEF apiVars
<1>2. ASSUME NEW h \in Handlers, NEW request \in Requests, NEW k \in KeysFor(request),
             Receive(h, k, request)
      PROVE  UNCHANGED vars
  BY <1>2 DEF Receive, UnchangedLedger
<1>3. ASSUME NEW h \in Handlers,
             LookUp(h) \/ WorkCollides(h) \/ WorkFails(h) \/ Recheck(h) \/ Show(h)
      PROVE  UNCHANGED vars
  BY <1>3 DEF LookUp, WorkCollides, WorkFails, Recheck, Show, UnchangedLedger
<1>4. ASSUME NEW h \in Handlers, Work(h)
      PROVE  handler[h].request \in Requests
  <2>1. handler[h].pc # "idle"
    BY <1>4 DEF Work
  <2> QED BY <2>1, AtWork
<1>5. CASE ServerDies
  BY <1>5 DEF ServerDies, UnchangedLedger
<1> QED BY <1>1, <1>2, <1>3, <1>4, <1>5 DEF ApiNext

LEMMA PaymentStep == AInv /\ [ApiNext]_apiVars => [Next]_vars
<1> SUFFICES ASSUME AInv, [ApiNext]_apiVars PROVE [Next]_vars
  OBVIOUS
<1>1. CASE UNCHANGED vars
  BY <1>1
<1>2. ASSUME NEW h \in Handlers, Work(h), handler[h].request \in Requests
      PROVE  [Next]_vars
  <2>1. Effect(handler[h].request) /\ UNCHANGED <<job, outdated>>
    BY <1>2 DEF Work
  <2> QED BY <1>2, <2>1, EffectIsCall
<1>3. ASSUME NEW j \in Jobs,
             StartExpiry(j) \/ ExpiryFails(j) \/ (\E p \in Payments : Expire(j, p))
      PROVE  [Next]_vars
  BY <1>3 DEF Next
<1> QED BY <1>1, <1>2, <1>3, StepKinds

-----------------------------------------------------------------------------
(* Handlers.                                                               *)

LEMMA HandlerTyped ==
    ASSUME NEW pc \in {"idle", "lookup", "work", "recheck", "show", "answered"},
           NEW key \in Keys \cup {"none"}, NEW request \in Requests \cup {NoRequest},
           NEW flag \in BOOLEAN, NEW txn \in Nat, NEW own \in BOOLEAN,
           NEW shown \in PaymentRow
    PROVE  HandlerAt(pc, key, request, flag, txn, own, shown) \in HandlerRow
BY DEF HandlerAt, HandlerRow

LEMMA OldHandler ==
    ASSUME ApiTypeOK, NEW h \in Handlers
    PROVE  /\ handler[h] \in HandlerRow
           /\ handler[h].key \in Keys \cup {"none"}
           /\ handler[h].request \in Requests \cup {NoRequest}
           /\ handler[h].flag \in BOOLEAN /\ handler[h].txn \in Nat
           /\ handler[h].own \in BOOLEAN /\ handler[h].shown \in PaymentRow
<1>1. handler[h] \in HandlerRow
  BY DEF ApiTypeOK, HandlerRow
<1> QED BY <1>1 DEF HandlerRow

LEMMA NoRowTyped == NoRow \in PaymentRow
BY DEF NoRow, Row, PaymentRow, States

LEMMA KeyRowFields ==
    ASSUME NEW request, NEW txn
    PROVE  /\ KeyRow(request, txn).request = request /\ KeyRow(request, txn).txn = txn
           /\ request \in Requests => KeyRow(request, txn) # NoKeyRow
<1>1. KeyRow(request, txn).request = request /\ KeyRow(request, txn).txn = txn
  BY DEF KeyRow
<1>2. NoKeyRow.request = NoRequest
  BY DEF NoKeyRow, KeyRow
<1>3. request \in Requests => request # NoRequest
  BY RequestFields
<1> QED BY <1>1, <1>2, <1>3

LEMMA OldKey ==
    ASSUME ApiTypeOK, NEW k \in Keys
    PROVE  /\ keys[k].request \in Requests \cup {NoRequest} /\ keys[k].txn \in Nat
           /\ keys[k] = KeyRow(keys[k].request, keys[k].txn)
<1>1. keys[k] \in [request : Requests \cup {NoRequest}, txn : Nat]
  BY DEF ApiTypeOK
<1> QED BY <1>1 DEF KeyRow

(* Keys on record stay, and so does what was said of them. *)
LEMMA HandlerKept ==
    ASSUME NEW old, NEW table, NEW rows, NEW others, NEW r, HandlerOK(old, rows, r),
           \A k \in Keys : old[k] # NoKeyRow => table[k] = old[k] /\ others[k] = rows[k]
    PROVE  HandlerOK(table, others, r)
<1>1. CASE r.pc = "idle"
  BY <1>1 DEF HandlerOK
<1>2. CASE r.pc # "idle"
  <2>1. r.key \in Keys /\ r.request \in Requests
    BY <1>2 DEF HandlerOK
  <2>2. KeyRow(r.request, r.txn) # NoKeyRow
    BY <2>1, KeyRowFields
  <2>3. ShowsLeft(old, rows, r) => ShowsLeft(table, others, r)
    BY DEF ShowsLeft
  <2> QED BY <2>1, <2>2, <2>3 DEF HandlerOK
<1> QED BY <1>1, <1>2

(* A step of one handler alone. *)
LEMMA HandlerMoves ==
    ASSUME AInv, SoundInv', UnchangedLedger, NEW h \in Handlers, NEW row \in HandlerRow,
           HandlerOK(keys, left, row), HandlerBecomes(h, row)
    PROVE  AInv'
<1>1. handler \in [Handlers -> HandlerRow]
  BY DEF AInv, ApiTypeOK, HandlerRow
<1>2. /\ handler' \in [Handlers -> HandlerRow]
      /\ \A g \in Handlers : handler'[g] = IF g = h THEN row ELSE handler[g]
  BY <1>1 DEF HandlerBecomes
<1>3. keys' = keys /\ effects' = effects /\ left' = left /\ payment' = payment
  BY DEF UnchangedLedger, vars
<1>4. ApiTypeOK'
  BY <1>2, <1>3 DEF AInv, ApiTypeOK, HandlerRow
<1>5. NoneIsNew' /\ KeyInv'
  BY <1>3 DEF AInv, NoneIsNew, KeyInv, FollowsKey, KeyTaken
<1>6. \A g \in Handlers : HandlerOK(keys, left, handler'[g])
  BY <1>2 DEF AInv
<1>7. \A g \in Handlers : HandlerOK(keys', left', handler'[g])
  BY <1>3, <1>6
<1>8. KeysMatchEffects'
  BY <1>3 DEF AInv, KeysMatchEffects, KeyTaken
<1> QED BY <1>4, <1>5, <1>7, <1>8 DEF AInv

LEMMA IdleFine == IdleHandler \in HandlerRow /\ \A table, rows : HandlerOK(table, rows, IdleHandler)
<1>1. IdleHandler \in HandlerRow
  BY NoRowTyped, HandlerTyped DEF IdleHandler
<1>2. IdleHandler.pc = "idle" /\ IdleHandler.own = FALSE
  BY DEF IdleHandler, HandlerAt
<1>3. ASSUME NEW table, NEW rows
      PROVE  HandlerOK(table, rows, IdleHandler)
  BY <1>2 DEF HandlerOK
<1> QED BY <1>1, <1>3

LEMMA RefuseStep ==
    ASSUME AInv, SoundInv', UnchangedLedger, NEW h \in Handlers, Refuse(h)
    PROVE  AInv'
<1>1. HandlerBecomes(h, IdleHandler)
  BY DEF Refuse
<1> QED BY <1>1, IdleFine, HandlerMoves

LEMMA ReceiveStep ==
    ASSUME AInv, SoundInv', NEW h \in Handlers, NEW request \in Requests,
           NEW k \in KeysFor(request), Receive(h, k, request)
    PROVE  AInv'
<1> DEFINE flag == AsksFirst(request) /\ KeyTaken(k)
           row  == HandlerAt("lookup", k, request, flag, 0, FALSE, NoRow)
<1>1. k \in Keys
  <2>1. AuthKey[request.payment] \in Keys
    BY RequestFields, ApiConstants
  <2> QED BY <2>1 DEF KeysFor
<1>2. flag \in BOOLEAN
  BY DEF AsksFirst
<1>3. flag => keys[k] # NoKeyRow /\ AsksFirst(request)
  BY DEF KeyTaken
<1>4. HandlerBecomes(h, row) /\ UnchangedLedger
  BY DEF Receive
<1> HIDE DEF flag
<1>5. row \in HandlerRow
  BY <1>1, <1>2, NoRowTyped, HandlerTyped
<1>6. /\ row.pc = "lookup" /\ row.key = k /\ row.request = request /\ row.flag = flag
      /\ row.own = FALSE
  BY DEF HandlerAt
<1> HIDE DEF row
<1>7. HandlerOK(keys, left, row)
  BY <1>1, <1>3, <1>6 DEF HandlerOK
<1> QED BY <1>4, <1>5, <1>7, HandlerMoves

LEMMA ReplayStep ==
    ASSUME AInv, SoundInv', UnchangedLedger, NEW h \in Handlers, handler[h].pc # "idle",
           KeyTaken(handler[h].key), Replay(h)
    PROVE  AInv'
<1> DEFINE r == handler[h]
           flag == IF AsksFirst(r.request) THEN r.flag ELSE TRUE
           row == HandlerAt("show", r.key, r.request, flag, keys[r.key].txn, FALSE, NoRow)
<1>1. r.key \in Keys /\ r.request \in Requests
  BY AtWork
<1>2. ApiTypeOK
  BY DEF AInv
<1>3. CASE keys[r.key].request = r.request /\ HandlerBecomes(h, row)
  <2>1. keys[r.key] = KeyRow(r.request, keys[r.key].txn) /\ keys[r.key].txn \in Nat
    BY <1>1, <1>2, <1>3, OldKey
  <2>2. flag \in BOOLEAN /\ (~AsksFirst(r.request) => flag)
    BY <1>2, OldHandler
  <2> HIDE DEF flag
  <2>3. row \in HandlerRow
    BY <1>1, <2>1, <2>2, NoRowTyped, HandlerTyped
  <2>4. /\ row.pc = "show" /\ row.key = r.key /\ row.request = r.request
        /\ row.txn = keys[r.key].txn /\ row.own = FALSE /\ row.flag = flag
    BY DEF HandlerAt
  <2> HIDE DEF row
  <2>5. HandlerOK(keys, left, row)
    BY <1>1, <2>1, <2>2, <2>4 DEF HandlerOK
  <2> QED BY <1>3, <2>3, <2>5, HandlerMoves
<1>4. CASE Refuse(h)
  BY <1>4, RefuseStep
<1> QED BY <1>3, <1>4 DEF Replay

LEMMA LookUpStep ==
    ASSUME AInv, SoundInv', NEW h \in Handlers, LookUp(h)
    PROVE  AInv'
<1> DEFINE r == handler[h]
           row == HandlerAt("work", r.key, r.request, r.flag, r.txn, r.own, r.shown)
<1>1. r.pc = "lookup" /\ UnchangedLedger
  BY DEF LookUp
<1>2. CASE KeyTaken(r.key) /\ Replay(h)
  BY <1>1, <1>2, ReplayStep
<1>3. CASE ~KeyTaken(r.key) /\ ToPc(h, "work")
  <2>1. r.key \in Keys /\ r.request \in Requests
    BY <1>1, AtWork
  <2>2. row \in HandlerRow
    <3>1. r \in HandlerRow /\ r.flag \in BOOLEAN /\ r.txn \in Nat /\ r.own \in BOOLEAN
             /\ r.shown \in PaymentRow
      BY OldHandler DEF AInv
    <3> QED BY <2>1, <3>1, HandlerTyped
  <2>3. HandlerBecomes(h, row)
    BY <1>3 DEF ToPc
  <2>4. /\ row.pc = "work" /\ row.key = r.key /\ row.request = r.request
        /\ row.flag = r.flag /\ row.own = r.own
    BY DEF HandlerAt
  <2>5. HandlerOK(keys, left, r) /\ keys[r.key] = NoKeyRow
    BY <1>3 DEF AInv, KeyTaken
  <2> HIDE DEF row
  <2>6. HandlerOK(keys, left, row)
    BY <1>1, <2>1, <2>4, <2>5 DEF HandlerOK
  <2> QED BY <1>1, <2>2, <2>3, <2>6, HandlerMoves
<1> QED BY <1>2, <1>3 DEF LookUp

LEMMA CollideStep ==
    ASSUME AInv, SoundInv', NEW h \in Handlers, WorkCollides(h)
    PROVE  AInv'
<1> DEFINE r == handler[h]
           row == HandlerAt("recheck", r.key, r.request, r.flag, r.txn, r.own, r.shown)
<1>1. r.pc = "work" /\ UnchangedLedger /\ HandlerBecomes(h, row)
  BY DEF WorkCollides, ToPc
<1>2. r.key \in Keys /\ r.request \in Requests
  BY <1>1, AtWork
<1>3. row \in HandlerRow
  <2>1. r \in HandlerRow /\ r.flag \in BOOLEAN /\ r.txn \in Nat /\ r.own \in BOOLEAN
           /\ r.shown \in PaymentRow
    BY OldHandler DEF AInv
  <2> QED BY <1>2, <2>1, HandlerTyped
<1>4. /\ row.pc = "recheck" /\ row.key = r.key /\ row.request = r.request
      /\ row.flag = r.flag /\ row.own = r.own
  BY DEF HandlerAt
<1>5. HandlerOK(keys, left, r)
  BY DEF AInv
<1> HIDE DEF row
<1>6. HandlerOK(keys, left, row)
  BY <1>1, <1>2, <1>4, <1>5 DEF HandlerOK
<1> QED BY <1>1, <1>3, <1>6, HandlerMoves

LEMMA RecheckStep ==
    ASSUME AInv, SoundInv', NEW h \in Handlers, Recheck(h)
    PROVE  AInv'
<1>1. handler[h].pc # "idle" /\ UnchangedLedger
  BY DEF Recheck
<1>2. CASE KeyTaken(handler[h].key) /\ Replay(h)
  BY <1>1, <1>2, ReplayStep
<1>3. CASE Refuse(h)
  BY <1>1, <1>3, RefuseStep
<1> QED BY <1>2, <1>3 DEF Recheck

LEMMA ShowStep ==
    ASSUME AInv, SoundInv', NEW h \in Handlers, Show(h)
    PROVE  AInv'
<1> DEFINE r == handler[h]
           p == r.request.payment
           shown == IF AsksFirst(r.request) THEN payment[p] ELSE NoRow
           row == HandlerAt("answered", r.key, r.request, r.flag, r.txn, r.own, shown)
<1>1. r.pc = "show" /\ UnchangedLedger /\ HandlerBecomes(h, row)
  BY DEF Show
<1>2. r.key \in Keys /\ r.request \in Requests
  BY <1>1, AtWork
<1>3. p \in Payments
  BY <1>2, RequestFields
<1>4. shown \in PaymentRow
  <2>1. payment[p] \in PaymentRow
    BY <1>3, OldRow DEF AInv
  <2> QED BY <2>1, NoRowTyped
<1>5. keys[r.key] = KeyRow(r.request, r.txn) /\ HandlerOK(keys, left, r)
  BY <1>1 DEF AInv, HandlerOK
<1>6. FollowsKey(r.key, payment[p]) /\ keys[r.key].request = r.request /\ keys[r.key].txn = r.txn
  <2>1. keys[r.key] # NoKeyRow /\ keys[r.key].request = r.request /\ keys[r.key].txn = r.txn
    BY <1>2, <1>5, KeyRowFields
  <2> QED BY <1>2, <2>1 DEF AInv, KeyInv
<1>7. AsksFirst(r.request) => shown = payment[p]
  OBVIOUS
<1> HIDE DEF shown
<1>8. row \in HandlerRow
  <2>1. r \in HandlerRow /\ r.flag \in BOOLEAN /\ r.txn \in Nat /\ r.own \in BOOLEAN
    BY OldHandler DEF AInv
  <2> QED BY <1>2, <1>4, <2>1, HandlerTyped
<1>9. /\ row.pc = "answered" /\ row.key = r.key /\ row.request = r.request
      /\ row.flag = r.flag /\ row.own = r.own /\ row.txn = r.txn /\ row.shown = shown
  BY DEF HandlerAt
<1> HIDE DEF row
<1>10. AsksFirst(r.request) => ShowsLeft(keys, left, row)
  BY <1>6, <1>7, <1>9 DEF FollowsKey, KeyTaken, ShowsLeft
<1>11. HandlerOK(keys, left, row)
  BY <1>1, <1>2, <1>5, <1>9, <1>10 DEF HandlerOK
<1> QED BY <1>1, <1>8, <1>11, HandlerMoves

LEMMA DieStep ==
    ASSUME AInv, SoundInv', ServerDies
    PROVE  AInv'
<1>1. keys' = keys /\ effects' = effects /\ left' = left /\ payment' = payment
  BY DEF ServerDies, UnchangedLedger, vars
<1>2. /\ handler' \in [Handlers -> HandlerRow]
      /\ \A g \in Handlers : handler'[g] = IdleHandler
  BY IdleFine DEF ServerDies
<1>3. ApiTypeOK'
  BY <1>1, <1>2 DEF AInv, ApiTypeOK, HandlerRow
<1>4. NoneIsNew' /\ KeyInv'
  BY <1>1 DEF AInv, NoneIsNew, KeyInv, FollowsKey, KeyTaken
<1>5. \A g \in Handlers : HandlerOK(keys', left', handler'[g])
  BY <1>2, IdleFine
<1>6. KeysMatchEffects'
  BY <1>1 DEF AInv, KeysMatchEffects, KeyTaken
<1> QED BY <1>3, <1>4, <1>5, <1>6 DEF AInv

-----------------------------------------------------------------------------
(* The steps that change the ledger.                                       *)

LEMMA JobStep ==
    ASSUME AInv, SoundInv', UNCHANGED <<keys, effects, left, handler>>, NEW j \in Jobs,
           StartExpiry(j) \/ ExpiryFails(j) \/ (\E p \in Payments : Expire(j, p))
    PROVE  AInv'
<1>1. ASSUME NEW q \in Payments
      PROVE  /\ payment'[q].state \in {payment[q].state, "expired"}
             /\ payment'[q].authorized = payment[q].authorized
             /\ payment'[q].captured = payment[q].captured
             /\ payment'[q].refunded = payment[q].refunded
             /\ payment'[q].fee = payment[q].fee
  <2>1. CASE StartExpiry(j) \/ ExpiryFails(j)
    BY <2>1 DEF StartExpiry, ExpiryFails
  <2>2. ASSUME NEW p \in Payments, Expire(j, p)
        PROVE  /\ payment'[q].state \in {payment[q].state, "expired"}
               /\ payment'[q].authorized = payment[q].authorized
               /\ payment'[q].captured = payment[q].captured
               /\ payment'[q].refunded = payment[q].refunded
               /\ payment'[q].fee = payment[q].fee
    BY <2>2, ExpireOnlyCloses DEF AInv
  <2> QED BY <2>1, <2>2
<1>2. NoneIsNew'
  BY <1>1 DEF AInv, NoneIsNew
<1>3. KeyInv'
  <2> SUFFICES ASSUME NEW k \in Keys, keys[k] # NoKeyRow
               PROVE  /\ keys[k].request \in Requests
                      /\ FollowsKey(k, payment[keys[k].request.payment])'
    BY DEF KeyInv
  <2> DEFINE q == keys[k].request.payment
  <2>1. keys[k].request \in Requests /\ FollowsKey(k, payment[q])
    BY DEF AInv, KeyInv
  <2>2. q \in Payments
    BY <2>1, RequestFields
  <2>3. \A was : StillAs(was, payment[q]) => StillAs(was, payment'[q])
    BY <1>1, <2>2 DEF StillAs
  <2> QED BY <2>1, <2>3 DEF FollowsKey, KeyTaken
<1>4. ApiTypeOK'
  BY DEF AInv, ApiTypeOK
<1>5. \A g \in Handlers : HandlerOK(keys', left', handler'[g])
  BY DEF AInv
<1>6. KeysMatchEffects'
  BY DEF AInv, KeysMatchEffects, KeyTaken
<1> QED BY <1>2, <1>3, <1>4, <1>5, <1>6 DEF AInv

LEMMA Recorded ==
    ASSUME AInv, NEW k \in Keys, NEW request \in Requests, keys[k] = NoKeyRow,
           keys' = [keys EXCEPT ![k] = KeyRow(request, Len(effects) + 1)],
           effects' = Append(effects, [key |-> k, request |-> request])
    PROVE  /\ keys' \in [Keys -> [request : Requests \cup {NoRequest}, txn : Nat]]
           /\ effects' \in Seq([key : Keys, request : Requests])
           /\ keys'[k] = KeyRow(request, Len(effects) + 1)
           /\ \A i \in Keys : keys[i] # NoKeyRow => keys'[i] = keys[i]
           /\ \A i \in Keys : i # k => keys'[i] = keys[i]
           /\ KeysMatchEffects'
<1> DEFINE n == Len(effects) + 1
           e == [key |-> k, request |-> request]
<1>1. /\ keys \in [Keys -> [request : Requests \cup {NoRequest}, txn : Nat]]
      /\ effects \in Seq([key : Keys, request : Requests])
  BY DEF AInv, ApiTypeOK
<1>2. n \in Nat /\ Len(effects) \in Nat
  BY <1>1, LenProperties
<1>3. KeyRow(request, n) \in [request : Requests \cup {NoRequest}, txn : Nat]
  BY <1>2 DEF KeyRow
<1>4. keys' \in [Keys -> [request : Requests \cup {NoRequest}, txn : Nat]]
  BY <1>1, <1>3
<1>5. e \in [key : Keys, request : Requests]
  OBVIOUS
<1>6. /\ keys'[k] = KeyRow(request, n)
      /\ \A i \in Keys : i # k => keys'[i] = keys[i]
  BY <1>1
<1>7. /\ effects' \in Seq([key : Keys, request : Requests])
      /\ Len(effects') = n /\ effects'[n] = e
      /\ \A i \in 1 .. Len(effects) : effects'[i] = effects[i]
  BY <1>1, <1>2, <1>5, AppendProperties
<1>8. DOMAIN effects = 1 .. Len(effects) /\ DOMAIN effects' = 1 .. n
  BY <1>1, <1>7, LenProperties
<1>9. e.key = k /\ e.request = request
  OBVIOUS
<1>10. KeyRow(request, n).request = request /\ KeyRow(request, n).txn = n
  BY KeyRowFields
<1> HIDE DEF e, n
<1>11. ASSUME NEW i \in Keys, keys'[i] # NoKeyRow
       PROVE  /\ keys'[i].txn \in 1 .. n
              /\ effects'[keys'[i].txn] = [key |-> i, request |-> keys'[i].request]
  <2>1. CASE i = k
    <3>1. keys'[i].txn = n /\ keys'[i].request = request
      BY <1>6, <1>10, <2>1
    <3>2. n \in 1 .. n
      BY <1>2 DEF n
    <3> QED BY <1>7, <2>1, <3>1, <3>2 DEF e
  <2>2. CASE i # k
    <3>1. keys'[i] = keys[i]
      BY <1>6, <2>2
    <3>2. /\ keys[i].txn \in 1 .. Len(effects)
          /\ effects[keys[i].txn] = [key |-> i, request |-> keys[i].request]
      BY <1>8, <1>11, <3>1 DEF AInv, KeysMatchEffects, KeyTaken
    <3>3. keys[i].txn \in 1 .. n
      BY <1>2, <3>2 DEF n
    <3> QED BY <1>7, <3>1, <3>2, <3>3
  <2> QED BY <2>1, <2>2
<1>12. ASSUME NEW i \in 1 .. n
       PROVE  keys'[effects'[i].key] = KeyRow(effects'[i].request, i)
  <2>1. CASE i = n
    <3>1. effects'[i].key = k /\ effects'[i].request = request
      BY <1>7, <1>9, <2>1
    <3>2. KeyRow(request, n) = KeyRow(effects'[i].request, i)
      BY <2>1, <3>1
    <3> QED BY <1>6, <3>1, <3>2
  <2>2. CASE i # n
    <3>1. i \in 1 .. Len(effects)
      BY <1>2, <2>2 DEF n
    <3>2. effects'[i] = effects[i] /\ effects[i] \in [key : Keys, request : Requests]
      BY <1>1, <1>7, <3>1, ElementOfSeq
    <3>3. keys[effects[i].key] = KeyRow(effects[i].request, i)
      BY <1>8, <3>1 DEF AInv, KeysMatchEffects
    <3>4. effects[i].key \in Keys /\ effects[i].request \in Requests
      BY <3>2
    <3>5. effects[i].key # k
      BY <3>3, <3>4, KeyRowFields
    <3>6. keys'[effects[i].key] = keys[effects[i].key]
      BY <1>6, <3>4, <3>5
    <3> QED BY <3>2, <3>3, <3>6
  <2> QED BY <2>1, <2>2
<1>13. KeysMatchEffects'
  BY <1>8, <1>11, <1>12 DEF KeysMatchEffects, KeyTaken
<1> QED BY <1>4, <1>6, <1>7, <1>13 DEF n

LEMMA WorkStep ==
    ASSUME AInv, SoundInv', NEW h \in Handlers, Work(h)
    PROVE  AInv'
<1> DEFINE r == handler[h]
           request == r.request
           row == HandlerAt("show", r.key, request, r.flag, Len(effects) + 1, TRUE, NoRow)
<1>1. /\ r.pc = "work" /\ keys[r.key] = NoKeyRow /\ Effect(request)
      /\ keys' = [keys EXCEPT ![r.key] = KeyRow(request, Len(effects) + 1)]
      /\ effects' = Append(effects, [key |-> r.key, request |-> request])
      /\ HandlerBecomes(h, row)
  BY DEF Work, KeyTaken
<1>2. r.key \in Keys /\ request \in Requests
  BY <1>1, AtWork
<1>3. /\ keys' \in [Keys -> [request : Requests \cup {NoRequest}, txn : Nat]]
      /\ effects' \in Seq([key : Keys, request : Requests])
      /\ keys'[r.key] = KeyRow(request, Len(effects) + 1)
      /\ \A i \in Keys : keys[i] # NoKeyRow => keys'[i] = keys[i]
      /\ \A i \in Keys : i # r.key => keys'[i] = keys[i]
      /\ KeysMatchEffects'
  BY <1>1, <1>2, Recorded
<1>14. /\ left' \in [Keys -> PaymentRow]
       /\ left'[r.key] = payment'[request.payment]
       /\ \A i \in Keys : i # r.key => left'[i] = left[i]
  <2>1. left \in [Keys -> PaymentRow] /\ payment' \in [Payments -> PaymentRow]
    BY DEF AInv, ApiTypeOK, SoundInv, TypeOK
  <2>2. left' = [left EXCEPT ![r.key] = payment'[request.payment]]
    BY DEF Work
  <2>3. request.payment \in Payments
    BY <1>2, RequestFields
  <2> QED BY <1>2, <2>1, <2>2, <2>3
<1>4. \A q \in Payments : /\ q # request.payment => payment'[q] = payment[q]
                          /\ payment'[q] = payment[q] \/ payment'[q].state # "none"
  <2>1. payment \in [Payments -> PaymentRow]
    BY DEF AInv, SoundInv, TypeOK
  <2>2. payment' = payment \/ Wrote(request.payment)
    BY <1>1, <1>2, EffectWrites
  <2> QED BY <2>1, <2>2 DEF Wrote
<1>5. NoneIsNew'
  BY <1>4 DEF AInv, NoneIsNew
<1>6. KeyInv'
  <2> SUFFICES ASSUME NEW k \in Keys, keys'[k] # NoKeyRow
               PROVE  /\ keys'[k].request \in Requests
                      /\ FollowsKey(k, payment[keys[k].request.payment])'
    BY DEF KeyInv
  <2>1. keys'[r.key].request = request /\ keys'[r.key].txn = Len(effects) + 1
    BY <1>3, KeyRowFields
  <2>2. keys'[k].request \in Requests
    <3>1. k # r.key => keys'[k] = keys[k]
      BY <1>3
    <3> QED BY <1>2, <2>1, <3>1 DEF AInv, KeyInv
  <2>3. CASE keys'[k].request.payment = request.payment
    <3>1. keys'[k].txn <= Len(effects) + 1
      <4>1. effects \in Seq([key : Keys, request : Requests])
            /\ effects' \in Seq([key : Keys, request : Requests])
            /\ effects' = Append(effects, [key |-> r.key, request |-> request])
        BY <1>1, <1>3 DEF AInv, ApiTypeOK
      <4>2. Len(effects') = Len(effects) + 1 /\ DOMAIN effects' = 1 .. Len(effects')
        BY <1>2, <4>1, AppendProperties, LenProperties
      <4>3. keys'[k].txn \in DOMAIN effects'
        BY <1>3 DEF KeysMatchEffects, KeyTaken
      <4>4. Len(effects) \in Nat
        BY <4>1, LenProperties
      <4> QED BY <4>2, <4>3, <4>4
    <3>2. keys'[r.key] # NoKeyRow
      BY <1>2, <1>3, KeyRowFields
    <3>3. StillAs(left'[r.key], payment'[request.payment])
      BY <1>14 DEF StillAs
    <3>4. keys'[r.key].txn >= keys'[k].txn
      BY <2>1, <3>1
    <3> QED BY <1>2, <2>1, <2>2, <2>3, <3>2, <3>3, <3>4 DEF FollowsKey, KeyTaken
  <2>4. CASE keys'[k].request.payment # request.payment
    <3>1. k # r.key
      BY <2>1, <2>4
    <3>2. keys'[k] = keys[k] /\ keys[k].request.payment \in Payments
      BY <1>3, <2>2, <3>1, RequestFields
    <3>3. payment'[keys[k].request.payment] = payment[keys[k].request.payment]
      BY <1>4, <2>4, <3>2
    <3>4. FollowsKey(k, payment[keys[k].request.payment])
      BY <3>2 DEF AInv, KeyInv
    <3>5. PICK i \in Keys : /\ KeyTaken(i) /\ keys[i].request.payment = keys[k].request.payment
                            /\ keys[i].txn >= keys[k].txn
                            /\ StillAs(left[i], payment[keys[k].request.payment])
      BY <3>4 DEF FollowsKey
    <3>6. i # r.key
      BY <1>1, <3>5 DEF KeyTaken
    <3>7. keys'[i] = keys[i] /\ left'[i] = left[i]
      BY <1>3, <1>14, <3>6
    <3> QED BY <2>2, <3>2, <3>3, <3>5, <3>7 DEF FollowsKey, KeyTaken
  <2> QED BY <2>3, <2>4
<1>7. row \in HandlerRow
  <2>1. r \in HandlerRow /\ r.flag \in BOOLEAN
    BY OldHandler DEF AInv
  <2>2. Len(effects) + 1 \in Nat
    <3>1. effects \in Seq([key : Keys, request : Requests])
      BY DEF AInv, ApiTypeOK
    <3>2. Len(effects) \in Nat
      BY <3>1, LenProperties
    <3> QED BY <3>2
  <2> QED BY <1>2, <2>1, <2>2, NoRowTyped, HandlerTyped
<1>8. /\ row.pc = "show" /\ row.key = r.key /\ row.request = request
      /\ row.flag = r.flag /\ row.own = TRUE /\ row.txn = Len(effects) + 1
  BY DEF HandlerAt
<1>9. HandlerOK(keys, left, r)
  BY DEF AInv
<1> HIDE DEF row
<1>10. HandlerOK(keys', left', row)
  BY <1>1, <1>2, <1>3, <1>8, <1>9 DEF HandlerOK
<1>11. /\ handler' \in [Handlers -> HandlerRow]
       /\ \A g \in Handlers : handler'[g] = IF g = h THEN row ELSE handler[g]
  <2>1. handler \in [Handlers -> HandlerRow]
    BY DEF AInv, ApiTypeOK, HandlerRow
  <2> QED BY <1>1, <1>7, <2>1 DEF HandlerBecomes
<1>12. ASSUME NEW g \in Handlers
       PROVE  HandlerOK(keys', left', handler'[g])
  <2>1. HandlerOK(keys, left, handler[g])
    BY DEF AInv
  <2>3. \A k \in Keys : keys[k] # NoKeyRow => keys'[k] = keys[k] /\ left'[k] = left[k]
    BY <1>1, <1>3, <1>14
  <2>2. HandlerOK(keys', left', handler[g])
    BY <2>1, <2>3, HandlerKept
  <2> QED BY <1>10, <1>11, <2>2
<1>13. ApiTypeOK'
  BY <1>3, <1>11, <1>14 DEF ApiTypeOK, HandlerRow
<1> QED BY <1>3, <1>5, <1>6, <1>12, <1>13 DEF AInv

-----------------------------------------------------------------------------
(* The theorems.                                                           *)

LEMMA AInit == ApiInit => AInv
<1> SUFFICES ASSUME ApiInit PROVE AInv
  OBVIOUS
<1>1. SoundInv
  BY InitSound DEF ApiInit
<1>2. \A h \in Handlers : handler[h] = IdleHandler
  BY DEF ApiInit
<1>3. \A h \in Handlers : HandlerOK(keys, left, handler[h])
  BY <1>2, IdleFine
<1>4. NoKeyRow \in [request : Requests \cup {NoRequest}, txn : Nat]
  BY DEF NoKeyRow, KeyRow
<1>5. effects \in Seq([key : Keys, request : Requests]) /\ DOMAIN effects = {}
  <2>1. effects = <<>>
    BY DEF ApiInit
  <2> QED BY <2>1, EmptySeq
<1>6. ApiTypeOK
  BY <1>4, <1>5, IdleFine, NoRowTyped DEF ApiInit, ApiTypeOK, HandlerRow
<1>7. KeyInv
  BY DEF ApiInit, KeyInv
<1>8. KeysMatchEffects
  BY <1>5 DEF ApiInit, KeysMatchEffects, KeyTaken
<1>9. NoneIsNew
  <2>1. NoRow.captured = 0 /\ NoRow.refunded = 0
    BY DEF NoRow, Row
  <2> QED BY <2>1 DEF ApiInit, Init, NoneIsNew
<1> QED BY <1>1, <1>3, <1>6, <1>7, <1>8, <1>9 DEF AInv

LEMMA AStep == AInv /\ [ApiNext]_apiVars => AInv'
<1> SUFFICES ASSUME AInv, [ApiNext]_apiVars PROVE AInv'
  OBVIOUS
<1>1. SoundInv'
  BY PaymentStep, SoundStep DEF AInv
<1>2. CASE UNCHANGED apiVars
  <2>1. UNCHANGED <<payment, keys, effects, left, handler>>
    BY <1>2 DEF apiVars, vars
  <2>2. ApiTypeOK' /\ NoneIsNew' /\ KeyInv' /\ KeysMatchEffects'
    BY <2>1 DEF AInv, ApiTypeOK, NoneIsNew, KeyInv, FollowsKey, KeysMatchEffects, KeyTaken
  <2>3. \A g \in Handlers : HandlerOK(keys', left', handler'[g])
    BY <2>1 DEF AInv
  <2> QED BY <1>1, <2>2, <2>3 DEF AInv
<1>3. ASSUME NEW h \in Handlers, NEW request \in Requests, NEW k \in KeysFor(request),
             Receive(h, k, request)
      PROVE  AInv'
  BY <1>1, <1>3, ReceiveStep
<1>4. ASSUME NEW h \in Handlers, LookUp(h)
      PROVE  AInv'
  BY <1>1, <1>4, LookUpStep
<1>5. ASSUME NEW h \in Handlers, Work(h)
      PROVE  AInv'
  BY <1>1, <1>5, WorkStep
<1>6. ASSUME NEW h \in Handlers, WorkCollides(h)
      PROVE  AInv'
  BY <1>1, <1>6, CollideStep
<1>7. ASSUME NEW h \in Handlers, WorkFails(h)
      PROVE  AInv'
  BY <1>1, <1>7, RefuseStep DEF WorkFails
<1>8. ASSUME NEW h \in Handlers, Recheck(h)
      PROVE  AInv'
  BY <1>1, <1>8, RecheckStep
<1>9. ASSUME NEW h \in Handlers, Show(h)
      PROVE  AInv'
  BY <1>1, <1>9, ShowStep
<1>10. CASE ServerDies
  BY <1>1, <1>10, DieStep
<1>11. ASSUME NEW j \in Jobs,
              StartExpiry(j) \/ ExpiryFails(j) \/ (\E p \in Payments : Expire(j, p)),
              UNCHANGED <<keys, effects, left, handler>>
       PROVE  AInv'
  BY <1>1, <1>11, JobStep
<1> QED
  BY <1>2, <1>3, <1>4, <1>5, <1>6, <1>7, <1>8, <1>9, <1>10, <1>11 DEF ApiNext

LEMMA AlwaysAInv == ApiSpec => []AInv
BY AInit, AStep, PTL DEF ApiSpec

LEMMA AInvGives == AInv => AnswersTrue
<1> SUFFICES ASSUME AInv, NEW h \in Handlers, handler[h].pc = "answered"
             PROVE  LET r == handler[h]
                    IN  /\ keys[r.key] = KeyRow(r.request, r.txn)
                        /\ IF AsksFirst(r.request) THEN r.flag => ~r.own ELSE r.flag = ~r.own
                        /\ AsksFirst(r.request) =>
                              \E k \in Keys :
                                 /\ KeyTaken(k)
                                 /\ keys[k].request.payment = r.request.payment
                                 /\ keys[k].txn >= r.txn
                                 /\ StillAs(left[k], r.shown)
  BY DEF AnswersTrue
<1>1. HandlerOK(keys, left, handler[h])
  BY DEF AInv
<1>2. handler[h].flag \in BOOLEAN /\ handler[h].own \in BOOLEAN
  BY OldHandler DEF AInv
<1> QED BY <1>1, <1>2 DEF HandlerOK, ShowsLeft, KeyTaken

(* What the service does to payments, whoever sends what how often under   *)
(* which key, are steps of module Payments: its theorems hold behind the   *)
(* service (src/serve.py) as they do behind the library's own callers.     *)
THEOREM ServiceRefinesPayments == ApiSpec => Spec
<1>1. ApiInit => Init
  BY DEF ApiInit
<1> QED BY <1>1, AlwaysAInv, PaymentStep, PTL DEF ApiSpec, Spec

(* The refinement at work: the money invariant of the payments, proved of  *)
(* module Payments, is one of the service.                                 *)
THEOREM ServedMoneyIsRight == ApiSpec => []MoneyMatches
BY ServiceRefinesPayments, MoneyIsRight, PTL

(* Keys and journal transactions match one to one (run_idempotent and      *)
(* post_idempotent of src/ledger/core.py, raced and retried).              *)
THEOREM KeysAreExact == ApiSpec => []KeysMatchEffects
<1>1. AInv => KeysMatchEffects
  BY DEF AInv
<1> QED BY <1>1, AlwaysAInv, PTL

(* What the service answers: the key is on record with the client's own    *)
(* body and that transaction, fresh work is never called a replay, and the *)
(* payment shown is as the work of the key or of a later one left it (or   *)
(* expired since).  Not that a replay is always called one, nor that it    *)
(* shows what the first answer did: FlagTellsReplay and ReplaysAreOriginal *)
(* are false.                                                              *)
THEOREM AnswersAreTrue == ApiSpec => []AnswersTrue
BY AInvGives, AlwaysAInv, PTL

-----------------------------------------------------------------------------
(* What the keys add up to.                                                *)

Totals == {"capture", "refund", "authorize"}

Total(op, row) ==
    CASE op = "capture" -> row.captured
      [] op = "refund" -> row.refunded
      [] op = "authorize" -> row.authorized

(* What one more request adds to a total of payment p.                     *)
Adds(request, op, p) ==
    IF request.op = op /\ request.payment = p THEN request.amount ELSE 0

AmountsOf(op, p) == [k \in Took(op, p) |-> keys[k].request.amount]

TotalsMatch == \A p \in Payments, op \in Totals : Total(op, payment[p]) = AmountOf(op, p)

NoneIsBlank == \A p \in Payments : payment[p].state = "none" => payment[p].authorized = 0

TakenKeys == {k \in Keys : keys[k] # NoKeyRow}

TotalsInv == IsFiniteSet(TakenKeys) /\ TotalsMatch /\ NoneIsBlank

(* The work of a request adds its amount to the one total it names.        *)
LEMMA EffectAdds ==
    ASSUME SoundInv, NoneIsNew, NoneIsBlank, NEW request \in Requests, Effect(request),
           NEW q \in Payments
    PROVE  /\ \A op \in Totals :
                 Total(op, payment'[q]) = Total(op, payment[q]) + Adds(request, op, q)
           /\ payment'[q].state = "none" => payment'[q].authorized = 0
<1> DEFINE p   == request.payment
           n   == request.amount
           old == payment[p]
           Goal == /\ \A op \in Totals :
                         Total(op, payment'[q]) = Total(op, payment[q]) + Adds(request, op, q)
                   /\ payment'[q].state = "none" => payment'[q].authorized = 0
<1>1. p \in Payments /\ n \in Nat /\ request.fee \in Nat
  BY RequestFields
<1>2. /\ old.state \in States /\ old.authorized \in Nat /\ old.captured \in Nat
      /\ old.refunded \in Nat /\ old.fee \in Nat
  BY <1>1, OldRow
<1>3. /\ payment[q].authorized \in Nat /\ payment[q].captured \in Nat /\ payment[q].refunded \in Nat
      /\ payment \in [Payments -> PaymentRow]
  BY OldRow
<1>4. ASSUME NEW row, payment' = [payment EXCEPT ![p] = row], row.state # "none",
             row.authorized = old.authorized + (IF request.op = "authorize" THEN n ELSE 0),
             row.captured = old.captured + (IF request.op = "capture" THEN n ELSE 0),
             row.refunded = old.refunded + (IF request.op = "refund" THEN n ELSE 0)
      PROVE  Goal
  <2>1. CASE q = p
    <3>1. payment'[q] = row
      BY <1>3, <1>4, <2>1
    <3>2. \A op \in Totals : Total(op, payment'[q]) = Total(op, payment[q]) + Adds(request, op, q)
      BY <1>4, <2>1, <3>1 DEF Totals, Total, Adds
    <3> QED BY <1>4, <3>1, <3>2
  <2>2. CASE q # p
    <3>1. payment'[q] = payment[q]
      BY <1>3, <1>4, <2>2
    <3>2. \A op \in Totals : Total(op, payment[q]) = Total(op, payment[q]) + 0
      BY <1>3 DEF Totals, Total
    <3>3. \A op \in Totals : Adds(request, op, q) = 0
      BY <2>2 DEF Adds
    <3> QED BY <3>1, <3>2, <3>3 DEF NoneIsBlank
  <2> QED BY <2>1, <2>2
<1> SUFFICES Goal
  OBVIOUS
<1> HIDE DEF Goal
<1>5. CASE request.op = "postings" /\ UNCHANGED <<payment, booked>>
  <2>1. payment'[q] = payment[q]
    BY <1>5
  <2>2. \A op \in Totals : Total(op, payment[q]) = Total(op, payment[q]) + 0
    BY <1>3 DEF Totals, Total
  <2>3. \A op \in Totals : Adds(request, op, q) = 0
    BY <1>5 DEF Adds, Totals
  <2> QED BY <2>1, <2>2, <2>3 DEF NoneIsBlank, Goal
<1>6. CASE request.op = "authorize" /\ Authorize(p, n)
  <2> DEFINE row == Row("authorized", n, 0, 0, 0)
  <2>1. old.state = "none" /\ payment' = [payment EXCEPT ![p] = row]
    BY <1>6 DEF Authorize, Written
  <2>2. old.captured = 0 /\ old.refunded = 0 /\ old.authorized = 0
    BY <1>1, <2>1 DEF NoneIsNew, NoneIsBlank
  <2>3. row.state # "none" /\ row.authorized = n /\ row.captured = 0 /\ row.refunded = 0
    BY DEF Row
  <2> HIDE DEF row
  <2>4. /\ row.authorized = old.authorized + (IF request.op = "authorize" THEN n ELSE 0)
        /\ row.captured = old.captured + (IF request.op = "capture" THEN n ELSE 0)
        /\ row.refunded = old.refunded + (IF request.op = "refund" THEN n ELSE 0)
    BY <1>1, <1>6, <2>2, <2>3
  <2> QED BY <1>4, <2>1, <2>3, <2>4, Zenon
<1>7. CASE request.op = "capture" /\ Capture(p, n, request.fee)
  <2> DEFINE captured == old.captured + n
             state == IF captured = old.authorized THEN "captured" ELSE "partially_captured"
             row == Row(state, old.authorized, captured, old.refunded, old.fee + request.fee)
  <2>1. payment' = [payment EXCEPT ![p] = row]
    BY <1>7 DEF Capture, Written
  <2>2. /\ row.state # "none" /\ row.authorized = old.authorized
        /\ row.captured = old.captured + n /\ row.refunded = old.refunded
    BY DEF Row
  <2> HIDE DEF row
  <2>3. /\ row.authorized = old.authorized + (IF request.op = "authorize" THEN n ELSE 0)
        /\ row.captured = old.captured + (IF request.op = "capture" THEN n ELSE 0)
        /\ row.refunded = old.refunded + (IF request.op = "refund" THEN n ELSE 0)
    BY <1>2, <1>7, <2>2
  <2> QED BY <1>4, <2>1, <2>2, <2>3, Zenon
<1>8. CASE request.op = "void" /\ Void(p)
  <2> DEFINE row == Row("voided", old.authorized, old.captured, old.refunded, old.fee)
  <2>1. payment' = [payment EXCEPT ![p] = row]
    BY <1>8 DEF Void, Written
  <2>2. /\ row.state # "none" /\ row.authorized = old.authorized
        /\ row.captured = old.captured /\ row.refunded = old.refunded
    BY DEF Row
  <2> HIDE DEF row
  <2>3. /\ row.authorized = old.authorized + (IF request.op = "authorize" THEN n ELSE 0)
        /\ row.captured = old.captured + (IF request.op = "capture" THEN n ELSE 0)
        /\ row.refunded = old.refunded + (IF request.op = "refund" THEN n ELSE 0)
    BY <1>2, <1>8, <2>2
  <2> QED BY <1>4, <2>1, <2>2, <2>3, Zenon
<1>9. CASE request.op = "refund" /\ Refund(p, n, request.fee # 0)
  <2> DEFINE refunded == old.refunded + n
             state == IF refunded = old.captured THEN "refunded" ELSE "partially_refunded"
             row == Row(state, old.authorized, old.captured, refunded, old.fee)
  <2>1. payment' = [payment EXCEPT ![p] = row]
    BY <1>9 DEF Refund, Written
  <2>2. /\ row.state # "none" /\ row.authorized = old.authorized
        /\ row.captured = old.captured /\ row.refunded = old.refunded + n
    BY DEF Row
  <2> HIDE DEF row
  <2>3. /\ row.authorized = old.authorized + (IF request.op = "authorize" THEN n ELSE 0)
        /\ row.captured = old.captured + (IF request.op = "capture" THEN n ELSE 0)
        /\ row.refunded = old.refunded + (IF request.op = "refund" THEN n ELSE 0)
    BY <1>2, <1>9, <2>2
  <2> QED BY <1>4, <2>1, <2>2, <2>3, Zenon
<1> QED BY <1>5, <1>6, <1>7, <1>8, <1>9 DEF Effect

(* The keys of one endpoint and payment are some of the keys taken.        *)
LEMMA TookTaken ==
    ASSUME AInv, IsFiniteSet(TakenKeys), NEW p \in Payments, NEW op \in Totals
    PROVE  /\ Took(op, p) \subseteq TakenKeys /\ IsFiniteSet(Took(op, p))
           /\ \A k \in Took(op, p) : keys[k].request.amount \in Int
           /\ AmountOf(op, p) = SumFunctionOnSet(AmountsOf(op, p), Took(op, p))
<1>1. NoKeyRow.request.op = "none"
  BY DEF NoKeyRow, KeyRow, NoRequest
<1>2. Took(op, p) \subseteq TakenKeys
  BY <1>1 DEF Took, TakenKeys, Totals
<1>3. IsFiniteSet(Took(op, p))
  BY <1>2, FS_Subset
<1>4. \A k \in Took(op, p) : keys[k].request.amount \in Int
  <2> SUFFICES ASSUME NEW k \in Took(op, p) PROVE keys[k].request.amount \in Int
    OBVIOUS
  <2>1. keys[k].request \in Requests
    BY <1>2 DEF TakenKeys, AInv, KeyInv
  <2> QED BY <2>1, RequestFields
<1>5. AmountOf(op, p) = SumFunctionOnSet(AmountsOf(op, p), Took(op, p))
  BY DEF AmountOf, AmountsOf, SumFunction
<1> QED BY <1>2, <1>3, <1>4, <1>5

(* A key that is recorded adds the amount of its request to the total it   *)
(* names, once.                                                            *)
LEMMA KeyAdds ==
    ASSUME AInv, AInv', IsFiniteSet(TakenKeys), NEW key \in Keys, NEW request \in Requests,
           keys[key] = NoKeyRow, keys'[key].request = request,
           \A i \in Keys : i # key => keys'[i] = keys[i]
    PROVE  /\ IsFiniteSet(TakenKeys')
           /\ \A p \in Payments, op \in Totals :
                 AmountOf(op, p)' = AmountOf(op, p) + Adds(request, op, p)
<1>1. keys[key].request.op = "none" /\ request.amount \in Int
  BY RequestFields DEF NoKeyRow, KeyRow, NoRequest
<1>2. IsFiniteSet(TakenKeys')
  <2>1. TakenKeys' \subseteq TakenKeys \cup {key}
    BY DEF TakenKeys
  <2>2. IsFiniteSet(TakenKeys \cup {key})
    BY FS_AddElement
  <2> QED BY <2>1, <2>2, FS_Subset
<1> SUFFICES ASSUME NEW p \in Payments, NEW op \in Totals
             PROVE  AmountOf(op, p)' = AmountOf(op, p) + Adds(request, op, p)
  BY <1>2
<1> DEFINE S == Took(op, p)
           T == Took(op, p)'
           f == AmountsOf(op, p)
           g == AmountsOf(op, p)'
<1>3. key \notin S
  BY <1>1 DEF Took, Totals
<1>4. /\ IsFiniteSet(S) /\ \A k \in S : f[k] \in Int
      /\ AmountOf(op, p) = SumFunctionOnSet(f, S)
  BY TookTaken DEF AmountsOf
<1>5. /\ IsFiniteSet(T) /\ \A k \in T : g[k] \in Int
      /\ AmountOf(op, p)' = SumFunctionOnSet(g, T)
  <2>1. /\ IsFiniteSet(T) /\ \A k \in T : keys'[k].request.amount \in Int
    <3>1. NoKeyRow.request.op = "none"
      BY DEF NoKeyRow, KeyRow, NoRequest
    <3>2. T \subseteq TakenKeys'
      BY <3>1 DEF Took, TakenKeys, Totals
    <3>3. IsFiniteSet(T)
      BY <1>2, <3>2, FS_Subset
    <3>4. ASSUME NEW k \in T PROVE keys'[k].request.amount \in Int
      <4>1. keys'[k].request \in Requests
        BY <3>2 DEF TakenKeys, AInv, KeyInv
      <4> QED BY <4>1, RequestFields
    <3> QED BY <3>3, <3>4
  <2>2. g = [k \in T |-> keys'[k].request.amount]
    BY DEF AmountsOf
  <2>3. AmountOf(op, p)' = SumFunctionOnSet(g, T)
    BY DEF AmountOf, AmountsOf, SumFunction
  <2> QED BY <2>1, <2>2, <2>3
<1>6. \A k \in S : k \in T /\ g[k] = f[k]
  BY <1>3 DEF Took, AmountsOf
<1>7. SumFunctionOnSet(g, S) = SumFunctionOnSet(f, S)
  <2> HIDE DEF S, T, f, g
  <2> QED BY <1>4, <1>6, SumOfEquals
<1>8. CASE request.op = op /\ request.payment = p
  <2>1. T = S \cup {key} /\ key \in T /\ g[key] = request.amount
    BY <1>8 DEF Took, AmountsOf
  <2>3. \A k \in S : g[k] \in Int
    BY <1>4, <1>6
  <2>4. g[key] \in Int
    BY <1>1, <2>1
  <2> HIDE DEF S, T, f, g
  <2>2. SumFunctionOnSet(g, S \cup {key}) = SumFunctionOnSet(g, S) + g[key]
    BY <1>3, <1>4, <2>3, <2>4, SumWith
  <2> QED BY <1>4, <1>5, <1>7, <1>8, <2>1, <2>2 DEF Adds
<1>9. CASE ~(request.op = op /\ request.payment = p)
  <2>1. T = S
    BY <1>3, <1>9 DEF Took
  <2>2. Adds(request, op, p) = 0 /\ SumFunctionOnSet(f, S) \in Int
    BY <1>4, <1>9, SumIsInt DEF Adds
  <2> HIDE DEF S, T, f, g
  <2> QED BY <1>4, <1>5, <1>7, <2>1, <2>2
<1> QED BY <1>8, <1>9

(* A step that touches neither keys nor amounts keeps the totals.          *)
LEMMA TotalsStay ==
    ASSUME TotalsInv, keys' = keys,
           \A p \in Payments : /\ \A op \in Totals : Total(op, payment'[p]) = Total(op, payment[p])
                               /\ payment'[p].state = "none" => payment[p].state = "none"
    PROVE  TotalsInv'
<1>1. TakenKeys' = TakenKeys
  BY DEF TakenKeys
<1>2. \A p \in Payments, op \in Totals : AmountOf(op, p)' = AmountOf(op, p)
  BY DEF AmountOf, Took
<1>3. NoneIsBlank'
  <2> SUFFICES ASSUME NEW p \in Payments, payment'[p].state = "none"
               PROVE  payment'[p].authorized = 0
    BY DEF NoneIsBlank
  <2>1. payment[p].authorized = 0
    BY DEF TotalsInv, NoneIsBlank
  <2>2. "authorize" \in Totals /\ \A row : Total("authorize", row) = row.authorized
    BY DEF Totals, Total
  <2> QED BY <2>1, <2>2
<1>4. TotalsMatch'
  BY <1>2 DEF TotalsInv, TotalsMatch
<1> QED BY <1>1, <1>3, <1>4 DEF TotalsInv

(* Expiring a payment changes none of its amounts.                         *)
LEMMA ExpiryKeepsTotals ==
    ASSUME SoundInv, NEW j \in Jobs, NEW p \in Payments, Expire(j, p), NEW q \in Payments
    PROVE  /\ \A op \in Totals : Total(op, payment'[q]) = Total(op, payment[q])
           /\ payment'[q].state = "none" => payment[q].state = "none"
BY ExpireOnlyCloses DEF Total, Totals

(* Every step of the service keeps the totals.                             *)
LEMMA TotalsStep == AInv /\ TotalsInv /\ [ApiNext]_apiVars => TotalsInv'
<1> SUFFICES ASSUME AInv, TotalsInv, [ApiNext]_apiVars PROVE TotalsInv'
  OBVIOUS
<1>1. AInv'
  BY AStep
<1>2. ASSUME NEW h \in Handlers, Work(h) PROVE TotalsInv'
  <2> DEFINE key == handler[h].key
             request == handler[h].request
  <2>1. /\ keys[key] = NoKeyRow /\ Effect(request) /\ handler[h].pc # "idle"
        /\ keys' = [keys EXCEPT ![key] = KeyRow(request, Len(effects) + 1)]
    BY <1>2 DEF Work, KeyTaken
  <2>2. key \in Keys /\ request \in Requests
    BY <2>1, AtWork
  <2>3. keys'[key].request = request /\ \A i \in Keys : i # key => keys'[i] = keys[i]
    BY <2>1, <2>2, KeyRowFields DEF AInv, ApiTypeOK
  <2> HIDE DEF key, request
  <2>4. /\ IsFiniteSet(TakenKeys')
        /\ \A p \in Payments, op \in Totals :
              AmountOf(op, p)' = AmountOf(op, p) + Adds(request, op, p)
    BY <1>1, <2>1, <2>2, <2>3, KeyAdds DEF TotalsInv
  <2>5. ASSUME NEW p \in Payments
        PROVE  /\ \A op \in Totals :
                     Total(op, payment'[p]) = Total(op, payment[p]) + Adds(request, op, p)
               /\ payment'[p].state = "none" => payment'[p].authorized = 0
    BY <2>1, <2>2, EffectAdds DEF AInv, TotalsInv
  <2>6. TotalsMatch'
    BY <2>4, <2>5 DEF TotalsInv, TotalsMatch
  <2>7. NoneIsBlank'
    BY <2>5 DEF NoneIsBlank
  <2> QED BY <2>4, <2>6, <2>7 DEF TotalsInv
<1>3. CASE payment' = payment /\ keys' = keys
  BY <1>3, TotalsStay
<1>4. ASSUME NEW j \in Jobs, NEW p \in Payments, Expire(j, p), keys' = keys PROVE TotalsInv'
  BY <1>4, ExpiryKeepsTotals, TotalsStay DEF AInv
<1>5. CASE UNCHANGED apiVars
  BY <1>3, <1>5 DEF apiVars, vars
<1>6. ASSUME NEW h \in Handlers,
             \/ \E request \in Requests : \E k \in KeysFor(request) : Receive(h, k, request)
             \/ LookUp(h) \/ WorkCollides(h) \/ WorkFails(h) \/ Recheck(h) \/ Show(h)
      PROVE  TotalsInv'
  BY <1>3, <1>6 DEF Receive, LookUp, WorkCollides, WorkFails, Recheck, Show, UnchangedLedger, vars
<1>7. CASE ServerDies
  BY <1>3, <1>7 DEF ServerDies, UnchangedLedger, vars
<1>8. ASSUME NEW j \in Jobs, StartExpiry(j) \/ ExpiryFails(j), keys' = keys PROVE TotalsInv'
  BY <1>3, <1>8 DEF StartExpiry, ExpiryFails
<1> QED BY <1>2, <1>4, <1>5, <1>6, <1>7, <1>8 DEF ApiNext

(* With no payment and no key, every total is zero.                        *)
LEMMA TotalsStart == ApiInit => TotalsInv
<1> SUFFICES ASSUME ApiInit PROVE TotalsInv
  OBVIOUS
<1>1. keys = [k \in Keys |-> NoKeyRow] /\ NoKeyRow.request.op = "none"
  BY DEF ApiInit, NoKeyRow, KeyRow, NoRequest
<1>2. TakenKeys = {} /\ IsFiniteSet(TakenKeys)
  BY <1>1, FS_EmptySet DEF TakenKeys
<1>3. ASSUME NEW p \in Payments, NEW op \in Totals PROVE AmountOf(op, p) = 0
  <2>1. Took(op, p) = {}
    BY <1>1 DEF Took, Totals
  <2>2. DOMAIN AmountsOf(op, p) = {}
    BY <2>1 DEF AmountsOf
  <2>3. AmountOf(op, p) = SumFunctionOnSet(AmountsOf(op, p), DOMAIN AmountsOf(op, p))
    BY DEF AmountOf, AmountsOf, SumFunction
  <2> QED BY <2>2, <2>3, SumOfNone
<1>4. ASSUME NEW p \in Payments
      PROVE  /\ payment[p].captured = 0 /\ payment[p].refunded = 0 /\ payment[p].authorized = 0
  BY DEF ApiInit, Init, NoRow, Row
<1>5. TotalsMatch
  BY <1>3, <1>4 DEF TotalsMatch, Totals, Total
<1>6. NoneIsBlank
  BY <1>4 DEF NoneIsBlank
<1> QED BY <1>2, <1>5, <1>6 DEF TotalsInv

LEMMA TotalsGive == AInv /\ TotalsInv => OneEffectPerKey
<1> SUFFICES ASSUME AInv, TotalsInv PROVE OneEffectPerKey
  OBVIOUS
<1>1. ASSUME NEW p \in Payments
      PROVE  /\ payment[p].captured = AmountOf("capture", p)
             /\ payment[p].refunded = AmountOf("refund", p)
             /\ payment[p].authorized = AmountOf("authorize", p)
  <2>1. "capture" \in Totals /\ "refund" \in Totals /\ "authorize" \in Totals
    BY DEF Totals
  <2>2. \A row : /\ Total("capture", row) = row.captured /\ Total("refund", row) = row.refunded
                 /\ Total("authorize", row) = row.authorized
    BY DEF Total
  <2> QED BY <2>1, <2>2 DEF TotalsInv, TotalsMatch
<1> QED BY <1>1 DEF AInv, OneEffectPerKey

(* However requests are raced, sent again or reuse a key, the payments     *)
(* hold what the recorded requests add up to, each of them once.           *)
THEOREM EachKeyOnce == ApiSpec => []OneEffectPerKey
<1>1. AInv /\ TotalsInv /\ [ApiNext]_apiVars => (AInv /\ TotalsInv)'
  BY AStep, TotalsStep
<1>2. ApiInit => AInv /\ TotalsInv
  BY AInit, TotalsStart
<1> QED BY <1>1, <1>2, TotalsGive, PTL DEF ApiSpec

-----------------------------------------------------------------------------
(* The payments behind the service and beside it.                          *)

DeskInv == SoundInv /\ ApiTypeOK /\ (served # {} => AInv /\ TotalsInv)

LEMMA DeskStarts == DeskInit => DeskInv
BY AInit, TotalsStart DEF DeskInit, DeskInv, AInv

LEMMA DeskStep == DeskInv /\ [DeskNext]_<<served, apiVars>> => DeskInv'
<1> SUFFICES ASSUME DeskInv, [DeskNext]_<<served, apiVars>> PROVE DeskInv'
  OBVIOUS
<1>1. CASE served # {} /\ [ApiNext]_apiVars /\ served' = served
  <2>1. AInv /\ TotalsInv
    BY <1>1 DEF DeskInv
  <2>2. AInv' /\ TotalsInv'
    BY <1>1, <2>1, AStep, TotalsStep
  <2> QED BY <2>2 DEF DeskInv, AInv
<1>2. CASE served = {} /\ [Next]_vars /\ UNCHANGED <<served, keys, effects, left, handler>>
  <2>1. SoundInv'
    BY <1>2, SoundStep DEF DeskInv
  <2>2. ApiTypeOK'
    BY <1>2 DEF DeskInv, ApiTypeOK
  <2> QED BY <1>2, <2>1, <2>2 DEF DeskInv
<1>3. CASE DeskNext
  <2>1. served' = served
    BY <1>3 DEF DeskNext
  <2>2. CASE served = {} /\ Next /\ UNCHANGED <<keys, effects, left, handler>>
    BY <1>2, <2>1, <2>2
  <2>3. CASE served # {} /\ ApiNext
    BY <1>1, <2>1, <2>3
  <2> QED BY <1>3, <2>2, <2>3 DEF DeskNext
<1>4. CASE UNCHANGED <<served, apiVars>>
  BY <1>1, <1>2, <1>4 DEF apiVars, vars
<1> QED BY <1>3, <1>4

(* Payments and service keep their types, whichever way they are reached.  *)
THEOREM DeskTypes == DeskSpec => []TypesOK
<1>1. DeskInv => TypesOK
  BY DEF DeskInv, SoundInv, TypesOK
<1> QED BY <1>1, DeskStarts, DeskStep, PTL DEF DeskSpec

(* Of the payments behind the service, each key accounts for one effect.   *)
THEOREM ServedKeysOnce == DeskSpec => []ServedOnce
<1>1. DeskInv => ServedOnce
  BY TotalsGive DEF DeskInv, ServedOnce
<1> QED BY <1>1, DeskStarts, DeskStep, PTL DEF DeskSpec

(* Either way they are reached, what is done to the payments are steps of  *)
(* module Payments: holds, money, refunds and states keep what was proved  *)
(* there.                                                                  *)
THEOREM DeskRefinesPayments == DeskSpec => Spec
<1>1. DeskInit => Init
  BY DEF DeskInit, ApiInit
<1>2. DeskInv /\ [DeskNext]_<<served, apiVars>> => [Next]_vars
  <2> SUFFICES ASSUME DeskInv, [DeskNext]_<<served, apiVars>> PROVE [Next]_vars
    OBVIOUS
  <2>1. CASE served = {} /\ Next
    BY <2>1
  <2>2. CASE served # {} /\ ApiNext
    BY <2>2, PaymentStep DEF DeskInv
  <2>3. CASE UNCHANGED <<served, apiVars>>
    BY <2>3 DEF apiVars, vars
  <2> QED BY <2>1, <2>2, <2>3 DEF DeskNext
<1> QED BY <1>1, <1>2, DeskStarts, DeskStep, PTL DEF DeskSpec, Spec
=============================================================================
