--------------------------------- MODULE Api ---------------------------------
(***************************************************************************)
(* src/serve.py in front of module Payments: the mutating endpoints, each  *)
(* request one handler (a thread of the server), under idempotency keys    *)
(* that clients choose, reuse and send again.                              *)
(*                                                                         *)
(* A handler reads the replay flag, looks the key up, runs the work and    *)
(* the INSERT of the key in one transaction, and reads the payment it      *)
(* shows, each on its own; other handlers and the expiry job come between. *)
(* The ledger is a database file, which outlives the server.  A request    *)
(* without its header, or that its schema refuses, is answered             *)
(* before any of this.  A client that got no answer just sends again.      *)
(***************************************************************************)
EXTENDS Payments, Sequences, Functions

CONSTANTS
    Handlers,  \* requests in progress at a time
    Keys,      \* Idempotency-Key headers
    AuthKey,   \* the key "auth:<payment_id>" that authorize falls back on
    Requests   \* bodies, with the endpoint and the payment of the path

Endpoints == {"postings", "authorize", "capture", "refund", "void"}

(* fee: fee_minor of a capture; for a refund, 1 says refund_fee.           *)
Request(op, pay, amount, fee) ==
    [op |-> op, payment |-> pay, amount |-> amount, fee |-> fee]

ASSUME ApiConstants ==
    /\ Requests \subseteq [op : Endpoints, payment : Payments,
                           amount : 1 .. MaxAmount, fee : 0 .. MaxAmount]
    /\ AuthKey \in [Payments -> Keys]

VARIABLES
    keys,     \* table idempotency_key
    effects,  \* history: the journal transactions of the endpoints, in order
    left,     \* history: the payment row as the work of each key left it
    handler   \* each handler: [pc, key, request, flag, txn, own, shown]

apiVars == <<vars, keys, effects, left, handler>>

NoRequest == [op |-> "none", payment |-> "none", amount |-> 0, fee |-> 0]

KeyRow(request, txn) == [request |-> request, txn |-> txn]

NoKeyRow == KeyRow(NoRequest, 0)

(* flag: what the answer says of a replay; own: whether this handler's     *)
(* transaction committed; shown: the payment row in the answer.            *)
HandlerAt(pc, key, request, flag, txn, own, shown) ==
    [pc |-> pc, key |-> key, request |-> request, flag |-> flag, txn |-> txn,
     own |-> own, shown |-> shown]

IdleHandler == HandlerAt("idle", "none", NoRequest, FALSE, 0, FALSE, NoRow)

ApiTypeOK ==
    /\ keys \in [Keys -> [request : Requests \cup {NoRequest}, txn : Nat]]
    /\ effects \in Seq([key : Keys, request : Requests])
    /\ left \in [Keys -> PaymentRow]
    /\ handler \in [Handlers ->
          [pc : {"idle", "lookup", "work", "recheck", "show", "answered"},
           key : Keys \cup {"none"},
           request : Requests \cup {NoRequest}, flag : BOOLEAN, txn : Nat, own : BOOLEAN,
           shown : PaymentRow]]

ApiInit ==
    /\ Init
    /\ keys = [k \in Keys |-> NoKeyRow]
    /\ effects = <<>>
    /\ left = [k \in Keys |-> NoRow]
    /\ handler = [h \in Handlers |-> IdleHandler]

KeyTaken(k) == keys[k] # NoKeyRow

HandlerBecomes(h, state) == handler' = [handler EXCEPT ![h] = state]

ToPc(h, pc) ==
    LET r == handler[h]
    IN  HandlerBecomes(h, HandlerAt(pc, r.key, r.request, r.flag, r.txn, r.own, r.shown))

(* The handler answers with an error: a 409, 422 or 500. *)
Refuse(h) == HandlerBecomes(h, IdleHandler)

UnchangedLedger == UNCHANGED <<vars, keys, effects, left>>

-----------------------------------------------------------------------------
(* A request comes in; _replayed is its first statement where there is one. *)

AsksFirst(request) == request.op \in {"capture", "refund", "void"}

Receive(h, k, request) ==
    /\ handler[h].pc \in {"idle", "answered"}
    /\ HandlerBecomes(h, HandlerAt("lookup", k, request,
                                   AsksFirst(request) /\ KeyTaken(k), 0, FALSE, NoRow))
    /\ UnchangedLedger

(* The key is the header's, or for an authorize without one the payment's. *)
KeysFor(request) ==
    IF request.op = "authorize" THEN Keys \cup {AuthKey[request.payment]} ELSE Keys

-----------------------------------------------------------------------------
(* run_idempotent and post_idempotent.                                     *)

(* Slip: the payload is not compared. *)
ReplayUnchecked(h) ==
    LET r == handler[h]
    IN  HandlerBecomes(h, HandlerAt("show", r.key, r.request,
             IF AsksFirst(r.request) THEN r.flag ELSE TRUE, keys[r.key].txn, FALSE, NoRow))

(* _replay: the recorded answer, or a 409 when the payload is another.     *)
Replay(h) ==
    LET r == handler[h]
    IN  IF keys[r.key].request = r.request
          THEN HandlerBecomes(h, HandlerAt("show", r.key, r.request,
                   IF AsksFirst(r.request) THEN r.flag ELSE TRUE, keys[r.key].txn, FALSE, NoRow))
          ELSE Refuse(h)

LookUp(h) ==
    /\ handler[h].pc = "lookup"
    /\ IF KeyTaken(handler[h].key) THEN Replay(h) ELSE ToPc(h, "work")
    /\ UnchangedLedger

(* Whether the work passes its guards and its posting is accepted.         *)
Feasible(request) ==
    LET row == payment[request.payment]
        n   == request.amount
    IN  \/ request.op = "postings"
        \/ request.op = "authorize" /\ row.state = "none"
        \/ /\ request.op = "capture" /\ Guard(request.payment, "capture")
           /\ n <= Remaining(row) /\ request.fee < n
        \/ request.op = "void" /\ Guard(request.payment, "void")
        \/ /\ request.op = "refund" /\ Guard(request.payment, "refund")
           /\ n <= row.captured - row.refunded
           /\ request.fee # 0 => FeeBack(row, n) < n

(* What it does to the payment and its books. *)
Effect(request) ==
    LET p == request.payment
        n == request.amount
    IN  \/ request.op = "postings" /\ UNCHANGED <<payment, booked>>
        \/ request.op = "authorize" /\ Authorize(p, n)
        \/ request.op = "capture" /\ Capture(p, n, request.fee)
        \/ request.op = "void" /\ Void(p)
        \/ request.op = "refund" /\ Refund(p, n, request.fee # 0)

(* Slip: the key is not in the transaction of the work. *)
WorkWithoutKey(h) ==
    LET r == handler[h]
    IN  /\ r.pc = "work" /\ Feasible(r.request)
        /\ Effect(r.request) /\ UNCHANGED <<job, outdated, keys>>
        /\ effects' = Append(effects, [key |-> r.key, request |-> r.request])
        /\ left' = [left EXCEPT ![r.key] = payment'[r.request.payment]]
        /\ HandlerBecomes(h, HandlerAt("show", r.key, r.request, r.flag,
                                       Len(effects) + 1, TRUE, NoRow))

(* The work, the journal and the key commit together. *)
Work(h) ==
    LET r == handler[h]
    IN  /\ r.pc = "work" /\ ~KeyTaken(r.key) /\ Feasible(r.request)
        /\ Effect(r.request) /\ UNCHANGED <<job, outdated>>
        /\ keys' = [keys EXCEPT ![r.key] = KeyRow(r.request, Len(effects) + 1)]
        /\ effects' = Append(effects, [key |-> r.key, request |-> r.request])
        /\ left' = [left EXCEPT ![r.key] = payment'[r.request.payment]]
        /\ HandlerBecomes(h, HandlerAt("show", r.key, r.request, r.flag,
                                       Len(effects) + 1, TRUE, NoRow))

(* An IntegrityError takes it all back: of the key, recorded since the     *)
(* lookup, or of the payment row that an authorize finds taken.            *)
WorkCollides(h) ==
    LET request == handler[h].request
    IN  /\ handler[h].pc = "work"
        /\ \/ KeyTaken(handler[h].key) /\ Feasible(request)
           \/ request.op = "authorize" /\ ~Feasible(request)
        /\ ToPc(h, "recheck")
        /\ UnchangedLedger

(* A guard or the ledger refuses, or the write lock does not come in time. *)
WorkFails(h) ==
    /\ handler[h].pc = "work"
    /\ Refuse(h)
    /\ UnchangedLedger

(* The second lookup: without the key, the error was the work's own.       *)
Recheck(h) ==
    /\ handler[h].pc = "recheck"
    /\ IF KeyTaken(handler[h].key) THEN Replay(h) ELSE Refuse(h)
    /\ UnchangedLedger

-----------------------------------------------------------------------------
(* The answer: the payment endpoints but authorize add _payment_state.     *)
Show(h) ==
    LET r == handler[h]
    IN  /\ r.pc = "show"
        /\ HandlerBecomes(h, HandlerAt("answered", r.key, r.request, r.flag, r.txn, r.own,
               IF AsksFirst(r.request) THEN payment[r.request.payment] ELSE NoRow))
        /\ UnchangedLedger

(* The server dies; what was in progress has no answer. *)
ServerDies ==
    /\ handler' = [h \in Handlers |-> IdleHandler]
    /\ UnchangedLedger

ApiNext ==
    \/ \E h \in Handlers :
          \/ \E request \in Requests : \E k \in KeysFor(request) : Receive(h, k, request)
          \/ LookUp(h) \/ Work(h) \/ WorkCollides(h) \/ WorkFails(h) \/ Recheck(h) \/ Show(h)
    \/ ServerDies
    \/ /\ \E j \in Jobs :
             StartExpiry(j) \/ ExpiryFails(j) \/ (\E p \in Payments : Expire(j, p))
       /\ UNCHANGED <<keys, effects, left, handler>>

ApiSpec == ApiInit /\ [][ApiNext]_apiVars

-----------------------------------------------------------------------------
(* Properties.                                                             *)

(* The requests of one endpoint and payment that took effect. *)
Took(op, p) ==
    {k \in Keys : keys[k].request.op = op /\ keys[k].request.payment = p}

AmountOf(op, p) == SumFunction([k \in Took(op, p) |-> keys[k].request.amount])

(* Keys and journal transactions match one to one, whatever is sent again, *)
(* twice at a time or under one key with two bodies.                       *)
KeysMatchEffects ==
    /\ \A k \in Keys : KeyTaken(k) =>
          /\ keys[k].txn \in DOMAIN effects
          /\ effects[keys[k].txn] = [key |-> k, request |-> keys[k].request]
    /\ \A i \in DOMAIN effects : keys[effects[i].key] = KeyRow(effects[i].request, i)

(* That, and the payments hold what the recorded requests add up to, no    *)
(* more.                                                                   *)
OneEffectPerKey ==
    /\ KeysMatchEffects
    /\ \A p \in Payments :
          /\ payment[p].captured = AmountOf("capture", p)
          /\ payment[p].refunded = AmountOf("refund", p)
          /\ payment[p].authorized = AmountOf("authorize", p)

(* A payment row as it was, or expired since. *)
StillAs(was, row) ==
    /\ row.authorized = was.authorized /\ row.captured = was.captured
    /\ row.refunded = was.refunded /\ row.fee = was.fee
    /\ row.state \in {was.state, "expired"}

(* What a client was told is true and stays so: its key is on record with  *)
(* its own body and that transaction; a handler whose work committed never *)
(* says "replay", and of postings and authorize every other one does; and  *)
(* the row shown is, amount for amount, the payment as its own work or one *)
(* work after it left it, never a mixture, never an earlier one.  That a   *)
(* replay of the other three is always called one, and that it shows the   *)
(* first answer byte for byte (serve.py:14-15), is not so.                 *)
AnswersTrue ==
    \A h \in Handlers :
        LET r   == handler[h]
        IN  r.pc = "answered" =>
               /\ keys[r.key] = KeyRow(r.request, r.txn)
               /\ IF AsksFirst(r.request) THEN r.flag => ~r.own ELSE r.flag = ~r.own
               /\ AsksFirst(r.request) =>
                     \E k \in Keys :
                        /\ KeyTaken(k) /\ keys[k].request.payment = r.request.payment
                        /\ keys[k].txn >= r.txn
                        /\ StillAs(left[k], r.shown)
=============================================================================
