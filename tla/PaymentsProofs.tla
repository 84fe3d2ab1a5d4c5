--------------------------- MODULE PaymentsProofs ---------------------------
(***************************************************************************)
(* Theorems about module Payments, for any payments, jobs and amounts.     *)
(* However calls and jobs interleave, the money booked matches the payment *)
(* table and no refund gives back more fee than was earned; the holds      *)
(* match too, except where a job expired a payment from an outdated row.   *)
(* The two promises the code does not keep fail in one way each: a state   *)
(* leaves the table only where a job expired it from an outdated row, and  *)
(* a hold is stranded only where a part was captured and refunded.         *)
(***************************************************************************)
EXTENDS Payments, TLAPS

BooksRow == [hold : Int, network : Int, payable : Int, fees : Int]

(* The fee given back so far, times the amount captured, is at most the    *)
(* fee times the amount refunded: what rounding down preserves.            *)
Sound(row, b) ==
    /\ row \in PaymentRow
    /\ b \in BooksRow
    /\ row.refunded <= row.captured /\ row.captured <= row.authorized
    /\ b.network = row.captured - row.refunded
    /\ b.payable + b.fees = b.network
    /\ b.fees <= row.fee
    /\ (row.fee - b.fees) * row.captured <= row.fee * row.refunded
    /\ row.captured = 0 => row.fee = 0 /\ b.fees = 0
    /\ row.captured > 0 => row.fee < row.captured
    /\ Open(row) => row.refunded = 0 /\ b.fees = row.fee
    /\ row.state \in {"captured", "partially_captured", "partially_refunded"} => row.captured > 0

SoundInv == TypeOK /\ \A p \in Payments : Sound(payment[p], booked[p])

(* A job has read open rows only. *)
JobInv ==
    \A j \in Jobs : \A p \in job[j].todo : Open(job[j].seen[p])

-----------------------------------------------------------------------------
(* Arithmetic of the fee. *)
LEMMA Share ==
    ASSUME NEW f \in Nat, NEW n \in Nat, NEW c \in Nat, c > 0
    PROVE  /\ (f * n) \div c \in Nat
           /\ ((f * n) \div c) * c <= f * n
<1>1. f * n \in Nat
  BY SMT
<1> DEFINE x == f * n
<1>2. x \in Nat
  BY <1>1
<1> HIDE DEF x
<1>3. x \div c \in Nat /\ (x \div c) * c <= x
  BY <1>2, SMT
<1> QED BY <1>3 DEF x

LEMMA ShareIsLess ==
    ASSUME NEW f \in Nat, NEW n \in Nat, NEW c \in Nat, f < c, n > 0
    PROVE  (f * n) \div c < n
<1> DEFINE q == (f * n) \div c
<1>1. q \in Nat /\ q * c <= f * n
  BY Share
<1> HIDE DEF q
<1>2. f * n < c * n
  BY SMT
<1>3. ASSUME q >= n PROVE FALSE
  <2>1. q * c >= n * c
    BY <1>1, <1>3, SMT
  <2> QED BY <1>1, <1>2, <2>1, SMT
<1>4. q < n
  BY <1>1, <1>3, SMT
<1> QED BY <1>4 DEF q

(* g of the fee f was given back for r refunded, q more for n more. *)
LEMMA SharesAdd ==
    ASSUME NEW g \in Int, NEW c \in Nat, NEW f \in Nat, NEW r \in Nat,
           NEW n \in Nat, NEW q \in Nat, g * c <= f * r, q * c <= f * n
    PROVE  (g + q) * c <= f * (r + n)
BY SMT

(* No more than the whole fee is given back for no more than all. *)
LEMMA ShareOfAll ==
    ASSUME NEW g \in Int, NEW c \in Nat, NEW f \in Nat, NEW r \in Nat,
           g * c <= f * r, r <= c, c > 0
    PROVE  g <= f
<1>1. f * r <= f * c
  BY SMT
<1>2. ASSUME g > f PROVE FALSE
  <2>1. g * c > f * c
    BY <1>2, SMT
  <2> QED BY <1>1, <2>1, SMT
<1> QED BY <1>2, SMT

LEMMA RowFields ==
    ASSUME NEW s \in States, NEW a \in Nat, NEW c \in Nat, NEW r \in Nat, NEW f \in Nat
    PROVE  LET row == Row(s, a, c, r, f)
           IN  /\ row \in PaymentRow
               /\ row.state = s /\ row.authorized = a /\ row.captured = c
               /\ row.refunded = r /\ row.fee = f
BY DEF Row, PaymentRow

LEMMA BooksFields ==
    ASSUME NEW h \in Int, NEW n \in Int, NEW m \in Int, NEW f \in Int
    PROVE  LET b == Books(h, n, m, f)
           IN  /\ b \in BooksRow
               /\ b.hold = h /\ b.network = n /\ b.payable = m /\ b.fees = f
BY DEF Books, BooksRow

-----------------------------------------------------------------------------
(* What a call makes of one payment.                                       *)

HoldIsRight(row, b) ==
    b.hold = IF row.state \in {"voided", "expired"} THEN 0 ELSE Remaining(row)

GoodCall(p) ==
    \E row, b :
        /\ Written(p, row, b)
        /\ Sound(row, b)
        /\ HoldIsRight(payment[p], booked[p]) => HoldIsRight(row, b)

LEMMA AuthorizeGood ==
    ASSUME NEW p \in Payments, NEW n \in Nat, Authorize(p, n)
    PROVE  GoodCall(p)
<1> DEFINE row == Row("authorized", n, 0, 0, 0)
           b   == Books(n, 0, 0, 0)
<1>1. Written(p, row, b) /\ n > 0
  BY DEF Authorize
<1>2. /\ row \in PaymentRow
      /\ row.state = "authorized" /\ row.authorized = n /\ row.captured = 0
      /\ row.refunded = 0 /\ row.fee = 0
  BY RowFields DEF States
<1>3. b \in BooksRow /\ b.hold = n /\ b.network = 0 /\ b.payable = 0 /\ b.fees = 0
  BY BooksFields
<1> HIDE DEF row, b
<1>4. Sound(row, b)
  BY <1>2, <1>3 DEF Sound, Open
<1>5. HoldIsRight(row, b)
  BY <1>2, <1>3 DEF HoldIsRight, Remaining
<1> QED BY <1>1, <1>4, <1>5 DEF GoodCall

(* The types of a payment's row and books. *)
LEMMA Fields ==
    ASSUME NEW row, NEW b, Sound(row, b)
    PROVE  /\ row.state \in States /\ row.authorized \in Nat /\ row.captured \in Nat
           /\ row.refunded \in Nat /\ row.fee \in Nat
           /\ b.hold \in Int /\ b.network \in Int /\ b.payable \in Int /\ b.fees \in Int
BY DEF Sound, PaymentRow, BooksRow

LEMMA CaptureGood ==
    ASSUME NEW p \in Payments, NEW n \in Nat, NEW fee \in Nat,
           Sound(payment[p], booked[p]), Capture(p, n, fee)
    PROVE  GoodCall(p)
<1> DEFINE old == payment[p]
           ob  == booked[p]
           captured == old.captured + n
           state == IF captured = old.authorized THEN "captured" ELSE "partially_captured"
           row == Row(state, old.authorized, captured, old.refunded, old.fee + fee)
           b   == Books(ob.hold - n, ob.network + n, ob.payable + (n - fee), ob.fees + fee)
<1>1. Written(p, row, b) /\ Open(old) /\ 0 < n /\ n <= old.authorized - old.captured /\ fee < n
  BY DEF Capture, Guard, Allowed, Open, Remaining
<1>2. Sound(old, ob)
  OBVIOUS
<1>3. /\ old.state \in States /\ old.authorized \in Nat /\ old.captured \in Nat
      /\ old.refunded \in Nat /\ old.fee \in Nat
      /\ ob.hold \in Int /\ ob.network \in Int /\ ob.payable \in Int /\ ob.fees \in Int
  BY <1>2, Fields
<1>4. state \in {"captured", "partially_captured"} /\ state \in States
  BY DEF States
<1> HIDE DEF old, ob, state
<1>5. /\ row \in PaymentRow
      /\ row.state = state /\ row.authorized = old.authorized /\ row.captured = captured
      /\ row.refunded = old.refunded /\ row.fee = old.fee + fee
  BY <1>3, <1>4 DEF Row, PaymentRow
<1>6. /\ b \in BooksRow
      /\ b.hold = ob.hold - n /\ b.network = ob.network + n
      /\ b.payable = ob.payable + (n - fee) /\ b.fees = ob.fees + fee
  BY <1>3 DEF Books, BooksRow
<1> HIDE DEF row, b
<1>7. old.refunded = 0 /\ ob.fees = old.fee
  BY <1>1, <1>2 DEF Sound
<1>8. old.fee <= old.captured
  BY <1>2, <1>3 DEF Sound
<1>9. (row.fee - b.fees) * row.captured <= row.fee * row.refunded
  <2>1. row.fee - b.fees = 0
    BY <1>3, <1>5, <1>6, <1>7
  <2>2. row.refunded = 0
    BY <1>5, <1>7
  <2> QED BY <1>3, <1>5, <2>1, <2>2
<1>10. Sound(row, b)
  <2>1. /\ row.refunded <= row.captured /\ row.captured <= row.authorized
        /\ row.captured > 0 /\ row.fee < row.captured
    BY <1>1, <1>3, <1>5, <1>7, <1>8
  <2>2. b.network = row.captured - row.refunded /\ b.payable + b.fees = b.network
    <3>1. ob.network = old.captured - old.refunded /\ ob.payable + ob.fees = ob.network
      BY <1>2 DEF Sound
    <3> QED BY <1>3, <1>5, <1>6, <3>1
  <2>3. b \in BooksRow
    BY <1>6
  <2>4. row.refunded = 0 /\ b.fees = row.fee /\ b.fees <= row.fee
    BY <1>3, <1>5, <1>6, <1>7
  <2>5. row.captured # 0
    BY <1>5, <2>1
  <2> QED BY <1>5, <1>9, <2>1, <2>2, <2>3, <2>4, <2>5 DEF Sound
<1>11. HoldIsRight(old, ob) => HoldIsRight(row, b)
  BY <1>1, <1>3, <1>4, <1>5, <1>6 DEF HoldIsRight, Remaining, Open
<1> QED BY <1>1, <1>10, <1>11 DEF GoodCall, old, ob

LEMMA VoidGood ==
    ASSUME NEW p \in Payments, Sound(payment[p], booked[p]), Void(p)
    PROVE  GoodCall(p)
<1> DEFINE old == payment[p]
           ob  == booked[p]
           row == Row("voided", old.authorized, old.captured, old.refunded, old.fee)
           b   == Books(ob.hold - Remaining(old), ob.network, ob.payable, ob.fees)
<1>1. Written(p, row, b) /\ old.state = "authorized"
  BY DEF Void, Guard, Allowed
<1>2. Sound(old, ob)
  OBVIOUS
<1>3. /\ old.state \in States /\ old.authorized \in Nat /\ old.captured \in Nat
      /\ old.refunded \in Nat /\ old.fee \in Nat
      /\ ob.hold \in Int /\ ob.network \in Int /\ ob.payable \in Int /\ ob.fees \in Int
  BY <1>2, Fields
<1> HIDE DEF old, ob
<1>4. /\ row \in PaymentRow
      /\ row.state = "voided" /\ row.authorized = old.authorized
      /\ row.captured = old.captured
      /\ row.refunded = old.refunded /\ row.fee = old.fee
  BY <1>3 DEF Row, PaymentRow, States
<1>5. /\ b \in BooksRow
      /\ b.hold = ob.hold - (old.authorized - old.captured) /\ b.network = ob.network
      /\ b.payable = ob.payable /\ b.fees = ob.fees
  BY <1>3 DEF Books, BooksRow, Remaining
<1> HIDE DEF row, b
<1>6. Sound(row, b)
  BY <1>2, <1>3, <1>4, <1>5 DEF Sound, Open
<1>7. HoldIsRight(old, ob) => HoldIsRight(row, b)
  BY <1>1, <1>3, <1>4, <1>5 DEF HoldIsRight, Remaining
<1> QED BY <1>1, <1>6, <1>7 DEF GoodCall, old, ob

LEMMA AdjustGood ==
    ASSUME NEW p \in Payments, NEW delta \in Int,
           Sound(payment[p], booked[p]), Adjust(p, delta)
    PROVE  GoodCall(p)
<1> DEFINE old == payment[p]
           ob  == booked[p]
           after == old.authorized + delta
           row == Row(old.state, after, old.captured, old.refunded, old.fee)
           b   == Books(ob.hold + delta, ob.network, ob.payable, ob.fees)
<1>1. Written(p, row, b) /\ Open(old) /\ after > 0 /\ after >= old.captured
  BY DEF Adjust, Guard, Allowed, Open
<1>2. Sound(old, ob)
  OBVIOUS
<1>3. /\ old.state \in States /\ old.authorized \in Nat /\ old.captured \in Nat
      /\ old.refunded \in Nat /\ old.fee \in Nat
      /\ ob.hold \in Int /\ ob.network \in Int /\ ob.payable \in Int /\ ob.fees \in Int
  BY <1>2, Fields
<1> HIDE DEF old, ob
<1>4. after \in Nat /\ after >= old.captured /\ after = old.authorized + delta
  BY <1>1, <1>3
<1> HIDE DEF after
<1>5. /\ row \in PaymentRow
      /\ row.state = old.state /\ row.authorized = after /\ row.captured = old.captured
      /\ row.refunded = old.refunded /\ row.fee = old.fee
  BY <1>3, <1>4 DEF Row, PaymentRow
<1>6. /\ b \in BooksRow
      /\ b.hold = ob.hold + delta /\ b.network = ob.network
      /\ b.payable = ob.payable /\ b.fees = ob.fees
  BY <1>3 DEF Books, BooksRow
<1> HIDE DEF row, b
<1>7. Sound(row, b)
  <2>1. b \in BooksRow
    BY <1>6
  <2> QED BY <1>2, <1>3, <1>4, <1>5, <1>6, <2>1 DEF Sound, Open
<1>8. HoldIsRight(old, ob) => HoldIsRight(row, b)
  BY <1>1, <1>3, <1>4, <1>5, <1>6 DEF HoldIsRight, Remaining, Open
<1> QED BY <1>1, <1>7, <1>8 DEF GoodCall, old, ob, after

LEMMA RefundGood ==
    ASSUME NEW p \in Payments, NEW n \in Nat, NEW refundFee \in BOOLEAN,
           Sound(payment[p], booked[p]), Refund(p, n, refundFee)
    PROVE  GoodCall(p)
<1> DEFINE old == payment[p]
           ob  == booked[p]
           feeBack  == IF refundFee THEN FeeBack(old, n) ELSE 0
           refunded == old.refunded + n
           state == IF refunded = old.captured THEN "refunded" ELSE "partially_refunded"
           row == Row(state, old.authorized, old.captured, refunded, old.fee)
           b   == Books(ob.hold, ob.network - n, ob.payable - (n - feeBack), ob.fees - feeBack)
<1>1. /\ Written(p, row, b)
      /\ old.state \in {"captured", "partially_captured", "partially_refunded"}
      /\ 0 < n /\ n <= old.captured - old.refunded
  BY DEF Refund, Guard, Allowed
<1>2. Sound(old, ob)
  OBVIOUS
<1>3. /\ old.state \in States /\ old.authorized \in Nat /\ old.captured \in Nat
      /\ old.refunded \in Nat /\ old.fee \in Nat
      /\ ob.hold \in Int /\ ob.network \in Int /\ ob.payable \in Int /\ ob.fees \in Int
  BY <1>2, Fields
<1>4. state \in {"refunded", "partially_refunded"} /\ state \in States
  BY DEF States
<1> HIDE DEF old, ob, state
<1>5. old.captured > 0 /\ refunded \in Nat /\ refunded <= old.captured
  BY <1>1, <1>3
<1>6. feeBack \in Nat /\ feeBack * old.captured <= old.fee * n
  <2>1. FeeBack(old, n) \in Nat /\ FeeBack(old, n) * old.captured <= old.fee * n
    BY <1>3, <1>5, Share DEF FeeBack
  <2>2. 0 * old.captured <= old.fee * n
    BY <1>3, SMT
  <2> QED BY <2>1, <2>2
<1> HIDE DEF feeBack
<1>7. /\ row \in PaymentRow
      /\ row.state = state /\ row.authorized = old.authorized /\ row.captured = old.captured
      /\ row.refunded = refunded /\ row.fee = old.fee
  BY <1>3, <1>4, <1>5 DEF Row, PaymentRow
<1>8. /\ b \in BooksRow
      /\ b.hold = ob.hold /\ b.network = ob.network - n
      /\ b.payable = ob.payable - (n - feeBack) /\ b.fees = ob.fees - feeBack
  BY <1>3, <1>6 DEF Books, BooksRow
<1> HIDE DEF row, b
<1>9. (row.fee - b.fees) * row.captured <= row.fee * row.refunded
  <2> DEFINE g == old.fee - ob.fees
  <2>1. g \in Int /\ g * old.captured <= old.fee * old.refunded
    BY <1>2, <1>3 DEF Sound
  <2>2. row.fee - b.fees = g + feeBack
    BY <1>3, <1>6, <1>7, <1>8
  <2> HIDE DEF g
  <2>3. (g + feeBack) * old.captured <= old.fee * (old.refunded + n)
    BY <1>3, <1>6, <2>1, SharesAdd
  <2> QED BY <1>7, <2>2, <2>3
<1>10. Sound(row, b)
  <2>1. b \in BooksRow
    BY <1>8
  <2>2. b.network = row.captured - row.refunded /\ b.payable + b.fees = b.network
    BY <1>2, <1>3, <1>6, <1>7, <1>8 DEF Sound
  <2>3. /\ row.captured <= row.authorized /\ row.captured > 0 /\ row.fee < row.captured
        /\ b.fees <= row.fee
    BY <1>2, <1>3, <1>5, <1>6, <1>7, <1>8 DEF Sound
  <2>4. row.refunded <= row.captured /\ row.captured # 0 /\ ~Open(row)
    BY <1>4, <1>5, <1>7, <2>3 DEF Open
  <2> QED BY <1>7, <1>9, <2>1, <2>2, <2>3, <2>4 DEF Sound
<1>11. HoldIsRight(old, ob) => HoldIsRight(row, b)
  BY <1>1, <1>3, <1>4, <1>7, <1>8 DEF HoldIsRight, Remaining
<1> QED BY <1>1, <1>10, <1>11 DEF GoodCall, old, ob

LEMMA CallGood ==
    ASSUME SoundInv, NEW p \in Payments, Call(p)
    PROVE  GoodCall(p)
<1> USE ConstantsAssumption
<1>1. Sound(payment[p], booked[p])
  BY DEF SoundInv
<1>2. 1 .. MaxAmount \subseteq Nat /\ 0 .. MaxAmount \subseteq Nat
      /\ -MaxAmount .. MaxAmount \subseteq Int
  OBVIOUS
<1>3. ASSUME NEW n \in 1 .. MaxAmount, Authorize(p, n) PROVE GoodCall(p)
  BY <1>2, <1>3, AuthorizeGood
<1>4. ASSUME NEW n \in 1 .. MaxAmount, NEW fee \in 0 .. MaxAmount, Capture(p, n, fee)
      PROVE  GoodCall(p)
  BY <1>1, <1>2, <1>4, CaptureGood
<1>5. ASSUME NEW n \in 1 .. MaxAmount, NEW refundFee \in BOOLEAN, Refund(p, n, refundFee)
      PROVE  GoodCall(p)
  BY <1>1, <1>2, <1>5, RefundGood
<1>6. ASSUME NEW delta \in -MaxAmount .. MaxAmount, Adjust(p, delta) PROVE GoodCall(p)
  BY <1>1, <1>2, <1>6, AdjustGood
<1> QED BY <1>1, <1>3, <1>4, <1>5, <1>6, VoidGood DEF Call

-----------------------------------------------------------------------------
LEMMA WrittenType ==
    ASSUME TypeOK, NEW p \in Payments, NEW row, NEW b, Written(p, row, b), Sound(row, b)
    PROVE  /\ payment' \in [Payments -> PaymentRow]
           /\ booked' \in [Payments -> BooksRow]
           /\ payment'[p] = row /\ booked'[p] = b
           /\ \A q \in Payments : q # p => payment'[q] = payment[q] /\ booked'[q] = booked[q]
BY DEF TypeOK, Written, Sound, BooksRow

(* What a written row does to the invariants. *)
LEMMA WrittenSound ==
    ASSUME SoundInv, NEW p \in Payments, NEW row, NEW b, Written(p, row, b), Sound(row, b),
           job' \in [Jobs -> [todo : SUBSET Payments, seen : [Payments -> PaymentRow]]],
           outdated' \subseteq Payments
    PROVE  /\ SoundInv'
           /\ \A q \in Payments : q # p => payment'[q] = payment[q] /\ booked'[q] = booked[q]
           /\ payment'[p] = row /\ booked'[p] = b
<1>1. TypeOK
  BY DEF SoundInv
<1>2. /\ payment' \in [Payments -> PaymentRow]
      /\ booked' \in [Payments -> BooksRow]
      /\ payment'[p] = row /\ booked'[p] = b
      /\ \A q \in Payments : q # p => payment'[q] = payment[q] /\ booked'[q] = booked[q]
  BY <1>1, WrittenType
<1>3. TypeOK'
  BY <1>2 DEF TypeOK, BooksRow
<1>4. \A q \in Payments : Sound(payment'[q], booked'[q])
  BY <1>2 DEF SoundInv
<1> QED BY <1>2, <1>3, <1>4 DEF SoundInv

LEMMA ExpireWrites ==
    ASSUME SoundInv, NEW j \in Jobs, NEW p \in Payments, Expire(j, p)
    PROVE  \E row, b :
              /\ Written(p, row, b)
              /\ Sound(row, b)
              /\ row.state = "expired"
              /\ b.hold = booked[p].hold - Remaining(job[j].seen[p])
<1> DEFINE old == payment[p]
           ob  == booked[p]
           was == job[j].seen[p]
           row == Row("expired", old.authorized, old.captured, old.refunded, old.fee)
           b   == Books(ob.hold - Remaining(was), ob.network, ob.payable, ob.fees)
<1>1. Written(p, row, b)
  BY DEF Expire
<1>2. Sound(old, ob)
  BY DEF SoundInv
<1>3. /\ old.state \in States /\ old.authorized \in Nat /\ old.captured \in Nat
      /\ old.refunded \in Nat /\ old.fee \in Nat
      /\ ob.hold \in Int /\ ob.network \in Int /\ ob.payable \in Int /\ ob.fees \in Int
  BY <1>2, Fields
<1>4. Remaining(was) \in Int
  <2>1. was \in PaymentRow
    BY DEF SoundInv, TypeOK
  <2> HIDE DEF was
  <2> QED BY <2>1 DEF Remaining, PaymentRow
<1> HIDE DEF old, ob, was
<1>5. /\ row \in PaymentRow
      /\ row.state = "expired" /\ row.authorized = old.authorized
      /\ row.captured = old.captured
      /\ row.refunded = old.refunded /\ row.fee = old.fee
  BY <1>3 DEF Row, PaymentRow, States
<1>6. /\ b \in BooksRow
      /\ b.hold = ob.hold - Remaining(was) /\ b.network = ob.network
      /\ b.payable = ob.payable /\ b.fees = ob.fees
  BY <1>3, <1>4 DEF Books, BooksRow
<1> HIDE DEF row, b
<1>7. Sound(row, b)
  BY <1>2, <1>3, <1>5, <1>6 DEF Sound, Open
<1> QED BY <1>1, <1>5, <1>6, <1>7 DEF ob, was

LEMMA JobType ==
    ASSUME SoundInv, NEW j \in Jobs, NEW p \in Payments
    PROVE  JobWithout(job[j], p) \in [todo : SUBSET Payments, seen : [Payments -> PaymentRow]]
<1>1. NoRow \in PaymentRow
  BY DEF NoRow, Row, PaymentRow, States
<1>2. job[j].todo \subseteq Payments /\ job[j].seen \in [Payments -> PaymentRow]
  BY DEF SoundInv, TypeOK
<1> QED BY <1>1, <1>2 DEF JobWithout

LEMMA SoundStep == SoundInv /\ [Next]_vars => SoundInv'
<1> SUFFICES ASSUME SoundInv, [Next]_vars PROVE SoundInv'
  OBVIOUS
<1>1. ASSUME NEW p \in Payments, Call(p) PROVE SoundInv'
  <2>1. PICK row, b : Written(p, row, b) /\ Sound(row, b)
    BY <1>1, CallGood DEF GoodCall
  <2>2. /\ job' \in [Jobs -> [todo : SUBSET Payments, seen : [Payments -> PaymentRow]]]
        /\ outdated' \subseteq Payments
    BY <1>1 DEF Call, SoundInv, TypeOK
  <2> QED BY <2>1, <2>2, WrittenSound
<1>2. ASSUME NEW j \in Jobs, NEW t, job' = [job EXCEPT ![j] = t], UNCHANGED <<payment, booked, outdated>>,
             t \in [todo : SUBSET Payments, seen : [Payments -> PaymentRow]]
      PROVE  SoundInv'
  BY <1>2 DEF SoundInv, TypeOK
<1>3. NoRow \in PaymentRow
  BY DEF NoRow, Row, PaymentRow, States
<1>4. ASSUME NEW j \in Jobs, StartExpiry(j) PROVE SoundInv'
  <2>1. PICK stale \in SUBSET Payments : job' = [job EXCEPT ![j] =
                [todo |-> stale,
                 seen |-> [p \in Payments |-> IF p \in stale THEN payment[p] ELSE NoRow]]]
    BY <1>4 DEF StartExpiry
  <2>2. [p \in Payments |-> IF p \in stale THEN payment[p] ELSE NoRow] \in [Payments -> PaymentRow]
    BY <1>3 DEF SoundInv, TypeOK
  <2> QED BY <1>2, <1>4, <2>1, <2>2 DEF StartExpiry
<1>5. ASSUME NEW j \in Jobs, ExpiryFails(j) PROVE SoundInv'
  BY <1>2, <1>3, <1>5 DEF ExpiryFails, IdleJob
<1>6. ASSUME NEW j \in Jobs, NEW p \in Payments, Expire(j, p) PROVE SoundInv'
  <2>1. PICK row, b : Written(p, row, b) /\ Sound(row, b)
    BY <1>6, ExpireWrites
  <2>2. job' = [job EXCEPT ![j] = JobWithout(job[j], p)]
    BY <1>6 DEF Expire
  <2>3. job' \in [Jobs -> [todo : SUBSET Payments, seen : [Payments -> PaymentRow]]]
    BY <2>2, JobType DEF SoundInv, TypeOK
  <2>4. outdated' \subseteq Payments
    BY <1>6 DEF Expire, SoundInv, TypeOK
  <2> QED BY <2>1, <2>3, <2>4, WrittenSound
<1>7. CASE UNCHANGED vars
  BY <1>7 DEF vars, SoundInv, TypeOK
<1> QED BY <1>1, <1>4, <1>5, <1>6, <1>7 DEF Next

LEMMA InitSound == Init => SoundInv
<1> SUFFICES ASSUME Init PROVE SoundInv
  OBVIOUS
<1>1. /\ NoRow \in PaymentRow
      /\ NoRow.state = "none" /\ NoRow.authorized = 0 /\ NoRow.captured = 0
      /\ NoRow.refunded = 0 /\ NoRow.fee = 0
  BY DEF NoRow, Row, PaymentRow, States
<1> DEFINE b == Books(0, 0, 0, 0)
<1>2. b \in BooksRow /\ b.hold = 0 /\ b.network = 0 /\ b.payable = 0 /\ b.fees = 0
  BY DEF Books, BooksRow
<1>3. payment = [p \in Payments |-> NoRow] /\ booked = [p \in Payments |-> b]
      /\ job = [j \in Jobs |-> IdleJob] /\ outdated = {}
  BY DEF Init
<1> HIDE DEF b
<1>4. Sound(NoRow, b)
  BY <1>1, <1>2 DEF Sound, Open
<1>5. IdleJob \in [todo : SUBSET Payments, seen : [Payments -> PaymentRow]]
  BY <1>1 DEF IdleJob
<1>6. TypeOK
  BY <1>1, <1>2, <1>3, <1>5 DEF TypeOK, BooksRow
<1> QED BY <1>3, <1>4, <1>6 DEF SoundInv

-----------------------------------------------------------------------------
LEMMA MoneyFollows == SoundInv => MoneyMatches /\ RefundsCanPost
<1> SUFFICES ASSUME SoundInv, NEW p \in Payments
             PROVE  /\ LET row == payment[p]
                           b   == booked[p]
                       IN  /\ b.network = row.captured - row.refunded
                           /\ b.payable + b.fees = b.network
                           /\ row.refunded <= row.captured /\ row.captured <= row.authorized
                           /\ 0 <= b.fees /\ b.fees <= row.fee
                    /\ Guard(p, "refund") =>
                          \A n \in 1 .. payment[p].captured - payment[p].refunded :
                              FeeBack(payment[p], n) < n
  BY DEF MoneyMatches, RefundsCanPost
<1> DEFINE row == payment[p]
           b   == booked[p]
<1>1. Sound(row, b)
  BY DEF SoundInv
<1>2. /\ row.state \in States /\ row.authorized \in Nat /\ row.captured \in Nat
      /\ row.refunded \in Nat /\ row.fee \in Nat
      /\ b.hold \in Int /\ b.network \in Int /\ b.payable \in Int /\ b.fees \in Int
  BY <1>1, Fields
<1>3. Guard(p, "refund") => row.captured > 0
  BY <1>1 DEF Guard, Allowed, Sound
<1> HIDE DEF row, b
<1>4. 0 <= b.fees
  <2>1. CASE row.captured = 0
    BY <1>1, <2>1 DEF Sound
  <2>2. CASE row.captured > 0
    <3> DEFINE g == row.fee - b.fees
    <3>1. g \in Int /\ g * row.captured <= row.fee * row.refunded /\ row.refunded <= row.captured
      BY <1>1, <1>2 DEF Sound
    <3> HIDE DEF g
    <3>2. g <= row.fee
      BY <1>2, <2>2, <3>1, ShareOfAll
    <3> QED BY <1>2, <3>2 DEF g
  <2> QED BY <1>2, <2>1, <2>2
<1>5. ASSUME row.captured > 0, NEW n \in 1 .. row.captured - row.refunded
      PROVE  FeeBack(row, n) < n
  <2>1. n \in Nat /\ n > 0 /\ row.fee < row.captured
    BY <1>1, <1>2, <1>5 DEF Sound
  <2> QED BY <1>2, <2>1, ShareIsLess DEF FeeBack
<1> QED BY <1>1, <1>3, <1>4, <1>5 DEF Sound, row, b

(* Every variable keeps its type. *)
THEOREM TypeCorrect == Spec => []TypeOK
<1>1. SoundInv => TypeOK
  BY DEF SoundInv
<1> QED BY <1>1, InitSound, SoundStep, PTL DEF Spec

(* The money booked for a payment matches its row, and no more fee is      *)
(* given back than was earned, under any interleaving of calls and jobs.   *)
THEOREM MoneyIsRight == Spec => []MoneyMatches
<1>1. SoundInv => MoneyMatches
  BY MoneyFollows
<1> QED BY <1>1, InitSound, SoundStep, PTL DEF Spec

(* Every refund within the refundable amount has an entry to post.         *)
THEOREM RefundsPost == Spec => []RefundsCanPost
<1>1. SoundInv => RefundsCanPost
  BY MoneyFollows
<1> QED BY <1>1, InitSound, SoundStep, PTL DEF Spec

-----------------------------------------------------------------------------
(* Holds, where no job acted on an outdated row.                           *)

HoldInv ==
    /\ SoundInv
    /\ JobInv
    /\ \A p \in Payments \ outdated : HoldIsRight(payment[p], booked[p])

LEMMA HoldStep ==
    ASSUME HoldInv, [Next]_vars
    PROVE  HoldInv'
<1>sound. SoundInv /\ SoundInv' /\ TypeOK
  BY SoundStep DEF HoldInv, SoundInv
<1>1. ASSUME NEW p \in Payments, Call(p) PROVE HoldInv'
  <2>1. PICK row, b :
           /\ Written(p, row, b) /\ Sound(row, b)
           /\ HoldIsRight(payment[p], booked[p]) => HoldIsRight(row, b)
    BY <1>1, <1>sound, CallGood DEF GoodCall
  <2>2. UNCHANGED <<job, outdated>>
    BY <1>1 DEF Call
  <2>3. /\ payment'[p] = row /\ booked'[p] = b
        /\ \A q \in Payments : q # p => payment'[q] = payment[q] /\ booked'[q] = booked[q]
    BY <1>sound, <2>1, WrittenType
  <2>4. (\A q \in Payments \ outdated : HoldIsRight(payment[q], booked[q]))'
    BY <2>1, <2>2, <2>3 DEF HoldInv
  <2>5. JobInv'
    BY <2>2 DEF JobInv, HoldInv
  <2> QED BY <1>sound, <2>4, <2>5 DEF HoldInv
<1>2. ASSUME NEW j \in Jobs, StartExpiry(j) PROVE HoldInv'
  <2>1. PICK stale \in SUBSET {p \in Payments : Open(payment[p]) /\ Remaining(payment[p]) > 0} :
          job' = [job EXCEPT ![j] =
                [todo |-> stale,
                 seen |-> [p \in Payments |-> IF p \in stale THEN payment[p] ELSE NoRow]]]
    BY <1>2 DEF StartExpiry
  <2> DEFINE seen == [p \in Payments |-> IF p \in stale THEN payment[p] ELSE NoRow]
             t == [todo |-> stale, seen |-> seen]
  <2>2. t.todo = stale /\ t.seen = seen
    OBVIOUS
  <2>3. \A p \in stale : Open(seen[p])
    OBVIOUS
  <2>4. job' = [job EXCEPT ![j] = t]
    BY <2>1
  <2> HIDE DEF t, seen
  <2>5. UNCHANGED <<payment, booked, outdated>>
    BY <1>2 DEF StartExpiry
  <2>6. job'[j] = t /\ \A i \in Jobs : i # j => job'[i] = job[i]
    BY <1>sound, <2>4 DEF TypeOK
  <2>7. JobInv'
    BY <2>2, <2>3, <2>6 DEF JobInv, HoldInv
  <2> QED BY <1>sound, <2>5, <2>7 DEF HoldInv
<1>3. ASSUME NEW j \in Jobs, ExpiryFails(j) PROVE HoldInv'
  <2>1. IdleJob.todo = {}
    BY DEF IdleJob
  <2>2. job' = [job EXCEPT ![j] = IdleJob] /\ UNCHANGED <<payment, booked, outdated>>
    BY <1>3 DEF ExpiryFails
  <2>3. job'[j] = IdleJob /\ \A i \in Jobs : i # j => job'[i] = job[i]
    BY <1>sound, <2>2 DEF TypeOK
  <2>4. JobInv'
    BY <2>1, <2>3 DEF JobInv, HoldInv
  <2> QED BY <1>sound, <2>2, <2>4 DEF HoldInv
<1>4. ASSUME NEW j \in Jobs, NEW p \in Payments, Expire(j, p) PROVE HoldInv'
  <2>1. PICK row, b :
           /\ Written(p, row, b) /\ Sound(row, b)
           /\ row.state = "expired"
           /\ b.hold = booked[p].hold - Remaining(job[j].seen[p])
    BY <1>4, <1>sound, ExpireWrites
  <2>2. /\ payment'[p] = row /\ booked'[p] = b
        /\ \A q \in Payments : q # p => payment'[q] = payment[q] /\ booked'[q] = booked[q]
    BY <1>sound, <2>1, WrittenType
  <2>3. /\ outdated \subseteq outdated'
        /\ p \notin outdated' => p \notin outdated /\ job[j].seen[p] = payment[p]
    BY <1>4 DEF Expire
  <2>4. Open(job[j].seen[p])
    BY <1>4 DEF Expire, HoldInv, JobInv
  <2>5. Remaining(payment[p]) \in Int
    BY <1>sound DEF TypeOK, Remaining, PaymentRow
  <2>6. ASSUME p \notin outdated' PROVE HoldIsRight(row, b)
    <3>1. booked[p].hold = Remaining(payment[p])
      BY <2>3, <2>4, <2>6 DEF HoldInv, HoldIsRight, Open
    <3> QED BY <2>1, <2>3, <2>5, <2>6, <3>1 DEF HoldIsRight
  <2>7. (\A q \in Payments \ outdated : HoldIsRight(payment[q], booked[q]))'
    BY <2>2, <2>3, <2>6 DEF HoldInv
  <2>8. job' = [job EXCEPT ![j] = JobWithout(job[j], p)]
    BY <1>4 DEF Expire
  <2>9. /\ JobWithout(job[j], p).todo = job[j].todo \ {p}
        /\ \A q \in Payments : q # p => JobWithout(job[j], p).seen[q] = job[j].seen[q]
    BY <1>sound DEF JobWithout, TypeOK
  <2>10. \A i \in Jobs : \A q \in job'[i].todo :
            q \in job[i].todo /\ job'[i].seen[q] = job[i].seen[q]
    <3>1. job'[j] = JobWithout(job[j], p) /\ \A i \in Jobs : i # j => job'[i] = job[i]
      BY <1>sound, <2>8 DEF TypeOK
    <3>2. job[j].todo \subseteq Payments
      BY <1>sound DEF TypeOK
    <3> QED BY <2>9, <3>1, <3>2
  <2>11. JobInv'
    BY <2>10 DEF JobInv, HoldInv
  <2> QED BY <1>sound, <2>7, <2>11 DEF HoldInv
<1>5. CASE UNCHANGED vars
  BY <1>5, <1>sound DEF vars, HoldInv, JobInv
<1> QED BY <1>1, <1>2, <1>3, <1>4, <1>5 DEF Next

LEMMA InitHold == Init => HoldInv
<1> SUFFICES ASSUME Init PROVE HoldInv
  OBVIOUS
<1>1. HoldIsRight(NoRow, Books(0, 0, 0, 0))
  BY DEF HoldIsRight, NoRow, Row, Books, Remaining
<1>2. IdleJob.todo = {}
  BY DEF IdleJob
<1>3. JobInv
  BY <1>2 DEF Init, JobInv
<1> QED BY <1>1, <1>3, InitSound DEF Init, HoldInv

(* What the books hold for a payment is what it may still capture -- no    *)
(* hold is released twice and none outlives its void or expiry -- for      *)
(* every payment that no job expired from an outdated row.                 *)
THEOREM HoldsAreRight == Spec => []HoldsMatch
<1>1. HoldInv => HoldsMatch
  BY DEF HoldInv, HoldIsRight, HoldsMatch
<1> QED BY <1>1, InitHold, HoldStep, PTL DEF Spec

-----------------------------------------------------------------------------
(* States, and what they leave held.                                       *)

(* A row is captured when nothing is left to capture, and has a refunded   *)
(* state when something was refunded.                                      *)
StateFits(row) ==
    /\ row.state \in {"none", "captured"} => Remaining(row) = 0
    /\ row.state \in {"partially_refunded", "refunded"} => row.refunded > 0

StateInv == HoldInv /\ \A p \in Payments : StateFits(payment[p])

(* The row that a call writes. *)
LEMMA WrittenRow ==
    ASSUME TypeOK, NEW p \in Payments, NEW row, NEW b, Written(p, row, b)
    PROVE  payment'[p] = row /\ \A q \in Payments : q # p => payment'[q] = payment[q]
BY DEF TypeOK, Written

LEMMA RowHas ==
    ASSUME NEW s, NEW a, NEW c, NEW r, NEW f
    PROVE  /\ Row(s, a, c, r, f).state = s /\ Row(s, a, c, r, f).authorized = a
           /\ Row(s, a, c, r, f).captured = c /\ Row(s, a, c, r, f).refunded = r
BY DEF Row

GoodChange(p) ==
    /\ LegalChange(p)
    /\ StateFits(payment[p]) => StateFits(payment'[p])
    /\ \A q \in Payments : q # p => payment'[q] = payment[q]

LEMMA CallChanges ==
    ASSUME SoundInv, NEW p \in Payments, Call(p)
    PROVE  GoodChange(p)
<1> USE ConstantsAssumption
<1> DEFINE old == payment[p]
<1>types. /\ TypeOK /\ old.authorized \in Nat /\ old.captured \in Nat
          /\ old.refunded \in Nat /\ old.fee \in Nat
  BY Fields DEF SoundInv
<1>1. ASSUME NEW n \in 1 .. MaxAmount, Authorize(p, n) PROVE GoodChange(p)
  <2>1. old.state = "none" /\ Written(p, Row("authorized", n, 0, 0, 0), Books(n, 0, 0, 0))
    BY <1>1 DEF Authorize
  <2>2. n \in Nat
    OBVIOUS
  <2>3. /\ payment'[p].state = "authorized"
        /\ \A q \in Payments : q # p => payment'[q] = payment[q]
    BY <1>types, <2>1, WrittenRow, RowHas
  <2> QED BY <2>1, <2>3 DEF GoodChange, LegalChange, StateFits
<1>2. ASSUME NEW n \in 1 .. MaxAmount, NEW fee \in 0 .. MaxAmount, Capture(p, n, fee)
      PROVE  GoodChange(p)
  <2> DEFINE captured == old.captured + n
             s == IF captured = old.authorized THEN "captured" ELSE "partially_captured"
             b == Books(booked[p].hold - n, booked[p].network + n,
                        booked[p].payable + (n - fee), booked[p].fees + fee)
  <2>1. /\ Guard(p, "capture")
        /\ Written(p, Row(s, old.authorized, captured, old.refunded, old.fee + fee), b)
    BY <1>2 DEF Capture
  <2>2. n \in Nat /\ fee \in Nat /\ captured \in Nat
    BY <1>types
  <2>3. old.state \in {"authorized", "partially_captured"}
    BY <2>1 DEF Guard, Allowed
  <2> HIDE DEF b
  <2>4. /\ payment'[p].state = s /\ payment'[p].authorized = old.authorized
        /\ payment'[p].captured = captured
        /\ \A q \in Payments : q # p => payment'[q] = payment[q]
    <3> HIDE DEF s, captured
    <3> QED BY <1>types, <2>1, WrittenRow, RowHas
  <2>5. StateFits(payment'[p])
    BY <1>types, <2>2, <2>4 DEF StateFits, Remaining
  <2>6. s \in Allowed(old.state, "capture")
    BY <2>3 DEF Allowed
  <2> QED BY <2>4, <2>5, <2>6 DEF GoodChange, LegalChange
<1>3. CASE Void(p)
  <2> DEFINE b == Books(booked[p].hold - Remaining(old), booked[p].network,
                        booked[p].payable, booked[p].fees)
  <2>1. /\ Guard(p, "void")
        /\ Written(p, Row("voided", old.authorized, old.captured, old.refunded, old.fee), b)
    BY <1>3 DEF Void
  <2>2. old.state = "authorized"
    BY <2>1 DEF Guard, Allowed
  <2> HIDE DEF b
  <2>3. /\ payment'[p].state = "voided"
        /\ \A q \in Payments : q # p => payment'[q] = payment[q]
    BY <1>types, <2>1, WrittenRow, RowHas
  <2>4. "voided" \in Allowed(old.state, "void")
    BY <2>2 DEF Allowed
  <2> QED BY <2>3, <2>4 DEF GoodChange, LegalChange, StateFits
<1>4. ASSUME NEW n \in 1 .. MaxAmount, NEW refundFee \in BOOLEAN, Refund(p, n, refundFee)
      PROVE  GoodChange(p)
  <2> DEFINE refunded == old.refunded + n
             s == IF refunded = old.captured THEN "refunded" ELSE "partially_refunded"
  <2>1. PICK b : /\ Guard(p, "refund")
                 /\ Written(p, Row(s, old.authorized, old.captured, refunded, old.fee), b)
    BY <1>4 DEF Refund
  <2>2. n \in Nat /\ n > 0 /\ refunded \in Nat /\ refunded > 0
    BY <1>types
  <2>3. old.state \in {"captured", "partially_captured", "partially_refunded"}
    BY <2>1 DEF Guard, Allowed
  <2>4. /\ payment'[p].state = s /\ payment'[p].refunded = refunded
        /\ \A q \in Payments : q # p => payment'[q] = payment[q]
    <3> HIDE DEF s, refunded
    <3> QED BY <1>types, <2>1, WrittenRow, RowHas
  <2>5. StateFits(payment'[p])
    BY <2>2, <2>4 DEF StateFits
  <2>6. s \in Allowed(old.state, "refund")
    BY <2>3 DEF Allowed
  <2> QED BY <2>4, <2>5, <2>6 DEF GoodChange, LegalChange
<1>5. ASSUME NEW delta \in -MaxAmount .. MaxAmount, Adjust(p, delta) PROVE GoodChange(p)
  <2> DEFINE after == old.authorized + delta
             b == Books(booked[p].hold + delta, booked[p].network,
                        booked[p].payable, booked[p].fees)
  <2>1. /\ Guard(p, "capture") /\ after > 0
        /\ Written(p, Row(old.state, after, old.captured, old.refunded, old.fee), b)
    BY <1>5 DEF Adjust
  <2>2. after \in Nat
    BY <1>types, <2>1
  <2>3. old.state \in {"authorized", "partially_captured"}
    BY <2>1 DEF Guard, Allowed
  <2>4. /\ payment'[p].state = old.state
        /\ \A q \in Payments : q # p => payment'[q] = payment[q]
    BY <1>types, <2>1, WrittenRow, RowHas
  <2> QED BY <2>3, <2>4 DEF GoodChange, LegalChange, StateFits
<1> QED BY <1>1, <1>2, <1>3, <1>4, <1>5 DEF Call

(* An expiry changes the state alone, and legally so unless it works from  *)
(* an outdated row.                                                        *)
LEMMA ExpiryChanges ==
    ASSUME SoundInv, JobInv, NEW j \in Jobs, NEW p \in Payments, Expire(j, p)
    PROVE  /\ p \notin outdated' => LegalChange(p)
           /\ StateFits(payment'[p])
           /\ \A q \in Payments : q # p => payment'[q] = payment[q]
<1> DEFINE old == payment[p]
<1>1. /\ TypeOK /\ old.state \in States /\ old.authorized \in Nat /\ old.captured \in Nat
      /\ old.refunded \in Nat /\ old.fee \in Nat
  BY Fields DEF SoundInv
<1>2. PICK b : Written(p, Row("expired", old.authorized, old.captured, old.refunded, old.fee), b)
  BY DEF Expire
<1>4. payment'[p].state = "expired" /\ \A q \in Payments : q # p => payment'[q] = payment[q]
  BY <1>1, <1>2, WrittenRow, RowHas
<1>5. p \notin outdated' => Open(payment[p])
  BY DEF Expire, JobInv
<1> QED BY <1>4, <1>5 DEF LegalChange, StateFits

LEMMA StateStep ==
    ASSUME StateInv, [Next]_vars
    PROVE  StateInv' /\ \A p \in Payments \ outdated' : LegalChange(p)
<1>1. HoldInv /\ HoldInv' /\ SoundInv /\ JobInv
  BY HoldStep DEF StateInv, HoldInv
<1>same. ASSUME UNCHANGED payment
         PROVE  /\ \A p \in Payments : StateFits(payment'[p])
                /\ \A p \in Payments : LegalChange(p)
  BY <1>same DEF StateInv, LegalChange
<1>2. ASSUME NEW p \in Payments, Call(p)
      PROVE  /\ \A q \in Payments : StateFits(payment'[q])
             /\ \A q \in Payments : LegalChange(q)
  <2>1. GoodChange(p)
    BY <1>1, <1>2, CallChanges
  <2> QED BY <2>1 DEF GoodChange, LegalChange, StateInv
<1>3. ASSUME NEW j \in Jobs, NEW p \in Payments, Expire(j, p)
      PROVE  /\ \A q \in Payments : StateFits(payment'[q])
             /\ \A q \in Payments \ outdated' : LegalChange(q)
  <2>1. /\ p \notin outdated' => LegalChange(p)
        /\ StateFits(payment'[p])
        /\ \A q \in Payments : q # p => payment'[q] = payment[q]
    BY <1>1, <1>3, ExpiryChanges
  <2>2. \A q \in Payments : q # p => LegalChange(q)
    BY <2>1 DEF LegalChange
  <2> QED BY <2>1, <2>2 DEF StateInv
<1>4. ASSUME NEW j \in Jobs, StartExpiry(j) \/ ExpiryFails(j) PROVE UNCHANGED payment
  BY <1>4 DEF StartExpiry, ExpiryFails
<1>5. UNCHANGED vars => UNCHANGED payment
  BY DEF vars
<1>6. /\ \A p \in Payments : StateFits(payment'[p])
      /\ \A p \in Payments \ outdated' : LegalChange(p)
  BY <1>same, <1>2, <1>3, <1>4, <1>5 DEF Next
<1> QED BY <1>1, <1>6 DEF StateInv

LEMMA InitState == Init => StateInv
<1> SUFFICES ASSUME Init PROVE StateInv
  OBVIOUS
<1>1. StateFits(NoRow)
  BY DEF StateFits, NoRow, Row, Remaining
<1> QED BY <1>1, InitHold DEF Init, StateInv

(* The table of payments.py:57-64, with the expiry that its picture leaves *)
(* out, is left in one way only: by a job that expires a payment from a    *)
(* row that has changed since the job read it.                             *)
THEOREM OnlyStaleJobsBreakTheTable == Spec => OnlyStaleJobsLeaveTheTable
<1>1. StateInv /\ [Next]_vars => StateInv'
  BY StateStep
<1>2. StateInv /\ [Next]_vars => [\A p \in Payments \ outdated' : LegalChange(p)]_vars
  BY StateStep
<1> QED BY InitState, <1>1, <1>2, PTL DEF Spec, OnlyStaleJobsLeaveTheTable

(* A hold that nothing releases (payments.py:132-133 promises void or      *)
(* expiry) belongs to a payment that was refunded before all of it was     *)
(* captured, stale expiries aside.                                         *)
THEOREM OnlyRefundsStrand == Spec => []OnlyRefundsStrandHolds
<1>1. StateInv => OnlyRefundsStrandHolds
  <2> SUFFICES ASSUME StateInv, NEW p \in Payments \ outdated, booked[p].hold > 0,
                      ~Open(payment[p])
               PROVE  payment[p].refunded > 0
    BY DEF OnlyRefundsStrandHolds
  <2>1. HoldIsRight(payment[p], booked[p]) /\ StateFits(payment[p])
    BY DEF StateInv, HoldInv
  <2>2. payment[p].state \in States
    BY Fields DEF StateInv, HoldInv, SoundInv
  <2> QED BY <2>1, <2>2 DEF HoldIsRight, StateFits, Open, States
<1>2. StateInv /\ [Next]_vars => StateInv'
  BY StateStep
<1> QED BY InitState, <1>1, <1>2, PTL DEF Spec
=============================================================================
