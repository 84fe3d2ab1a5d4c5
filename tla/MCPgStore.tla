----------------------------- MODULE MCPgStore -----------------------------
(***************************************************************************)
(* A wallet that may go one below zero, a till in the same currency and a  *)
(* till in another.  Two withdrawals of 1 fit one at a time; the two       *)
(* orders of the same posting can deadlock; the others are refused.        *)
(***************************************************************************)
EXTENDS PgStore

CONSTANTS w1, w2, d1, d2

MCWorkers == {w1, w2}
OneWriter == {d1}
TwoWriters == {d1, d2}

MCAccounts == {"wallet", "till", "kasse"}
MCCurrencies == {"USD", "EUR"}
MCCurrency == [a \in MCAccounts |-> IF a = "kasse" THEN "EUR" ELSE "USD"]
MCFloor == [a \in MCAccounts |-> IF a = "wallet" THEN -1 ELSE 0]
MCOverdraft == {"till", "kasse"}

Debit(a)  == [account |-> a, direction |-> "D", amount |-> 1, currency |-> MCCurrency[a]]
Credit(a) == [account |-> a, direction |-> "C", amount |-> 1, currency |-> MCCurrency[a]]

Withdraw  == <<Credit("wallet"), Debit("till")>>
Reordered == <<Debit("till"), Credit("wallet")>>
Exchange  == <<Debit("till"), Credit("kasse")>>      \* balances in no currency
Negative  == <<[Debit("till") EXCEPT !.amount = -1]>>
Alien     == <<Debit("till"), [Credit("till") EXCEPT !.currency = "EUR"]>>

MCPostings == {Withdraw, Reordered, Exchange, Negative, Alien, <<>>}
MCDirectEntries == {Debit("till"), Credit("wallet")}
=============================================================================
