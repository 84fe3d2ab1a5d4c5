------------------------------ MODULE MCLedger ------------------------------
(***************************************************************************)
(* A bank of two accounts for TLC: cash may be overdrawn, the card account *)
(* may not go below zero.  "load" puts 2 on the card, "spend" takes 2 off; *)
(* "skew" does not balance and "alien" writes the wrong currency.          *)
(***************************************************************************)
EXTENDS Ledger

CONSTANTS t1, t2, k1, k2

MCThreads == {t1, t2}
MCKeys == {k1, k2}
MCPayloads == {"load", "spend", "skew", "alien"}
MCAccounts == {"cash", "card"}
MCCurrencies == {"USD", "EUR"}
MCCurrency == [a \in MCAccounts |-> "USD"]
MCFloor == [a \in MCAccounts |-> 0]
MCOverdraft == {"cash"}

Leg(cash, card) == [a \in MCAccounts |-> IF a = "cash" THEN cash ELSE card]

MCTouches == [p \in MCPayloads |-> MCAccounts]
MCNet == [p \in MCPayloads |->
            CASE p = "load"  -> Leg(-2, 2)
              [] p = "spend" -> Leg(2, -2)
              [] p = "skew"  -> Leg(1, 0)
              [] p = "alien" -> Leg(-1, 1)]
MCEntryCurrency == [p \in MCPayloads |->
                      [a \in MCAccounts |-> IF p = "alien" THEN "EUR" ELSE "USD"]]

Ask(k, p) == [key |-> k, payload |-> p]

(* k1 is used with two payloads (a conflict) and by racing duplicates; two *)
(* spenders race for the same money; a plain post runs beside them.        *)
MCRequests == {Ask(k1, "load"), Ask(k1, "spend"), Ask(k2, "spend"), Ask(NoKey, "spend")}

(* The same with the requests that are refused for what they ask. *)
AllRequests == MCRequests \cup
    {Ask(k1, "skew"), Ask(k2, "alien"), Ask(NoKey, "skew"), Ask(NoKey, "alien")}
=============================================================================
