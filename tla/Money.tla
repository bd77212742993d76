-------------------------------- MODULE Money --------------------------------
(***************************************************************************)
(* Amounts of money (types/MoneyWithSign.ts), how the providers' answers   *)
(* become amounts (plaid.provider.ts getAccounts, crypto.provider.ts       *)
(* createAPIAccount) and how amounts are converted (balance-query.service  *)
(* buildBalanceWithConversion).  A float of the program is a rational      *)
(* here: reported amounts are counted in parts of the major unit.          *)
(***************************************************************************)
EXTENDS CurrencyPairs, Integers

CONSTANTS
    PerMajor,  \* smallest units of a currency in its major unit
    Parts,     \* parts of the major unit in which reports are counted
    MaxBigint  \* largest amount a column holds

ASSUME MoneyAssumption ==
    /\ PerMajor \in [Currency -> Nat \ {0}]
    /\ Parts \in Nat \ {0}
    /\ MaxBigint \in Nat

Abs(n) == IF n < 0 THEN -n ELSE n

(* Math.round(n / d), for n >= 0                                           *)
Round(n, d) == (2 * n + d) \div (2 * d)

SignOf(n) == IF n >= 0 THEN "positive" ELSE "negative"

Zero(c) == [amount |-> 0, currency |-> c, sign |-> "positive"]

(* Mutant: cuts off                                                        *)
Truncated(c, n) ==
    [amount |-> (Abs(n) * PerMajor[c]) \div Parts, currency |-> c,
     sign |-> SignOf(n)]

(* MoneyWithSign.fromFloat                                                 *)
FromFloat(c, n) ==
    [amount |-> Round(Abs(n) * PerMajor[c], Parts), currency |-> c,
     sign |-> SignOf(n)]

(* A field that may be absent is a set: a ?? b                             *)
Or(a, b) == IF a = {} THEN b ELSE CHOOSE x \in a : TRUE

(* Plaid's balances: currency code of the ISO, or not, or of neither.  A   *)
(* wallet's report has its network's currency, and its balance twice.      *)
Balances(r) ==
    LET c == Or(r.iso, Or(r.unofficial, USD))
    IN  [available |-> FromFloat(c, Or(r.available, 0)),
         current |-> FromFloat(c, Or(r.current, 0))]

(* Does the row of these balances fit its bigint columns?                  *)
Fits(b) == b.available.amount <= MaxBigint /\ b.current.amount <= MaxBigint

Signed(m) == IF m.sign = "positive" THEN m.amount ELSE -m.amount

(* The amount in the currency c, at rate.n / rate.d                        *)
Convert(m, c, rate) ==
    [amount |-> Round(m.amount * rate.n * PerMajor[c],
                      rate.d * PerMajor[m.currency]),
     currency |-> c, sign |-> m.sign]
=============================================================================
