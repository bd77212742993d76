---------------------------- MODULE CurrencyPairs ----------------------------
(***************************************************************************)
(* Currency pairs (currency-exchange/utils/currency-pair.utils.ts) and the *)
(* providers that quote them.  A rate is stored for one direction of a     *)
(* pair only: towards USD, otherwise in alphabetical order.                *)
(***************************************************************************)
EXTENDS Naturals

CONSTANTS
    Currency,  \* currency codes
    USD,
    Crypto,    \* CRYPTO_CURRENCIES
    Rank       \* the alphabetical order of the codes

ASSUME CurrencyAssumption ==
    /\ USD \in Currency
    /\ Crypto \subseteq Currency \ {USD}
    /\ Rank \in [Currency -> Nat]
    /\ \A c, d \in Currency : Rank[c] = Rank[d] => c = d

IsCrypto(c) == c \in Crypto

(* Is the stored direction of the pair the other one? *)
Inverted(base, target) ==
    IF base = USD \/ target = USD THEN base = USD
    ELSE Rank[target] < Rank[base]

Canonical(base, target) ==
    IF Inverted(base, target) THEN <<target, base>> ELSE <<base, target>>

(* The price of pair[1] in pair[2] *)
InversePrice(price) == <<price[2], price[1]>>

(* Frankfurter knows no crypto currency.                                   *)
FiatQuotes(base, target) == ~IsCrypto(base) /\ ~IsCrypto(target)

(* CoinGecko knows only those as base, and quotes them in any currency.    *)
CryptoQuotes(base, target) == IsCrypto(base)

(* The provider is chosen by the base (getProviderForCurrency).            *)
Quotes(base, target) ==
    IF IsCrypto(base) THEN CryptoQuotes(base, target) ELSE FiatQuotes(base, target)
=============================================================================
