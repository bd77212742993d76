----------------------------- MODULE MCRateSync -----------------------------
(* Instances of RateSync: the codes in alphabetical order. *)
EXTENDS RateSync, TLC

MCRank == [c \in {"BTC", "ETH", "EUR", "GBP", "USD"} \cap Currency |->
              CASE c = "BTC" -> 1 [] c = "ETH" -> 2 [] c = "EUR" -> 3
                [] c = "GBP" -> 4 [] c = "USD" -> 5]

TaskSymmetry == Permutations(Tasks) \cup Permutations(Users)
=============================================================================
