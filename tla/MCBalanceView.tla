---------------------------- MODULE MCBalanceView ----------------------------
(* An instance of BalanceView: a credit card in dollars and an investment  *)
(* in ether, whose first balance is too large for its column.  Dollars     *)
(* have a rate on two days of three, ether on one.                         *)
EXTENDS BalanceView, TLC

MCRank == [c \in Currency |-> IF c = "ETH" THEN 1 ELSE IF c = "EUR" THEN 2 ELSE 3]
MCPerMajor == [c \in Currency |-> IF c = "EUR" THEN 5 ELSE 10]

Report(iso, unofficial, available, current) ==
    [iso |-> iso, unofficial |-> unofficial, available |-> available, current |-> current]

MCReports ==
    [a \in Accounts |->
       IF a = "card"
         THEN <<Report({}, {}, {9}, {26}), Report({"USD"}, {}, {}, {64})>>
         ELSE <<Report({}, {"ETH"}, {400}, {400}), Report({}, {"ETH"}, {7}, {-47})>>]

MCTypeOf == [a \in Accounts |-> IF a = "card" THEN "credit" ELSE "investment"]

MCPrice ==
    (<<"EUR", "USD">> :> (0 :> [n |-> 3, d |-> 2] @@ 2 :> [n |-> 3, d |-> 4]))
      @@ (<<"ETH", "EUR">> :> (1 :> [n |-> 5, d |-> 3]))

MCRequests == {<<{"card", "nobody"}, <<0, 1>>>>, <<{"card", "cash"}, <<0, 1>>>>}
MCRanges == {<<2, 2>>}
=============================================================================
