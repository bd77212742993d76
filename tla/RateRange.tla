------------------------------ MODULE RateRange ------------------------------
(***************************************************************************)
(* Filling the days without a rate                                         *)
(* (currency-exchange.service.ts getRatesForDateRange, findClosestRate).   *)
(* D is the set of days a pair has rows for.  Three queries read those in  *)
(* the range, the last one before it and the first one after it; each day  *)
(* of the range takes the closest of the rows read.                        *)
(***************************************************************************)
EXTENDS CurrencyPairs

InRange(D, start, end) == {x \in D : start <= x /\ x <= end}

(* distinctOn the pair, latest first                                       *)
PriorRate(D, start) ==
    {x \in D : x < start /\ \A y \in D : y < start => y <= x}

(* distinctOn the pair, earliest first                                     *)
FutureRate(D, end) ==
    {x \in D : x > end /\ \A y \in D : y > end => x <= y}

Known(D, start, end) ==
    PriorRate(D, start) \cup InRange(D, start, end) \cup FutureRate(D, end)

(* Mutant: prefers the next known rate                                     *)
NextFirst(D, d) ==
    IF \E x \in D : x >= d
      THEN {x \in D : x >= d /\ \A y \in D : y >= d => x <= y}
      ELSE {x \in D : \A y \in D : y <= x}

(* The last known day up to d, otherwise the next known one; none when D   *)
(* is empty                                                                *)
Closest(D, d) ==
    IF \E x \in D : x <= d
      THEN {x \in D : x <= d /\ \A y \in D : y <= d => y <= x}
      ELSE {x \in D : \A y \in D : x <= y}
=============================================================================
