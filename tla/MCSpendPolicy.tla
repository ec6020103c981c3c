--------------------------- MODULE MCSpendPolicy ---------------------------
(* Instances of SpendPolicy for TLC. *)
EXTENDS SpendPolicy, TLC

CONSTANTS MaxAmount, DayLimit, Coin, Dollars

CapOfBoth   == [a \in Asset |-> MaxAmount]
LimitOfBoth == [a \in Asset |-> DayLimit]
FundsOfBoth == [a \in Asset |-> IF a = "WEI" THEN Coin ELSE Dollars]

(* The slots are interchangeable.                                          *)
Symmetry == Permutations(Caller)
============================================================================
