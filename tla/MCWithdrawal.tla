---------------------------- MODULE MCWithdrawal ----------------------------
(* Instances of Withdrawal for TLC. *)
EXTENDS Withdrawal, TLC

CONSTANTS w1, w2

(* Together they exceed the limits of a day and of a week, either alone    *)
(* does not.                                                               *)
TwoAmounts == w1 :> 1 @@ w2 :> 2
============================================================================
