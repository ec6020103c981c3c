-------------------------- MODULE MCInboundCredit --------------------------
(* Instances of InboundCredit for TLC. *)
EXTENDS InboundCredit, TLC

CONSTANTS x, y, n1, n2, n3

(* One payment announced once, or twice (as CONFIRMED and as COMPLETE).    *)
OneTxOf == n1 :> x
TwoNotesTxOf == n1 :> x @@ n2 :> x
(* x announced twice, y once.                                              *)
MixedTxOf == n1 :> x @@ n2 :> x @@ n3 :> y

EqualValues == x :> 2 @@ y :> 2
UnequalValues == x :> 2 @@ y :> 1

Symmetry == Permutations(Handler)
============================================================================
