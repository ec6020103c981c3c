-------------------------- MODULE MCInboundBacking --------------------------
(* Instances of InboundBacking for TLC. *)
EXTENDS InboundBacking, TLC

CONSTANTS x, y, n1, n2, n3

(* x announced twice (as CONFIRMED and as COMPLETE), y once.               *)
MixedTxOf == n1 :> x @@ n2 :> x @@ n3 :> y

UnequalValues == x :> 2 @@ y :> 1

(* The two notifications of x say the same.                                *)
NoteSymmetry == Permutations(Handler) \cup Permutations({n1, n2})
=============================================================================
