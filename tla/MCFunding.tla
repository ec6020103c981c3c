----------------------------- MODULE MCFunding -----------------------------
(* An instance of Funding for TLC: digits 0 and 1, an amount of eighths,   *)
(* and accounts that hold an odd number of them, which MAX rounds.         *)
EXTENDS Funding, TLC

Symmetry == Permutations(Address)

(* A fourth work is done with one withdrawal or picture under way at most, *)
(* and with no camera on beside a withdrawal.                              *)
CamerasOff == \A t \in Tab : scan[t].status = "off"
Together ==
    \/ works < Works
    \/ Cardinality(calls) + Cardinality(reads) <= 1 /\ (calls = {} \/ CamerasOff)
=============================================================================
