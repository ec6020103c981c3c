--------------------------- MODULE MCSettlements ---------------------------
(* Instances of Settlements for TLC. *)
EXTENDS Settlements, TLC

CONSTANTS t1, t2, c1, s1, s2, f1, f2, ann, bob, key1, key2

(* The transfers are interchangeable, and so are the creations, the        *)
(* confirmations, the agents and the keys.                                 *)
Symmetry ==
    Permutations({t1, t2}) \cup Permutations({s1, s2}) \cup
    Permutations({ann, bob}) \cup Permutations({key1, key2})

(* Bound: a behaviour has transfers or the other calls; they share only    *)
(* the table of entries, which single transactions write.                  *)
Apart ==
    \/ \A t \in Transfer : at[t] = "idle"
    \/ \A c \in Calls \ Transfer : at[c] = "idle"
=============================================================================
