------------------------------ MODULE MCClaims ------------------------------
(* An instance of Claims for TLC.                                          *)
EXTENDS Claims, TLC

CONSTANTS alice, bob, a, b

Owners == a :> alice @@ b :> alice
Claims1 == a :> None @@ b :> None

Symmetry == Permutations(Tab)

(* Four of what the bounds allow five of: pages in both tabs and any two   *)
(* of claims, withdrawals and mishaps, or one page and three of them.  All *)
(* five, with one call under way at a time, once a claim from before       *)
(* claims bore names has been reset.                                       *)
Reset == \E n \in Legacy : account[n] # [claimed |-> TRUE, by |-> None, code |-> 0]
Together ==
    \/ loads + posts + upsets <= 4
    \/ Reset /\ (\A n \in Agent : account[n].code = 0) /\ Cardinality(calls) <= 1
=============================================================================
