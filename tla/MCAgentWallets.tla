--------------------------- MODULE MCAgentWallets ---------------------------
(* Instances of AgentWallets for TLC. *)
EXTENDS AgentWallets, TLC

CONSTANTS Common    \* agents whose owner is the same

OwnerOf == [a \in Agent |-> IF a \in Common THEN "owner" ELSE a]
Owners  == Agent \cup {"owner"}

Symmetry == {f @@ g : f \in Permutations(Agent), g \in Permutations(Request)}

Busy == {r \in Request : req[r] # NoReq}
Together ==
    Cardinality(Busy') < 2 \/ Busy = Busy' \/ (disturbed = {} /\ chosen = {} /\ orphaned = {})
============================================================================
