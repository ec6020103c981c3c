---------------------------- MODULE MCGasTopUps ----------------------------
(* Instances of GasTopUps for TLC. *)
EXTENDS GasTopUps, TLC

CONSTANTS
    Deposits,       \* that each wallet has money for
    Guests          \* wallets that are at work for a while only
UsdcOfAll == [w \in Wallet |-> Deposits]

(* Slots and top-ups are interchangeable.                                  *)
Symmetry == Permutations(Request) \cup Permutations(TopUp)

(* A guest is at work while all is calm, on the first day, until the first *)
(* top-up is mined: long enough for a race of two wallets for the limits.  *)
AtWork(w) == (\E r \in Request : req[r].wallet = w) \/ (\E t \in TopUp : top[t].wallet = w)
Brief ==
    (\E w \in Guests : AtWork(w)) =>
        calm /\ now = 0 /\ \A t \in TopUp : top[t].state # "mined"

(* When all the top-ups are mined and something was lost, requests are     *)
(* made one at a time.                                                     *)
Late ==
    (\A t \in TopUp : top[t].state = "mined") /\ ~calm =>
        Cardinality({r \in Request : ~At(r, "idle")}) <= 1
Together == Brief /\ Late
============================================================================
