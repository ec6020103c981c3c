------------------------ MODULE SettlementPromise ------------------------
(***************************************************************************)
(* What the ledger promises about transfers between agents: the books show *)
(* only transfers that the Gateway has made, and a caller is told of       *)
(* success only when the books show it.                                    *)
(***************************************************************************)
CONSTANT Transfer

VARIABLES
    moved,      \* transfers the Gateway has made
    booked,     \* transfers both of whose entries are in the books
    told        \* transfers whose caller was told of success

Init == moved = {} /\ booked = {} /\ told = {}

Move(t) ==
    /\ moved' = moved \cup {t}
    /\ UNCHANGED <<booked, told>>

Book(t) ==
    /\ t \in moved \ booked
    /\ booked' = booked \cup {t}
    /\ UNCHANGED <<moved, told>>

Tell(t) ==
    /\ t \in booked
    /\ told' = told \cup {t}
    /\ UNCHANGED <<moved, booked>>

Next == \E t \in Transfer : Move(t) \/ Book(t) \/ Tell(t)

Spec == Init /\ [][Next]_<<moved, booked, told>>
=============================================================================
