--------------------------- MODULE InboundPromise ---------------------------
(***************************************************************************)
(* What the ledger promises about inbound payments: each one is paid out   *)
(* to the account at most once, in full, and only after it arrived.        *)
(***************************************************************************)
EXTENDS Naturals

CONSTANTS Tx, Value

VARIABLES
    arrived,    \* payments confirmed on chain
    paid,       \* payments the account was credited for
    balance     \* what the account holds

Init ==
    /\ arrived \subseteq Tx
    /\ paid = {}
    /\ balance = 0

Arrive(t) ==
    /\ arrived' = arrived \cup {t}
    /\ UNCHANGED <<paid, balance>>

Pay(t) ==
    /\ t \in arrived \ paid
    /\ paid' = paid \cup {t}
    /\ balance' = balance + Value[t]
    /\ UNCHANGED arrived

Next == \E t \in Tx : Arrive(t) \/ Pay(t)

Spec == Init /\ [][Next]_<<arrived, paid, balance>>
=============================================================================
