--------------------------- MODULE InboundBacking ---------------------------
(***************************************************************************)
(* Whether the money InboundCredit credits has been swept to the Gateway.  *)
(* A handler asks the Circle service for the balance of the wallet and     *)
(* deposits all of it (webhooks.py:690-713), and entries are credited when *)
(* that deposit is made, by the handler or by a resume task                *)
(* (webhooks.py:754-783, 354-395).  Nothing serialises the handlers: one   *)
(* may credit a payment that came in only after it had asked.  This module *)
(* remembers what had come in when a deposit's amount was asked for, and   *)
(* counts the USDC credited beyond that.                                   *)
(***************************************************************************)
EXTENDS InboundCredit

VARIABLES
    old,        \* payments of before the beginning, whose sweep, if there
                \* was one, gateway does not count
    asked,      \* asked[h]: the payments that had come into the wallet when
                \* the request h serves was told its balance
    kept,       \* kept[i]: those of the request that caused gas top-up i
    stray       \* atomic USDC credited for a payment that is old, that has
                \* a credit, or that came in after the balance was asked for

histVars == <<old, asked, kept, stray>>

HistInit ==
    /\ old = arrived
    /\ asked = [h \in Handler |-> {}]
    /\ kept = [i \in Intent |-> {}]
    /\ stray = 0

(* The request h serves goes from one await to another in this step.       *)
Moves(h, from, to) == req[h].pc = from /\ req'[h].pc = to

Asked(h) ==
    IF Moves(h, "status", "balance") THEN arrived \ old
    ELSE IF req'[h].pc \in {"idle", "hook"} THEN {} ELSE asked[h]

Kept(i) ==
    IF intents[i].status = "none" /\ intents'[i].status # "none"
    THEN UNION {asked[h] : h \in {g \in Handler : Moves(g, "deposit", "gas_pending")}}
    ELSE kept[i]

(* What whoever credits in this step had its deposit asked for; nothing    *)
(* when it credits without a deposit.                                      *)
AskedByCreditor ==
    UNION ({asked[h] : h \in {g \in Handler : Moves(g, "crediting", "marking")}}
           \cup {kept[job[k].intent] :
                    k \in {j \in Task : job[j].pc = "resumed" /\ job'[j].pc = "marking"}})

Late(t) == AskedByCreditor # {} /\ t \notin AskedByCreditor

Stray ==
    LET t == credits'[Len(credits')].tx IN
    IF credits' # credits /\ (t \in old \/ CreditedTx(t) \/ Late(t)) THEN Value[t] ELSE 0

Remember ==
    /\ old' = old
    /\ asked' = [h \in Handler |-> Asked(h)]
    /\ kept' = [i \in Intent |-> Kept(i)]
    /\ stray' = stray + Stray

BackingInit == Init /\ HistInit
BackingNext == Next /\ Remember
BackingSpec == BackingInit /\ [][BackingNext]_<<vars, histVars>>

-----------------------------------------------------------------------------
(* The account never holds more than was moved to the Gateway, but for     *)
(* credits of payments that came in after the deposit's balance was asked  *)
(* for, that are older than the entries, or that are credited again.       *)
(* Handlers that sweep one another's money, lost replies, crashes and      *)
(* top-ups that remember an old balance cost nothing more, and nothing is  *)
(* credited without a deposit.                                             *)
SpendableIsSwept == available <= gateway + stray

(* Why it holds: what the wallet holds came from payments not credited.    *)
(* Who is about to credit has swept what the wallet held when it asked, or *)
(* is about to; what the wallet will still hold came in after that.        *)
Units(S) == UNION {{t} \X (1..Value[t]) : t \in S}
Total(S) == Cardinality(Units(S))

PaidIn     == arrived \ old
Uncredited == {t \in PaidIn : ~CreditedTx(t)}
(* Strays that took nothing from what the wallet is to be compared with.   *)
Spare      == stray + Total(PaidIn \ Uncredited) - available

(* Beyond amount, the wallet holds only what came in after past.           *)
LaterThan(past, amount) == wallet <= amount + Total(Uncredited \ past) + Spare

Settled(t) == t \in old \/ CreditedTx(t)

BooksBacked ==
    /\ IsFiniteSet(PaidIn)
    /\ wallet + gateway = Total(PaidIn)
    /\ Spare \in Nat
    /\ LaterThan({}, 0)
    /\ \A n \in Note : events[n] = "processed" => Settled(TxOf[n])

RequestBacked(r, past) ==
    /\ r.seen = "processed" => r.note \in Intent \/ Settled(TxOf[r.note])
    /\ r.pc = "hook" => past = {} /\ r.batch = {}
    /\ r.pc \in {"balance", "deposit"} =>
          LaterThan(past, r.amount) /\ (past = {} => r.amount = 0)
    /\ r.pc = "deposited" => LaterThan(past, 0) /\ past # {}
    /\ r.pc \in {"crediting", "marking"} =>
          LaterThan(past, 0) /\ (past = {} => r.batch = {} /\ r.seen = "processed")

TopUpBacked(t, past) ==
    /\ t.status # "none" => LaterThan(past, t.amount) /\ past # {}
    /\ t.status = "completed" => LaterThan(past, 0)

ResumeBacked(r) ==
    /\ r.pc \in {"deposit", "resumed"} => intents[r.intent].status # "none"
    /\ r.pc = "resumed" => LaterThan(kept[r.intent], 0)

(* The sets remembered are of earlier and later times.                     *)
Pasts == {asked[h] : h \in Handler} \cup {kept[i] : i \in Intent}

HistTypes ==
    /\ old \subseteq arrived
    /\ asked \in [Handler -> SUBSET PaidIn]
    /\ kept \in [Intent -> SUBSET PaidIn]
    /\ stray \in Nat
    /\ \A p, q \in Pasts : p \subseteq q \/ q \subseteq p

BackedInv ==
    /\ HistTypes
    /\ BooksBacked
    /\ \A h \in Handler : RequestBacked(req[h], asked[h])
    /\ \A i \in Intent : TopUpBacked(intents[i], kept[i])
    /\ \A k \in Task : ResumeBacked(job[k])
=============================================================================
