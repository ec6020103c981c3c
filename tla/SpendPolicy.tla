---------------------------- MODULE SpendPolicy ----------------------------
(***************************************************************************)
(* The daily spending limits of the chain service: PolicyGuard             *)
(* (chain/src/policies/policy-guard.ts), the services that ask it before a *)
(* payment and tell it after one (x402-fetch-service, execution-service,   *)
(* user-operation-service, sign-transfer-service), and the x402 seller     *)
(* that takes the payment (x402-seller/x402_seller.py).                    *)
(*                                                                         *)
(* The guard is consulted, the payment awaited, the guard told: other      *)
(* calls, midnight and a restart fall in between.                          *)
(***************************************************************************)
EXTENDS Integers, FiniteSets

CONSTANTS
    Caller,         \* slots for calls in progress at the same time
    Amounts,        \* amounts a call may be for
    SingleCap,      \* SingleCap[a]: the most one call may spend
    DailyLimit,     \* DailyLimit[a]: the most a day's calls may spend
    Funds,          \* Funds[a]: what the buyer's key owns at first
    LastDay,        \* bound: the last day
    Faults          \* what may happen in a run, see below

(* The guard keeps one counter for native coin and one for USDC.           *)
Asset == {"WEI", "USDC"}
Kind  == {"x402", "submit", "sign"}
AssetOf(kind) == IF kind = "x402" THEN "USDC" ELSE "WEI"

FaultKinds ==
    { "remote_error",   \* the facilitator or the RPC node fails, perhaps
                        \* after it has moved the money
      "lost_reply",     \* the buyer's request breaks off while the seller or
                        \* the node carries on
      "restart" }       \* the chain service restarts

ASSUME SpendAssumption ==
    /\ IsFiniteSet(Caller) /\ Caller # {}
    /\ Amounts \subseteq Nat
    /\ SingleCap \in [Asset -> Nat]
    /\ DailyLimit \in [Asset -> Nat]
    /\ Funds \in [Asset -> Nat]
    /\ LastDay \in Nat
    /\ Faults \subseteq FaultKinds

VARIABLES
    day,            \* today, in UTC
    dayKey,         \* the guard's currentDayKey
    spent,          \* the guard's spentTodayWei and spentTodayUsdcAtomic
    calls,          \* calls[c]: the call in slot c
    balance,        \* balance[a]: what the buyer's key still owns
    paid,           \* paid[a]: what calls have paid today
    missed          \* missed[a]: paid and never told to the guard, or told to
                    \* one that has restarted since

guardVars == <<dayKey, spent>>
moneyVars == <<balance, paid, missed>>
vars == <<day, guardVars, calls, moneyVars>>

Call == [pc : {"idle", "sent", "verified", "done", "failed"},
         kind : Kind,
         amount : Nat,
         waiting : BOOLEAN,     \* the chain service still waits for the answer
         paid : {"no", "today", "before"}]  \* when the money has moved

Idle == [pc |-> "idle", kind |-> "x402", amount |-> 0,
         waiting |-> FALSE, paid |-> "no"]

Nothing == [a \in Asset |-> 0]

TypeOK ==
    /\ day \in Nat
    /\ dayKey \in Nat
    /\ spent \in [Asset -> Nat]
    /\ calls \in [Caller -> Call]
    /\ balance \in [Asset -> Nat]
    /\ paid \in [Asset -> Nat]
    /\ missed \in [Asset -> Nat]

Init ==
    /\ day = 0
    /\ dayKey = 0
    /\ spent = Nothing
    /\ calls = [c \in Caller |-> Idle]
    /\ balance = Funds
    /\ paid = Nothing
    /\ missed = Nothing

-----------------------------------------------------------------------------
(* The guard.                                                              *)

(* What rollDayIfNeeded leaves of the counters.                            *)
SpentToday == IF dayKey = day THEN spent ELSE Nothing

RollDay ==
    /\ dayKey' = day
    /\ spent' = SpentToday

Admits(kind, amount) ==
    /\ amount <= SingleCap[AssetOf(kind)]
    /\ SpentToday[AssetOf(kind)] + amount <= DailyLimit[AssetOf(kind)]

(* authorize and authorizeX402, for a recipient, a network and an asset on *)
(* the lists. A call that is refused leaves what Snapshot leaves.          *)
Authorize(c, kind, amount) ==
    /\ calls[c].pc = "idle"
    /\ Admits(kind, amount)
    /\ RollDay
    /\ calls' = [calls EXCEPT ![c] = [Idle EXCEPT !.pc = "sent", !.kind = kind,
                                                  !.amount = amount,
                                                  !.waiting = TRUE]]
    /\ UNCHANGED <<day, moneyVars>>

Snapshot ==
    /\ RollDay
    /\ UNCHANGED <<day, calls, moneyVars>>

-----------------------------------------------------------------------------
(* Payments.                                                               *)

AssetPaid(c) == AssetOf(calls[c].kind)
CanPay(c) == calls[c].amount <= balance[AssetPaid(c)]
May(fault) == fault \in Faults

Reach(c, pc) == calls' = [calls EXCEPT ![c].pc = pc]

Plus(counters, c) == [counters EXCEPT ![AssetPaid(c)] = @ + calls[c].amount]

(* The money of call c moves, and the answer will be pc.                   *)
Pay(c, pc) ==
    /\ CanPay(c)
    /\ balance' = [balance EXCEPT ![AssetPaid(c)] = @ - calls[c].amount]
    /\ paid' = Plus(paid, c)
    /\ missed' = IF calls[c].waiting THEN missed ELSE Plus(missed, c)
    /\ calls' = [calls EXCEPT ![c].pc = pc, ![c].paid = "today"]

(* The seller asks the facilitator whether the payment is good ...         *)
SellerVerifies(c) ==
    /\ calls[c].kind = "x402" /\ calls[c].pc = "sent"
    /\ CanPay(c)
    /\ Reach(c, "verified")
    /\ UNCHANGED <<day, guardVars, moneyVars>>

(* ... then to settle it, and delivers only what has been settled.         *)
SellerSettles(c) ==
    /\ calls[c].kind = "x402" /\ calls[c].pc = "verified"
    /\ Pay(c, "done")
    /\ UNCHANGED <<day, guardVars>>

(* A transaction or a user operation is broadcast.                         *)
NodeSubmits(c) ==
    /\ calls[c].kind = "submit" /\ calls[c].pc = "sent"
    /\ Pay(c, "done")
    /\ UNCHANGED <<day, guardVars>>

(* A transfer is signed and handed to the caller; the limit counts it.     *)
NodeSigns(c) ==
    /\ calls[c].kind = "sign" /\ calls[c].pc = "sent"
    /\ Reach(c, "done")
    /\ UNCHANGED <<day, guardVars, moneyVars>>

(* Seeded fault: the seller ignores the success flag of the settlement.    *)
RefusedDelivered(c) ==
    /\ calls[c].pc \in {"sent", "verified"}
    /\ \/ calls[c].kind # "sign" /\ ~CanPay(c)
       \/ May("remote_error")
    /\ Reach(c, IF calls[c].pc = "verified" THEN "done" ELSE "failed")
    /\ UNCHANGED <<day, guardVars, moneyVars>>

(* Verification, settlement, broadcast or signing fails: for want of money *)
(* or by an error of the facilitator or the node ...                       *)
Refused(c) ==
    /\ calls[c].pc \in {"sent", "verified"}
    /\ \/ calls[c].kind # "sign" /\ ~CanPay(c)
       \/ May("remote_error")
    /\ Reach(c, "failed")
    /\ UNCHANGED <<day, guardVars, moneyVars>>

(* ... or only appears to fail: the money has moved.                       *)
PaidButFailed(c) ==
    /\ May("remote_error")
    /\ \/ calls[c].kind = "x402" /\ calls[c].pc = "verified"
       \/ calls[c].kind = "submit" /\ calls[c].pc = "sent"
    /\ Pay(c, "failed")
    /\ UNCHANGED <<day, guardVars>>

-----------------------------------------------------------------------------
(* What the chain service makes of the answer.                             *)

(* Seeded fault: the record forgets what other calls have recorded.        *)
RecordAlone(c) ==
    /\ calls[c].waiting /\ calls[c].pc = "done"
    /\ dayKey' = day
    /\ spent' = [Nothing EXCEPT ![AssetPaid(c)] = calls[c].amount]
    /\ calls' = [calls EXCEPT ![c] = Idle]
    /\ UNCHANGED <<day, moneyVars>>

(* record and recordX402.                                                  *)
Record(c) ==
    /\ calls[c].waiting /\ calls[c].pc = "done"
    /\ dayKey' = day
    /\ spent' = [SpentToday EXCEPT ![AssetPaid(c)] = @ + calls[c].amount]
    /\ calls' = [calls EXCEPT ![c] = Idle]
    /\ UNCHANGED <<day, moneyVars>>

MissedIfPaid(c) ==
    missed' = IF calls[c].paid = "today" THEN Plus(missed, c) ELSE missed

(* An error is thrown past the record.                                     *)
GiveUp(c) ==
    /\ calls[c].waiting /\ calls[c].pc = "failed"
    /\ MissedIfPaid(c)
    /\ calls' = [calls EXCEPT ![c] = Idle]
    /\ UNCHANGED <<day, guardVars, balance, paid>>

LoseReply(c) ==
    /\ May("lost_reply")
    /\ calls[c].waiting
    /\ MissedIfPaid(c)
    /\ calls' = [calls EXCEPT ![c].waiting = FALSE]
    /\ UNCHANGED <<day, guardVars, balance, paid>>

(* An answer nobody waits for.                                             *)
Dropped(c) ==
    /\ ~calls[c].waiting /\ calls[c].pc \in {"done", "failed"}
    /\ calls' = [calls EXCEPT ![c] = Idle]
    /\ UNCHANGED <<day, guardVars, moneyVars>>

(* The counters live in memory.                                            *)
Restart ==
    /\ May("restart")
    /\ dayKey' = day
    /\ spent' = Nothing
    /\ calls' = [c \in Caller |-> [calls[c] EXCEPT !.waiting = FALSE]]
    /\ missed' = paid
    /\ UNCHANGED <<day, balance, paid>>

Midnight ==
    /\ day < LastDay
    /\ day' = day + 1
    /\ paid' = Nothing
    /\ missed' = Nothing
    /\ calls' = [c \in Caller |->
                    [calls[c] EXCEPT !.paid = IF @ = "no" THEN "no" ELSE "before"]]
    /\ UNCHANGED <<guardVars, balance>>

CallStep(c) ==
    \/ \E kind \in Kind, amount \in Amounts : Authorize(c, kind, amount)
    \/ SellerVerifies(c) \/ SellerSettles(c)
    \/ NodeSubmits(c) \/ NodeSigns(c)
    \/ Refused(c) \/ PaidButFailed(c)
    \/ Record(c) \/ GiveUp(c) \/ LoseReply(c) \/ Dropped(c)

Next == Snapshot \/ Restart \/ Midnight \/ \E c \in Caller : CallStep(c)

Spec == Init /\ [][Next]_vars

-----------------------------------------------------------------------------
(* Properties.                                                             *)

(* The atomic units of a set of calls, each unit of each a pair; so that a *)
(* sum of amounts is the number of elements of a set.                      *)
Units(amount, S) == UNION {{c} \X (1..amount[c]) : c \in S}
Sum(amount, S) == Cardinality(Units(amount, S))

AmountOf == [c \in Caller |-> calls[c].amount]

(* The calls the guard has admitted and will yet be told of.               *)
InFlight(a)   == {c \in Caller : calls[c].waiting /\ AssetPaid(c) = a}
PaidUntold(a) == {c \in InFlight(a) : calls[c].paid = "today"}

(* How far concurrent calls can take a counter past its limit.             *)
Overlap(a) == (Cardinality(Caller) - 1) * SingleCap[a]

(* What the guard has counted and what it has admitted and not counted yet *)
(* stay within the limit and what concurrent calls can add to it: each     *)
(* call is judged by a counter that misses the others in progress          *)
(* (policy-guard.ts:39 and :52, with the awaits of execution-service.ts:20 *)
(* and x402-fetch-service.ts:60 between the two).                          *)
AdmittedWithinOverlap ==
    \A a \in Asset :
        spent[a] + Sum(AmountOf, InFlight(a)) <= DailyLimit[a] + Overlap(a)

(* Every payment of today is in the guard's counter, or still to be        *)
(* recorded, or one of those that an error, a lost answer or a restart     *)
(* hid from it: rolling the day forgets no payment of today, whichever of  *)
(* the concurrent calls rolls it (policy-guard.ts:139).                    *)
PaymentsAccounted ==
    \A a \in Asset :
        paid[a] <= SpentToday[a] + missed[a] + Sum(AmountOf, PaidUntold(a))

(* So a day's payments exceed the limit by no more than concurrent calls   *)
(* and hidden payments account for.                                        *)
PaidWithinOverlap ==
    \A a \in Asset : paid[a] <= DailyLimit[a] + Overlap(a) + missed[a]

(* The seller's success, and so the record of an x402 payment, always      *)
(* stands for money that has moved (x402_seller.py:113): a seller's or a   *)
(* node's failure is never recorded as spending and never delivered for.   *)
DeliveredMeansPaid ==
    \A c \in Caller :
        calls[c].pc = "done" /\ calls[c].kind # "sign" => calls[c].paid # "no"

(* A call in progress has been admitted for an amount within the cap, and  *)
(* only one that has got to its seller or node can have paid.              *)
CallConsistent(c) ==
    /\ calls[c].amount <= SingleCap[AssetPaid(c)]
    /\ calls[c].pc = "idle" => ~calls[c].waiting
    /\ calls[c].pc \in {"idle", "sent", "verified"} => calls[c].paid = "no"
    /\ calls[c].pc = "verified" => calls[c].kind = "x402"

(* The inductive invariant of the proofs: the bounds above, which need     *)
(* what is known of each call (policy-guard.ts:30 and :93).                *)
SpendInv ==
    /\ TypeOK
    /\ \A c \in Caller : CallConsistent(c)
    /\ AdmittedWithinOverlap
    /\ PaymentsAccounted
    /\ DeliveredMeansPaid
============================================================================
