------------------------- MODULE SpendPolicyProofs -------------------------
(***************************************************************************)
(* Proofs about SpendPolicy for any number of concurrent calls, any        *)
(* amounts, caps and limits, any number of days and every fault.           *)
(***************************************************************************)
EXTENDS SpendPolicy, FiniteSetTheorems, TLAPS

-----------------------------------------------------------------------------
(* Sums of amounts.                                                        *)

LEMMA UnitsOfOne ==
    ASSUME NEW c, NEW n \in Nat
    PROVE  IsFiniteSet({c} \X (1..n)) /\ Cardinality({c} \X (1..n)) = n
    <1>1. IsFiniteSet(1..n) /\ Cardinality(1..n) = IF 1 > n THEN 0 ELSE n - 1 + 1
        <2>1. 1 \in Int /\ n \in Int
            OBVIOUS
        <2> QED
            BY <2>1, FS_Interval, Zenon
    <1>2. Cardinality(1..n) = n
        BY <1>1
    <1>3. IsFiniteSet({c}) /\ Cardinality({c}) = 1
        BY FS_Singleton, Zenon
    <1>4. /\ IsFiniteSet({c} \X (1..n))
          /\ Cardinality({c} \X (1..n)) = Cardinality({c}) * Cardinality(1..n)
        BY <1>1, <1>3, FS_Product, Zenon
    <1>5. 1 * n = n
        OBVIOUS
    <1> QED
        BY <1>2, <1>3, <1>4, <1>5, Zenon

(* A sum of amounts none of which exceeds a cap is at most the number of   *)
(* the calls times the cap; in particular it is a number.                  *)
LEMMA SumBounded ==
    ASSUME NEW amount \in [Caller -> Nat], NEW S \in SUBSET Caller,
           NEW T \in SUBSET Caller, S \subseteq T,
           NEW cap \in Nat, \A c \in S : amount[c] <= cap
    PROVE  /\ IsFiniteSet(Units(amount, S))
           /\ Sum(amount, S) \in Nat
           /\ Sum(amount, S) <= Cardinality(T) * cap
    <1>1. IsFiniteSet(T)
        BY SpendAssumption, FS_Subset
    <1>2. IsFiniteSet(1..cap) /\ Cardinality(1..cap) = cap
        <2>1. 1 \in Int /\ cap \in Int
            OBVIOUS
        <2>2. /\ IsFiniteSet(1..cap)
              /\ Cardinality(1..cap) = IF 1 > cap THEN 0 ELSE cap - 1 + 1
            BY <2>1, FS_Interval, Zenon
        <2> QED
            BY <2>2
    <1>3. /\ IsFiniteSet(T \X (1..cap))
          /\ Cardinality(T \X (1..cap)) = Cardinality(T) * cap
        BY <1>1, <1>2, FS_Product, Zenon
    <1>4. Units(amount, S) \subseteq T \X (1..cap)
        <2> SUFFICES ASSUME NEW c \in S, NEW u \in 1..amount[c]
                     PROVE  c \in T /\ u \in 1..cap
            BY DEF Units
        <2>1. amount[c] \in Nat /\ amount[c] <= cap
            OBVIOUS
        <2> QED
            BY <2>1
    <1> QED
        BY <1>3, <1>4, FS_Subset, FS_CardinalityType DEF Sum

(* One more call adds its amount.                                          *)
LEMMA SumAdds ==
    ASSUME NEW amount \in [Caller -> Nat], NEW S \in SUBSET Caller,
           NEW cap \in Nat, \A d \in S : amount[d] <= cap,
           NEW c \in Caller, c \notin S
    PROVE  Sum(amount, S \cup {c}) = Sum(amount, S) + amount[c]
    <1> DEFINE Own == {c} \X (1..amount[c])
    <1>1. amount[c] \in Nat
        OBVIOUS
    <1>2. IsFiniteSet(Own) /\ Cardinality(Own) = amount[c]
        BY <1>1, UnitsOfOne, Zenon
    <1>3. IsFiniteSet(Units(amount, S)) /\ Cardinality(Units(amount, S)) \in Nat
        BY SumBounded DEF Sum
    <1>4. Units(amount, S \cup {c}) = Units(amount, S) \cup Own
        BY DEF Units
    <1>5. Units(amount, S) \cap Own = {}
        BY DEF Units
    <1>6. Cardinality(Units(amount, S) \cap Own) = 0
        BY <1>5, FS_EmptySet, Zenon
    <1>7. Cardinality(Units(amount, S) \cup Own)
            = Cardinality(Units(amount, S)) + Cardinality(Own)
              - Cardinality(Units(amount, S) \cap Own)
        BY <1>2, <1>3, FS_Union, Zenon
    <1>8. ASSUME NEW m \in Nat, NEW n \in Nat PROVE m + n - 0 = m + n
        OBVIOUS
    <1>9. Cardinality(Units(amount, S)) + Cardinality(Own)
            - Cardinality(Units(amount, S) \cap Own)
              = Cardinality(Units(amount, S)) + amount[c]
        BY <1>1, <1>2, <1>3, <1>6, <1>8, Zenon
    <1> QED
        BY <1>4, <1>7, <1>9, Zenon DEF Sum

LEMMA SumOfNone == ASSUME NEW amount PROVE Sum(amount, {}) = 0
    <1>1. Units(amount, {}) = {}
        BY DEF Units
    <1> QED
        BY <1>1, FS_EmptySet DEF Sum

-----------------------------------------------------------------------------
(* One call apart from the others.                                         *)

(* What a call holds of the limit, and of the payments still to be told.   *)
Held(c, a)    == IF c \in InFlight(a) THEN calls[c].amount ELSE 0
Untold(c, a)  == IF c \in PaidUntold(a) THEN calls[c].amount ELSE 0

OthersHeld(c, a)   == Sum(AmountOf, InFlight(a) \ {c})
OthersUntold(c, a) == Sum(AmountOf, PaidUntold(a) \ {c})

Capped == \A c \in Caller : calls[c].amount <= SingleCap[AssetPaid(c)]

ApartFacts(c, a) ==
    /\ OthersHeld(c, a) \in Nat /\ OthersUntold(c, a) \in Nat
    /\ Held(c, a) \in Nat /\ Untold(c, a) \in Nat
    /\ Sum(AmountOf, InFlight(a)) = OthersHeld(c, a) + Held(c, a)
    /\ Sum(AmountOf, PaidUntold(a)) = OthersUntold(c, a) + Untold(c, a)
    /\ OthersHeld(c, a) <= Overlap(a)
    /\ Untold(c, a) <= Held(c, a)

AllApart == \A c \in Caller, a \in Asset : ApartFacts(c, a)

LEMMA Apart == TypeOK /\ Capped => AllApart
    <1> SUFFICES ASSUME TypeOK, Capped, NEW c \in Caller, NEW a \in Asset
                 PROVE  ApartFacts(c, a)
        BY DEF AllApart
    <1>1. /\ AmountOf \in [Caller -> Nat]
          /\ \A d \in Caller : AmountOf[d] = calls[d].amount
        BY DEF TypeOK, Call, AmountOf
    <1>2. /\ InFlight(a) \in SUBSET Caller
          /\ PaidUntold(a) \in SUBSET InFlight(a)
          /\ \A d \in InFlight(a) : AmountOf[d] <= SingleCap[a]
        BY <1>1 DEF InFlight, PaidUntold, Capped
    <1>3. SingleCap[a] \in Nat
        BY SpendAssumption
    <1>4. ASSUME NEW S \in SUBSET InFlight(a)
          PROVE  /\ Sum(AmountOf, S \ {c}) \in Nat
                 /\ Sum(AmountOf, S) = Sum(AmountOf, S \ {c})
                                         + IF c \in S THEN calls[c].amount ELSE 0
        <2>1. S \ {c} \in SUBSET Caller /\ \A d \in S \ {c} : AmountOf[d] <= SingleCap[a]
            BY <1>2
        <2>2. Sum(AmountOf, S \ {c}) \in Nat
            BY <1>1, <1>3, <2>1, SumBounded
        <2>3. CASE c \in S
            <3>1. (S \ {c}) \cup {c} = S /\ c \notin S \ {c}
                BY <2>3
            <3>2. Sum(AmountOf, (S \ {c}) \cup {c}) = Sum(AmountOf, S \ {c}) + AmountOf[c]
                BY <1>1, <1>3, <2>1, <3>1, SumAdds
            <3> QED
                BY <1>1, <2>2, <2>3, <3>1, <3>2
        <2>4. CASE c \notin S
            <3>1. S \ {c} = S
                BY <2>4
            <3>2. Sum(AmountOf, S) \in Nat /\ Sum(AmountOf, S) = Sum(AmountOf, S \ {c})
                BY <2>2, <3>1, Zenon
            <3> QED
                BY <2>4, <3>2
        <2> QED
            BY <2>3, <2>4
    <1>5. OthersHeld(c, a) <= Overlap(a)
        <2>1. InFlight(a) \ {c} \in SUBSET (Caller \ {c})
            BY <1>2
        <2>2. Cardinality(Caller \ {c}) = Cardinality(Caller) - 1
            BY SpendAssumption, FS_RemoveElement
        <2>3. Sum(AmountOf, InFlight(a) \ {c}) <= Cardinality(Caller \ {c}) * SingleCap[a]
            BY <1>1, <1>2, <1>3, <2>1, SumBounded
        <2> QED
            BY <2>2, <2>3 DEF OthersHeld, Overlap
    <1>6. Held(c, a) \in Nat /\ Untold(c, a) \in Nat /\ Untold(c, a) <= Held(c, a)
        BY <1>1, <1>2 DEF Held, Untold
    <1>7. /\ OthersHeld(c, a) \in Nat
          /\ Sum(AmountOf, InFlight(a)) = OthersHeld(c, a) + Held(c, a)
        BY <1>4 DEF OthersHeld, Held
    <1>8. /\ OthersUntold(c, a) \in Nat
          /\ Sum(AmountOf, PaidUntold(a)) = OthersUntold(c, a) + Untold(c, a)
        BY <1>2, <1>4 DEF OthersUntold, Untold
    <1> QED
        BY <1>5, <1>6, <1>7, <1>8 DEF ApartFacts

LEMMA OthersKept ==
    ASSUME NEW c \in Caller, \A d \in Caller \ {c} : calls'[d] = calls[d],
           NEW a \in Asset
    PROVE  /\ OthersHeld(c, a)' = OthersHeld(c, a)
           /\ OthersUntold(c, a)' = OthersUntold(c, a)
    <1>1. /\ (InFlight(a) \ {c})' = InFlight(a) \ {c}
          /\ (PaidUntold(a) \ {c})' = PaidUntold(a) \ {c}
        BY DEF InFlight, PaidUntold, AssetPaid
    <1>2. \A d \in Caller \ {c} : AmountOf'[d] = AmountOf[d]
        BY DEF AmountOf
    <1>3. ASSUME NEW S \in SUBSET (Caller \ {c})
          PROVE  Sum(AmountOf', S) = Sum(AmountOf, S)
        <2>1. Units(AmountOf', S) = Units(AmountOf, S)
            BY <1>2 DEF Units
        <2> QED
            BY <2>1 DEF Sum
    <1>4. InFlight(a) \ {c} \in SUBSET (Caller \ {c}) /\ PaidUntold(a) \ {c} \in SUBSET (Caller \ {c})
        BY DEF InFlight, PaidUntold
    <1>5. /\ OthersHeld(c, a)' = Sum(AmountOf', (InFlight(a) \ {c})')
          /\ OthersUntold(c, a)' = Sum(AmountOf', (PaidUntold(a) \ {c})')
        BY DEF OthersHeld, OthersUntold, Sum, Units
    <1> QED
        BY <1>1, <1>3, <1>4, <1>5 DEF OthersHeld, OthersUntold

-----------------------------------------------------------------------------
(* What a step of one call has to show.                                    *)

(* Every step but an admission leaves what is counted and held no greater, *)
(* and makes up for what it pays by what it counts, misses or leaves untold.*)
LEMMA OneCallKeeps ==
    ASSUME SpendInv, TypeOK', NEW c \in Caller,
           \A d \in Caller \ {c} : calls'[d] = calls[d],
           CallConsistent(c)',
           calls'[c].pc = "done" /\ calls'[c].kind # "sign" => calls'[c].paid # "no",
           \A a \in Asset :
              \/ spent'[a] + Held(c, a)' <= spent[a] + Held(c, a)
              \/ spent'[a] + Held(c, a)' <= DailyLimit[a],
           \A a \in Asset :
              paid'[a] + SpentToday[a] + missed[a] + Untold(c, a)
                <= paid[a] + SpentToday'[a] + missed'[a] + Untold(c, a)'
    PROVE  SpendInv'
    <1>1. Capped
        BY DEF SpendInv, CallConsistent, Capped
    <1>2. ASSUME NEW d \in Caller PROVE CallConsistent(d)'
        <2>1. CASE d = c
            BY <2>1
        <2>2. CASE d # c
            BY <2>2 DEF SpendInv, CallConsistent, AssetPaid
        <2> QED
            BY <2>1, <2>2
    <1>3. Capped'
        BY <1>2 DEF CallConsistent, Capped
    <1>4. DeliveredMeansPaid'
        BY DEF SpendInv, DeliveredMeansPaid
    <1>5. ASSUME NEW a \in Asset
          PROVE  /\ spent'[a] + Sum(AmountOf, InFlight(a))' <= DailyLimit[a] + Overlap(a)
                 /\ paid'[a] <= SpentToday'[a] + missed'[a] + Sum(AmountOf, PaidUntold(a))'
        <2>1. /\ OthersHeld(c, a)' = OthersHeld(c, a)
              /\ OthersUntold(c, a)' = OthersUntold(c, a)
            BY OthersKept
        <2>2. /\ OthersHeld(c, a) \in Nat /\ OthersUntold(c, a) \in Nat
              /\ Held(c, a) \in Nat /\ Untold(c, a) \in Nat
              /\ Sum(AmountOf, InFlight(a)) = OthersHeld(c, a) + Held(c, a)
              /\ Sum(AmountOf, PaidUntold(a)) = OthersUntold(c, a) + Untold(c, a)
              /\ OthersHeld(c, a) <= Overlap(a)
            BY <1>1, Apart DEF SpendInv, AllApart, ApartFacts
        <2>3. /\ Held(c, a)' \in Nat /\ Untold(c, a)' \in Nat
              /\ Sum(AmountOf, InFlight(a))' = OthersHeld(c, a)' + Held(c, a)'
              /\ Sum(AmountOf, PaidUntold(a))' = OthersUntold(c, a)' + Untold(c, a)'
            <3>1. TypeOK'
                OBVIOUS
            <3>2. AllApart'
                BY <1>3, <3>1, Apart, PTL
            <3>3. ApartFacts(c, a)'
                BY <3>2 DEF AllApart
            <3> QED
                BY <3>3 DEF ApartFacts
        <2>4. /\ spent[a] \in Nat /\ spent'[a] \in Nat
              /\ paid[a] \in Nat /\ paid'[a] \in Nat
              /\ missed[a] \in Nat /\ missed'[a] \in Nat
              /\ SpentToday[a] \in Nat /\ SpentToday'[a] \in Nat
            BY DEF SpendInv, TypeOK, SpentToday, Nothing
        <2>5. DailyLimit[a] \in Nat /\ Overlap(a) \in Int
            <3>1. Cardinality(Caller) \in Nat /\ SingleCap[a] \in Nat
                BY SpendAssumption, FS_CardinalityType
            <3> QED
                BY <3>1, SpendAssumption DEF Overlap
        <2>6. /\ spent[a] + Sum(AmountOf, InFlight(a)) <= DailyLimit[a] + Overlap(a)
              /\ paid[a] <= SpentToday[a] + missed[a] + Sum(AmountOf, PaidUntold(a))
            BY DEF SpendInv, AdmittedWithinOverlap, PaymentsAccounted
        <2>7. spent'[a] + Sum(AmountOf, InFlight(a))' <= DailyLimit[a] + Overlap(a)
            BY <2>1, <2>2, <2>3, <2>4, <2>5, <2>6
        <2>8. paid'[a] <= SpentToday'[a] + missed'[a] + Sum(AmountOf, PaidUntold(a))'
            BY <2>1, <2>2, <2>3, <2>4, <2>6
        <2> QED
            BY <2>7, <2>8
    <1>6. AdmittedWithinOverlap' /\ PaymentsAccounted'
        BY <1>5 DEF AdmittedWithinOverlap, PaymentsAccounted, Overlap
    <1> QED
        BY <1>2, <1>4, <1>6 DEF SpendInv

-----------------------------------------------------------------------------
(* The steps of one call.                                                  *)

(* The call in slot c becomes h.                                           *)
LEMMA BecomesCall ==
    ASSUME TypeOK, NEW c \in Caller, NEW h \in Call,
           calls' = [calls EXCEPT ![c] = h]
    PROVE  /\ calls' \in [Caller -> Call]
           /\ calls'[c] = h
           /\ \A d \in Caller \ {c} : calls'[d] = calls[d]
    BY DEF TypeOK

LEMMA IdleIsCall == Idle \in Call
    BY DEF Idle, Call, Kind

(* What the call in slot c holds, in terms of its fields.                  *)
LEMMA HeldIs ==
    ASSUME NEW c \in Caller, NEW a \in Asset
    PROVE  /\ Held(c, a) = IF calls[c].waiting /\ AssetOf(calls[c].kind) = a
                             THEN calls[c].amount ELSE 0
           /\ Held(c, a)' = IF calls'[c].waiting /\ AssetOf(calls'[c].kind) = a
                              THEN calls'[c].amount ELSE 0
           /\ Untold(c, a) = IF /\ calls[c].waiting /\ AssetOf(calls[c].kind) = a
                                /\ calls[c].paid = "today"
                               THEN calls[c].amount ELSE 0
           /\ Untold(c, a)' = IF /\ calls'[c].waiting /\ AssetOf(calls'[c].kind) = a
                                 /\ calls'[c].paid = "today"
                                THEN calls'[c].amount ELSE 0
    BY DEF Held, Untold, InFlight, PaidUntold, AssetPaid

(* The facts of a type and of a call that the steps use.                   *)
LEMMA CallFacts ==
    ASSUME SpendInv, NEW c \in Caller
    PROVE  /\ calls[c] \in Call
           /\ AssetPaid(c) \in Asset
           /\ calls[c].amount \in Nat
           /\ SpentToday \in [Asset -> Nat]
           /\ \A a \in Asset : SpentToday[a] <= spent[a]
           /\ CallConsistent(c)
    BY DEF SpendInv, TypeOK, Call, AssetPaid, AssetOf, Asset, SpentToday, Nothing

(* An admission: the counter and the amount are within the limit.          *)
LEMMA AuthorizeKeeps ==
    ASSUME SpendInv, NEW c \in Caller, NEW kind \in Kind, NEW amount \in Amounts,
           Authorize(c, kind, amount)
    PROVE  SpendInv'
    <1>1. PICK h : h = [Idle EXCEPT !.pc = "sent", !.kind = kind,
                                    !.amount = amount, !.waiting = TRUE]
        OBVIOUS
    <1>2. amount \in Nat
        BY SpendAssumption
    <1>3. /\ h \in Call /\ h.pc = "sent" /\ h.kind = kind /\ h.amount = amount
          /\ h.waiting /\ h.paid = "no"
        BY <1>1, <1>2 DEF Idle, Call, Kind
    <1>4. /\ calls' \in [Caller -> Call]
          /\ calls'[c] = h
          /\ \A d \in Caller \ {c} : calls'[d] = calls[d]
        <2>1. calls' = [calls EXCEPT ![c] = h]
            BY <1>1 DEF Authorize
        <2> QED
            BY <1>3, <2>1, BecomesCall DEF SpendInv
    <1>5. /\ SpentToday \in [Asset -> Nat]
          /\ \A a \in Asset : SpentToday[a] <= spent[a]
          /\ spent' = SpentToday /\ dayKey' = day /\ day' = day
          /\ SpentToday' = SpentToday
        BY CallFacts DEF Authorize, RollDay, SpentToday
    <1>6. TypeOK'
        BY <1>4, <1>5 DEF SpendInv, TypeOK, Authorize, moneyVars
    <1>7. ASSUME NEW a \in Asset
          PROVE  \/ spent'[a] + Held(c, a)' <= spent[a] + Held(c, a)
                 \/ spent'[a] + Held(c, a)' <= DailyLimit[a]
        <2>1. Held(c, a)' = IF AssetOf(kind) = a THEN amount ELSE 0
            BY <1>3, <1>4, HeldIs
        <2>2. Held(c, a) \in Nat
            BY HeldIs, CallFacts
        <2>3. spent[a] \in Nat /\ SpentToday[a] \in Nat
            BY <1>5 DEF SpendInv, TypeOK
        <2>4. CASE AssetOf(kind) = a
            BY <1>2, <1>5, <2>1, <2>4 DEF Authorize, Admits
        <2>5. CASE AssetOf(kind) # a
            BY <1>5, <2>1, <2>2, <2>3, <2>5
        <2> QED
            BY <2>4, <2>5
    <1>8. ASSUME NEW a \in Asset
          PROVE  paid'[a] + SpentToday[a] + missed[a] + Untold(c, a)
                   <= paid[a] + SpentToday'[a] + missed'[a] + Untold(c, a)'
        <2>1. Untold(c, a) = 0 /\ Untold(c, a)' = 0
            BY <1>3, <1>4, HeldIs, CallFacts DEF CallConsistent, Authorize
        <2> QED
            BY <1>5, <2>1 DEF Authorize, moneyVars, SpendInv, TypeOK
    <1>9. CallConsistent(c)'
        BY <1>3, <1>4 DEF CallConsistent, AssetPaid, Authorize, Admits
    <1> QED
        BY <1>3, <1>4, <1>6, <1>7, <1>8, <1>9, OneCallKeeps

(* A call goes on and neither pays nor is told of.                         *)
LEMMA ReachKeeps ==
    ASSUME SpendInv, NEW c \in Caller,
           calls[c].pc \in {"sent", "verified"},
           NEW pc \in {"verified", "done", "failed"},
           pc = "done" => calls[c].kind = "sign",
           pc = "verified" => calls[c].kind = "x402",
           Reach(c, pc), UNCHANGED <<day, guardVars, moneyVars>>
    PROVE  SpendInv'
    <1>1. PICK h : h = [calls[c] EXCEPT !.pc = pc]
        OBVIOUS
    <1>2. /\ h \in Call /\ h.pc = pc /\ h.kind = calls[c].kind
          /\ h.amount = calls[c].amount /\ h.waiting = calls[c].waiting
          /\ h.paid = calls[c].paid
        BY <1>1, CallFacts DEF Call
    <1>3. /\ calls' \in [Caller -> Call]
          /\ calls'[c] = h
          /\ \A d \in Caller \ {c} : calls'[d] = calls[d]
        <2>1. calls' = [calls EXCEPT ![c] = h]
            BY <1>1 DEF Reach
        <2> QED
            BY <1>2, <2>1, BecomesCall DEF SpendInv
    <1>4. TypeOK'
        BY <1>3 DEF SpendInv, TypeOK, guardVars, moneyVars
    <1>5. ASSUME NEW a \in Asset
          PROVE  /\ spent'[a] + Held(c, a)' <= spent[a] + Held(c, a)
                 /\ paid'[a] + SpentToday[a] + missed[a] + Untold(c, a)
                      <= paid[a] + SpentToday'[a] + missed'[a] + Untold(c, a)'
        <2>1. Held(c, a)' = Held(c, a) /\ Untold(c, a)' = Untold(c, a)
            BY <1>2, <1>3, HeldIs
        <2>2. /\ spent' = spent /\ paid' = paid /\ missed' = missed
              /\ SpentToday' = SpentToday
            BY DEF guardVars, moneyVars, SpentToday
        <2>3. Held(c, a) \in Nat /\ Untold(c, a) \in Nat
            BY HeldIs, CallFacts
        <2>4. /\ spent[a] \in Nat /\ paid[a] \in Nat /\ missed[a] \in Nat
              /\ SpentToday[a] \in Nat
            BY CallFacts DEF SpendInv, TypeOK
        <2> QED
            BY <2>1, <2>2, <2>3, <2>4
    <1>6. CallConsistent(c)'
        BY <1>2, <1>3, CallFacts DEF CallConsistent, AssetPaid
    <1> QED
        BY <1>2, <1>3, <1>4, <1>5, <1>6, OneCallKeeps

(* Counters that an action adds the amount of call c to.                   *)
LEMMA PlusFacts ==
    ASSUME SpendInv, NEW c \in Caller, NEW counters \in [Asset -> Nat]
    PROVE  /\ Plus(counters, c) \in [Asset -> Nat]
           /\ \A a \in Asset :
                 Plus(counters, c)[a] = counters[a] + IF AssetOf(calls[c].kind) = a
                                                        THEN calls[c].amount ELSE 0
    BY CallFacts DEF Plus, AssetPaid

(* A payment is counted as missed, or left to be told.                     *)
LEMMA PayKeeps ==
    ASSUME SpendInv, NEW c \in Caller,
           calls[c].pc \in {"sent", "verified"}, calls[c].kind # "sign",
           NEW pc \in {"done", "failed"},
           Pay(c, pc), UNCHANGED <<day, guardVars>>
    PROVE  SpendInv'
    <1>1. PICK h : h = [calls[c] EXCEPT !.pc = pc, !.paid = "today"]
        OBVIOUS
    <1>2. /\ h \in Call /\ h.pc = pc /\ h.kind = calls[c].kind
          /\ h.amount = calls[c].amount /\ h.waiting = calls[c].waiting
          /\ h.paid = "today"
        BY <1>1, CallFacts DEF Call
    <1>3. /\ calls' \in [Caller -> Call]
          /\ calls'[c] = h
          /\ \A d \in Caller \ {c} : calls'[d] = calls[d]
        <2>1. calls' = [calls EXCEPT ![c] = h]
            BY <1>1 DEF Pay
        <2> QED
            BY <1>2, <2>1, BecomesCall DEF SpendInv
    <1>4. paid \in [Asset -> Nat] /\ missed \in [Asset -> Nat] /\ balance \in [Asset -> Nat]
        BY DEF SpendInv, TypeOK
    <1>5. /\ paid' = Plus(paid, c)
          /\ missed' = IF calls[c].waiting THEN missed ELSE Plus(missed, c)
          /\ paid' \in [Asset -> Nat] /\ missed' \in [Asset -> Nat]
        BY <1>4, PlusFacts DEF Pay
    <1>6. balance' \in [Asset -> Nat]
        <2>1. /\ AssetPaid(c) \in Asset /\ calls[c].amount \in Nat
              /\ calls[c].amount <= balance[AssetPaid(c)]
              /\ balance' = [balance EXCEPT ![AssetPaid(c)] = @ - calls[c].amount]
            BY CallFacts DEF Pay, CanPay
        <2>2. balance[AssetPaid(c)] - calls[c].amount \in Nat
            BY <1>4, <2>1
        <2> QED
            BY <1>4, <2>1, <2>2
    <1>7. TypeOK'
        BY <1>3, <1>5, <1>6 DEF SpendInv, TypeOK, guardVars
    <1>8. ASSUME NEW a \in Asset
          PROVE  /\ spent'[a] + Held(c, a)' <= spent[a] + Held(c, a)
                 /\ paid'[a] + SpentToday[a] + missed[a] + Untold(c, a)
                      <= paid[a] + SpentToday'[a] + missed'[a] + Untold(c, a)'
        <2> DEFINE own == IF AssetOf(calls[c].kind) = a THEN calls[c].amount ELSE 0
        <2>1. own \in Nat
            BY CallFacts
        <2>2. /\ Held(c, a)' = Held(c, a) /\ Held(c, a) \in Nat
              /\ Untold(c, a) = 0
              /\ Untold(c, a)' = IF calls[c].waiting THEN own ELSE 0
            BY <1>2, <1>3, HeldIs, CallFacts DEF CallConsistent
        <2>3. /\ spent' = spent
              /\ SpentToday' = SpentToday
            BY DEF guardVars, SpentToday
        <2>4. /\ paid'[a] = paid[a] + own
              /\ missed'[a] = IF calls[c].waiting THEN missed[a] ELSE missed[a] + own
            BY <1>4, <1>5, PlusFacts
        <2>5. /\ spent[a] \in Nat /\ paid[a] \in Nat /\ missed[a] \in Nat
              /\ SpentToday[a] \in Nat
            BY CallFacts DEF SpendInv, TypeOK
        <2> HIDE DEF own
        <2> QED
            BY <2>1, <2>2, <2>3, <2>4, <2>5
    <1>9. CallConsistent(c)'
        BY <1>2, <1>3, CallFacts DEF CallConsistent, AssetPaid
    <1> QED
        BY <1>2, <1>3, <1>7, <1>8, <1>9, OneCallKeeps

(* The slot is empty again.                                                *)
LEMMA Emptied ==
    ASSUME SpendInv, NEW c \in Caller, calls' = [calls EXCEPT ![c] = Idle]
    PROVE  /\ calls' \in [Caller -> Call]
           /\ \A d \in Caller \ {c} : calls'[d] = calls[d]
           /\ calls'[c] = Idle
           /\ CallConsistent(c)'
           /\ calls'[c].pc = "idle"
           /\ \A a \in Asset : Held(c, a)' = 0 /\ Untold(c, a)' = 0
    <1>1. /\ calls' \in [Caller -> Call]
          /\ calls'[c] = Idle
          /\ \A d \in Caller \ {c} : calls'[d] = calls[d]
        BY IdleIsCall, BecomesCall DEF SpendInv
    <1>2. CallConsistent(c)'
        <2>1. SingleCap["USDC"] \in Nat
            BY SpendAssumption DEF Asset
        <2> QED
            BY <1>1, <2>1 DEF CallConsistent, Idle, AssetPaid, AssetOf
    <1>3. \A a \in Asset : Held(c, a)' = 0 /\ Untold(c, a)' = 0
        BY <1>1, HeldIs DEF Idle
    <1> QED
        BY <1>1, <1>2, <1>3 DEF Idle

(* What was held becomes counted.                                          *)
LEMMA RecordKeeps ==
    ASSUME SpendInv, NEW c \in Caller, Record(c)
    PROVE  SpendInv'
    <1>1. calls' = [calls EXCEPT ![c] = Idle]
        BY DEF Record
    <1>2. /\ calls' \in [Caller -> Call]
          /\ \A d \in Caller \ {c} : calls'[d] = calls[d]
          /\ CallConsistent(c)' /\ calls'[c].pc = "idle"
          /\ \A a \in Asset : Held(c, a)' = 0 /\ Untold(c, a)' = 0
        BY <1>1, Emptied
    <1>3. /\ SpentToday \in [Asset -> Nat]
          /\ \A a \in Asset : SpentToday[a] <= spent[a]
          /\ AssetPaid(c) \in Asset /\ calls[c].amount \in Nat
        BY CallFacts
    <1>4. /\ spent' = [SpentToday EXCEPT ![AssetPaid(c)] = @ + calls[c].amount]
          /\ dayKey' = day /\ UNCHANGED <<day, moneyVars>> /\ calls[c].waiting
        BY DEF Record
    <1>5. spent' \in [Asset -> Nat] /\ SpentToday' = spent'
        BY <1>3, <1>4 DEF SpentToday
    <1>6. TypeOK'
        BY <1>2, <1>4, <1>5 DEF SpendInv, TypeOK, moneyVars
    <1>7. ASSUME NEW a \in Asset
          PROVE  /\ spent'[a] + Held(c, a)' <= spent[a] + Held(c, a)
                 /\ paid'[a] + SpentToday[a] + missed[a] + Untold(c, a)
                      <= paid[a] + SpentToday'[a] + missed'[a] + Untold(c, a)'
        <2>1. /\ Held(c, a) = IF AssetPaid(c) = a THEN calls[c].amount ELSE 0
              /\ Untold(c, a) \in Nat /\ Untold(c, a) <= Held(c, a)
            BY <1>3, <1>4, HeldIs DEF AssetPaid
        <2>2. spent'[a] = SpentToday[a] + Held(c, a)
            BY <1>3, <1>4, <2>1
        <2>3. /\ spent[a] \in Nat /\ paid[a] \in Nat /\ missed[a] \in Nat
              /\ SpentToday[a] \in Nat /\ Held(c, a) \in Nat
              /\ SpentToday[a] <= spent[a]
            BY <1>3, <2>1 DEF SpendInv, TypeOK
        <2>4. paid' = paid /\ missed' = missed /\ SpentToday'[a] = spent'[a]
            BY <1>4, <1>5 DEF moneyVars
        <2> QED
            BY <1>2, <2>1, <2>2, <2>3, <2>4
    <1> QED
        BY <1>2, <1>6, <1>7, OneCallKeeps

(* What was held and paid is missed, whether or not the call goes on.      *)
LEMMA GiveUpKeeps ==
    ASSUME SpendInv, NEW c \in Caller, GiveUp(c)
    PROVE  SpendInv'
    <1>1. calls' = [calls EXCEPT ![c] = Idle]
        BY DEF GiveUp
    <1>2. /\ calls' \in [Caller -> Call]
          /\ \A d \in Caller \ {c} : calls'[d] = calls[d]
          /\ CallConsistent(c)' /\ calls'[c].pc = "idle"
          /\ \A a \in Asset : Held(c, a)' = 0 /\ Untold(c, a)' = 0
        BY <1>1, Emptied
    <1>3. missed \in [Asset -> Nat]
        BY DEF SpendInv, TypeOK
    <1>4. /\ missed' = IF calls[c].paid = "today" THEN Plus(missed, c) ELSE missed
          /\ missed' \in [Asset -> Nat]
        BY <1>3, PlusFacts DEF GiveUp, MissedIfPaid
    <1>5. TypeOK'
        BY <1>2, <1>4 DEF SpendInv, TypeOK, GiveUp, guardVars
    <1>6. ASSUME NEW a \in Asset
          PROVE  /\ spent'[a] + Held(c, a)' <= spent[a] + Held(c, a)
                 /\ paid'[a] + SpentToday[a] + missed[a] + Untold(c, a)
                      <= paid[a] + SpentToday'[a] + missed'[a] + Untold(c, a)'
        <2>1. /\ Held(c, a) \in Nat /\ Untold(c, a) \in Nat
              /\ missed'[a] = missed[a] + Untold(c, a)
            BY <1>3, <1>4, PlusFacts, HeldIs, CallFacts DEF GiveUp
        <2>2. /\ spent' = spent /\ paid' = paid /\ SpentToday' = SpentToday
            BY DEF GiveUp, guardVars, SpentToday
        <2>3. /\ spent[a] \in Nat /\ paid[a] \in Nat /\ missed[a] \in Nat
              /\ SpentToday[a] \in Nat
            BY CallFacts DEF SpendInv, TypeOK
        <2> QED
            BY <1>2, <2>1, <2>2, <2>3
    <1> QED
        BY <1>2, <1>5, <1>6, OneCallKeeps

LEMMA LoseReplyKeeps ==
    ASSUME SpendInv, NEW c \in Caller, LoseReply(c)
    PROVE  SpendInv'
    <1>1. PICK h : h = [calls[c] EXCEPT !.waiting = FALSE]
        OBVIOUS
    <1>2. /\ h \in Call /\ h.pc = calls[c].pc /\ h.kind = calls[c].kind
          /\ h.amount = calls[c].amount /\ h.waiting = FALSE
          /\ h.paid = calls[c].paid
        BY <1>1, CallFacts DEF Call
    <1>3. /\ calls' \in [Caller -> Call]
          /\ calls'[c] = h
          /\ \A d \in Caller \ {c} : calls'[d] = calls[d]
        <2>1. calls' = [calls EXCEPT ![c] = h]
            BY <1>1 DEF LoseReply
        <2> QED
            BY <1>2, <2>1, BecomesCall DEF SpendInv
    <1>4. missed \in [Asset -> Nat]
        BY DEF SpendInv, TypeOK
    <1>5. /\ missed' = IF calls[c].paid = "today" THEN Plus(missed, c) ELSE missed
          /\ missed' \in [Asset -> Nat]
        BY <1>4, PlusFacts DEF LoseReply, MissedIfPaid
    <1>6. TypeOK'
        BY <1>3, <1>5 DEF SpendInv, TypeOK, LoseReply, guardVars
    <1>7. ASSUME NEW a \in Asset
          PROVE  /\ spent'[a] + Held(c, a)' <= spent[a] + Held(c, a)
                 /\ paid'[a] + SpentToday[a] + missed[a] + Untold(c, a)
                      <= paid[a] + SpentToday'[a] + missed'[a] + Untold(c, a)'
        <2>1. /\ Held(c, a) \in Nat /\ Untold(c, a) \in Nat
              /\ Held(c, a)' = 0 /\ Untold(c, a)' = 0
              /\ missed'[a] = missed[a] + Untold(c, a)
            BY <1>2, <1>3, <1>4, <1>5, PlusFacts, HeldIs, CallFacts DEF LoseReply
        <2>2. /\ spent' = spent /\ paid' = paid /\ SpentToday' = SpentToday
            BY DEF LoseReply, guardVars, SpentToday
        <2>3. /\ spent[a] \in Nat /\ paid[a] \in Nat /\ missed[a] \in Nat
              /\ SpentToday[a] \in Nat
            BY CallFacts DEF SpendInv, TypeOK
        <2> QED
            BY <2>1, <2>2, <2>3
    <1>8. CallConsistent(c)'
        BY <1>2, <1>3, CallFacts DEF CallConsistent, AssetPaid
    <1>9. calls'[c].pc = "done" /\ calls'[c].kind # "sign" => calls'[c].paid # "no"
        BY <1>2, <1>3 DEF SpendInv, DeliveredMeansPaid
    <1> QED
        BY <1>3, <1>6, <1>7, <1>8, <1>9, OneCallKeeps

LEMMA DroppedKeeps ==
    ASSUME SpendInv, NEW c \in Caller, Dropped(c)
    PROVE  SpendInv'
    <1>1. calls' = [calls EXCEPT ![c] = Idle]
        BY DEF Dropped
    <1>2. /\ calls' \in [Caller -> Call]
          /\ \A d \in Caller \ {c} : calls'[d] = calls[d]
          /\ CallConsistent(c)' /\ calls'[c].pc = "idle"
          /\ \A a \in Asset : Held(c, a)' = 0 /\ Untold(c, a)' = 0
        BY <1>1, Emptied
    <1>3. TypeOK'
        BY <1>2 DEF SpendInv, TypeOK, Dropped, guardVars, moneyVars
    <1>4. ASSUME NEW a \in Asset
          PROVE  /\ spent'[a] + Held(c, a)' <= spent[a] + Held(c, a)
                 /\ paid'[a] + SpentToday[a] + missed[a] + Untold(c, a)
                      <= paid[a] + SpentToday'[a] + missed'[a] + Untold(c, a)'
        <2>1. Held(c, a) = 0 /\ Untold(c, a) = 0
            BY HeldIs DEF Dropped
        <2>2. /\ spent' = spent /\ paid' = paid /\ missed' = missed
              /\ SpentToday' = SpentToday
            BY DEF Dropped, guardVars, moneyVars, SpentToday
        <2>3. /\ spent[a] \in Nat /\ paid[a] \in Nat /\ missed[a] \in Nat
              /\ SpentToday[a] \in Nat
            BY CallFacts DEF SpendInv, TypeOK
        <2> QED
            BY <1>2, <2>1, <2>2, <2>3
    <1> QED
        BY <1>2, <1>3, <1>4, OneCallKeeps

-----------------------------------------------------------------------------
(* The steps that are no single call's.                                    *)

LEMMA OverlapIsNat == \A a \in Asset : Overlap(a) \in Nat /\ DailyLimit[a] \in Nat
    <1> SUFFICES ASSUME NEW a \in Asset
                 PROVE  Overlap(a) \in Nat /\ DailyLimit[a] \in Nat
        OBVIOUS
    <1>1. Cardinality(Caller) \in Nat /\ Cardinality(Caller) # 0
        BY SpendAssumption, FS_CardinalityType, FS_EmptySet
    <1>2. Cardinality(Caller) - 1 \in Nat /\ SingleCap[a] \in Nat /\ DailyLimit[a] \in Nat
        BY <1>1, SpendAssumption
    <1>3. \A m, n \in Nat : m * n \in Nat
        OBVIOUS
    <1> QED
        BY <1>2, <1>3 DEF Overlap

(* Nothing moves, but the guard may roll the day.                          *)
LEMMA QuietKeeps ==
    ASSUME SpendInv, UNCHANGED <<day, calls, moneyVars>>,
           RollDay \/ UNCHANGED guardVars
    PROVE  SpendInv'
    <1>1. PICK c \in Caller : TRUE
        BY SpendAssumption
    <1>2. /\ SpentToday \in [Asset -> Nat]
          /\ \A a \in Asset : SpentToday[a] <= spent[a]
          /\ CallConsistent(c)
        BY <1>1, CallFacts
    <1>3. /\ spent' \in [Asset -> Nat] /\ SpentToday' = SpentToday
          /\ \A a \in Asset : spent'[a] <= spent[a]
        BY <1>2 DEF SpendInv, TypeOK, RollDay, guardVars, SpentToday
    <1>4. TypeOK'
        BY <1>3 DEF SpendInv, TypeOK, RollDay, guardVars, moneyVars
    <1>5. ASSUME NEW a \in Asset
          PROVE  /\ spent'[a] + Held(c, a)' <= spent[a] + Held(c, a)
                 /\ paid'[a] + SpentToday[a] + missed[a] + Untold(c, a)
                      <= paid[a] + SpentToday'[a] + missed'[a] + Untold(c, a)'
        <2>1. Held(c, a)' = Held(c, a) /\ Untold(c, a)' = Untold(c, a)
            BY <1>1, HeldIs
        <2>2. Held(c, a) \in Nat /\ Untold(c, a) \in Nat
            BY <1>1, HeldIs, CallFacts
        <2>3. /\ spent[a] \in Nat /\ spent'[a] \in Nat /\ spent'[a] <= spent[a]
              /\ paid[a] \in Nat /\ missed[a] \in Nat /\ SpentToday[a] \in Nat
              /\ paid' = paid /\ missed' = missed
            BY <1>2, <1>3 DEF SpendInv, TypeOK, moneyVars
        <2> QED
            BY <1>3, <2>1, <2>2, <2>3
    <1>6. CallConsistent(c)'
        BY <1>2 DEF CallConsistent, AssetPaid
    <1>7. calls'[c].pc = "done" /\ calls'[c].kind # "sign" => calls'[c].paid # "no"
        BY <1>1 DEF SpendInv, DeliveredMeansPaid
    <1> QED
        BY <1>1, <1>4, <1>5, <1>6, <1>7, OneCallKeeps

(* Nobody is told any more, and whatever has been paid is missed.          *)
LEMMA RestartKeeps == ASSUME SpendInv, Restart PROVE SpendInv'
    <1>1. ASSUME NEW c \in Caller
          PROVE  /\ calls'[c] \in Call /\ calls'[c].waiting = FALSE
                 /\ calls'[c].pc = calls[c].pc /\ calls'[c].kind = calls[c].kind
                 /\ calls'[c].amount = calls[c].amount
                 /\ calls'[c].paid = calls[c].paid
        BY CallFacts DEF Restart, Call
    <1>2. calls' \in [Caller -> Call]
        BY <1>1 DEF Restart
    <1>3. TypeOK'
        BY <1>2 DEF SpendInv, TypeOK, Restart, Nothing
    <1>4. \A c \in Caller : CallConsistent(c)'
        BY <1>1, CallFacts DEF CallConsistent, AssetPaid
    <1>5. DeliveredMeansPaid'
        BY <1>1 DEF SpendInv, DeliveredMeansPaid
    <1>6. ASSUME NEW a \in Asset
          PROVE  /\ spent'[a] + Sum(AmountOf, InFlight(a))' <= DailyLimit[a] + Overlap(a)
                 /\ paid'[a] <= SpentToday'[a] + missed'[a] + Sum(AmountOf, PaidUntold(a))'
        <2>1. InFlight(a)' = {} /\ PaidUntold(a)' = {}
            BY <1>1 DEF InFlight, PaidUntold
        <2>2. /\ Sum(AmountOf, InFlight(a))' = Sum(AmountOf', InFlight(a)')
              /\ Sum(AmountOf, PaidUntold(a))' = Sum(AmountOf', PaidUntold(a)')
            BY DEF Sum, Units
        <2>3. Sum(AmountOf, InFlight(a))' = 0 /\ Sum(AmountOf, PaidUntold(a))' = 0
            BY <2>1, <2>2, SumOfNone, Zenon
        <2>4. spent'[a] = 0 /\ SpentToday'[a] = 0 /\ missed'[a] = paid[a] /\ paid'[a] = paid[a]
            BY DEF Restart, SpentToday, Nothing
        <2>5. paid[a] \in Nat
            BY DEF SpendInv, TypeOK
        <2>6. Overlap(a) \in Nat /\ DailyLimit[a] \in Nat
            BY OverlapIsNat
        <2> QED
            BY <2>3, <2>4, <2>5, <2>6
    <1>7. AdmittedWithinOverlap' /\ PaymentsAccounted'
        BY <1>6 DEF AdmittedWithinOverlap, PaymentsAccounted, Overlap
    <1> QED
        BY <1>3, <1>4, <1>5, <1>7 DEF SpendInv

(* Nothing has been paid today, and as much is held as before.             *)
LEMMA MidnightKeeps == ASSUME SpendInv, Midnight PROVE SpendInv'
    <1>1. ASSUME NEW c \in Caller
          PROVE  /\ calls'[c] \in Call /\ calls'[c].waiting = calls[c].waiting
                 /\ calls'[c].pc = calls[c].pc /\ calls'[c].kind = calls[c].kind
                 /\ calls'[c].amount = calls[c].amount
                 /\ calls'[c].paid = "no" <=> calls[c].paid = "no"
        BY CallFacts DEF Midnight, Call
    <1>2. calls' \in [Caller -> Call]
        BY <1>1 DEF Midnight
    <1>3. TypeOK'
        BY <1>2 DEF SpendInv, TypeOK, Midnight, Nothing, guardVars
    <1>4. \A c \in Caller : CallConsistent(c)'
        BY <1>1, CallFacts DEF CallConsistent, AssetPaid
    <1>5. DeliveredMeansPaid'
        BY <1>1 DEF SpendInv, DeliveredMeansPaid
    <1>6. AllApart'
        <2>1. Capped'
            BY <1>4 DEF CallConsistent, Capped
        <2> QED
            BY <1>3, <2>1, Apart, PTL
    <1>7. ASSUME NEW a \in Asset
          PROVE  /\ spent'[a] + Sum(AmountOf, InFlight(a))' <= DailyLimit[a] + Overlap(a)
                 /\ paid'[a] <= SpentToday'[a] + missed'[a] + Sum(AmountOf, PaidUntold(a))'
        <2>1. InFlight(a)' = InFlight(a) /\ AmountOf' = AmountOf
            BY <1>1 DEF InFlight, AssetPaid, AmountOf
        <2>2. Sum(AmountOf, InFlight(a))' = Sum(AmountOf, InFlight(a))
            <3>1. Sum(AmountOf, InFlight(a))' = Sum(AmountOf', InFlight(a)')
                BY DEF Sum, Units
            <3> QED
                BY <2>1, <3>1, Zenon
        <2>3. spent[a] + Sum(AmountOf, InFlight(a)) <= DailyLimit[a] + Overlap(a)
            BY DEF SpendInv, AdmittedWithinOverlap
        <2>4. Sum(AmountOf, PaidUntold(a))' \in Nat
            <3>1. PICK c \in Caller : TRUE
                BY SpendAssumption
            <3>2. ApartFacts(c, a)'
                BY <1>6, <3>1 DEF AllApart
            <3>3. /\ OthersUntold(c, a)' \in Nat /\ Untold(c, a)' \in Nat
                  /\ Sum(AmountOf, PaidUntold(a))' = OthersUntold(c, a)' + Untold(c, a)'
                BY <3>2 DEF ApartFacts
            <3> QED
                BY <3>3
        <2>5. spent' = spent /\ paid'[a] = 0 /\ missed'[a] = 0
            BY DEF Midnight, guardVars, Nothing
        <2>6. SpentToday'[a] \in Nat
            BY <1>3 DEF TypeOK, SpentToday, Nothing
        <2> QED
            BY <2>2, <2>3, <2>4, <2>5, <2>6
    <1>8. AdmittedWithinOverlap' /\ PaymentsAccounted'
        BY <1>7 DEF AdmittedWithinOverlap, PaymentsAccounted, Overlap
    <1> QED
        BY <1>3, <1>4, <1>5, <1>8 DEF SpendInv

-----------------------------------------------------------------------------
(* The theorems.                                                           *)

LEMMA CallStepKeeps ==
    ASSUME SpendInv, NEW c \in Caller, CallStep(c)
    PROVE  SpendInv'
    <1>0. /\ calls[c].pc = "verified" => calls[c].kind = "x402"
          /\ calls[c].kind \in Kind
        BY CallFacts DEF CallConsistent, Call
    <1>1. CASE \E kind \in Kind, amount \in Amounts : Authorize(c, kind, amount)
        BY <1>1, AuthorizeKeeps
    <1>2. CASE SellerVerifies(c)
        BY <1>2, ReachKeeps DEF SellerVerifies
    <1>3. CASE SellerSettles(c)
        BY <1>3, PayKeeps DEF SellerSettles
    <1>4. CASE NodeSubmits(c)
        BY <1>4, PayKeeps DEF NodeSubmits
    <1>5. CASE NodeSigns(c)
        BY <1>5, ReachKeeps DEF NodeSigns
    <1>6. CASE Refused(c)
        BY <1>6, ReachKeeps DEF Refused
    <1>7. CASE PaidButFailed(c)
        BY <1>7, PayKeeps DEF PaidButFailed
    <1>8. CASE Record(c)
        BY <1>8, RecordKeeps
    <1>9. CASE GiveUp(c)
        BY <1>9, GiveUpKeeps
    <1>10. CASE LoseReply(c)
        BY <1>10, LoseReplyKeeps
    <1>11. CASE Dropped(c)
        BY <1>11, DroppedKeeps
    <1> QED
        BY <1>1, <1>2, <1>3, <1>4, <1>5, <1>6, <1>7, <1>8, <1>9, <1>10, <1>11
        DEF CallStep

LEMMA InvStep == SpendInv /\ [Next]_vars => SpendInv'
    <1> SUFFICES ASSUME SpendInv, [Next]_vars PROVE SpendInv'
        OBVIOUS
    <1>1. CASE Snapshot
        BY <1>1, QuietKeeps DEF Snapshot
    <1>2. CASE Restart
        BY <1>2, RestartKeeps
    <1>3. CASE Midnight
        BY <1>3, MidnightKeeps
    <1>4. CASE \E c \in Caller : CallStep(c)
        BY <1>4, CallStepKeeps
    <1>5. CASE UNCHANGED vars
        BY <1>5, QuietKeeps DEF vars
    <1> QED
        BY <1>1, <1>2, <1>3, <1>4, <1>5 DEF Next

LEMMA InvInit == Init => SpendInv
    <1> SUFFICES ASSUME Init PROVE SpendInv
        OBVIOUS
    <1>1. TypeOK
        BY IdleIsCall, SpendAssumption DEF Init, TypeOK, Nothing
    <1>2. \A c \in Caller : CallConsistent(c)
        <2>1. SingleCap["USDC"] \in Nat
            BY SpendAssumption DEF Asset
        <2> QED
            BY <2>1 DEF Init, CallConsistent, Idle, AssetPaid, AssetOf
    <1>3. DeliveredMeansPaid
        BY DEF Init, DeliveredMeansPaid, Idle
    <1>4. ASSUME NEW a \in Asset
          PROVE  /\ spent[a] = 0 /\ paid[a] = 0 /\ SpentToday[a] = 0 /\ missed[a] = 0
                 /\ Sum(AmountOf, InFlight(a)) = 0 /\ Sum(AmountOf, PaidUntold(a)) = 0
                 /\ Overlap(a) \in Nat /\ DailyLimit[a] \in Nat
        <2>1. InFlight(a) = {} /\ PaidUntold(a) = {}
            BY DEF Init, Idle, InFlight, PaidUntold
        <2>2. Sum(AmountOf, InFlight(a)) = 0 /\ Sum(AmountOf, PaidUntold(a)) = 0
            BY <2>1, SumOfNone, Zenon
        <2> QED
            BY <2>2, OverlapIsNat DEF Init, Nothing, SpentToday
    <1>5. AdmittedWithinOverlap /\ PaymentsAccounted
        BY <1>4 DEF AdmittedWithinOverlap, PaymentsAccounted
    <1> QED
        BY <1>1, <1>2, <1>3, <1>5 DEF SpendInv

(* The bounds of the guard and what they rest on hold in every state of    *)
(* every run: for any number of concurrent calls, restarts, hidden         *)
(* payments and days.                                                      *)
THEOREM SpendInvariant == Spec => []SpendInv
    BY InvInit, InvStep, PTL DEF Spec

(* No counter, balance or count of payments ever falls below zero.         *)
THEOREM SpendTypeCorrect == Spec => []TypeOK
    <1>1. SpendInv => TypeOK
        BY DEF SpendInv
    <1> QED
        BY <1>1, SpendInvariant, PTL

(* Whatever the seller delivers for and the guard records has been paid.   *)
THEOREM DeliveredIsPaid == Spec => []DeliveredMeansPaid
    <1>1. SpendInv => DeliveredMeansPaid
        BY DEF SpendInv
    <1> QED
        BY <1>1, SpendInvariant, PTL

(* A day's payments exceed the limit by no more than the other calls in    *)
(* progress may spend and what was hidden from the guard.                  *)
THEOREM PaidStaysWithinOverlap == Spec => []PaidWithinOverlap
    <1>1. SpendInv => PaidWithinOverlap
        <2> SUFFICES ASSUME SpendInv, NEW a \in Asset
                     PROVE  paid[a] <= DailyLimit[a] + Overlap(a) + missed[a]
            BY DEF PaidWithinOverlap
        <2>1. Sum(AmountOf, PaidUntold(a)) <= Sum(AmountOf, InFlight(a))
            <3>1. Units(AmountOf, PaidUntold(a)) \subseteq Units(AmountOf, InFlight(a))
                BY DEF Units, PaidUntold
            <3>2. /\ AmountOf \in [Caller -> Nat] /\ InFlight(a) \in SUBSET Caller
                  /\ SingleCap[a] \in Nat
                  /\ \A c \in InFlight(a) : AmountOf[c] <= SingleCap[a]
                BY SpendAssumption
                DEF SpendInv, TypeOK, Call, CallConsistent, AmountOf, InFlight
            <3>3. IsFiniteSet(Units(AmountOf, InFlight(a)))
                BY <3>2, SumBounded
            <3> QED
                BY <3>1, <3>3, FS_Subset DEF Sum
        <2>2. /\ Sum(AmountOf, PaidUntold(a)) \in Nat
              /\ Sum(AmountOf, InFlight(a)) \in Nat
            <3>1. PICK c \in Caller : TRUE
                BY SpendAssumption
            <3>2. Capped
                BY DEF SpendInv, CallConsistent, Capped
            <3>3. ApartFacts(c, a)
                BY <3>1, <3>2, Apart DEF SpendInv, AllApart
            <3> QED
                BY <3>3 DEF ApartFacts
        <2>3. SpentToday[a] \in Nat /\ spent[a] \in Nat /\ SpentToday[a] <= spent[a]
            BY DEF SpendInv, TypeOK, SpentToday, Nothing
        <2>4. /\ spent[a] + Sum(AmountOf, InFlight(a)) <= DailyLimit[a] + Overlap(a)
              /\ paid[a] <= SpentToday[a] + missed[a] + Sum(AmountOf, PaidUntold(a))
              /\ paid[a] \in Nat /\ missed[a] \in Nat
            BY DEF SpendInv, TypeOK, AdmittedWithinOverlap, PaymentsAccounted
        <2>5. Overlap(a) \in Nat /\ DailyLimit[a] \in Nat
            BY OverlapIsNat
        <2> QED
            BY <2>1, <2>2, <2>3, <2>4, <2>5
    <1> QED
        BY <1>1, SpendInvariant, PTL
============================================================================
