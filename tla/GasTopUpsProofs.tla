-------------------------- MODULE GasTopUpsProofs --------------------------
(***************************************************************************)
(* Proofs about GasTopUps for any requests, wallets, top-ups and limits,   *)
(* any length of a day, and every fault.                                   *)
(***************************************************************************)
EXTENDS GasTopUps, FiniteSetTheorems, TLAPS

-----------------------------------------------------------------------------
(* Totals of sets of top-ups.                                              *)

LEMMA UnitsOfOne ==
    ASSUME NEW x, NEW n \in Nat
    PROVE  /\ IsFiniteSet({x} \X (1..n))
           /\ Cardinality({x} \X (1..n)) = n
    <1>1. IsFiniteSet(1..n) /\ Cardinality(1..n) = n
        BY FS_Interval
    <1>2. IsFiniteSet({x}) /\ Cardinality({x}) = 1
        BY FS_Singleton
    <1>3. /\ IsFiniteSet({x} \X (1..n))
          /\ Cardinality({x} \X (1..n)) = Cardinality({x}) * Cardinality(1..n)
        BY <1>1, <1>2, FS_Product
    <1> QED
        BY <1>1, <1>2, <1>3

LEMMA UnitsFinite ==
    ASSUME TypeOK, NEW T \in SUBSET TopUp
    PROVE  IsFiniteSet(Units(T)) /\ Total(T) \in Nat
    <1> DEFINE all == {{t} \X (1..top[t].amount) : t \in T}
               f == [t \in T |-> {t} \X (1..top[t].amount)]
    <1>1. IsFiniteSet(T)
        BY GasAssumption, FS_Subset
    <1>2. f \in Surjection(T, all)
        BY DEF Surjection
    <1>3. IsFiniteSet(all)
        <2> HIDE DEF all, f
        <2> QED BY <1>1, <1>2, FS_Surjection
    <1>4. \A U \in all : IsFiniteSet(U)
        <2> SUFFICES ASSUME NEW t \in T PROVE IsFiniteSet({t} \X (1..top[t].amount))
            OBVIOUS
        <2>1. top[t].amount \in Nat
            BY DEF TypeOK, Transfer
        <2> QED
            BY <2>1, UnitsOfOne
    <1>5. IsFiniteSet(UNION all)
        <2> HIDE DEF all
        <2> QED BY <1>3, <1>4, FS_UNION
    <1>6. Units(T) = UNION all
        BY DEF Units
    <1> HIDE DEF all
    <1>7. IsFiniteSet(Units(T))
        BY <1>5, <1>6
    <1> QED
        BY <1>7, FS_CardinalityType DEF Total

(* A total of fewer top-ups is no larger.                                  *)
LEMMA TotalMonotone ==
    ASSUME TypeOK, NEW T \in SUBSET TopUp, NEW S \in SUBSET T
    PROVE  Total(S) <= Total(T)
    <1>1. Units(S) \in SUBSET Units(T)
        BY DEF Units
    <1>2. IsFiniteSet(Units(T))
        BY UnitsFinite
    <1>3. Cardinality(Units(S)) <= Cardinality(Units(T))
        BY <1>1, <1>2, FS_Subset
    <1> QED
        BY <1>3 DEF Total

(* The total of disjoint sets is the sum of their totals.                  *)
LEMMA TotalOfUnion ==
    ASSUME TypeOK, NEW S \in SUBSET TopUp, NEW T \in SUBSET TopUp, S \cap T = {}
    PROVE  Total(S \cup T) = Total(S) + Total(T)
    <1>1. Units(S \cup T) = Units(S) \cup Units(T)
        BY DEF Units
    <1>2. Units(S) \cap Units(T) = {}
        BY DEF Units
    <1>3. /\ IsFiniteSet(Units(S)) /\ IsFiniteSet(Units(T))
          /\ Total(S) \in Nat /\ Total(T) \in Nat
        BY UnitsFinite
    <1>4. Cardinality(Units(S) \cup Units(T))
              = Cardinality(Units(S)) + Cardinality(Units(T))
                - Cardinality(Units(S) \cap Units(T))
        BY <1>3, FS_Union
    <1>5. Cardinality(Units(S) \cap Units(T)) = 0
        BY <1>2, FS_EmptySet
    <1>6. /\ Total(S \cup T) = Cardinality(Units(S) \cup Units(T))
          /\ Total(S) = Cardinality(Units(S)) /\ Total(T) = Cardinality(Units(T))
        BY <1>1, Zenon DEF Total
    <1> QED
        BY <1>3, <1>4, <1>5, <1>6

LEMMA TotalOfOne ==
    ASSUME TypeOK, NEW t \in TopUp
    PROVE  Total({t}) = top[t].amount
    <1>1. top[t].amount \in Nat
        BY DEF TypeOK, Transfer
    <1>2. Units({t}) = {t} \X (1..top[t].amount)
        BY DEF Units
    <1> QED
        BY <1>1, <1>2, UnitsOfOne DEF Total

(* Totals depend on the amounts of the top-ups counted, and only on them.  *)
LEMMA TotalSame ==
    ASSUME NEW T, \A t \in T : top'[t].amount = top[t].amount
    PROVE  Total(T)' = Total(T)
    <1>1. \A t \in T : {t} \X (1..top'[t].amount) = {t} \X (1..top[t].amount)
        OBVIOUS
    <1>2. Units(T)' = Units(T)
        BY <1>1 DEF Units
    <1> QED
        BY <1>2 DEF Total

-----------------------------------------------------------------------------
(* The limits hold for the top-ups of a day that were seen when a later    *)
(* one was judged: this says the same as TopUpsWithinLimits, and is what   *)
(* an admission establishes.                                               *)

Seen(day) == AdmittedOn(day) \ unseen
SeenFor(w, day) == AdmittedFor(w, day) \ unseen

SeenWithinLimits ==
    \A day : /\ Total(Seen(day)) <= GlobalLimit
             /\ \A w \in Wallet : Total(SeenFor(w, day)) <= WalletLimit

LEMMA TotalSplits ==
    ASSUME TypeOK, NEW T \in SUBSET TopUp, NEW limit \in Nat
    PROVE  Total(T) <= limit + Total(T \cap unseen) <=> Total(T \ unseen) <= limit
    <1>1. /\ T \cap unseen \in SUBSET TopUp /\ T \ unseen \in SUBSET TopUp
          /\ (T \ unseen) \cap (T \cap unseen) = {}
          /\ (T \ unseen) \cup (T \cap unseen) = T
        OBVIOUS
    <1>2. Total((T \ unseen) \cup (T \cap unseen)) = Total(T \ unseen) + Total(T \cap unseen)
        BY <1>1, TotalOfUnion
    <1>3. Total(T \ unseen) \in Nat /\ Total(T \cap unseen) \in Nat
        BY <1>1, UnitsFinite
    <1>4. Total(T) = Total(T \ unseen) + Total(T \cap unseen)
        BY <1>1, <1>2
    <1> QED
        BY <1>3, <1>4

LEMMA TotalOfNone == Total({}) = 0
    <1>1. Units({}) = {}
        BY DEF Units
    <1> QED
        BY <1>1, FS_EmptySet DEF Total

LEMMA LimitsMean == TypeOK => (TopUpsWithinLimits <=> SeenWithinLimits)
    <1> SUFFICES ASSUME TypeOK PROVE TopUpsWithinLimits <=> SeenWithinLimits
        OBVIOUS
    <1>1. GlobalLimit \in Nat /\ WalletLimit \in Nat
        BY GasAssumption
    <1>2. ASSUME NEW day
          PROVE  DayWithinLimits(day) <=>
                    /\ Total(Seen(day)) <= GlobalLimit
                    /\ \A w \in Wallet : Total(SeenFor(w, day)) <= WalletLimit
        <2>1. /\ AdmittedOn(day) \in SUBSET TopUp
              /\ \A w \in Wallet : AdmittedFor(w, day) \in SUBSET TopUp
            BY DEF AdmittedOn, AdmittedFor
        <2>2. Total(AdmittedOn(day)) <= GlobalLimit + Total(AdmittedOn(day) \cap unseen)
                  <=> Total(Seen(day)) <= GlobalLimit
            BY <1>1, <2>1, TotalSplits DEF Seen
        <2>3. \A w \in Wallet :
                  Total(AdmittedFor(w, day)) <= WalletLimit + Total(AdmittedFor(w, day) \cap unseen)
                  <=> Total(SeenFor(w, day)) <= WalletLimit
            BY <1>1, <2>1, TotalSplits DEF SeenFor
        <2> QED
            BY <2>2, <2>3 DEF DayWithinLimits
    <1>3. ASSUME NEW day, day \notin {top[t].day : t \in TopUp}
          PROVE  /\ Total(Seen(day)) <= GlobalLimit
                 /\ \A w \in Wallet : Total(SeenFor(w, day)) <= WalletLimit
        <2>1. Seen(day) = {} /\ \A w \in Wallet : SeenFor(w, day) = {}
            BY <1>3 DEF Seen, SeenFor, AdmittedOn, AdmittedFor
        <2> QED
            BY <1>1, <2>1, TotalOfNone
    <1> QED
        BY <1>2, <1>3 DEF TopUpsWithinLimits, SeenWithinLimits

LEMMA LimitsMeanNext == TypeOK' => (TopUpsWithinLimits' <=> SeenWithinLimits')
    BY LimitsMean, PTL

(* Fewer top-ups to count, or more that were not seen, break no limit.     *)
LEMMA LimitsKept ==
    ASSUME GasTopUpInv, TypeOK', unseen \subseteq unseen',
           \A t \in TopUp : Live(t)' => /\ Live(t)
                                        /\ top'[t].day = top[t].day
                                        /\ top'[t].wallet = top[t].wallet
                                        /\ top'[t].amount = top[t].amount
    PROVE  TopUpsWithinLimits'
    <1>1. TypeOK /\ SeenWithinLimits
        BY LimitsMean DEF GasTopUpInv
    <1>2. GlobalLimit \in Nat /\ WalletLimit \in Nat
        BY GasAssumption
    <1>3. ASSUME NEW S \in SUBSET TopUp, NEW T \in SUBSET S, NEW limit \in Nat,
                 \A t \in T : top'[t].amount = top[t].amount, Total(S) <= limit
          PROVE  Total(T)' <= limit
        <2>1. Total(T)' = Total(T)
            BY <1>3, TotalSame
        <2>2. Total(T) <= Total(S) /\ Total(S) \in Nat /\ Total(T) \in Nat
            BY <1>1, TotalMonotone, UnitsFinite
        <2> QED
            BY <1>3, <2>1, <2>2
    <1>4. ASSUME NEW day PROVE Total(Seen(day))' <= GlobalLimit
        <2>1. /\ Seen(day) \in SUBSET TopUp /\ Seen(day)' \in SUBSET Seen(day)
              /\ \A t \in Seen(day)' : top'[t].amount = top[t].amount
            BY DEF Seen, AdmittedOn
        <2>2. Total(Seen(day)) <= GlobalLimit
            BY <1>1 DEF SeenWithinLimits
        <2> QED
            BY <1>2, <1>3, <2>1, <2>2
    <1>5. ASSUME NEW day, NEW w \in Wallet PROVE Total(SeenFor(w, day))' <= WalletLimit
        <2>1. /\ SeenFor(w, day) \in SUBSET TopUp /\ SeenFor(w, day)' \in SUBSET SeenFor(w, day)
              /\ \A t \in SeenFor(w, day)' : top'[t].amount = top[t].amount
            BY DEF SeenFor, AdmittedFor, AdmittedOn
        <2>2. Total(SeenFor(w, day)) <= WalletLimit
            BY <1>1 DEF SeenWithinLimits
        <2> QED
            BY <1>2, <1>3, <2>1, <2>2
    <1>6. SeenWithinLimits'
        BY <1>4, <1>5 DEF SeenWithinLimits
    <1> QED
        BY <1>6, LimitsMeanNext

-----------------------------------------------------------------------------
(* What stays true of intents while transfers go on.                       *)

(* Transfers that were sent stay sent, those mined stay mined, and neither *)
(* changes its day; deposits are not undone.                               *)
Onward ==
    /\ \A t \in TopUp :
          /\ top[t].state \in {"sent", "mined"} =>
                top'[t].state \in {"sent", "mined"} /\ top'[t].day = top[t].day
          /\ top[t].state = "mined" => top'[t].state = "mined"
    /\ deposited \subseteq deposited'

LEMMA HonestKept ==
    ASSUME Onward, NEW t \in TopUp, NEW intent, Honest(t, intent)
    PROVE  /\ Honest(t, intent)'
           /\ Dated(t, intent) => Dated(t, intent)'
    BY DEF Onward, Honest, Dated

(* A request that does not step.                                           *)
LEMMA RequestKept ==
    ASSUME GasTopUpInv, Onward, NEW r \in Request, req'[r] = req[r],
           At(r, "send") => top'[req[r].topup].state = "admitted"
    PROVE  RequestHonest(r)'
    <1> DEFINE q == req[r]
    <1>1. RequestHonest(r) /\ q \in Req
        BY DEF GasTopUpInv, TypeOK
    <1>2. ASSUME q.pc \in {"approve", "deposit"}, q.kind = "resume"
          PROVE  /\ q.topup \in TopUp /\ top'[q.topup].state = "mined"
                 /\ q.found # NoIntent /\ Dated(q.topup, q.found)'
        BY <1>1, <1>2 DEF RequestHonest, Onward, Dated
    <1>3. ASSUME q.pc \in {"read", "write"}
          PROVE  /\ q.topup \in TopUp /\ q.intent # NoIntent
                 /\ Honest(q.topup, q.intent)' /\ Dated(q.topup, q.intent)'
                 /\ q.kind = "notice" => top'[q.topup].state = "mined"
        <2>1. /\ q.topup \in TopUp /\ q.intent # NoIntent
              /\ Honest(q.topup, q.intent) /\ Dated(q.topup, q.intent)
              /\ q.kind = "notice" => top[q.topup].state = "mined"
            BY <1>1, <1>3 DEF RequestHonest
        <2>2. Honest(q.topup, q.intent)' /\ Dated(q.topup, q.intent)'
            <3> HIDE DEF q
            <3>1. q' = q
                BY DEF q
            <3> QED
                BY <2>1, <3>1 DEF Onward, Honest, Dated
        <2> QED
            BY <2>1, <2>2 DEF Onward
    <1>4. ASSUME q.pc = "write", NEW t \in TopUp
          PROVE  Honest(t, q.copy[t])' /\ Dated(t, q.copy[t])'
        <2>1. Honest(t, q.copy[t]) /\ Dated(t, q.copy[t])
            BY <1>1, <1>4 DEF RequestHonest
        <2> QED
            BY <2>1 DEF Onward, Honest, Dated
    <1> QED
        BY <1>1, <1>2, <1>3, <1>4 DEF RequestHonest, At

(* The file while no request writes it.                                    *)
LEMMA FileKept ==
    ASSUME GasTopUpInv, Onward, UNCHANGED file
    PROVE  IntentsHonest' /\ \A t \in TopUp : Dated(t, file[t])'
    BY DEF GasTopUpInv, IntentsHonest, Onward, Honest, Dated

(* A step of one request that neither admits a top-up nor writes the file, *)
(* and does not drop an intent to be written.                              *)
LEMMA RequestStep ==
    ASSUME GasTopUpInv, NEW r \in Request,
           UNCHANGED <<now, file, top, unseen>>, deposited \subseteq deposited',
           TypeOK', RequestHonest(r)', ~At(r, "send")',
           \A t \in wanted' : top[t].state = "mined",
           \A s \in Request \ {r} : req'[s] = req[s],
           calm' => calm,
           req[r].pc \in {"read", "write"} =>
                req'[r].topup = req[r].topup /\ req'[r].pc \in {"read", "write"}
    PROVE  GasTopUpInv'
    <1>1. Onward
        BY DEF Onward
    <1>2. ASSUME NEW s \in Request PROVE RequestHonest(s)'
        <2>1. CASE s = r
            BY <2>1
        <2>2. CASE s # r
            <3>1. req'[s] = req[s]
                BY <2>2
            <3>2. At(s, "send") => top'[req[s].topup].state = "admitted"
                BY DEF GasTopUpInv, RequestHonest, At
            <3> QED
                BY <1>1, <3>1, <3>2, RequestKept
        <2> QED
            BY <2>1, <2>2
    <1>3. \A s, q \in Request : At(s, "send")' /\ At(q, "send")' /\ s # q
                                    => req'[s].topup # req'[q].topup
        BY DEF GasTopUpInv, At
    <1>4. TopUpsWithinLimits'
        BY LimitsKept DEF Live
    <1>5. SentIsKnown'
        <2> SUFFICES ASSUME calm', NEW t \in TopUp, top'[t].state \in {"sent", "mined"},
                            ~Known(t)'
                     PROVE  \E s \in Request : /\ req'[s].topup = t
                                               /\ req'[s].pc \in {"read", "write"}
            BY DEF SentIsKnown
        <2>1. PICK s \in Request : req[s].topup = t /\ req[s].pc \in {"read", "write"}
            BY DEF GasTopUpInv, SentIsKnown, Known
        <2>2. req'[s].topup = t /\ req'[s].pc \in {"read", "write"}
            BY <2>1
        <2> QED
            BY <2>2
    <1>6. /\ IntentsHonest' /\ \A t \in TopUp : Dated(t, file[t])'
        BY <1>1, FileKept
    <1>7. \A t \in TopUp : /\ top'[t].day <= Day(now)'
                           /\ top'[t].state # "none" => top'[t].wallet \in Wallet
        BY DEF GasTopUpInv, Day
    <1> QED
        BY <1>2, <1>3, <1>4, <1>5, <1>6, <1>7 DEF GasTopUpInv

-----------------------------------------------------------------------------
(* Requests on their way to a top-up.                                      *)

LEMMA IdleIs ==
    /\ Idle \in Req /\ Idle.pc = "idle"
    /\ NoIntent \in Intent /\ EmptyFile \in File
    <1>1. NoIntent \in Intent /\ EmptyFile \in File
        BY DEF Intent, EmptyFile, File
    <1>2. Idle \in Req /\ Idle.pc = "idle"
        BY <1>1 DEF Idle, Req
    <1> QED
        BY <1>1, <1>2

(* Any request may be answered, when it has no intent to save.             *)
LEMMA AnswerKeeps ==
    ASSUME GasTopUpInv, NEW r \in Request, Answer(r),
           req[r].pc \notin {"read", "write"},
           UNCHANGED <<now, file, top, unseen>>, deposited \subseteq deposited',
           TypeOK', wanted' \subseteq wanted, calm' => calm
    PROVE  GasTopUpInv'
    <1>1. /\ req'[r] = Idle /\ \A s \in Request \ {r} : req'[s] = req[s]
        BY DEF Answer, Become, GasTopUpInv, TypeOK
    <1>2. RequestHonest(r)' /\ ~At(r, "send")'
        BY <1>1, IdleIs DEF RequestHonest, At
    <1> QED
        BY <1>1, <1>2, RequestStep DEF GasTopUpInv

LEMMA AskKeeps ==
    ASSUME GasTopUpInv, NEW r \in Request, NEW w \in Wallet, Ask(r, w)
    PROVE  GasTopUpInv'
    <1> DEFINE q == [Idle EXCEPT !.pc = "balance", !.wallet = w]
    <1>1. q \in Req /\ q.pc = "balance" /\ q.wallet = w /\ q.kind = "deposit"
        BY IdleIs DEF Idle, Req
    <1>2. req' = [req EXCEPT ![r] = q]
        BY DEF Ask, Become
    <1> HIDE DEF q
    <1>3. /\ req' \in [Request -> Req] /\ req'[r] = q
          /\ \A s \in Request \ {r} : req'[s] = req[s]
        BY <1>1, <1>2 DEF GasTopUpInv, TypeOK
    <1>4. /\ UNCHANGED <<now, file, top, unseen, deposited, wanted, calm>>
          /\ UNCHANGED <<gas, allowed, usdc>> /\ req[r].pc = "idle"
        BY DEF Ask, chainVars, At
    <1>5. TypeOK'
        BY <1>3, <1>4 DEF GasTopUpInv, TypeOK
    <1>6. RequestHonest(r)' /\ ~At(r, "send")'
        BY <1>1, <1>3 DEF RequestHonest, At
    <1> QED
        BY <1>3, <1>4, <1>5, <1>6, RequestStep DEF GasTopUpInv

(* The lookups, and reading the file to save an intent.                    *)
LEMMA LookupKeeps ==
    ASSUME GasTopUpInv, NEW r \in Request,
           Balance(r) \/ FindPending(r) \/ Refuse(r) \/ LookupFails(r) \/ ReadToSave(r)
    PROVE  GasTopUpInv'
    <1>1. /\ UNCHANGED <<now, file, top, unseen, deposited, wanted, calm>>
          /\ UNCHANGED <<gas, allowed, usdc>>
        BY DEF Balance, FindPending, Refuse, LookupFails, ReadToSave, chainVars
    <1>2. TypeOK /\ req[r] \in Req /\ RequestHonest(r)
        BY DEF GasTopUpInv, TypeOK
    <1>3. CASE Answer(r) /\ req[r].pc \notin {"read", "write"}
        <2>1. TypeOK'
            BY <1>1, <1>2, <1>3, IdleIs DEF TypeOK, Answer, Become
        <2> QED
            BY <1>1, <1>3, <2>1, AnswerKeeps
    <1>4. ASSUME NEW q \in Req, Become(r, q), RequestHonest(r)' , q.pc # "send",
                 req[r].pc \in {"read", "write"} =>
                      q.topup = req[r].topup /\ q.pc \in {"read", "write"}
          PROVE  GasTopUpInv'
        <2>1. /\ req' \in [Request -> Req] /\ req'[r] = q
              /\ \A s \in Request \ {r} : req'[s] = req[s]
            BY <1>2, <1>4 DEF TypeOK, Become
        <2>2. TypeOK'
            BY <1>1, <1>2, <2>1 DEF TypeOK
        <2>3. ~At(r, "send")'
            BY <1>4, <2>1 DEF At
        <2> QED
            BY <1>1, <1>4, <2>1, <2>2, <2>3, RequestStep DEF GasTopUpInv
    <1>5. ASSUME Balance(r) PROVE GasTopUpInv'
        <2> DEFINE w == req[r].wallet
                   poor == [req[r] EXCEPT !.pc = "reuse", !.amount = TargetGas - gas[w]]
                   rich == [req[r] EXCEPT !.pc = "approve"]
        <2>1. req[r].pc = "balance" /\ w \in Wallet /\ req[r].kind = "deposit"
            BY <1>2, <1>5 DEF Balance, At, RequestHonest
        <2>2. CASE gas[w] < MinGas
            <3>1. TargetGas - gas[w] \in Nat
                BY <1>2, <2>1, <2>2, GasAssumption DEF TypeOK
            <3>2. /\ poor \in Req /\ poor.pc = "reuse" /\ poor.wallet = w
                  /\ poor.kind = "deposit"
                BY <1>2, <2>1, <3>1 DEF Req
            <3>3. Become(r, poor)
                <4>1. ~(gas[w] >= MinGas)
                    BY <1>2, <2>1, <2>2, GasAssumption DEF TypeOK
                <4> QED
                    BY <1>5, <4>1 DEF Balance
            <3> HIDE DEF poor
            <3>4. req'[r] = poor
                BY <1>2, <3>3 DEF Become, TypeOK
            <3>5. RequestHonest(r)'
                BY <2>1, <3>2, <3>4 DEF RequestHonest
            <3> QED
                BY <1>4, <2>1, <3>2, <3>3, <3>5
        <2>3. CASE gas[w] >= MinGas
            <3>1. /\ rich \in Req /\ rich.pc = "approve" /\ rich.wallet = w
                  /\ rich.kind = "deposit"
                BY <1>2, <2>1 DEF Req
            <3>2. Become(r, rich)
                BY <1>5, <2>3 DEF Balance, Goto
            <3> HIDE DEF rich
            <3>3. req'[r] = rich
                BY <1>2, <3>2 DEF Become, TypeOK
            <3>4. RequestHonest(r)'
                BY <2>1, <3>1, <3>3 DEF RequestHonest
            <3> QED
                BY <1>4, <2>1, <3>1, <3>2, <3>4
        <2>4. gas[w] \in Nat /\ MinGas \in Nat
            BY <1>2, <2>1, GasAssumption DEF TypeOK
        <2> QED
            BY <2>2, <2>3, <2>4
    <1>6. ASSUME At(r, "reuse"), Goto(r, "spent") PROVE GasTopUpInv'
        <2> DEFINE q == [req[r] EXCEPT !.pc = "spent"]
        <2>1. /\ q \in Req /\ q.pc = "spent" /\ q.wallet = req[r].wallet
              /\ q.kind = req[r].kind
            BY <1>2 DEF Req
        <2>2. Become(r, q)
            BY <1>6 DEF Goto
        <2> HIDE DEF q
        <2>3. req'[r] = q
            BY <1>2, <2>2 DEF Become, TypeOK
        <2>4. RequestHonest(r)'
            BY <1>2, <1>6, <2>1, <2>3 DEF RequestHonest, At
        <2> QED
            BY <1>4, <1>6, <2>1, <2>2, <2>4 DEF At
    <1>7. ASSUME ReadToSave(r) PROVE GasTopUpInv'
        <2> DEFINE q == [req[r] EXCEPT !.pc = "write", !.copy = file]
        <2>1. /\ q \in Req /\ q.pc = "write" /\ q.wallet = req[r].wallet
              /\ q.kind = req[r].kind /\ q.topup = req[r].topup
              /\ q.intent = req[r].intent /\ q.copy = file
            BY <1>2 DEF Req, TypeOK
        <2>2. Become(r, q) /\ req[r].pc = "read"
            BY <1>7 DEF ReadToSave, At
        <2> HIDE DEF q
        <2>3. req'[r] = q
            BY <1>2, <2>2 DEF Become, TypeOK
        <2>4. RequestHonest(r)'
            <3>1. /\ q.topup \in TopUp /\ q.intent # NoIntent
                  /\ Honest(q.topup, q.intent) /\ Dated(q.topup, q.intent)
                  /\ q.kind = "notice" => top[q.topup].state = "mined"
                  /\ q.wallet \in Wallet
                BY <1>2, <2>1, <2>2 DEF RequestHonest
            <3>2. \A t \in TopUp : Honest(t, file[t]) /\ Dated(t, file[t])
                BY DEF GasTopUpInv, IntentsHonest
            <3> QED
                BY <1>1, <2>1, <2>3, <3>1, <3>2
                DEF RequestHonest, Honest, Dated
        <2> QED
            BY <1>4, <2>1, <2>2, <2>4
    <1> QED
        BY <1>3, <1>5, <1>6, <1>7
        DEF Balance, FindPending, gasTopUpPendingResult, Refuse, LookupFails, At

-----------------------------------------------------------------------------
(* An admission: the limits hold with the new top-up counted.              *)

LEMMA AdmitKeepsLimits ==
    ASSUME GasTopUpInv, TypeOK', NEW r \in Request, NEW t \in TopUp, Admit(r, t)
    PROVE  TopUpsWithinLimits'
    <1>0. PICK w, n, d : w = req[r].wallet /\ n = req[r].amount /\ d = Day(now)
        OBVIOUS
    <1>1. /\ TypeOK /\ SeenWithinLimits /\ w \in Wallet /\ n \in Nat
          /\ IntentsHonest /\ \A u \in TopUp : Dated(u, file[u])
        BY <1>0, LimitsMean DEF GasTopUpInv, TypeOK, RequestHonest, Admit, At, Req
    <1>2. /\ top[t].state = "none" /\ UNCHANGED <<file, now>>
          /\ unseen' = unseen \cup {u \in TopUp : Live(u) /\ ~Known(u)}
          /\ Total(SpentBy(w, d)) + n <= WalletLimit
          /\ Total(SpentOn(d)) + n <= GlobalLimit
        BY <1>0 DEF Admit, Fresh, WithinLimits
    <1>3. /\ top'[t].state = "admitted" /\ top'[t].wallet = w
          /\ top'[t].amount = n /\ top'[t].day = d
          /\ \A u \in TopUp \ {t} : top'[u] = top[u]
        <2>1. top' = [top EXCEPT ![t] = [state |-> "admitted", wallet |-> w,
                                         amount |-> n, day |-> d]]
            BY <1>0 DEF Admit
        <2> QED
            BY <1>1, <2>1 DEF TypeOK
    <1>4. GlobalLimit \in Nat /\ WalletLimit \in Nat
        BY GasAssumption
    <1>5. ~Known(t)
        BY <1>1, <1>2 DEF IntentsHonest, Honest, Known
    <1>6. ASSUME NEW S \in SUBSET (TopUp \ {t}), NEW T \in SUBSET (S \cup {t}),
                 NEW limit \in Nat, Total(S) + n <= limit
          PROVE  Total(T)' <= limit
        <2>1. T \ {t} \in SUBSET S /\ S \in SUBSET TopUp /\ T \ {t} \in SUBSET TopUp
            OBVIOUS
        <2>2. Total(T \ {t}) <= Total(S)
            BY <1>1, <2>1, TotalMonotone
        <2>3. Total(S) \in Nat /\ Total(T \ {t}) \in Nat
            BY <1>1, <2>1, UnitsFinite
        <2>4. Total(T \ {t})' = Total(T \ {t})
            BY <1>3, <2>1, TotalSame
        <2>5. CASE t \notin T
            <3>1. Total(T)' = Total(T) /\ T \in SUBSET S
                BY <1>3, <1>6, <2>5, TotalSame
            <3>2. Total(T) <= Total(S) /\ Total(T) \in Nat
                BY <1>1, <2>1, <3>1, TotalMonotone, UnitsFinite
            <3> QED
                BY <1>1, <1>6, <2>3, <3>1, <3>2
        <2>6. CASE t \in T
            <3>1. /\ IsFiniteSet(Units(T \ {t}))' /\ Cardinality(Units(T \ {t}))' = Total(T \ {t})'
                <4>1. Units(T \ {t})' = Units(T \ {t})
                    BY <1>3, <2>1 DEF Units
                <4>2. IsFiniteSet(Units(T \ {t}))
                    BY <1>1, <2>1, UnitsFinite
                <4> QED
                    BY <4>1, <4>2 DEF Total
            <3>2. Units(T)' = Units(T \ {t})' \cup ({t} \X (1..n))
                <4>1. \A u \in TopUp \ {t} : {u} \X (1..top'[u].amount) = {u} \X (1..top[u].amount)
                    BY <1>3
                <4> QED
                    BY <1>3, <2>6 DEF Units
            <3>3. Units(T \ {t})' \cap ({t} \X (1..n)) = {}
                BY DEF Units
            <3>4. IsFiniteSet({t} \X (1..n)) /\ Cardinality({t} \X (1..n)) = n
                BY <1>1, UnitsOfOne
            <3> DEFINE old == Units(T \ {t})'
                       new == {t} \X (1..n)
            <3> HIDE DEF new
            <3>5. /\ IsFiniteSet(old) /\ IsFiniteSet(new) /\ old \cap new = {}
                  /\ Units(T)' = old \cup new /\ Cardinality(new) = n
                BY <3>1, <3>2, <3>3, <3>4 DEF new
            <3>6. Cardinality(old \cup new)
                      = Cardinality(old) + Cardinality(new) - Cardinality(old \cap new)
                <4> HIDE DEF old
                <4> QED BY <3>5, FS_Union
            <3>7. Cardinality(old \cap new) = 0
                BY <3>5, FS_EmptySet
            <3>8. Total(T)' = Cardinality(old \cup new) /\ Cardinality(old) = Total(T \ {t})'
                BY <3>1, <3>5 DEF Total
            <3>9. Total(T)' = Total(T \ {t}) + n
                <4> HIDE DEF old
                <4> QED BY <1>1, <2>3, <2>4, <3>5, <3>6, <3>7, <3>8
            <3> QED
                BY <1>1, <1>6, <2>2, <2>3, <3>9
        <2> QED
            BY <2>5, <2>6
    <1>7. /\ SpentOn(d) \in SUBSET (TopUp \ {t})
          /\ SpentBy(w, d) \in SUBSET (TopUp \ {t})
        BY <1>5 DEF SpentOn, SpentBy
    <1>8. /\ Seen(d)' \in SUBSET (SpentOn(d) \cup {t})
          /\ SeenFor(w, d)' \in SUBSET (SpentBy(w, d) \cup {t})
        <2>1. ASSUME NEW u \in TopUp \ {t}, Live(u), top[u].day = d, u \notin unseen'
              PROVE  u \in SpentOn(d)
            <3>1. Known(u) /\ Dated(u, file[u])
                BY <1>1, <1>2, <2>1
            <3> QED
                BY <2>1, <3>1 DEF SpentOn, Known, Dated
        <2>2. \A u \in TopUp \ {t} : Live(u)' <=> Live(u)
            BY <1>3 DEF Live
        <2>3. Seen(d)' \in SUBSET (SpentOn(d) \cup {t})
            BY <1>3, <2>1, <2>2 DEF Seen, AdmittedOn
        <2>4. \A u \in SeenFor(w, d)' : u \in Seen(d)' /\ (u # t => top[u].wallet = w)
            BY <1>3 DEF Seen, SeenFor, AdmittedFor, AdmittedOn
        <2>5. SeenFor(w, d)' \in SUBSET (SpentBy(w, d) \cup {t})
            BY <2>3, <2>4 DEF SpentBy
        <2> QED
            BY <2>3, <2>5
    <1>9. ASSUME NEW S \in SUBSET TopUp, NEW T \in SUBSET (S \ {t}), NEW limit \in Nat,
                 Total(S) <= limit
          PROVE  Total(T)' <= limit
        <2>1. Total(T)' = Total(T)
            BY <1>3, TotalSame
        <2>2. Total(T) <= Total(S) /\ Total(T) \in Nat /\ Total(S) \in Nat
            BY <1>1, TotalMonotone, UnitsFinite
        <2> QED
            BY <1>9, <2>1, <2>2
    <1>10. ASSUME NEW day PROVE Total(Seen(day))' <= GlobalLimit
        <2>1. CASE day = d
            <3>1. Total(Seen(d))' <= GlobalLimit
                BY <1>2, <1>4, <1>6, <1>7, <1>8
            <3> QED
                BY <2>1, <3>1
        <2>2. CASE day # d
            <3>1. Seen(day) \in SUBSET TopUp /\ Seen(day)' \in SUBSET (Seen(day) \ {t})
                BY <1>2, <1>3, <2>2 DEF Seen, AdmittedOn, Live
            <3>2. Total(Seen(day)) <= GlobalLimit
                BY <1>1 DEF SeenWithinLimits
            <3> QED
                BY <1>4, <1>9, <3>1, <3>2
        <2> QED
            BY <2>1, <2>2
    <1>11. ASSUME NEW day, NEW v \in Wallet PROVE Total(SeenFor(v, day))' <= WalletLimit
        <2>1. CASE day = d /\ v = w
            <3>1. Total(SeenFor(w, d))' <= WalletLimit
                BY <1>2, <1>4, <1>6, <1>7, <1>8
            <3> QED
                BY <2>1, <3>1
        <2>2. CASE ~(day = d /\ v = w)
            <3>1. SeenFor(v, day) \in SUBSET TopUp /\ SeenFor(v, day)' \in SUBSET (SeenFor(v, day) \ {t})
                BY <1>2, <1>3, <2>2 DEF SeenFor, AdmittedFor, AdmittedOn, Live
            <3>2. Total(SeenFor(v, day)) <= WalletLimit
                BY <1>1 DEF SeenWithinLimits
            <3> QED
                BY <1>4, <1>9, <3>1, <3>2
        <2> QED
            BY <2>1, <2>2
    <1>12. SeenWithinLimits'
        BY <1>10, <1>11 DEF SeenWithinLimits
    <1> QED
        BY <1>12, LimitsMeanNext

LEMMA AdmitKeeps ==
    ASSUME GasTopUpInv, NEW r \in Request, NEW t \in TopUp, Admit(r, t)
    PROVE  GasTopUpInv'
    <1>1. TypeOK /\ req[r] \in Req /\ RequestHonest(r) /\ req[r].pc = "spent"
        BY DEF GasTopUpInv, TypeOK, Admit, At
    <1> DEFINE q == [req[r] EXCEPT !.pc = "send", !.topup = t, !.amount = 0]
               new == [state |-> "admitted", wallet |-> req[r].wallet,
                       amount |-> req[r].amount, day |-> Day(now)]
    <1>2. /\ q \in Req /\ q.pc = "send" /\ q.topup = t /\ q.wallet = req[r].wallet
          /\ q.kind = req[r].kind
        BY <1>1 DEF Req
    <1>3. Day(now) \in Nat
        BY <1>1, GasAssumption, Z3 DEF TypeOK, Day
    <1>4. /\ new \in Transfer /\ new.state = "admitted" /\ new.day = Day(now)
          /\ new.wallet = req[r].wallet
        BY <1>1, <1>3 DEF Transfer, Req
    <1>5. /\ req' = [req EXCEPT ![r] = q] /\ top' = [top EXCEPT ![t] = new]
          /\ top[t].state = "none" /\ unseen \subseteq unseen' /\ unseen' \subseteq unseen \cup TopUp
          /\ UNCHANGED <<now, file, gas, allowed, usdc, wanted, deposited, calm>>
        BY DEF Admit, Become, Fresh
    <1> HIDE DEF q, new
    <1>6. /\ req' \in [Request -> Req] /\ req'[r] = q
          /\ \A s \in Request \ {r} : req'[s] = req[s]
          /\ top' \in [TopUp -> Transfer] /\ top'[t] = new
          /\ \A u \in TopUp \ {t} : top'[u] = top[u]
        BY <1>1, <1>2, <1>4, <1>5 DEF TypeOK
    <1>7. TypeOK'
        BY <1>1, <1>5, <1>6 DEF TypeOK
    <1>8. Onward
        BY <1>5, <1>6 DEF Onward
    <1>9. ASSUME NEW s \in Request PROVE RequestHonest(s)'
        <2>1. CASE s = r
            BY <1>1, <1>2, <1>4, <1>6, <2>1 DEF RequestHonest
        <2>2. CASE s # r
            <3>1. At(s, "send") => /\ req[s].topup \in TopUp
                                   /\ top[req[s].topup].state = "admitted"
                BY DEF GasTopUpInv, RequestHonest, At
            <3>2. At(s, "send") => top'[req[s].topup].state = "admitted"
                BY <1>5, <1>6, <3>1
            <3> QED
                BY <1>6, <1>8, <2>2, <3>2, RequestKept
        <2> QED
            BY <2>1, <2>2
    <1>10. ASSUME NEW s \in Request, NEW p \in Request, s # p, At(s, "send")', At(p, "send")'
           PROVE  req'[s].topup # req'[p].topup
        <2>1. \A u \in Request \ {r} : At(u, "send")' => req'[u].topup # t
            BY <1>5, <1>6 DEF GasTopUpInv, RequestHonest, At
        <2> QED
            BY <1>2, <1>6, <1>10, <2>1 DEF GasTopUpInv, At
    <1>11. TopUpsWithinLimits'
        BY <1>7, AdmitKeepsLimits
    <1>12. SentIsKnown'
        <2> SUFFICES ASSUME calm', NEW u \in TopUp, top'[u].state \in {"sent", "mined"},
                            ~Known(u)'
                     PROVE  \E s \in Request : /\ req'[s].topup = u
                                               /\ req'[s].pc \in {"read", "write"}
            BY DEF SentIsKnown
        <2>1. PICK s \in Request : req[s].topup = u /\ req[s].pc \in {"read", "write"}
            BY <1>4, <1>5, <1>6 DEF GasTopUpInv, SentIsKnown, Known
        <2> QED
            BY <1>1, <1>6, <2>1
    <1>13. IntentsHonest' /\ \A u \in TopUp : Dated(u, file[u])'
        BY <1>5, <1>8, FileKept
    <1>14. \A u \in TopUp : /\ top'[u].day <= Day(now)'
                            /\ top'[u].state # "none" => top'[u].wallet \in Wallet
        BY <1>1, <1>3, <1>4, <1>5, <1>6 DEF GasTopUpInv, RequestHonest, Day
    <1>15. \A u \in wanted' : top'[u].state = "mined"
        BY <1>5, <1>6 DEF GasTopUpInv
    <1> QED
        BY <1>7, <1>9, <1>10, <1>11, <1>12, <1>13, <1>14, <1>15 DEF GasTopUpInv

(* The transfer is answered, refused, or its answer lost.                  *)
LEMMA SendKeeps ==
    ASSUME GasTopUpInv, NEW r \in Request, Send(r) \/ SendFails(r)
    PROVE  GasTopUpInv'
    <1>0. PICK t : t = req[r].topup
        OBVIOUS
    <1>1. /\ TypeOK /\ req[r] \in Req /\ RequestHonest(r) /\ req[r].pc = "send"
          /\ t \in TopUp /\ top[t].state = "admitted" /\ req[r].kind = "deposit"
          /\ req[r].wallet \in Wallet
        BY <1>0 DEF GasTopUpInv, TypeOK, Send, SendFails, At, RequestHonest
    <1>2. /\ UNCHANGED <<now, file, gas, allowed, usdc, wanted, deposited, unseen>>
          /\ calm' => calm
        BY DEF Send, SendFails
    <1>3. PICK outcome \in {"sent", "void"} : top' = [top EXCEPT ![t].state = outcome]
        BY <1>0 DEF Send, SendFails, createNativeTransfer
    <1>4. /\ top' \in [TopUp -> Transfer] /\ top'[t].state = outcome
          /\ top'[t].day = top[t].day /\ top'[t].wallet = top[t].wallet
          /\ top'[t].amount = top[t].amount
          /\ \A u \in TopUp \ {t} : top'[u] = top[u]
        BY <1>1, <1>3 DEF TypeOK, Transfer
    <1>5a. PICK q : q = [req[r] EXCEPT !.pc = "read",
                                      !.intent = [status |-> "pending", created |-> now]]
        OBVIOUS
    <1>5. /\ q \in Req /\ q.pc = "read" /\ q.topup = t /\ q.kind = "deposit"
          /\ q.wallet = req[r].wallet
          /\ q.intent.status = "pending" /\ q.intent.created = now
        BY <1>0, <1>1, <1>5a DEF Req, Intent, Status, TypeOK
    <1>6. \/ req' = [req EXCEPT ![r] = q] /\ outcome = "sent"
          \/ req' = [req EXCEPT ![r] = Idle] /\ calm' = FALSE
        <2>1. CASE Send(r)
            <3>1. top' = [top EXCEPT ![t].state = "sent"]
                BY <1>0, <2>1 DEF Send, createNativeTransfer
            <3>2. outcome = "sent"
                BY <1>1, <1>4, <3>1 DEF TypeOK, Transfer
            <3> QED
                BY <1>5a, <2>1, <3>2 DEF Send, Become
        <2>2. CASE SendFails(r)
            BY <2>2 DEF SendFails, Answer, Become
        <2> QED
            BY <2>1, <2>2
    <1>7. /\ req' \in [Request -> Req]
          /\ \A s \in Request \ {r} : req'[s] = req[s]
          /\ \/ req'[r] = q /\ outcome = "sent"
             \/ req'[r] = Idle /\ calm' = FALSE
        BY <1>1, <1>5, <1>6, IdleIs DEF TypeOK
    <1>8. TypeOK'
        BY <1>1, <1>2, <1>4, <1>7 DEF TypeOK, Send, SendFails
    <1>9. Onward
        BY <1>1, <1>2, <1>4 DEF Onward
    <1>10. RequestHonest(r)' /\ ~At(r, "send")'
        <2>1. CASE req'[r] = Idle
            BY <2>1, IdleIs DEF RequestHonest, At
        <2>2. CASE req'[r] = q /\ outcome = "sent"
            <3>1. q.intent # NoIntent
                BY <1>5 DEF NoIntent
            <3>2. /\ top'[t].state = "sent" /\ top'[t].day <= Day(now)
                BY <1>1, <1>4, <2>2 DEF GasTopUpInv
            <3>3. Honest(t, q.intent)' /\ Dated(t, q.intent)'
                BY <1>5, <3>2 DEF Honest, Dated, Final
            <3> QED
                BY <1>1, <1>5, <2>2, <3>1, <3>3 DEF RequestHonest, At
        <2> QED
            BY <1>7, <2>1, <2>2
    <1>11. ASSUME NEW s \in Request PROVE RequestHonest(s)'
        <2>1. CASE s # r
            <3>1. At(s, "send") => /\ req[s].topup \in TopUp /\ req[s].topup # t
                                   /\ top[req[s].topup].state = "admitted"
                BY <1>0, <1>1, <2>1 DEF GasTopUpInv, RequestHonest, At
            <3>2. At(s, "send") => top'[req[s].topup].state = "admitted"
                BY <1>4, <3>1
            <3> QED
                BY <1>7, <1>9, <2>1, <3>2, RequestKept
        <2> QED
            BY <1>10, <2>1
    <1>12. \A s, p \in Request : At(s, "send")' /\ At(p, "send")' /\ s # p
                                    => req'[s].topup # req'[p].topup
        BY <1>7, <1>10 DEF GasTopUpInv, At
    <1>13. TopUpsWithinLimits'
        <2>1. \A u \in TopUp : Live(u)' => /\ Live(u)
                                           /\ top'[u].day = top[u].day
                                           /\ top'[u].wallet = top[u].wallet
                                           /\ top'[u].amount = top[u].amount
            BY <1>1, <1>4 DEF Live
        <2> QED
            BY <1>2, <1>8, <2>1, LimitsKept
    <1>14. SentIsKnown'
        <2> SUFFICES ASSUME calm', NEW u \in TopUp, top'[u].state \in {"sent", "mined"},
                            ~Known(u)'
                     PROVE  \E s \in Request : /\ req'[s].topup = u
                                               /\ req'[s].pc \in {"read", "write"}
            BY DEF SentIsKnown
        <2>1. CASE u = t
            BY <1>5, <1>7, <2>1
        <2>2. CASE u # t
            <3>1. PICK s \in Request : req[s].topup = u /\ req[s].pc \in {"read", "write"}
                BY <1>2, <1>4, <2>2 DEF GasTopUpInv, SentIsKnown, Known
            <3> QED
                BY <1>1, <1>7, <3>1
        <2> QED
            BY <2>1, <2>2
    <1>15. IntentsHonest' /\ \A u \in TopUp : Dated(u, file[u])'
        BY <1>2, <1>9, FileKept
    <1>16. /\ \A u \in TopUp : /\ top'[u].day <= Day(now)'
                               /\ top'[u].state # "none" => top'[u].wallet \in Wallet
           /\ \A u \in wanted' : top'[u].state = "mined"
        <2>1. \A u \in TopUp : /\ top'[u].day = top[u].day /\ top'[u].wallet = top[u].wallet
                               /\ top'[u].state # "none" => top[u].state # "none"
                               /\ top[u].state = "mined" => top'[u].state = "mined"
            BY <1>1, <1>4
        <2>2. wanted' = wanted /\ wanted \subseteq TopUp
            BY <1>1, <1>2 DEF TypeOK
        <2>3. Day(now)' = Day(now)
            BY <1>2 DEF Day
        <2> QED
            BY <2>1, <2>2, <2>3 DEF GasTopUpInv
    <1> QED
        BY <1>8, <1>11, <1>12, <1>13, <1>14, <1>15, <1>16 DEF GasTopUpInv

-----------------------------------------------------------------------------
(* Saving an intent.                                                       *)

LEMMA WriteKeeps ==
    ASSUME GasTopUpInv, NEW r \in Request, Write(r)
    PROVE  GasTopUpInv'
    <1>0. PICK t, i, c : t = req[r].topup /\ i = req[r].intent /\ c = req[r].copy
        OBVIOUS
    <1>1. /\ TypeOK /\ req[r] \in Req /\ RequestHonest(r) /\ req[r].pc = "write"
          /\ t \in TopUp /\ i \in Intent /\ c \in File /\ i # NoIntent
        BY <1>0 DEF GasTopUpInv, TypeOK, Write, At, RequestHonest, Req
    <1>2. /\ UNCHANGED <<now, top, gas, allowed, usdc, deposited, unseen>>
          /\ file' = [c EXCEPT ![t] = i]
          /\ calm' = (calm /\ c = file /\ req[r].found = file[t])
          /\ wanted' = wanted \/ (wanted' = wanted \cup {t} /\ req[r].kind = "notice")
          /\ req' = [req EXCEPT ![r] = Idle]
        BY <1>0 DEF Write, Answer, Become, chainVars
    <1>3. /\ file' \in File /\ file'[t] = i /\ \A u \in TopUp \ {t} : file'[u] = c[u]
          /\ req' \in [Request -> Req] /\ req'[r] = Idle
          /\ \A s \in Request \ {r} : req'[s] = req[s]
        BY <1>1, <1>2, IdleIs DEF TypeOK, File
    <1>4. TypeOK'
        BY <1>1, <1>2, <1>3 DEF TypeOK
    <1>5. Onward
        BY <1>2 DEF Onward
    <1>6. /\ Honest(t, i) /\ Dated(t, i)
          /\ \A u \in TopUp : Honest(u, c[u]) /\ Dated(u, c[u])
          /\ req[r].kind = "notice" => top[t].state = "mined"
        BY <1>0, <1>1 DEF RequestHonest
    <1>7. IntentsHonest' /\ \A u \in TopUp : Dated(u, file[u])'
        <2> SUFFICES ASSUME NEW u \in TopUp PROVE Honest(u, file[u])' /\ Dated(u, file[u])'
            BY DEF IntentsHonest
        <2>1. PICK j : j = file'[u] /\ Honest(u, j) /\ Dated(u, j)
            BY <1>3, <1>6
        <2> QED
            BY <1>2, <2>1 DEF Honest, Dated
    <1>8. ASSUME NEW s \in Request PROVE RequestHonest(s)'
        <2>1. CASE s = r
            BY <1>3, <2>1, IdleIs DEF RequestHonest
        <2>2. CASE s # r
            <3>1. At(s, "send") => top'[req[s].topup].state = "admitted"
                BY <1>2 DEF GasTopUpInv, RequestHonest, At
            <3> QED
                BY <1>3, <1>5, <2>2, <3>1, RequestKept
        <2> QED
            BY <2>1, <2>2
    <1>9. \A s, p \in Request : At(s, "send")' /\ At(p, "send")' /\ s # p
                                    => req'[s].topup # req'[p].topup
        BY <1>3, IdleIs DEF GasTopUpInv, At
    <1>10. TopUpsWithinLimits'
        BY <1>2, <1>4, LimitsKept DEF Live
    <1>11. SentIsKnown'
        <2> SUFFICES ASSUME calm', NEW u \in TopUp, top'[u].state \in {"sent", "mined"},
                            ~Known(u)'
                     PROVE  \E s \in Request : /\ req'[s].topup = u
                                               /\ req'[s].pc \in {"read", "write"}
            BY DEF SentIsKnown
        <2>1. u # t /\ c = file /\ calm
            BY <1>1, <1>2, <1>3 DEF Known
        <2>2. ~Known(u)
            BY <1>3, <2>1 DEF Known
        <2>3. PICK s \in Request : req[s].topup = u /\ req[s].pc \in {"read", "write"}
            BY <1>2, <2>1, <2>2 DEF GasTopUpInv, SentIsKnown
        <2> QED
            BY <1>0, <1>3, <2>1, <2>3
    <1>12. /\ \A u \in TopUp : /\ top'[u].day <= Day(now)'
                               /\ top'[u].state # "none" => top'[u].wallet \in Wallet
           /\ \A u \in wanted' : top'[u].state = "mined"
        BY <1>2, <1>6 DEF GasTopUpInv, Day
    <1> QED
        BY <1>4, <1>7, <1>8, <1>9, <1>10, <1>11, <1>12 DEF GasTopUpInv

(* The coin arrives.                                                       *)
LEMMA MineKeeps ==
    ASSUME GasTopUpInv, NEW t \in TopUp, Mine(t)
    PROVE  GasTopUpInv'
    <1>1. /\ TypeOK /\ top[t].state = "sent" /\ top[t] \in Transfer
          /\ top[t].wallet \in Wallet
        BY DEF GasTopUpInv, TypeOK, Mine
    <1>2. /\ UNCHANGED <<now, file, allowed, usdc, wanted, req, deposited, unseen, calm>>
          /\ top' = [top EXCEPT ![t].state = "mined"]
          /\ gas' = [gas EXCEPT ![top[t].wallet] = @ + top[t].amount]
        BY DEF Mine
    <1>3. /\ top' \in [TopUp -> Transfer] /\ top'[t].state = "mined"
          /\ \A u \in TopUp \ {t} : top'[u] = top[u]
          /\ \A u \in TopUp : /\ top'[u].day = top[u].day /\ top'[u].wallet = top[u].wallet
                              /\ top'[u].amount = top[u].amount
        BY <1>1, <1>2 DEF TypeOK, Transfer
    <1>4. TypeOK'
        <2>1. gas' \in [Wallet -> Nat]
            BY <1>1, <1>2 DEF TypeOK, Transfer
        <2> QED
            BY <1>1, <1>2, <1>3, <2>1 DEF TypeOK
    <1>5. Onward
        BY <1>2, <1>3 DEF Onward
    <1>6. ASSUME NEW s \in Request PROVE RequestHonest(s)'
        <2>1. At(s, "send") => /\ req[s].topup \in TopUp /\ req[s].topup # t
                               /\ top[req[s].topup].state = "admitted"
            BY <1>1 DEF GasTopUpInv, RequestHonest, At
        <2>2. At(s, "send") => top'[req[s].topup].state = "admitted"
            BY <1>3, <2>1
        <2> QED
            BY <1>2, <1>5, <2>2, RequestKept
    <1>7. TopUpsWithinLimits'
        <2>1. \A u \in TopUp : Live(u)' => Live(u)
            BY <1>1, <1>3 DEF Live
        <2> QED
            BY <1>2, <1>3, <1>4, <2>1, LimitsKept
    <1>8. SentIsKnown'
        <2> SUFFICES ASSUME calm, NEW u \in TopUp, top'[u].state \in {"sent", "mined"}, ~Known(u)
                     PROVE  \E s \in Request : /\ req[s].topup = u
                                               /\ req[s].pc \in {"read", "write"}
            BY <1>2 DEF SentIsKnown, Known
        <2>1. top[u].state \in {"sent", "mined"}
            BY <1>1, <1>3
        <2> QED
            BY <2>1 DEF GasTopUpInv, SentIsKnown
    <1>9. IntentsHonest' /\ \A u \in TopUp : Dated(u, file[u])'
        BY <1>2, <1>5, FileKept
    <1>10. /\ \A u \in TopUp : /\ top'[u].day <= Day(now)'
                               /\ top'[u].state # "none" => top'[u].wallet \in Wallet
           /\ \A u \in wanted' : top'[u].state = "mined"
        <2>1. \A u \in TopUp : /\ top'[u].state # "none" => top[u].state # "none"
                               /\ top[u].state = "mined" => top'[u].state = "mined"
            BY <1>1, <1>3
        <2>2. wanted' = wanted /\ wanted \subseteq TopUp
            BY <1>1, <1>2 DEF TypeOK
        <2>3. Day(now)' = Day(now)
            BY <1>2 DEF Day
        <2> QED
            BY <1>3, <2>1, <2>2, <2>3 DEF GasTopUpInv
    <1>11. \A s, p \in Request : At(s, "send")' /\ At(p, "send")' /\ s # p
                                    => req'[s].topup # req'[p].topup
        BY <1>2 DEF GasTopUpInv, At
    <1> QED
        BY <1>4, <1>6, <1>7, <1>8, <1>9, <1>10, <1>11 DEF GasTopUpInv

-----------------------------------------------------------------------------
(* The steps after the top-up: each changes one request, and money.        *)

LEMMA BecomeKeeps ==
    ASSUME GasTopUpInv, NEW r \in Request, NEW q \in Req, Become(r, q),
           RequestHonest(r)', q.pc # "send",
           UNCHANGED <<now, file, top, unseen, calm>>, deposited \subseteq deposited',
           deposited' \subseteq TopUp, wanted' \subseteq wanted,
           gas' \in [Wallet -> Nat], allowed' \in [Wallet -> Nat], usdc' \in [Wallet -> Nat],
           req[r].pc \notin {"read", "write"}
    PROVE  GasTopUpInv'
    <1>1. TypeOK
        BY DEF GasTopUpInv
    <1>2. /\ req' \in [Request -> Req] /\ req'[r] = q
          /\ \A s \in Request \ {r} : req'[s] = req[s]
        BY <1>1 DEF TypeOK, Become
    <1>3. TypeOK'
        BY <1>1, <1>2 DEF TypeOK
    <1>4. ~At(r, "send")'
        BY <1>2 DEF At
    <1>5. \A t \in wanted' : top[t].state = "mined"
        BY DEF GasTopUpInv
    <1> QED
        BY <1>2, <1>3, <1>4, <1>5, RequestStep

(* A notification of a mined top-up takes its intent up.                   *)
LEMMA NoticeKeeps ==
    ASSUME GasTopUpInv, NEW r \in Request, NEW t \in TopUp, Notice(r, t)
    PROVE  GasTopUpInv'
    <1>0. PICK i : i = file[t]
        OBVIOUS
    <1>1. /\ TypeOK /\ req[r].pc = "idle" /\ top[t].state = "mined" /\ top[t].wallet \in Wallet
          /\ i.status = "pending" /\ i \in Intent /\ Dated(t, i)
        BY <1>0 DEF GasTopUpInv, TypeOK, Notice, At, findGasTopUpIntent, File
    <1>2. i \in [status : Status, created : Nat]
        BY <1>1 DEF Intent, NoIntent
    <1>3. PICK j : j = [i EXCEPT !.status = "topup_complete"]
        OBVIOUS
    <1>4. /\ j \in Intent /\ j.status = "topup_complete" /\ j.created = i.created
          /\ j # NoIntent /\ i # NoIntent
        BY <1>1, <1>2, <1>3 DEF Intent, NoIntent, Status
    <1>5. Honest(t, j)' /\ Dated(t, j)'
        BY <1>1, <1>4 DEF Honest, Dated, Final, Notice, chainVars
    <1>6. PICK q : q = [Idle EXCEPT !.pc = "read", !.kind = "notice",
                                    !.wallet = top[t].wallet, !.topup = t, !.found = i,
                                    !.intent = j]
        OBVIOUS
    <1>7. /\ q \in Req /\ q.pc = "read" /\ q.kind = "notice" /\ q.wallet \in Wallet
          /\ q.topup = t /\ q.intent = j
        BY <1>1, <1>4, <1>6, IdleIs DEF Idle, Req
    <1>8. /\ Become(r, q) /\ UNCHANGED <<now, file, top, unseen, calm>>
          /\ UNCHANGED <<gas, allowed, usdc, wanted, deposited>>
        BY <1>0, <1>3, <1>6 DEF Notice, chainVars
    <1>9. req'[r] = q
        BY <1>1, <1>8 DEF Become, TypeOK
    <1>10. RequestHonest(r)'
        BY <1>1, <1>4, <1>5, <1>7, <1>8, <1>9 DEF RequestHonest
    <1> QED
        BY <1>1, <1>7, <1>8, <1>10, BecomeKeeps DEF TypeOK

LEMMA NoticeAnsweredKeeps ==
    ASSUME GasTopUpInv, NEW r \in Request, NEW t \in TopUp, NoticeAnswered(r, t)
    PROVE  GasTopUpInv'
    <1>1. /\ TypeOK /\ top[t].state = "mined" /\ req[r].pc = "idle"
          /\ UNCHANGED <<now, file, top, unseen, req, deposited>>
          /\ UNCHANGED <<gas, allowed, usdc>>
          /\ wanted' \subseteq wanted \cup {t}
          /\ calm' \in BOOLEAN /\ (calm' => calm)
        BY DEF GasTopUpInv, TypeOK, NoticeAnswered, At, chainVars
    <1>2. TypeOK'
        BY <1>1 DEF TypeOK
    <1>3. \A u \in wanted' : top[u].state = "mined"
        BY <1>1 DEF GasTopUpInv
    <1>4. RequestHonest(r)' /\ ~At(r, "send")'
        BY <1>1 DEF RequestHonest, At
    <1> QED
        BY <1>1, <1>2, <1>3, <1>4, RequestStep

(* The ledger asks for the deposit that was put off.                       *)
LEMMA ResumeKeeps ==
    ASSUME GasTopUpInv, NEW r \in Request, NEW t \in TopUp, Resume(r, t)
    PROVE  GasTopUpInv'
    <1>0. PICK i : i = file[t]
        OBVIOUS
    <1>1. /\ TypeOK /\ req[r].pc = "idle" /\ top[t].state = "mined" /\ top[t].wallet \in Wallet
          /\ i \in Intent /\ Dated(t, i)
        BY <1>0 DEF GasTopUpInv, TypeOK, Resume, At, File
    <1>2. /\ UNCHANGED <<now, file, top, unseen, calm>>
          /\ UNCHANGED <<gas, allowed, usdc, deposited>>
          /\ wanted' \subseteq wanted
        BY DEF Resume, chainVars
    <1>3. CASE i.status \in {"topup_complete", "pending"}
        <2>1. i # NoIntent
            BY <1>3 DEF NoIntent
        <2>2. PICK q : q = [Idle EXCEPT !.pc = "approve", !.kind = "resume",
                                        !.wallet = top[t].wallet, !.topup = t, !.found = i]
            OBVIOUS
        <2>3. /\ q \in Req /\ q.pc = "approve" /\ q.kind = "resume" /\ q.wallet \in Wallet
              /\ q.topup = t /\ q.found = i
            BY <1>1, <2>2, IdleIs DEF Idle, Req
        <2>4. Become(r, q)
            BY <1>0, <1>3, <2>2
            DEF Resume, depositToGatewayWithoutGasTopUp, findGasTopUpIntent
        <2>5. req'[r] = q
            BY <1>1, <2>4 DEF Become, TypeOK
        <2>6. Dated(t, i)'
            BY <1>1, <1>2 DEF Dated
        <2>7. RequestHonest(r)'
            BY <1>1, <1>2, <2>1, <2>3, <2>5, <2>6 DEF RequestHonest
        <2> QED
            BY <1>1, <1>2, <2>3, <2>4, <2>7, BecomeKeeps DEF TypeOK
    <1>4. CASE i.status \notin {"topup_complete", "pending"}
        <2>1. UNCHANGED req
            BY <1>0, <1>4 DEF Resume, findGasTopUpIntent
        <2>2. TypeOK'
            BY <1>1, <1>2, <2>1 DEF TypeOK
        <2>3. RequestHonest(r)' /\ ~At(r, "send")'
            BY <1>1, <2>1 DEF RequestHonest, At
        <2> QED
            BY <1>1, <1>2, <2>1, <2>2, <2>3, RequestStep DEF GasTopUpInv
    <1> QED
        BY <1>3, <1>4

-----------------------------------------------------------------------------
(* The deposit, and what the service saves of it.                          *)

(* An outcome is answered or, of a resumed deposit, to be saved.           *)
LEMMA ConcludeKeeps ==
    ASSUME GasTopUpInv, NEW r \in Request, req[r].pc \in {"approve", "deposit"},
           NEW status \in Final, Conclude(r, status),
           UNCHANGED <<now, file, top, unseen, wanted, calm>>,
           deposited \subseteq deposited', deposited' \subseteq TopUp,
           gas' \in [Wallet -> Nat], allowed' \in [Wallet -> Nat], usdc' \in [Wallet -> Nat],
           status = "gateway_deposit_completed" /\ req[r].kind = "resume"
                => req[r].topup \in deposited'
    PROVE  GasTopUpInv'
    <1>0. PICK t, i : t = req[r].topup /\ i = req[r].found
        OBVIOUS
    <1>1. TypeOK /\ req[r] \in Req /\ RequestHonest(r) /\ req[r].wallet \in Wallet
        BY DEF GasTopUpInv, TypeOK, RequestHonest
    <1>2. CASE req[r].kind # "resume"
        <2>1. Answer(r)
            BY <1>2 DEF Conclude
        <2>2. RequestHonest(r)'
            BY <1>1, <2>1, IdleIs DEF Answer, Become, RequestHonest, TypeOK
        <2> QED
            BY <2>1, <2>2, IdleIs, BecomeKeeps DEF Answer
    <1>3. CASE req[r].kind = "resume"
        <2>1. /\ t \in TopUp /\ top[t].state = "mined" /\ i \in Intent /\ i # NoIntent
              /\ Dated(t, i)
            BY <1>0, <1>1, <1>3 DEF RequestHonest, Req
        <2>2. i \in [status : Status, created : Nat]
            BY <2>1 DEF Intent
        <2>3. PICK j : j = [i EXCEPT !.status = status]
            OBVIOUS
        <2>4. j \in Intent /\ j # NoIntent /\ j.status = status /\ j.created = i.created
            BY <2>2, <2>3 DEF Intent, NoIntent, Status, Final
        <2>5. Honest(t, j)'
            BY <1>0, <1>3, <2>1, <2>4 DEF Honest
        <2>6. Dated(t, j)'
            BY <2>1, <2>4 DEF Dated
        <2>7. PICK q : q = [req[r] EXCEPT !.pc = "read", !.intent = j]
            OBVIOUS
        <2>8. /\ q \in Req /\ q.pc = "read" /\ q.kind = "resume" /\ q.wallet \in Wallet
              /\ q.topup = t /\ q.intent = j
            BY <1>0, <1>1, <1>3, <2>4, <2>7 DEF Req
        <2>9. Become(r, q)
            BY <1>0, <1>3, <2>3, <2>7 DEF Conclude
        <2>10. req'[r] = q
            BY <1>1, <2>9 DEF Become, TypeOK
        <2>11. RequestHonest(r)'
            BY <2>1, <2>4, <2>5, <2>6, <2>8, <2>10 DEF RequestHonest
        <2> QED
            BY <2>8, <2>9, <2>11, BecomeKeeps
    <1> QED
        BY <1>2, <1>3

LEMMA ApproveMinedTypes ==
    ASSUME TypeOK, NEW w \in Wallet, CanApprove(w), ApproveMined(w)
    PROVE  /\ UNCHANGED <<top, usdc, deposited>>
           /\ gas' \in [Wallet -> Nat] /\ allowed' \in [Wallet -> Nat]
    <1>1. gas' = [gas EXCEPT ![w] = gas[w] - 1] /\ allowed' = [allowed EXCEPT ![w] = 1]
        BY DEF ApproveMined
    <1>2. gas[w] - 1 \in Nat
        BY DEF TypeOK, CanApprove
    <1> QED
        BY <1>1, <1>2 DEF TypeOK, ApproveMined

LEMMA DepositMinedTypes ==
    ASSUME TypeOK, NEW r \in Request, req[r].wallet \in Wallet,
           req[r].kind = "resume" => req[r].topup \in TopUp,
           CanDeposit(req[r].wallet), DepositMined(r)
    PROVE  /\ UNCHANGED top
           /\ deposited \subseteq deposited' /\ deposited' \subseteq TopUp
           /\ req[r].kind = "resume" => req[r].topup \in deposited'
           /\ gas' \in [Wallet -> Nat] /\ allowed' \in [Wallet -> Nat]
           /\ usdc' \in [Wallet -> Nat]
    <1>0. PICK w : w = req[r].wallet
        OBVIOUS
    <1>1. /\ gas' = [gas EXCEPT ![w] = gas[w] - 1]
          /\ allowed' = [allowed EXCEPT ![w] = allowed[w] - 1]
          /\ usdc' = [usdc EXCEPT ![w] = usdc[w] - 1]
        BY <1>0 DEF DepositMined
    <1>2. gas[w] - 1 \in Nat /\ allowed[w] - 1 \in Nat /\ usdc[w] - 1 \in Nat
        BY <1>0 DEF TypeOK, CanDeposit
    <1>3. /\ gas' \in [Wallet -> Nat] /\ allowed' \in [Wallet -> Nat]
          /\ usdc' \in [Wallet -> Nat]
        BY <1>1, <1>2 DEF TypeOK
    <1>4. /\ deposited \subseteq deposited' /\ deposited' \subseteq TopUp
          /\ req[r].kind = "resume" => req[r].topup \in deposited'
        BY DEF DepositMined, TypeOK
    <1> QED
        BY <1>3, <1>4 DEF DepositMined

LEMMA ApproveKeeps ==
    ASSUME GasTopUpInv, NEW r \in Request, Approve(r)
    PROVE  GasTopUpInv'
    <1>1. /\ TypeOK /\ req[r] \in Req /\ RequestHonest(r) /\ req[r].wallet \in Wallet
          /\ req[r].pc = "approve"
        BY DEF GasTopUpInv, TypeOK, RequestHonest, Approve, At
    <1>2. /\ UNCHANGED <<now, file, wanted, unseen, calm, top, usdc, deposited>>
          /\ gas' \in [Wallet -> Nat] /\ allowed' \in [Wallet -> Nat]
        BY <1>1, ApproveMinedTypes DEF Approve
    <1>3. PICK q : q = [req[r] EXCEPT !.pc = "deposit"]
        OBVIOUS
    <1>4. /\ q \in Req /\ q.pc = "deposit" /\ q.kind = req[r].kind
          /\ q.wallet = req[r].wallet /\ q.topup = req[r].topup /\ q.found = req[r].found
        BY <1>1, <1>3 DEF Req
    <1>5. Become(r, q)
        BY <1>3 DEF Approve, Goto
    <1>6. req'[r] = q
        BY <1>1, <1>5 DEF Become, TypeOK
    <1>7. RequestHonest(r)'
        BY <1>1, <1>2, <1>4, <1>6 DEF RequestHonest, Dated
    <1> QED
        BY <1>1, <1>2, <1>4, <1>5, <1>7, BecomeKeeps DEF TypeOK

LEMMA DepositKeeps ==
    ASSUME GasTopUpInv, NEW r \in Request, Deposit(r)
    PROVE  GasTopUpInv'
    <1>1. /\ TypeOK /\ RequestHonest(r) /\ req[r].wallet \in Wallet /\ req[r].pc = "deposit"
          /\ req[r].kind = "resume" => req[r].topup \in TopUp
        BY DEF GasTopUpInv, RequestHonest, Deposit, At
    <1>2. /\ UNCHANGED <<now, file, wanted, unseen, calm>>
          /\ Conclude(r, "gateway_deposit_completed")
          /\ CanDeposit(req[r].wallet) /\ DepositMined(r)
        BY DEF Deposit
    <1> QED
        BY <1>1, <1>2, DepositMinedTypes, ConcludeKeeps DEF Final

LEMMA FailsKeeps ==
    ASSUME GasTopUpInv, NEW r \in Request, Fails(r) \/ MinedUnheard(r)
    PROVE  GasTopUpInv'
    <1>1. /\ TypeOK /\ RequestHonest(r) /\ req[r].pc \in {"approve", "deposit"}
          /\ req[r].wallet \in Wallet
          /\ req[r].kind = "resume" => req[r].topup \in TopUp
        BY DEF GasTopUpInv, RequestHonest, Fails, MinedUnheard, At
    <1>2. UNCHANGED <<now, file, wanted, unseen, calm>> /\ Conclude(r, "failed")
        BY DEF Fails, MinedUnheard
    <1>3. /\ UNCHANGED top
          /\ deposited \subseteq deposited' /\ deposited' \subseteq TopUp
          /\ gas' \in [Wallet -> Nat] /\ allowed' \in [Wallet -> Nat]
          /\ usdc' \in [Wallet -> Nat]
        <2>1. CASE Fails(r)
            BY <1>1, <2>1 DEF Fails, chainVars, TypeOK
        <2>2. CASE CanApprove(req[r].wallet) /\ ApproveMined(req[r].wallet)
            BY <1>1, <2>2, ApproveMinedTypes DEF TypeOK
        <2>3. CASE CanDeposit(req[r].wallet) /\ DepositMined(r)
            BY <1>1, <2>3, DepositMinedTypes
        <2> QED
            BY <2>1, <2>2, <2>3 DEF MinedUnheard
    <1> QED
        BY <1>1, <1>2, <1>3, ConcludeKeeps DEF Final

-----------------------------------------------------------------------------
(* Restarts, the clock, and the whole.                                     *)

LEMMA RestartKeeps ==
    ASSUME GasTopUpInv, Restart
    PROVE  GasTopUpInv'
    <1>1. /\ UNCHANGED <<now, file, top, unseen, deposited>> /\ UNCHANGED <<gas, allowed, usdc>>
          /\ calm' = FALSE /\ wanted' \subseteq wanted /\ TypeOK
        BY DEF Restart, chainVars, GasTopUpInv
    <1>2. /\ req' \in [Request -> Req]
          /\ \A s \in Request : req'[s] = req[s] \/ req'[s] = Idle
        BY <1>1, IdleIs DEF Restart, TypeOK
    <1>3. TypeOK'
        BY <1>1, <1>2 DEF TypeOK
    <1>4. Onward
        BY <1>1 DEF Onward
    <1>5. ASSUME NEW s \in Request PROVE RequestHonest(s)'
        <2>1. CASE req'[s] = Idle
            BY <2>1, IdleIs DEF RequestHonest
        <2>2. CASE req'[s] = req[s]
            <3>1. At(s, "send") => top'[req[s].topup].state = "admitted"
                BY <1>1 DEF GasTopUpInv, RequestHonest, At
            <3> QED
                BY <1>4, <2>2, <3>1, RequestKept
        <2> QED
            BY <1>2, <2>1, <2>2
    <1>6. \A s, q \in Request : At(s, "send")' /\ At(q, "send")' /\ s # q
                                    => req'[s].topup # req'[q].topup
        BY <1>2, IdleIs DEF GasTopUpInv, At
    <1>7. TopUpsWithinLimits'
        BY <1>1, <1>3, LimitsKept DEF Live
    <1>8. SentIsKnown'
        BY <1>1 DEF SentIsKnown
    <1>9. IntentsHonest' /\ \A t \in TopUp : Dated(t, file[t])'
        BY <1>1, <1>4, FileKept
    <1>10. /\ \A t \in TopUp : /\ top'[t].day <= Day(now)'
                               /\ top'[t].state # "none" => top'[t].wallet \in Wallet
           /\ \A t \in wanted' : top'[t].state = "mined"
        BY <1>1 DEF GasTopUpInv, Day
    <1> QED
        BY <1>3, <1>5, <1>6, <1>7, <1>8, <1>9, <1>10 DEF GasTopUpInv

(* A later instant is of no earlier day.                                   *)
LEMMA DayMonotone ==
    ASSUME NEW a \in Nat, NEW b \in Nat, a <= b
    PROVE  Day(a) \in Nat /\ Day(b) \in Nat /\ Day(a) <= Day(b)
    <1>1. DayLength \in Nat /\ DayLength > 0
        BY GasAssumption
    <1>2. a \div DayLength \in Nat /\ b \div DayLength \in Nat
        BY <1>1, Z3
    <1>3. a \div DayLength <= b \div DayLength
        BY <1>1, Z3
    <1> QED
        BY <1>2, <1>3 DEF Day

LEMMA TickKeeps ==
    ASSUME GasTopUpInv, Tick
    PROVE  GasTopUpInv'
    <1>1. /\ now' = now + 1 /\ TypeOK
          /\ UNCHANGED <<file, top, req, wanted, deposited, unseen, calm>>
          /\ UNCHANGED <<gas, allowed, usdc>>
        BY DEF Tick, chainVars, GasTopUpInv
    <1>2. TypeOK'
        BY <1>1 DEF TypeOK
    <1>3. Onward
        BY <1>1 DEF Onward
    <1>4. ASSUME NEW s \in Request PROVE RequestHonest(s)'
        <2>1. At(s, "send") => top'[req[s].topup].state = "admitted"
            BY <1>1 DEF GasTopUpInv, RequestHonest, At
        <2> QED
            BY <1>1, <1>3, <2>1, RequestKept
    <1>5. \A s, q \in Request : At(s, "send")' /\ At(q, "send")' /\ s # q
                                    => req'[s].topup # req'[q].topup
        BY <1>1 DEF GasTopUpInv, At
    <1>6. TopUpsWithinLimits'
        BY <1>1, <1>2, LimitsKept DEF Live
    <1>7. SentIsKnown'
        BY <1>1 DEF GasTopUpInv, SentIsKnown, Known
    <1>8. IntentsHonest' /\ \A t \in TopUp : Dated(t, file[t])'
        BY <1>1, <1>3, FileKept
    <1>9. \A t \in TopUp : top'[t].day <= Day(now)'
        <2> SUFFICES ASSUME NEW t \in TopUp PROVE top'[t].day <= Day(now)'
            OBVIOUS
        <2>1. PICK n, m : n = now /\ m = now'
            OBVIOUS
        <2>2. top[t].day \in Nat /\ top[t].day <= Day(n) /\ n \in Nat /\ m \in Nat /\ n <= m
            BY <1>1, <2>1 DEF GasTopUpInv, TypeOK, Transfer
        <2>3. Day(n) \in Nat /\ Day(m) \in Nat /\ Day(n) <= Day(m)
            BY <2>2, DayMonotone
        <2>4. top[t].day <= Day(m)
            BY <2>2, <2>3
        <2> QED
            BY <1>1, <2>1, <2>4 DEF Day
    <1>10. /\ \A t \in TopUp : top'[t].state # "none" => top'[t].wallet \in Wallet
           /\ \A t \in wanted' : top'[t].state = "mined"
        BY <1>1 DEF GasTopUpInv
    <1> QED
        BY <1>2, <1>4, <1>5, <1>6, <1>7, <1>8, <1>9, <1>10 DEF GasTopUpInv

LEMMA InitHolds ==
    ASSUME Init
    PROVE  GasTopUpInv
    <1> DEFINE none == [state |-> "none", wallet |-> NoWallet, amount |-> 0, day |-> 0]
    <1>1. none \in Transfer /\ none.state = "none" /\ none.day = 0
        BY DEF Transfer
    <1>2. top = [t \in TopUp |-> none]
        BY DEF Init
    <1> HIDE DEF none
    <1>3. \A t \in TopUp : top[t].state = "none" /\ top[t].day = 0 /\ file[t] = NoIntent
        BY <1>1, <1>2 DEF Init, EmptyFile
    <1>4. TypeOK
        <2>1. top \in [TopUp -> Transfer]
            BY <1>1, <1>2
        <2>2. file \in File /\ req \in [Request -> Req]
            BY IdleIs DEF Init
        <2> QED
            BY <2>1, <2>2, GasAssumption DEF Init, TypeOK
    <1>5. \A r \in Request : RequestHonest(r) /\ ~At(r, "send")
        BY IdleIs DEF Init, RequestHonest, At
    <1>6. TopUpsWithinLimits
        <2>1. \A day : Seen(day) = {} /\ \A w \in Wallet : SeenFor(w, day) = {}
            BY <1>3 DEF Seen, SeenFor, AdmittedOn, AdmittedFor, Live
        <2>2. SeenWithinLimits
            BY <2>1, TotalOfNone, GasAssumption DEF SeenWithinLimits
        <2> QED
            BY <1>4, <2>2, LimitsMean
    <1>7. SentIsKnown
        BY <1>3 DEF SentIsKnown
    <1>8. IntentsHonest /\ \A t \in TopUp : Dated(t, file[t])
        BY <1>3 DEF IntentsHonest, Honest, Dated, NoIntent, Final
    <1>9. Day(now) \in Nat
        <2>1. now \in Nat
            BY <1>4 DEF TypeOK
        <2> QED
            BY <2>1, DayMonotone
    <1> QED
        BY <1>3, <1>4, <1>5, <1>6, <1>7, <1>8, <1>9 DEF GasTopUpInv, Init

LEMMA StepKeeps ==
    ASSUME GasTopUpInv, [Next]_vars
    PROVE  GasTopUpInv'
    <1>1. ASSUME NEW r \in Request, Work(r) PROVE GasTopUpInv'
        BY <1>1, LookupKeeps, AdmitKeeps, SendKeeps, WriteKeeps, ApproveKeeps,
           DepositKeeps, FailsKeeps DEF Work
    <1>2. ASSUME NEW r \in Request, NEW w \in Wallet, Ask(r, w) PROVE GasTopUpInv'
        BY <1>2, AskKeeps
    <1>3. ASSUME NEW t \in TopUp, Mine(t) PROVE GasTopUpInv'
        BY <1>3, MineKeeps
    <1>4. ASSUME NEW t \in TopUp, Deliver(t) PROVE GasTopUpInv'
        BY <1>4, NoticeKeeps, NoticeAnsweredKeeps DEF Deliver
    <1>5. ASSUME NEW r \in Request, NEW t \in TopUp, Resume(r, t) PROVE GasTopUpInv'
        BY <1>5, ResumeKeeps
    <1>6. CASE Restart
        BY <1>6, RestartKeeps
    <1>7. CASE Tick
        BY <1>7, TickKeeps
    <1>8. CASE UNCHANGED vars
        <2>1. /\ UNCHANGED <<now, file, top, unseen, wanted, req, deposited, calm>>
              /\ UNCHANGED <<gas, allowed, usdc>> /\ TypeOK
            BY <1>8 DEF vars, chainVars, GasTopUpInv
        <2>2. TypeOK' /\ Onward
            BY <2>1 DEF TypeOK, Onward
        <2>3. ASSUME NEW r \in Request PROVE RequestHonest(r)'
            <3>1. At(r, "send") => top'[req[r].topup].state = "admitted"
                BY <2>1 DEF GasTopUpInv, RequestHonest, At
            <3> QED
                BY <2>1, <2>2, <3>1, RequestKept
        <2>4. TopUpsWithinLimits'
            BY <2>1, <2>2, LimitsKept DEF Live
        <2>5. SentIsKnown'
            BY <2>1 DEF GasTopUpInv, SentIsKnown, Known
        <2>6. IntentsHonest' /\ \A t \in TopUp : Dated(t, file[t])'
            BY <2>1, <2>2, FileKept
        <2>7. Day(now)' = Day(now)
            BY <2>1 DEF Day
        <2>8. /\ \A t \in TopUp : /\ top'[t].day <= Day(now)'
                                  /\ top'[t].state # "none" => top'[t].wallet \in Wallet
              /\ \A t \in wanted' : top'[t].state = "mined"
            BY <2>1, <2>7 DEF GasTopUpInv
        <2>9. \A r, s \in Request : At(r, "send")' /\ At(s, "send")' /\ r # s
                                        => req'[r].topup # req'[s].topup
            BY <2>1 DEF GasTopUpInv, At
        <2> QED
            BY <2>2, <2>3, <2>4, <2>5, <2>6, <2>8, <2>9 DEF GasTopUpInv
    <1> QED
        BY <1>1, <1>2, <1>3, <1>4, <1>5, <1>6, <1>7, <1>8 DEF Next

(* The invariant of ensureNativeGasForGatewayDeposit and of the            *)
(* notifications and resumptions that follow it, for any number of         *)
(* concurrent requests, any limits and length of a day, and every fault.   *)
THEOREM GasTopUpInvariant == Spec => []GasTopUpInv
    <1>1. Init => GasTopUpInv
        BY InitHolds
    <1>2. GasTopUpInv /\ [Next]_vars => GasTopUpInv'
        BY StepKeeps
    <1> QED
        BY <1>1, <1>2, PTL DEF Spec

(* A day's top-ups, of each wallet and of all, are within the limits but   *)
(* for what the file did not show when a later one was judged              *)
(* (agent-wallet-service.ts:726).                                          *)
THEOREM TopUpsStayWithinLimits == Spec => []TopUpsWithinLimits
    <1>1. GasTopUpInv => TopUpsWithinLimits
        BY DEF GasTopUpInv
    <1> QED
        BY <1>1, GasTopUpInvariant, PTL

(* While nothing is lost or overtaken, a top-up that was sent is in the    *)
(* file or about to be: the next limit check counts it                     *)
(* (agent-wallet-service.ts:745).                                          *)
THEOREM SentAlwaysKnown == Spec => []SentIsKnown
    <1>1. GasTopUpInv => SentIsKnown
        BY DEF GasTopUpInv
    <1> QED
        BY <1>1, GasTopUpInvariant, PTL

(* An intent of the file never says more than has happened on the chain,   *)
(* whatever restarts, lost answers and overtaken writes there were         *)
(* (agent-wallet-service.ts:544 and :572).                                 *)
THEOREM IntentsAlwaysHonest == Spec => []IntentsHonest
    <1>1. GasTopUpInv => IntentsHonest
        BY DEF GasTopUpInv
    <1> QED
        BY <1>1, GasTopUpInvariant, PTL

============================================================================
