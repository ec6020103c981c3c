-------------------------- MODULE WithdrawalProofs --------------------------
(***************************************************************************)
(* Proofs about Withdrawal for any number of requests, any amounts, limits *)
(* and windows, under every fault of the model.                            *)
(***************************************************************************)
EXTENDS Withdrawal, FiniteSetTheorems, TLAPS

(* Sums of amounts: they are natural numbers, monotonic in the set, and    *)
(* one more withdrawal adds its amount.                                    *)
LEMMA UnitsOfOne ==
    ASSUME NEW r, NEW n \in Nat \ {0}
    PROVE  IsFiniteSet({r} \X (1..n)) /\ Cardinality({r} \X (1..n)) = n
    <1>1. IsFiniteSet(1..n) /\ Cardinality(1..n) = IF 1 > n THEN 0 ELSE n - 1 + 1
        <2>1. 1 \in Int /\ n \in Int
            OBVIOUS
        <2> QED
            BY <2>1, FS_Interval, Zenon
    <1>2. Cardinality(1..n) = n
        BY <1>1
    <1>3. IsFiniteSet({r}) /\ Cardinality({r}) = 1
        BY FS_Singleton, Zenon
    <1>4. /\ IsFiniteSet({r} \X (1..n))
          /\ Cardinality({r} \X (1..n)) = Cardinality({r}) * Cardinality(1..n)
        BY <1>1, <1>3, FS_Product, Zenon
    <1>5. 1 * n = n
        OBVIOUS
    <1> QED
        BY <1>2, <1>3, <1>4, <1>5, Zenon

LEMMA AllUnitsFinite == IsFiniteSet(Units(Request))
    <1> DEFINE Part(r) == {r} \X (1..Amount[r])
               Parts == {Part(r) : r \in Request}
               f == [r \in Request |-> Part(r)]
    <1>1. IsFiniteSet(Request)
        BY WithdrawalAssumption
    <1>2. f \in Surjection(Request, Parts)
        BY DEF Surjection
    <1>3. IsFiniteSet(Parts)
        <2> HIDE DEF Parts, f
        <2> QED BY <1>1, <1>2, FS_Surjection
    <1>4. ASSUME NEW P \in Parts PROVE IsFiniteSet(P)
        <2>1. PICK r \in Request : P = Part(r)
            OBVIOUS
        <2>2. Amount[r] \in Nat \ {0}
            BY WithdrawalAssumption
        <2>3. IsFiniteSet(Part(r))
            BY <2>2, UnitsOfOne, Zenon
        <2> QED
            BY <2>1, <2>3, Zenon
    <1>5. IsFiniteSet(UNION Parts)
        <2> HIDE DEF Parts
        <2> QED BY <1>3, <1>4, FS_UNION
    <1> QED
        BY <1>5 DEF Units

LEMMA TotalMonotonic ==
    ASSUME NEW T \in SUBSET Request, NEW S \in SUBSET T
    PROVE  Total(S) \in Nat /\ Total(T) \in Nat /\ Total(S) <= Total(T)
    <1>1. Units(T) \in SUBSET Units(Request) /\ Units(S) \in SUBSET Units(T)
        BY DEF Units
    <1>2. IsFiniteSet(Units(T)) /\ IsFiniteSet(Units(S))
        BY <1>1, AllUnitsFinite, FS_Subset
    <1> QED
        BY <1>1, <1>2, FS_Subset, FS_CardinalityType DEF Total

LEMMA TotalAdds ==
    ASSUME NEW S \in SUBSET Request, NEW r \in Request \ S
    PROVE  Total(S \cup {r}) = Total(S) + Amount[r]
    <1> DEFINE Own == {r} \X (1..Amount[r])
    <1>1. Amount[r] \in Nat \ {0}
        BY WithdrawalAssumption
    <1>2. IsFiniteSet(Own) /\ Cardinality(Own) = Amount[r]
        BY <1>1, UnitsOfOne, Zenon
    <1>3. IsFiniteSet(Units(S)) /\ Cardinality(Units(S)) \in Nat
        <2>1. Units(S) \in SUBSET Units(Request)
            BY DEF Units
        <2> QED
            BY <2>1, AllUnitsFinite, FS_Subset, FS_CardinalityType
    <1>4. Units(S \cup {r}) = Units(S) \cup Own
        BY DEF Units
    <1>5. Units(S) \cap Own = {}
        BY DEF Units
    <1>6. Cardinality(Units(S) \cap Own) = 0
        BY <1>5, FS_EmptySet, Zenon
    <1>7. Cardinality(Units(S) \cup Own)
            = Cardinality(Units(S)) + Cardinality(Own) - Cardinality(Units(S) \cap Own)
        BY <1>2, <1>3, FS_Union, Zenon
    <1>8. ASSUME NEW a \in Nat, NEW b \in Nat PROVE a + b - 0 = a + b
        OBVIOUS
    <1>9. Cardinality(Units(S)) + Cardinality(Own) - Cardinality(Units(S) \cap Own)
            = Cardinality(Units(S)) + Amount[r]
        BY <1>1, <1>2, <1>3, <1>6, <1>8, Zenon
    <1> QED
        BY <1>4, <1>7, <1>9, Zenon DEF Total

-----------------------------------------------------------------------------
(* The types of the updates.                                               *)

LEMMA GotoTypes ==
    ASSUME req \in [Request -> Handling], NEW r \in Request,
           NEW pc \in {"new", "balance", "answered", "settling", "completing",
                       "failing", "recording", "done", "gone"},
           Goto(r, pc)
    PROVE  /\ req' \in [Request -> Handling]
           /\ req'[r].pc = pc
           /\ \A q \in Request \ {r} : req'[q] = req[q]
    <1>1. PICK h : h = [req[r] EXCEPT !.pc = pc]
        OBVIOUS
    <1>2. h \in Handling /\ h.pc = pc
        BY <1>1 DEF Handling
    <1>3. req' = [req EXCEPT ![r] = h]
        BY <1>1 DEF Goto
    <1> QED
        BY <1>2, <1>3

LEMMA AdvanceTypes ==
    ASSUME circle \in [Request -> Progress], NEW r \in Request,
           NEW step \in Progress, Advance(r, step)
    PROVE  /\ circle' \in [Request -> Progress]
           /\ circle'[r] = step
           /\ \A q \in Request \ {r} : circle'[q] = circle[q]
    BY DEF Advance

(* An entry reaches a terminal status.                                     *)
Decide(r, status) == entries' = [entries EXCEPT ![r].status = status]

LEMMA DecideTypes ==
    ASSUME entries \in [Request -> Entry], NEW r \in Request,
           NEW status \in {"withdrawn", "failed"}, Decide(r, status)
    PROVE  /\ entries' \in [Request -> Entry]
           /\ entries'[r].status = status
           /\ entries'[r].created = entries[r].created
           /\ \A q \in Request \ {r} : entries'[q] = entries[q]
    <1>1. PICK e : e = [entries[r] EXCEPT !.status = status]
        OBVIOUS
    <1>2. e \in Entry /\ e.status = status /\ e.created = entries[r].created
        BY <1>1 DEF Entry
    <1>3. entries' = [entries EXCEPT ![r] = e]
        BY <1>1 DEF Decide
    <1> QED
        BY <1>2, <1>3

-----------------------------------------------------------------------------
(* The limits.                                                             *)

(* They hold after a step whose windows are contained in windows of before.*)
LEMMA LimitsKept ==
    ASSUME TypeOK, LimitsHold,
           \A t \in 0..now', length \in {Day, Week} :
              \E u \in 0..now : InWindow(t, length)' \subseteq InWindow(u, length)
    PROVE  LimitsHold'
    <1> SUFFICES ASSUME NEW t \in 0..now'
                 PROVE  /\ Total(InWindow(t, Day)') <= DailyLimit
                        /\ Total(InWindow(t, Week)') <= WeeklyLimit
        BY DEF LimitsHold, Total, Units
    <1>1. PICK u \in 0..now : InWindow(t, Day)' \subseteq InWindow(u, Day)
        OBVIOUS
    <1>2. PICK v \in 0..now : InWindow(t, Week)' \subseteq InWindow(v, Week)
        OBVIOUS
    <1>3. InWindow(u, Day) \in SUBSET Request /\ InWindow(v, Week) \in SUBSET Request
        BY DEF InWindow, Counted, Recorded
    <1>4. /\ Total(InWindow(t, Day)') \in Nat /\ Total(InWindow(u, Day)) \in Nat
          /\ Total(InWindow(t, Day)') <= Total(InWindow(u, Day))
        BY <1>1, <1>3, TotalMonotonic, Zenon
    <1>5. /\ Total(InWindow(t, Week)') \in Nat /\ Total(InWindow(v, Week)) \in Nat
          /\ Total(InWindow(t, Week)') <= Total(InWindow(v, Week))
        BY <1>2, <1>3, TotalMonotonic, Zenon
    <1>6. Total(InWindow(u, Day)) <= DailyLimit /\ Total(InWindow(v, Week)) <= WeeklyLimit
        BY DEF LimitsHold
    <1> QED
        BY <1>4, <1>5, <1>6, WithdrawalAssumption

(* No step but submission adds to what counts.                             *)
LEMMA LimitsKeptByEntries ==
    ASSUME TypeOK, LimitsHold, UNCHANGED now,
           \A q \in Request :
              \/ entries'[q] = entries[q]
              \/ /\ entries'[q].created = entries[q].created
                 /\ entries[q].status \notin {"none", "failed"}
    PROVE  LimitsHold'
    <1>1. ASSUME NEW t \in 0..now', NEW length \in {Day, Week}
          PROVE  InWindow(t, length)' \subseteq InWindow(t, length)
        BY DEF InWindow, Counted, Recorded
    <1>2. now' = now
        OBVIOUS
    <1> QED
        BY <1>1, <1>2, LimitsKept, Zenon

LEMMA LimitsKeptByTick ==
    ASSUME TypeOK, LimitsHold, \A r \in Request : Agrees(r), Tick
    PROVE  LimitsHold'
    <1>1. now \in Nat /\ now' = now + 1 /\ entries' = entries
        BY DEF TypeOK, Tick, booksVars
    <1>2. ASSUME NEW t \in 0..now', NEW length \in {Day, Week}
          PROVE  \E u \in 0..now : InWindow(t, length)' \subseteq InWindow(u, length)
        <2>1. \A q \in Request : entries[q].created \in Nat /\ entries[q].created <= now
            BY DEF TypeOK, Entry, Agrees
        <2>2. length \in Nat
            BY WithdrawalAssumption
        <2>3. CASE t \in 0..now
            BY <1>1, <2>3 DEF InWindow, Counted, Recorded
        <2>4. CASE t = now + 1
            <3>1. InWindow(t, length)' \subseteq InWindow(now, length)
                BY <1>1, <2>1, <2>2, <2>4 DEF InWindow, Counted, Recorded
            <3> QED
                BY <1>1, <3>1
        <2> QED
            BY <1>1, <2>3, <2>4
    <1> QED
        BY <1>2, LimitsKept, Zenon

LEMMA LimitsKeptBySubmit ==
    ASSUME WithdrawalInv, NEW r \in Request, Submit(r)
    PROVE  LimitsHold'
    <1>1. /\ now \in Nat /\ now' = now
          /\ entries[r].status = "none"
          /\ entries' = [entries EXCEPT ![r] = [status |-> "submitted", created |-> now]]
        BY DEF WithdrawalInv, TypeOK, Submit, Agrees
    <1>2. entries \in [Request -> Entry]
        BY DEF WithdrawalInv, TypeOK
    <1>3. ASSUME NEW length \in {Day, Week}, NEW limit \in Nat,
                 \A t \in 0..now : Total(InWindow(t, length)) <= limit,
                 Total(InWindow(now, length)) + Amount[r] <= limit,
                 NEW t \in 0..now'
          PROVE  Total(InWindow(t, length)') <= limit
        <2>1. length \in Nat
            BY WithdrawalAssumption
        <2>2. InWindow(now, length) \in SUBSET Request /\ r \notin InWindow(now, length)
            BY <1>1 DEF InWindow, Counted, Recorded
        <2>3. InWindow(t, length) \in SUBSET Request
            BY DEF InWindow, Counted, Recorded
        <2>4. CASE t = now
            <3>1. InWindow(t, length)' \subseteq InWindow(now, length) \cup {r}
                BY <1>1, <1>2, <2>1, <2>4 DEF InWindow, Counted, Recorded
            <3>2. InWindow(now, length) \cup {r} \in SUBSET Request
                BY <2>2
            <3>3. /\ Total(InWindow(t, length)') \in Nat
                  /\ Total(InWindow(now, length) \cup {r}) \in Nat
                  /\ Total(InWindow(t, length)') <= Total(InWindow(now, length) \cup {r})
                BY <3>1, <3>2, TotalMonotonic, Zenon
            <3>4. Total(InWindow(now, length) \cup {r})
                    = Total(InWindow(now, length)) + Amount[r]
                BY <2>2, TotalAdds, Zenon
            <3> QED
                BY <1>3, <3>3, <3>4
        <2>5. CASE t # now
            <3>1. InWindow(t, length)' \subseteq InWindow(t, length)
                BY <1>1, <1>2, <2>1, <2>5 DEF InWindow, Counted, Recorded
            <3>2. /\ Total(InWindow(t, length)') \in Nat
                  /\ Total(InWindow(t, length)) \in Nat
                  /\ Total(InWindow(t, length)') <= Total(InWindow(t, length))
                BY <2>3, <3>1, TotalMonotonic, Zenon
            <3>3. Total(InWindow(t, length)) <= limit
                BY <1>1, <1>3
            <3> QED
                BY <1>3, <3>2, <3>3
        <2> QED
            BY <2>4, <2>5
    <1>4. /\ Total(InWindow(now, Day)) + Amount[r] <= DailyLimit
          /\ Total(InWindow(now, Week)) + Amount[r] <= WeeklyLimit
        BY DEF Submit, WithinLimits
    <1>5. /\ \A t \in 0..now : Total(InWindow(t, Day)) <= DailyLimit
          /\ \A t \in 0..now : Total(InWindow(t, Week)) <= WeeklyLimit
        BY DEF WithdrawalInv, LimitsHold
    <1>6. DailyLimit \in Nat /\ WeeklyLimit \in Nat
        BY WithdrawalAssumption
    <1>7. \A t \in 0..now' : Total(InWindow(t, Day)') <= DailyLimit
        BY <1>3, <1>4, <1>5, <1>6, Zenon
    <1>8. \A t \in 0..now' : Total(InWindow(t, Week)') <= WeeklyLimit
        BY <1>3, <1>4, <1>5, <1>6, Zenon
    <1> QED
        BY <1>7, <1>8 DEF LimitsHold, Total, Units

-----------------------------------------------------------------------------
(* The inductive invariant, action by action.                              *)

(* What the invariant says besides the limits.                             *)
Consistent ==
    /\ TypeOK
    /\ \A r \in Request : Agrees(r)
    /\ WithdrawnMeansPaid

LEMMA InitConsistent == Init => WithdrawalInv
    <1> SUFFICES ASSUME Init PROVE WithdrawalInv
        OBVIOUS
    <1>1. TypeOK
        BY WithdrawalAssumption DEF Init, TypeOK, Entry, Handling, Progress
    <1>2. (\A r \in Request : Agrees(r)) /\ WithdrawnMeansPaid
        BY DEF Init, Agrees, WithdrawnMeansPaid
    <1>3. LimitsHold
        <2>1. ASSUME NEW t, NEW length PROVE Total(InWindow(t, length)) = 0
            <3>1. InWindow(t, length) = {}
                BY DEF Init, InWindow, Counted, Recorded
            <3>2. Units({}) = {}
                BY DEF Units
            <3> QED
                BY <3>1, <3>2, FS_EmptySet, Zenon DEF Total
        <2> QED
            BY <2>1, WithdrawalAssumption DEF LimitsHold
    <1> QED
        BY <1>1, <1>2, <1>3 DEF WithdrawalInv

(* Steps that leave entries, requests and the Circle service alone.        *)
LEMMA WorldConsistent ==
    ASSUME Consistent, Tick \/ Sweep \/ Credit \/ Spend
    PROVE  Consistent'
    <1>1. TypeOK'
        BY DEF Consistent, TypeOK, Tick, Sweep, Credit, Spend, booksVars, fundsVars
    <1>2. /\ UNCHANGED <<entries, settlements, circle, req>>
          /\ now \in Nat /\ (now' = now \/ now' = now + 1)
        BY DEF Consistent, TypeOK, Tick, Sweep, Credit, Spend, booksVars, fundsVars
    <1>3. \A r \in Request : entries[r].created \in Nat
        BY DEF Consistent, TypeOK, Entry
    <1>4. ASSUME NEW r \in Request PROVE Agrees(r)'
        BY <1>2, <1>3 DEF Consistent, Agrees
    <1>5. WithdrawnMeansPaid'
        BY <1>2 DEF Consistent, WithdrawnMeansPaid
    <1> QED
        BY <1>1, <1>4, <1>5 DEF Consistent

LEMMA CrashConsistent ==
    ASSUME Consistent, Crash
    PROVE  Consistent'
    <1>1. UNCHANGED <<now, booksVars, fundsVars, circle>> /\ loop' = None
        BY DEF Crash
    <1>2. ASSUME NEW r \in Request
          PROVE  /\ req'[r] \in Handling
                 /\ req'[r] = req[r] \/ req'[r].pc = "gone"
        BY DEF Crash, AtWork, Consistent, TypeOK, Handling
    <1>3. req' \in [Request -> Handling]
        BY <1>2 DEF Crash
    <1>4. TypeOK'
        BY <1>1, <1>3 DEF Consistent, TypeOK, booksVars, fundsVars
    <1>5. ASSUME NEW r \in Request PROVE Agrees(r)'
        BY <1>1, <1>2 DEF Consistent, Agrees, booksVars
    <1>6. WithdrawnMeansPaid'
        BY <1>1 DEF Consistent, WithdrawnMeansPaid, booksVars
    <1> QED
        BY <1>4, <1>5, <1>6 DEF Consistent

(* A step of one request leaves what is known of the others.               *)
LEMMA OneRequest ==
    ASSUME Consistent, TypeOK', UNCHANGED now, NEW r \in Request,
           \A q \in Request \ {r} :
              /\ entries'[q] = entries[q]
              /\ settlements'[q] = settlements[q]
              /\ circle'[q] = circle[q]
              /\ req'[q] = req[q],
           Agrees(r)',
           entries'[r].status = "withdrawn" =>
              circle'[r] = "minted" /\ settlements'[r] = "submitted"
    PROVE  Consistent'
    <1>1. ASSUME NEW q \in Request PROVE Agrees(q)'
        <2>1. CASE q = r
            BY <2>1
        <2>2. CASE q # r
            BY <2>2 DEF Consistent, Agrees
        <2> QED
            BY <2>1, <2>2
    <1>2. WithdrawnMeansPaid'
        BY DEF Consistent, WithdrawnMeansPaid
    <1> QED
        BY <1>1, <1>2 DEF Consistent

(* The parts of the invariant about request r, ready for use.              *)
LEMMA OwnFacts ==
    ASSUME Consistent, NEW r \in Request
    PROVE  /\ TypeOK
           /\ entries \in [Request -> Entry]
           /\ req \in [Request -> Handling]
           /\ circle \in [Request -> Progress]
           /\ settlements \in [Request -> {"none", "submitted", "failed"}]
           /\ Agrees(r)
           /\ entries[r].status = "withdrawn" =>
                 circle[r] = "minted" /\ settlements[r] = "submitted"
    BY DEF Consistent, TypeOK, WithdrawnMeansPaid

LEMMA AskConsistent ==
    ASSUME Consistent, NEW r \in Request, Ask(r)
    PROVE  Consistent'
    <1>1. PICK h : h = [pc |-> "balance", basis |-> available]
        OBVIOUS
    <1>2. h \in Handling /\ h.pc = "balance" /\ req[r].pc = "new"
        BY <1>1, OwnFacts DEF Ask, Handling, TypeOK
    <1>3. req' = [req EXCEPT ![r] = h]
        BY <1>1 DEF Ask
    <1>4. UNCHANGED <<now, booksVars, fundsVars, circle, loop>>
        BY DEF Ask
    <1>5. TypeOK'
        BY <1>2, <1>3, <1>4, OwnFacts DEF TypeOK, booksVars, fundsVars
    <1>6. Agrees(r)'
        BY <1>2, <1>3, <1>4, OwnFacts DEF Agrees, booksVars
    <1> QED
        BY <1>2, <1>3, <1>4, <1>5, <1>6, OwnFacts, OneRequest DEF booksVars

LEMMA BalanceConsistent ==
    ASSUME Consistent, NEW r \in Request, Balance(r)
    PROVE  Consistent'
    <1>1. /\ UNCHANGED <<now, booksVars, fundsVars, circle, loop>>
          /\ req[r].pc = "balance"
        BY DEF Balance
    <1>2. /\ req' \in [Request -> Handling]
          /\ req'[r].pc = "answered"
          /\ \A q \in Request \ {r} : req'[q] = req[q]
        <2>1. CASE Goto(r, "answered")
            BY <2>1, OwnFacts, GotoTypes
        <2>2. CASE req' = [req EXCEPT ![r] = [pc |-> "answered", basis |-> gateway]]
            <3>1. PICK h : h = [pc |-> "answered", basis |-> gateway]
                OBVIOUS
            <3>2. h \in Handling /\ h.pc = "answered"
                BY <3>1, OwnFacts DEF Handling, TypeOK
            <3>3. req' = [req EXCEPT ![r] = h]
                BY <2>2, <3>1
            <3> QED
                BY <3>2, <3>3, OwnFacts
        <2> QED
            BY <2>1, <2>2 DEF Balance
    <1>3. TypeOK'
        BY <1>1, <1>2, OwnFacts DEF TypeOK, booksVars, fundsVars
    <1>4. Agrees(r)'
        BY <1>1, <1>2, OwnFacts DEF Agrees, booksVars
    <1> QED
        BY <1>1, <1>2, <1>3, <1>4, OwnFacts, OneRequest DEF booksVars

LEMMA SubmitConsistent ==
    ASSUME Consistent, NEW r \in Request, Submit(r)
    PROVE  Consistent'
    <1>1. /\ UNCHANGED <<now, settlements, chained, available, fundsVars, loop>>
          /\ req[r].pc = "answered"
        BY DEF Submit
    <1>2. PICK e : e = [status |-> "submitted", created |-> now]
        OBVIOUS
    <1>3. e \in Entry /\ e.status = "submitted" /\ e.created = now /\ now \in Nat
        BY <1>2, OwnFacts DEF Entry, TypeOK
    <1>4. entries' = [entries EXCEPT ![r] = e]
        BY <1>2 DEF Submit
    <1>5. /\ req' \in [Request -> Handling]
          /\ req'[r].pc = "settling"
          /\ \A q \in Request \ {r} : req'[q] = req[q]
        BY OwnFacts, GotoTypes DEF Submit
    <1>6. /\ circle' \in [Request -> Progress]
          /\ circle'[r] = "requested"
          /\ \A q \in Request \ {r} : circle'[q] = circle[q]
        BY OwnFacts, AdvanceTypes DEF Submit, Progress
    <1>7. TypeOK'
        BY <1>1, <1>3, <1>4, <1>5, <1>6, OwnFacts DEF TypeOK, fundsVars
    <1>8. Agrees(r)' /\ entries'[r].status # "withdrawn"
        BY <1>1, <1>3, <1>4, <1>5, <1>6, OwnFacts DEF Agrees
    <1>9. \A q \in Request \ {r} : entries'[q] = entries[q]
        BY <1>4, OwnFacts
    <1> QED
        BY <1>1, <1>5, <1>6, <1>7, <1>8, <1>9, OneRequest

LEMMA RejectConsistent ==
    ASSUME Consistent, NEW r \in Request, Reject(r)
    PROVE  Consistent'
    <1>1. UNCHANGED <<now, booksVars, fundsVars, circle, loop>> /\ req[r].pc = "answered"
        BY DEF Reject
    <1>2. /\ req' \in [Request -> Handling]
          /\ req'[r].pc = "done"
          /\ \A q \in Request \ {r} : req'[q] = req[q]
        BY OwnFacts, GotoTypes DEF Reject
    <1>3. TypeOK'
        BY <1>1, <1>2, OwnFacts DEF TypeOK, booksVars, fundsVars
    <1>4. Agrees(r)'
        BY <1>1, <1>2, OwnFacts DEF Agrees, booksVars
    <1> QED
        BY <1>1, <1>2, <1>3, <1>4, OwnFacts, OneRequest DEF booksVars

LEMMA SettledConsistent ==
    ASSUME Consistent, NEW r \in Request, Settled(r)
    PROVE  Consistent'
    <1>1. /\ UNCHANGED <<now, entries, chained, available, fundsVars, circle>>
          /\ req[r].pc = "settling" /\ circle[r] = "minted"
          /\ settlements' = [settlements EXCEPT ![r] = "submitted"]
          /\ loop' = r
        BY DEF Settled
    <1>2. /\ req' \in [Request -> Handling]
          /\ req'[r].pc = "completing"
          /\ \A q \in Request \ {r} : req'[q] = req[q]
        BY OwnFacts, GotoTypes DEF Settled
    <1>3. TypeOK'
        BY <1>1, <1>2, OwnFacts DEF TypeOK, fundsVars
    <1>4. Agrees(r)' /\ entries'[r].status # "withdrawn"
        BY <1>1, <1>2, OwnFacts DEF Agrees
    <1>5. \A q \in Request \ {r} : settlements'[q] = settlements[q]
        BY <1>1, OwnFacts
    <1> QED
        BY <1>1, <1>2, <1>3, <1>4, <1>5, OneRequest

LEMMA CompletedConsistent ==
    ASSUME Consistent, NEW r \in Request, Completed(r)
    PROVE  Consistent'
    <1>1. /\ UNCHANGED <<now, settlements, chained, fundsVars, circle>>
          /\ req[r].pc = "completing"
          /\ available' = IF Amount[r] <= available THEN available - Amount[r]
                                                   ELSE available
          /\ loop' = None
        BY DEF Completed
    <1>2. /\ req' \in [Request -> Handling]
          /\ req'[r].pc = "recording"
          /\ \A q \in Request \ {r} : req'[q] = req[q]
        BY OwnFacts, GotoTypes DEF Completed
    <1>3. /\ entries' \in [Request -> Entry]
          /\ entries'[r].status = "withdrawn"
          /\ entries'[r].created = entries[r].created
          /\ \A q \in Request \ {r} : entries'[q] = entries[q]
        BY OwnFacts, DecideTypes DEF Completed, Decide
    <1>4. available' \in Nat
        BY <1>1, OwnFacts, WithdrawalAssumption DEF TypeOK
    <1>5. TypeOK'
        BY <1>1, <1>2, <1>3, <1>4, OwnFacts DEF TypeOK, fundsVars
    <1>6. Agrees(r)' /\ circle'[r] = "minted" /\ settlements'[r] = "submitted"
        BY <1>1, <1>2, <1>3, OwnFacts DEF Agrees
    <1> QED
        BY <1>1, <1>2, <1>3, <1>5, <1>6, OneRequest

LEMMA ChainedConsistent ==
    ASSUME Consistent, NEW r \in Request, Chained(r)
    PROVE  Consistent'
    <1>1. /\ UNCHANGED <<now, entries, settlements, available, fundsVars, circle, loop>>
          /\ req[r].pc = "recording"
          /\ chained' = chained \cup {r} \/ chained' = chained
        BY DEF Chained
    <1>2. /\ req' \in [Request -> Handling]
          /\ req'[r].pc = "done"
          /\ \A q \in Request \ {r} : req'[q] = req[q]
        BY OwnFacts, GotoTypes DEF Chained
    <1>3. TypeOK'
        BY <1>1, <1>2, OwnFacts DEF TypeOK, fundsVars
    <1>4. Agrees(r)'
        BY <1>1, <1>2, OwnFacts DEF Agrees
    <1> QED
        BY <1>1, <1>2, <1>3, <1>4, OwnFacts, OneRequest

LEMMA FailedConsistent ==
    ASSUME Consistent, NEW r \in Request, Failed(r)
    PROVE  Consistent'
    <1>1. /\ UNCHANGED <<now, settlements, chained, available, fundsVars, circle>>
          /\ req[r].pc = "settling"
          /\ loop' = r
        BY DEF Failed
    <1>2. /\ req' \in [Request -> Handling]
          /\ req'[r].pc = "failing"
          /\ \A q \in Request \ {r} : req'[q] = req[q]
        BY OwnFacts, GotoTypes DEF Failed
    <1>3. /\ entries' \in [Request -> Entry]
          /\ entries'[r].status = "failed"
          /\ entries'[r].created = entries[r].created
          /\ \A q \in Request \ {r} : entries'[q] = entries[q]
        BY OwnFacts, DecideTypes DEF Failed, Decide
    <1>4. TypeOK'
        BY <1>1, <1>2, <1>3, OwnFacts DEF TypeOK, fundsVars
    <1>5. Agrees(r)'
        BY <1>1, <1>2, <1>3, OwnFacts DEF Agrees
    <1> QED
        BY <1>1, <1>2, <1>3, <1>4, <1>5, OneRequest

LEMMA FailureSettledConsistent ==
    ASSUME Consistent, NEW r \in Request, FailureSettled(r)
    PROVE  Consistent'
    <1>1. /\ UNCHANGED <<now, entries, chained, available, fundsVars, circle>>
          /\ req[r].pc = "failing"
          /\ settlements' = [settlements EXCEPT ![r] = "failed"]
          /\ loop' = None
        BY DEF FailureSettled
    <1>2. /\ req' \in [Request -> Handling]
          /\ req'[r].pc = "done"
          /\ \A q \in Request \ {r} : req'[q] = req[q]
        BY OwnFacts, GotoTypes DEF FailureSettled
    <1>3. TypeOK'
        BY <1>1, <1>2, OwnFacts DEF TypeOK, fundsVars
    <1>4. Agrees(r)' /\ entries'[r].status # "withdrawn"
        BY <1>1, <1>2, OwnFacts DEF Agrees
    <1>5. \A q \in Request \ {r} : settlements'[q] = settlements[q]
        BY <1>1, OwnFacts
    <1> QED
        BY <1>1, <1>2, <1>3, <1>4, <1>5, OneRequest

(* A step of the Circle service: from one progress to a later one.         *)
LEMMA CircleConsistent ==
    ASSUME Consistent, NEW r \in Request, CheckBalance(r) \/ Burn(r) \/ Mint(r)
    PROVE  Consistent'
    <1>1. /\ UNCHANGED <<now, booksVars, incoming, swept, spent, req, loop>>
          /\ circle[r] \in {"requested", "checked", "burned"}
          /\ \/ gateway' = gateway
             \/ Amount[r] <= gateway /\ gateway' = gateway - Amount[r]
        BY DEF CheckBalance, Burn, Mint, fundsVars
    <1>2. \E step \in {"checked", "refused", "burned", "minted", "unminted"} :
            Advance(r, step)
        BY DEF CheckBalance, Burn, Mint
    <1>3. /\ circle' \in [Request -> Progress]
          /\ circle'[r] # "none"
          /\ \A q \in Request \ {r} : circle'[q] = circle[q]
        BY <1>2, OwnFacts, AdvanceTypes DEF Progress
    <1>4. gateway' \in Nat
        BY <1>1, OwnFacts, WithdrawalAssumption DEF TypeOK
    <1>5. TypeOK'
        BY <1>1, <1>3, <1>4, OwnFacts DEF TypeOK, booksVars
    <1>6. Agrees(r)' /\ entries'[r].status # "withdrawn"
        BY <1>1, <1>3, OwnFacts DEF Agrees, booksVars
    <1> QED
        BY <1>1, <1>3, <1>5, <1>6, OneRequest DEF booksVars

-----------------------------------------------------------------------------
(* The theorems about the invariant.                                       *)

LEMMA InvParts == WithdrawalInv <=> Consistent /\ LimitsHold
    BY DEF WithdrawalInv, Consistent

(* What a step of request r, other than submission, does to the entries.   *)
LEMMA HandlerKeepsLimits ==
    ASSUME Consistent, LimitsHold, NEW r \in Request,
           HandlerStep(r) \/ CircleStep(r), ~Submit(r)
    PROVE  LimitsHold'
    <1>1. CASE UNCHANGED <<now, entries>>
        BY <1>1, OwnFacts, LimitsKeptByEntries
    <1>2. ASSUME Completed(r) \/ Failed(r)
          PROVE  LimitsHold'
        <2>1. PICK status \in {"withdrawn", "failed"} : Decide(r, status)
            BY <1>2 DEF Completed, Failed, Decide
        <2>2. /\ entries'[r].created = entries[r].created
              /\ \A q \in Request \ {r} : entries'[q] = entries[q]
            BY <2>1, OwnFacts, DecideTypes
        <2>3. UNCHANGED now /\ entries[r].status = "submitted"
            BY <1>2, OwnFacts DEF Completed, Failed, Agrees
        <2> QED
            BY <2>2, <2>3, OwnFacts, LimitsKeptByEntries
    <1>3. ASSUME Ask(r) \/ Reject(r) \/ Settled(r) \/ Chained(r) \/ FailureSettled(r)
          PROVE  UNCHANGED <<now, entries>>
        BY <1>3 DEF Ask, Reject, Settled, Chained, FailureSettled, booksVars
    <1>4. ASSUME CircleStep(r)
          PROVE  UNCHANGED <<now, entries>>
        BY <1>4 DEF CircleStep, Balance, CheckBalance, Burn, Mint, booksVars
    <1> QED
        BY <1>1, <1>2, <1>3, <1>4 DEF HandlerStep

LEMMA HandlerConsistent ==
    ASSUME Consistent, NEW r \in Request, HandlerStep(r) \/ CircleStep(r)
    PROVE  Consistent'
    BY AskConsistent, BalanceConsistent, SubmitConsistent, RejectConsistent,
       SettledConsistent, CompletedConsistent, ChainedConsistent, FailedConsistent,
       FailureSettledConsistent, CircleConsistent
       DEF HandlerStep, CircleStep

LEMMA InvStep == WithdrawalInv /\ [Next]_vars => WithdrawalInv'
    <1> SUFFICES ASSUME WithdrawalInv, [Next]_vars
                 PROVE  Consistent' /\ LimitsHold'
        BY InvParts DEF WithdrawalInv, Consistent
    <1>1. Consistent /\ LimitsHold /\ TypeOK
        BY InvParts DEF Consistent
    <1>2. CASE UNCHANGED vars
        BY <1>1, <1>2 DEF vars, booksVars, fundsVars, Consistent, TypeOK, Agrees,
            WithdrawnMeansPaid, LimitsHold, InWindow, Counted, Recorded, Total, Units
    <1>3. CASE Tick
        BY <1>1, <1>3, WorldConsistent, LimitsKeptByTick DEF Consistent
    <1>4. CASE Sweep \/ Credit \/ Spend \/ Crash
        <2>1. UNCHANGED <<now, entries>>
            BY <1>4 DEF Sweep, Credit, Spend, Crash, booksVars
        <2> QED
            BY <1>1, <1>4, <2>1, WorldConsistent, CrashConsistent, LimitsKeptByEntries
    <1>5. ASSUME NEW r \in Request, HandlerStep(r) \/ CircleStep(r)
          PROVE  Consistent' /\ LimitsHold'
        BY <1>1, <1>5, HandlerConsistent, HandlerKeepsLimits, LimitsKeptBySubmit
    <1> QED
        BY <1>2, <1>3, <1>4, <1>5 DEF Next

(* Handlers, entries, settlement records and the Circle service's progress *)
(* agree in every reachable state, under every fault.                      *)
THEOREM WithdrawalInvariant == Spec => []WithdrawalInv
    BY InitConsistent, InvStep, PTL DEF Spec

(* Every variable keeps its type; no charge makes the account negative.    *)
THEOREM WithdrawalTypeCorrect == Spec => []TypeOK
    <1>1. WithdrawalInv => TypeOK
        BY DEF WithdrawalInv
    <1> QED
        BY <1>1, WithdrawalInvariant, PTL

(* No interleaving of requests, crash or timeout lets the withdrawals of a *)
(* day or of a week that have not failed exceed the limits.                *)
THEOREM LimitsAlwaysHold == Spec => []LimitsHold
    <1>1. WithdrawalInv => LimitsHold
        BY DEF WithdrawalInv
    <1> QED
        BY <1>1, WithdrawalInvariant, PTL

(* An entry is shown as withdrawn only when its mint is final.             *)
THEOREM WithdrawnIsPaid == Spec => []WithdrawnMeansPaid
    <1>1. WithdrawalInv => WithdrawnMeansPaid
        BY DEF WithdrawalInv
    <1> QED
        BY <1>1, WithdrawalInvariant, PTL

-----------------------------------------------------------------------------
(* Terminal entries.                                                       *)

LEMMA TerminalStep ==
    ASSUME Consistent, Next, NEW q \in Request
    PROVE  TerminalEntry(q)
    <1>1. CASE UNCHANGED entries
        BY <1>1 DEF TerminalEntry
    <1>2. ASSUME NEW r \in Request, Submit(r) \/ Completed(r) \/ Failed(r)
          PROVE  TerminalEntry(q)
        <2>1. entries[r].status \notin {"withdrawn", "failed"}
            BY <1>2, OwnFacts DEF Submit, Completed, Failed, Agrees
        <2>2. q # r => entries'[q] = entries[q]
            BY <1>2, OwnFacts DEF Submit, Completed, Failed
        <2> QED
            BY <2>1, <2>2 DEF TerminalEntry
    <1>3. ASSUME NEW r \in Request,
                 \/ Ask(r) \/ Reject(r) \/ Settled(r) \/ Chained(r) \/ FailureSettled(r)
                 \/ CircleStep(r)
          PROVE  UNCHANGED entries
        BY <1>3 DEF Ask, Reject, Settled, Chained, FailureSettled, CircleStep, Balance,
                    CheckBalance, Burn, Mint, booksVars
    <1>4. ASSUME Tick \/ Sweep \/ Credit \/ Spend \/ Crash
          PROVE  UNCHANGED entries
        BY <1>4 DEF Tick, Sweep, Credit, Spend, Crash, booksVars
    <1> QED
        BY <1>1, <1>2, <1>3, <1>4 DEF Next, HandlerStep

(* Once withdrawn or failed, an entry never changes, however late the      *)
(* Circle service answers.                                                 *)
THEOREM TerminalStaysFinal == Spec => TerminalIsFinal
    <1>1. WithdrawalInv /\ [Next]_vars => [\A r \in Request : TerminalEntry(r)]_vars
        BY InvParts, TerminalStep
    <1> QED
        BY <1>1, WithdrawalInvariant, PTL DEF Spec, TerminalIsFinal

-----------------------------------------------------------------------------
(* Reconciliation.  The account is charged only if it can be, and money    *)
(* swept but not credited yet may be missing from it then.  It never is if *)
(* nothing is paid in, or if what the account held at first is enough for  *)
(* all the withdrawals there are.                                          *)
Solvent == Incoming = 0 \/ Total(Request) <= Opening

Withdrawn == {r \in Request : entries[r].status = "withdrawn"}

(* No withdrawal takes more from the account than its amount.              *)
Books ==
    /\ Incoming = 0 => incoming = 0 /\ swept = 0
    /\ available + Total(Withdrawn) >= Opening
    /\ BooksReconcile

LEMMA TotalsAre == Total(Unsettled) \in Nat /\ Total(Withdrawn) \in Nat
    BY TotalMonotonic DEF Unsettled, Withdrawn

LEMMA BooksNext ==
    ASSUME NEW u, NEW w, Unsettled' = u, Withdrawn' = w,
           Incoming = 0 => incoming' = 0 /\ swept' = 0,
           available' + Total(w) >= Opening,
           available' + swept' = gateway' + spent' + Total(u)
    PROVE  Books'
    BY DEF Books, BooksReconcile, Total, Units

LEMMA UnsettledKept ==
    ASSUME Books, UNCHANGED <<incoming, swept, spent, available, gateway>>,
           Unsettled' = Unsettled, Withdrawn' = Withdrawn
    PROVE  Books'
    BY BooksNext DEF Books, BooksReconcile

(* The world's steps change no entry, and move money between two balances  *)
(* of one side or add it to both.                                          *)
LEMMA WorldReconciles ==
    ASSUME Consistent, Books, Sweep \/ Credit \/ Spend
    PROVE  Books'
    <1>1. UNCHANGED <<entries, circle>>
        BY DEF Sweep, Credit, Spend, booksVars
    <1>2. Unsettled' = Unsettled /\ Withdrawn' = Withdrawn
        BY <1>1 DEF Unsettled, Withdrawn
    <1>3. PICK u, w : u = Unsettled /\ w = Withdrawn
        OBVIOUS
    <1>4. /\ Total(u) \in Nat /\ Total(w) \in Nat
          /\ Incoming = 0 => incoming = 0 /\ swept = 0
          /\ available + Total(w) >= Opening
          /\ available + swept = gateway + spent + Total(u)
        BY <1>3, TotalsAre DEF Books, BooksReconcile
    <1>5. /\ available \in Nat /\ swept \in Nat /\ gateway \in Nat /\ spent \in Nat
          /\ incoming \in Nat /\ Opening \in Nat
        BY WithdrawalAssumption DEF Consistent, TypeOK
    <1>6. /\ Incoming = 0 => incoming' = 0 /\ swept' = 0
          /\ available' + Total(w) >= Opening
          /\ available' + swept' = gateway' + spent' + Total(u)
        <2>1. CASE Sweep
            BY <1>4, <1>5, <2>1 DEF Sweep, booksVars
        <2>2. CASE Credit
            BY <1>4, <1>5, <2>2 DEF Credit
        <2>3. CASE Spend
            BY <1>4, <1>5, <2>3 DEF Spend, booksVars
        <2> QED
            BY <2>1, <2>2, <2>3
    <1> QED
        BY <1>2, <1>3, <1>6, BooksNext

(* A burn moves money from the Gateway into the unsettled withdrawals.     *)
LEMMA BurnReconciles ==
    ASSUME Consistent, Books, NEW r \in Request, Burn(r)
    PROVE  Books'
    <1>1. CASE ~(Amount[r] <= gateway)
        <2>1. UNCHANGED <<incoming, swept, spent, available, gateway, entries>>
              /\ circle[r] = "checked" /\ circle' = [circle EXCEPT ![r] = "refused"]
            BY <1>1 DEF Burn, Advance, booksVars
        <2>2. Unsettled' = Unsettled
            BY <2>1, OwnFacts DEF Unsettled
        <2>3. Withdrawn' = Withdrawn
            BY <2>1 DEF Withdrawn
        <2> QED
            BY <2>1, <2>2, <2>3, UnsettledKept
    <1>2. CASE Amount[r] <= gateway
        <2>1. /\ UNCHANGED <<incoming, swept, spent, available, entries>>
              /\ gateway' = gateway - Amount[r]
              /\ circle[r] = "checked" /\ circle' = [circle EXCEPT ![r] = "burned"]
            BY <1>2 DEF Burn, Advance, booksVars
        <2>2. r \notin Unsettled /\ entries[r].status # "withdrawn"
            BY <2>1, OwnFacts DEF Unsettled
        <2>3. Unsettled' = Unsettled \cup {r}
            BY <2>1, <2>2, OwnFacts DEF Unsettled
        <2>4. Unsettled \in SUBSET Request /\ r \in Request \ Unsettled
            BY <2>2 DEF Unsettled
        <2>5. Total(Unsettled \cup {r}) = Total(Unsettled) + Amount[r]
            BY <2>4, TotalAdds
        <2>6. Total(Unsettled) \in Nat
            BY <2>4, TotalMonotonic
        <2>7. available' + swept' = gateway' + spent' + Total(Unsettled \cup {r})
            BY <2>1, <2>5, <2>6, OwnFacts, WithdrawalAssumption
               DEF Books, BooksReconcile, TypeOK
        <2>8. Withdrawn' = Withdrawn
            BY <2>1 DEF Withdrawn
        <2>9. PICK u : u = Unsettled \cup {r}
            OBVIOUS
        <2>10. Unsettled' = u /\ available' + swept' = gateway' + spent' + Total(u)
            BY <2>3, <2>7, <2>9
        <2> QED
            BY <2>1, <2>8, <2>10, BooksNext DEF Books
    <1> QED
        BY <1>1, <1>2

(* Completion charges the account; it can, as the money was its own.       *)
LEMMA CompletionReconciles ==
    ASSUME Solvent, Consistent, Books, NEW r \in Request, Completed(r)
    PROVE  Books'
    <1> DEFINE Others == Unsettled \ {r}
    <1>1. /\ UNCHANGED <<incoming, swept, spent, gateway, circle>>
          /\ available' = IF Amount[r] <= available THEN available - Amount[r]
                                                   ELSE available
          /\ req[r].pc = "completing"
          /\ Decide(r, "withdrawn")
        BY DEF Completed, fundsVars, Decide
    <1>2. entries[r].status = "submitted" /\ circle[r] = "minted"
        BY <1>1, OwnFacts DEF Agrees
    <1>3. r \in Unsettled
        BY <1>2 DEF Unsettled
    <1>4. Unsettled = Others \cup {r} /\ Others \in SUBSET Request /\ r \in Request \ Others
        BY <1>3 DEF Unsettled
    <1>5. Total(Unsettled) = Total(Others) + Amount[r]
        <2> HIDE DEF Others
        <2> QED BY <1>4, TotalAdds, Zenon
    <1>6. Total(Others) \in Nat
        BY <1>4, TotalMonotonic
    <1>7. /\ entries'[r].status = "withdrawn"
          /\ \A q \in Request \ {r} : entries'[q] = entries[q]
        BY <1>1, OwnFacts, DecideTypes
    <1>8. Unsettled' = Others
        BY <1>1, <1>7 DEF Unsettled
    <1>9. /\ available \in Nat /\ gateway \in Nat /\ spent \in Nat /\ swept \in Nat
          /\ Opening \in Nat /\ Amount[r] \in Nat
          /\ Incoming = 0 => incoming = 0 /\ swept = 0
          /\ available + Total(Withdrawn) >= Opening
          /\ available + swept = gateway + spent + Total(Unsettled)
        BY OwnFacts, WithdrawalAssumption DEF TypeOK, Books, BooksReconcile
    <1>10. Withdrawn \in SUBSET Request /\ r \in Request \ Withdrawn
        BY <1>2 DEF Withdrawn
    <1>11. Withdrawn' = Withdrawn \cup {r}
        BY <1>7, <1>10 DEF Withdrawn
    <1>12. /\ Total(Withdrawn \cup {r}) = Total(Withdrawn) + Amount[r]
           /\ Total(Withdrawn) \in Nat
           /\ Total(Withdrawn \cup {r}) <= Total(Request)
        <2>1. Withdrawn \cup {r} \in SUBSET Request
            BY <1>10
        <2> QED
            BY <1>10, <2>1, TotalAdds, TotalMonotonic
    <1>13. Amount[r] <= available
        <2>1. CASE Incoming = 0
            <3> HIDE DEF Others
            <3> QED
                BY <1>5, <1>6, <1>9, <2>1
        <2>2. CASE Total(Request) <= Opening
            <3>1. Total(Request) \in Nat
                BY TotalMonotonic
            <3> QED
                BY <1>9, <1>12, <2>2, <3>1
        <2> QED
            BY <2>1, <2>2 DEF Solvent
    <1>14. available' + swept' = gateway' + spent' + Total(Others)
        <2> HIDE DEF Others
        <2> QED BY <1>1, <1>5, <1>6, <1>9, <1>13
    <1>15. PICK u, w : u = Others /\ w = Withdrawn \cup {r}
        OBVIOUS
    <1>16. available' + Total(w) >= Opening
        BY <1>1, <1>9, <1>12, <1>13, <1>15
    <1>17. available' + swept' = gateway' + spent' + Total(u)
        BY <1>14, <1>15, Zenon
    <1>18. Unsettled' = u /\ Withdrawn' = w
        BY <1>8, <1>11, <1>15
    <1>19. Incoming = 0 => incoming' = 0 /\ swept' = 0
        BY <1>1, <1>9
    <1> QED
        BY <1>16, <1>17, <1>18, <1>19, BooksNext

(* No other step of a request moves money or settles it.                   *)
LEMMA OthersReconcile ==
    ASSUME Consistent, Books, NEW r \in Request,
           HandlerStep(r) \/ CircleStep(r), ~Burn(r), ~Completed(r)
    PROVE  Books'
    <1>1. UNCHANGED <<incoming, swept, spent, available, gateway>>
        BY DEF HandlerStep, CircleStep, Ask, Submit, Reject, Settled, Chained, Failed,
               FailureSettled, Balance, CheckBalance, Mint, booksVars, fundsVars
    <1>2. CASE UNCHANGED <<entries, circle>>
        BY <1>1, <1>2, UnsettledKept DEF Unsettled, Withdrawn
    <1>3. CASE Submit(r)
        <2>1. /\ circle' = [circle EXCEPT ![r] = "requested"]
              /\ \A q \in Request \ {r} : entries'[q] = entries[q]
              /\ circle[r] = "none"
            BY <1>3, OwnFacts DEF Submit, Advance, Agrees
        <2>2. Unsettled' = Unsettled
            BY <2>1, OwnFacts DEF Unsettled
        <2>3. entries'[r].status = "submitted" /\ entries[r].status = "none"
            BY <1>3, OwnFacts DEF Submit, Agrees
        <2>4. Withdrawn' = Withdrawn
            BY <2>1, <2>3 DEF Withdrawn
        <2> QED
            BY <1>1, <2>2, <2>4, UnsettledKept
    <1>4. CASE Failed(r)
        <2>1. Decide(r, "failed") /\ UNCHANGED circle /\ entries[r].status = "submitted"
            BY <1>4, OwnFacts DEF Failed, Decide, Agrees
        <2>2. /\ entries'[r].status = "failed"
              /\ \A q \in Request \ {r} : entries'[q] = entries[q]
            BY <2>1, OwnFacts, DecideTypes
        <2>3. Unsettled' = Unsettled
            BY <2>1, <2>2 DEF Unsettled
        <2>4. Withdrawn' = Withdrawn
            BY <2>1, <2>2 DEF Withdrawn
        <2> QED
            BY <1>1, <2>3, <2>4, UnsettledKept
    <1>5. CASE CheckBalance(r)
        <2>1. PICK step \in {"checked", "refused"} : Advance(r, step)
            BY <1>5 DEF CheckBalance
        <2>2. UNCHANGED entries /\ circle[r] = "requested"
            BY <1>5 DEF CheckBalance, booksVars
        <2>3. Unsettled' = Unsettled
            BY <2>1, <2>2, OwnFacts DEF Advance, Unsettled
        <2>4. Withdrawn' = Withdrawn
            BY <2>2 DEF Withdrawn
        <2> QED
            BY <1>1, <2>3, <2>4, UnsettledKept
    <1>6. CASE Mint(r)
        <2>1. PICK step \in {"minted", "unminted"} : Advance(r, step)
            BY <1>6 DEF Mint
        <2>2. UNCHANGED entries /\ circle[r] = "burned"
            BY <1>6 DEF Mint, booksVars
        <2>3. Unsettled' = Unsettled
            BY <2>1, <2>2, OwnFacts DEF Advance, Unsettled
        <2>4. Withdrawn' = Withdrawn
            BY <2>2 DEF Withdrawn
        <2> QED
            BY <1>1, <2>3, <2>4, UnsettledKept
    <1>7. ASSUME \/ Ask(r) \/ Reject(r) \/ Settled(r) \/ Chained(r) \/ FailureSettled(r)
                 \/ Balance(r)
          PROVE  UNCHANGED <<entries, circle>>
        BY <1>7 DEF Ask, Reject, Settled, Chained, FailureSettled, Balance, booksVars
    <1> QED
        BY <1>2, <1>3, <1>4, <1>5, <1>6, <1>7 DEF HandlerStep, CircleStep

(* Account and Gateway differ by exactly what was swept and not credited,  *)
(* paid otherwise, or withdrawn under entries that do not say so, after    *)
(* any crash, timeout or failed mint (main.py:941, store.py:1263): if      *)
(* nothing is paid in, or the opening balance is enough for every request. *)
THEOREM BooksAlwaysReconcile ==
    ASSUME Solvent
    PROVE  Spec => []BooksReconcile
    <1>1. Init => Books
        <2> SUFFICES ASSUME Init PROVE Books
            OBVIOUS
        <2>1. Unsettled = {}
            BY DEF Init, Unsettled
        <2>2. Units({}) = {}
            BY DEF Units
        <2>3. Total(Unsettled) = 0
            BY <2>1, <2>2, FS_EmptySet, Zenon DEF Total
        <2>4. Withdrawn = {} /\ Total(Withdrawn) = 0
            BY <2>1, <2>3 DEF Init, Withdrawn
        <2> QED
            BY <2>3, <2>4, WithdrawalAssumption DEF Init, Books, BooksReconcile
    <1>2. WithdrawalInv /\ Books /\ [Next]_vars => Books'
        <2> SUFFICES ASSUME Consistent, Books, [Next]_vars
                     PROVE  Books'
            BY InvParts
        <2>1. CASE UNCHANGED vars
            BY <2>1, UnsettledKept DEF vars, booksVars, fundsVars, Unsettled, Withdrawn
        <2>2. CASE Tick \/ Crash
            BY <2>2, UnsettledKept DEF Tick, Crash, booksVars, fundsVars, Unsettled, Withdrawn
        <2>3. CASE Sweep \/ Credit \/ Spend
            BY <2>3, WorldReconciles
        <2>4. ASSUME NEW r \in Request, HandlerStep(r) \/ CircleStep(r)
              PROVE  Books'
            BY <2>4, BurnReconciles, CompletionReconciles, OthersReconcile
        <2> QED
            BY <2>1, <2>2, <2>3, <2>4 DEF Next
    <1>3. Books => BooksReconcile
        BY DEF Books
    <1> QED
        BY <1>1, <1>2, <1>3, WithdrawalInvariant, PTL DEF Spec

=============================================================================
