------------------------- MODULE SettlementsProofs -------------------------
(***************************************************************************)
(* Proofs about Settlements for any agents, calls, keys and amounts, every *)
(* setting, and any number of restarts, lost answers and refusals.         *)
(***************************************************************************)
EXTENDS Settlements, FiniteSetTheorems, TLAPS

-----------------------------------------------------------------------------
(* What a step of one call leaves alone.                                   *)

(* Rows are only added, and only those of call c.                          *)
RowsOf(c) ==
    /\ entries \subseteq entries' /\ settlements \subseteq settlements'
    /\ chainRecords \subseteq chainRecords'
    /\ \A e \in entries' \ entries : e.call = c
    /\ \A r \in settlements' \ settlements : r.call = c

(* A step that is c's: every other call is where it was.                   *)
StepOf(c) ==
    /\ UNCHANGED mode
    /\ RowsOf(c)
    /\ \A d \in Calls \ {c} : at'[d] = at[d] /\ arg'[d] = arg[d]
    /\ \A t \in Transfer \ {c} : circle'[t] = circle[t] /\ (t \in moved' <=> t \in moved)
    /\ \A d \in Recorded \ {c} : chain'[d] = chain[d]

(* What the invariant says of the other calls.                             *)
OthersAgree(c) ==
    /\ \A t \in Transfer \ {c} : CircleAgrees(t) /\ TransferAgrees(t)
    /\ \A d \in Recorded \ {c} : ChainAgrees(d)
    /\ \A d \in Credit \ {c} : CreditAgrees(d)
    /\ \A f \in Confirm \ {c} : ConfirmAgrees(f)

LEMMA HasEntryKept ==
    ASSUME NEW c, RowsOf(c), NEW d, d # c
    PROVE  HasEntry(d)' <=> HasEntry(d)
    BY DEF RowsOf, HasEntry

LEMMA HasEntryGrows ==
    ASSUME NEW c, RowsOf(c), NEW d, HasEntry(d)
    PROVE  HasEntry(d)'
    BY DEF RowsOf, HasEntry

LEMMA HasRecordKept ==
    ASSUME NEW c, RowsOf(c), NEW d, d # c
    PROVE  HasRecord(d)' <=> HasRecord(d)
    BY DEF RowsOf, HasRecord

LEMMA BookedKept ==
    ASSUME NEW c, RowsOf(c), NEW t, arg'[t] = arg[t], Booked(t)
    PROVE  Booked(t)'
    BY DEF RowsOf, Booked, Pair, Entry

LEMMA TransferKept ==
    ASSUME NEW c, StepOf(c), NEW t \in Transfer \ {c}, TransferAgrees(t), CircleAgrees(t)
    PROVE  CircleAgrees(t)' /\ TransferAgrees(t)'
    <1>1. /\ at'[t] = at[t] /\ arg'[t] = arg[t] /\ circle'[t] = circle[t]
          /\ (t \in moved' <=> t \in moved)
          /\ RowsOf(c)
        BY DEF StepOf, Calls
    <1>2. CircleAgrees(t)'
        BY <1>1 DEF CircleAgrees
    <1>3. /\ HasEntry(t)' <=> HasEntry(t)
          /\ HasRecord(t)' <=> HasRecord(t)
          /\ Booked(t) => Booked(t)'
          /\ settlements \subseteq settlements'
        BY <1>1, HasEntryKept, HasRecordKept, BookedKept DEF RowsOf
    <1>4. TransferAgrees(t)'
        BY <1>1, <1>3 DEF TransferAgrees, Passed
    <1> QED
        BY <1>2, <1>4

LEMMA ChainKept ==
    ASSUME NEW c, StepOf(c), NEW d \in Recorded \ {c}, ChainAgrees(d)
    PROVE  ChainAgrees(d)'
    <1>1. /\ at'[d] = at[d] /\ chain'[d] = chain[d] /\ UNCHANGED mode
          /\ RowsOf(c) /\ chainRecords \subseteq chainRecords'
        BY DEF StepOf, Calls, Recorded, RowsOf
    <1>2. HasEntry(d) => HasEntry(d)'
        BY <1>1, HasEntryGrows
    <1> QED
        BY <1>1, <1>2 DEF ChainAgrees

LEMMA OthersKept ==
    ASSUME SettlementsInv, NEW c, StepOf(c), UNCHANGED session
    PROVE  OthersAgree(c)'
    <1>1. RowsOf(c)
        BY DEF StepOf
    <1>2. ASSUME NEW t \in Transfer \ {c} PROVE CircleAgrees(t)' /\ TransferAgrees(t)'
        BY <1>2, TransferKept DEF SettlementsInv
    <1>3. ASSUME NEW d \in Recorded \ {c} PROVE ChainAgrees(d)'
        BY <1>3, ChainKept DEF SettlementsInv
    <1>4. ASSUME NEW d \in Credit \ {c} PROVE CreditAgrees(d)'
        BY <1>1, HasEntryKept DEF SettlementsInv, CreditAgrees, StepOf, Calls
    <1>5. ASSUME NEW f \in Confirm \ {c} PROVE ConfirmAgrees(f)'
        BY <1>1, HasEntryKept DEF SettlementsInv, ConfirmAgrees, StepOf, Calls
    <1> QED
        BY <1>2, <1>3, <1>4, <1>5 DEF OthersAgree

(* Sessions that do not change still agree with calls and entries.         *)
LEMMA SessionsKept ==
    ASSUME SettlementsInv, NEW c, StepOf(c), UNCHANGED onramp,
           c \in Create => at'[c] = at[c] /\ arg'[c] = arg[c]
    PROVE  /\ \A d \in Create : CreateAgrees(d)' /\ SessionAgrees(d)'
           /\ KeysUnique' /\ EntriesUnique'
    <1>1. ASSUME NEW d \in Create PROVE CreateAgrees(d)'
        <2>1. at'[d] = at[d] /\ arg'[d] = arg[d]
            BY DEF StepOf, Calls
        <2> QED
            BY <2>1 DEF SettlementsInv, CreateAgrees, onramp
    <1>2. ASSUME NEW d \in Create PROVE SessionAgrees(d)'
        BY DEF SettlementsInv, SessionAgrees, onramp, StepOf, RowsOf
    <1>3. KeysUnique' /\ EntriesUnique'
        BY DEF SettlementsInv, KeysUnique, EntriesUnique, onramp
    <1> QED
        BY <1>1, <1>2, <1>3

(* A step of a call that leaves the sessions alone keeps the invariant if  *)
(* it keeps what the invariant says of the tables and of that call.        *)
LEMMA OwnCall ==
    ASSUME SettlementsInv, NEW c, StepOf(c), UNCHANGED onramp,
           c \in Create => at'[c] = at[c] /\ arg'[c] = arg[c],
           TypeOK', TablesFinite', OnrampEntries',
           c \in Transfer => CircleAgrees(c)' /\ TransferAgrees(c)',
           c \in Recorded => ChainAgrees(c)',
           c \in Credit => CreditAgrees(c)',
           c \in Confirm => ConfirmAgrees(c)'
    PROVE  SettlementsInv'
    <1>1. OthersAgree(c)'
        BY OthersKept DEF onramp
    <1>2. /\ \A d \in Create : CreateAgrees(d)' /\ SessionAgrees(d)'
          /\ KeysUnique' /\ EntriesUnique'
        BY SessionsKept
    <1> QED
        BY <1>1, <1>2 DEF SettlementsInv, OthersAgree

(* A step that adds no entry adds none to a confirmation.                  *)
LEMMA EntriesStay ==
    ASSUME SettlementsInv, UNCHANGED entries
    PROVE  OnrampEntries' /\ IsFiniteSet(entries)'
    BY DEF SettlementsInv, OnrampEntries, TablesFinite

-----------------------------------------------------------------------------
(* Transfers.                                                              *)

LEMMA AskTransferKeeps ==
    ASSUME SettlementsInv, NEW t \in Transfer, AskTransfer(t)
    PROVE  SettlementsInv'
    <1>1. /\ t \notin Credit /\ t \notin Create /\ t \notin Confirm
          /\ t \in Recorded /\ t \in Calls
        BY SettlementsAssumption DEF Recorded, Calls
    <1>2. StepOf(t) /\ UNCHANGED onramp
        BY <1>1 DEF AskTransfer, Ask, Goto, StepOf, RowsOf, SettlementsInv, TypeOK
    <1>3. TypeOK'
        <2>1. CASE \E from, to \in Agent, amount \in Amounts :
                      /\ Ask(t, from, to, amount, None)
                      /\ circle' = [circle EXCEPT ![t] = "asked"]
                      /\ Goto(t, "settling")
                      /\ UNCHANGED settlements
            <3>1. \A from, to \in Agent, amount \in Amounts :
                      [from |-> from, to |-> to, amount |-> amount, key |-> None]
                          \in [from : Agent \cup {None}, to : Agent \cup {None},
                               amount : Nat, key : Key \cup {None}]
                BY SettlementsAssumption
            <3>2. arg' \in [Calls -> [from : Agent \cup {None}, to : Agent \cup {None},
                                      amount : Nat, key : Key \cup {None}]]
                BY <1>1, <2>1, <3>1 DEF Ask, SettlementsInv, TypeOK
            <3>3. /\ at' \in [Calls -> {"idle", "crashed"} \cup Running \cup Answered]
                  /\ circle' \in [Transfer -> {"none", "asked", "checked", "signed",
                                               "moved", "answered", "failed"}]
                  /\ UNCHANGED settlements
                BY <2>1 DEF Goto, SettlementsInv, TypeOK, Running
            <3> QED
                BY <3>2, <3>3 DEF AskTransfer, onramp, SettlementsInv, TypeOK
        <2>2. CASE /\ Goto(t, "error")
                   /\ \/ UNCHANGED settlements
                      \/ settlements' = settlements \cup {[call |-> t, status |-> "failed"]}
                   /\ UNCHANGED <<arg, circle>>
            <3>1. at' \in [Calls -> {"idle", "crashed"} \cup Running \cup Answered]
                BY <2>2 DEF Goto, SettlementsInv, TypeOK, Answered
            <3>2. settlements' \subseteq [call : Transfer, status : {"submitted", "failed"}]
                BY <2>2 DEF SettlementsInv, TypeOK
            <3> QED
                BY <2>2, <3>1, <3>2 DEF AskTransfer, onramp, SettlementsInv, TypeOK
        <2> QED
            BY <2>1, <2>2 DEF AskTransfer
    <1>4. TablesFinite' /\ OnrampEntries'
        BY EntriesStay DEF AskTransfer, SettlementsInv, TablesFinite
    <1>5. /\ at[t] = "idle" /\ circle[t] = "none" /\ chain[t] = "none" /\ t \notin moved
          /\ ~HasEntry(t) /\ ~HasRecord(t)
        BY <1>1 DEF AskTransfer, SettlementsInv, CircleAgrees, TransferAgrees, ChainAgrees
    <1>6. CASE at'[t] = "error" /\ circle'[t] = "none"
        <2>1. /\ CircleAgrees(t)' /\ TransferAgrees(t)' /\ ChainAgrees(t)'
            BY <1>1, <1>5, <1>6
            DEF AskTransfer, CircleAgrees, TransferAgrees, ChainAgrees, Passed, HasEntry
        <2> QED
            BY <1>1, <1>2, <1>3, <1>4, <2>1, OwnCall
    <1>7. CASE /\ at'[t] = "settling" /\ circle'[t] = "asked" /\ UNCHANGED settlements
               /\ arg'[t].from \in Agent /\ arg'[t].to \in Agent /\ arg'[t].amount > 0
        <2>1. /\ CircleAgrees(t)' /\ TransferAgrees(t)' /\ ChainAgrees(t)'
            BY <1>1, <1>5, <1>7
            DEF AskTransfer, CircleAgrees, TransferAgrees, ChainAgrees, Passed, HasEntry,
                HasRecord
        <2> QED
            BY <1>1, <1>2, <1>3, <1>4, <2>1, OwnCall
    <1> QED
        BY <1>1, <1>5, <1>6, <1>7
        DEF AskTransfer, Transferable, Ask, Goto, SettlementsInv, TypeOK

(* The two outcomes of the settlement call.                                *)
LEMMA SettledKeeps ==
    ASSUME SettlementsInv, NEW t \in Transfer, Settled(t) \/ Unsettled(t)
    PROVE  SettlementsInv'
    <1>1. /\ t \notin Credit /\ t \notin Create /\ t \notin Confirm
          /\ t \in Recorded /\ t \in Calls
        BY SettlementsAssumption DEF Recorded, Calls
    <1>2. StepOf(t) /\ UNCHANGED onramp
        BY <1>1 DEF Settled, Unsettled, Goto, StepOf, RowsOf, outside, SettlementsInv, TypeOK
    <1>3. TypeOK'
        BY DEF Settled, Unsettled, Goto, onramp, outside, SettlementsInv, TypeOK, Running,
               Answered
    <1>4. TablesFinite' /\ OnrampEntries'
        BY EntriesStay DEF Settled, Unsettled, SettlementsInv, TablesFinite, outside
    <1>5. /\ at[t] = "settling" /\ ~HasEntry(t) /\ ~HasRecord(t)
          /\ circle'[t] = circle[t] /\ (t \in moved' <=> t \in moved)
          /\ chain'[t] = chain[t] /\ arg'[t] = arg[t] /\ chain[t] = "none"
        BY <1>1
        DEF Settled, Unsettled, outside, SettlementsInv, TransferAgrees, ChainAgrees
    <1>6. ~HasEntry(t)'
        BY <1>5 DEF Settled, Unsettled, HasEntry
    <1>7. CircleAgrees(t)' /\ ChainAgrees(t)'
        BY <1>1, <1>5
        DEF Settled, Unsettled, Goto, outside, SettlementsInv, TypeOK, CircleAgrees, ChainAgrees
    <1>8. TransferAgrees(t)'
        <2>1. CASE Settled(t)
            BY <1>1, <1>6, <2>1
            DEF Settled, Goto, outside, SettlementsInv, TypeOK, TransferAgrees, Passed
        <2>2. CASE Unsettled(t)
            <3>1. HasRecord(t)'
                <4>1. [call |-> t, status |-> "failed"] \in settlements'
                    BY <2>2 DEF Unsettled
                <4>2. [call |-> t, status |-> "failed"].call = t
                    OBVIOUS
                <4> QED
                    BY <4>1, <4>2 DEF HasRecord
            <3>2. at'[t] = "error"
                BY <1>1, <2>2 DEF Unsettled, Goto, SettlementsInv, TypeOK
            <3> QED
                BY <1>6, <3>1, <3>2 DEF TransferAgrees, Passed
        <2> QED
            BY <2>1, <2>2
    <1> QED
        BY <1>1, <1>2, <1>3, <1>4, <1>7, <1>8, OwnCall

(* The rows of a transfer's pair.                                          *)
LEMMA PairIs ==
    ASSUME TypeOK, NEW t \in Transfer, CircleAgrees(t), circle[t] # "none"
    PROVE  /\ Pair(t) \subseteq [call : Calls, type : Types, agent : Agent, delta : Int]
           /\ IsFiniteSet(Pair(t))
           /\ \A e \in Pair(t) : e.call = t /\ e.type \in {"sent", "received"}
           /\ Pair(t) # {}
    <1> DEFINE out == Entry(t, "sent", arg[t].from, -arg[t].amount)
               in  == Entry(t, "received", arg[t].to, arg[t].amount)
    <1>1. /\ t \in Calls /\ arg[t].from \in Agent /\ arg[t].to \in Agent
          /\ arg[t].amount \in Nat
        BY DEF TypeOK, CircleAgrees, Calls
    <1>2. Pair(t) = {out, in}
        BY DEF Pair
    <1>3. /\ out \in [call : Calls, type : Types, agent : Agent, delta : Int]
          /\ in \in [call : Calls, type : Types, agent : Agent, delta : Int]
          /\ out.call = t /\ out.type = "sent" /\ in.call = t /\ in.type = "received"
        BY <1>1 DEF Entry, Types
    <1>4. IsFiniteSet({out} \cup {in})
        <2> HIDE DEF out, in
        <2> QED BY FS_Singleton, FS_AddElement
    <1>5. {out} \cup {in} = {out, in}
        OBVIOUS
    <1> HIDE DEF out, in
    <1> QED
        BY <1>2, <1>3, <1>4, <1>5

(* Rows added to the entries that are no onramp's.                         *)
LEMMA EntriesAdded ==
    ASSUME SettlementsInv, NEW E, entries' = entries \cup E, IsFiniteSet(E),
           \A e \in E : e.type # "onramp" /\ e.call \notin Confirm
    PROVE  OnrampEntries' /\ IsFiniteSet(entries)'
    <1>1. IsFiniteSet(entries \cup E)
        BY FS_Union DEF SettlementsInv, TablesFinite
    <1>2. OnrampEntries'
        BY DEF SettlementsInv, OnrampEntries
    <1> QED
        BY <1>1, <1>2

LEMMA BookTransferKeeps ==
    ASSUME SettlementsInv, NEW t \in Transfer, BookTransfer(t)
    PROVE  SettlementsInv'
    <1>1. /\ t \notin Credit /\ t \notin Create /\ t \notin Confirm
          /\ t \in Recorded /\ t \in Calls
        BY SettlementsAssumption DEF Recorded, Calls
    <1>2. /\ TypeOK /\ CircleAgrees(t) /\ TransferAgrees(t) /\ ChainAgrees(t)
          /\ at[t] = "settled"
        BY <1>1 DEF SettlementsInv, BookTransfer
    <1>3. /\ circle[t] = "answered" /\ ~HasEntry(t) /\ chain[t] = "none"
          /\ [call |-> t, status |-> "submitted"] \in settlements
        BY <1>2 DEF TransferAgrees, ChainAgrees, Passed
    <1>4. /\ Pair(t) \subseteq [call : Calls, type : Types, agent : Agent, delta : Int]
          /\ IsFiniteSet(Pair(t))
          /\ \A e \in Pair(t) : e.call = t /\ e.type \in {"sent", "received"}
          /\ Pair(t) # {}
        BY <1>2, <1>3, PairIs
    <1>5. /\ entries' = entries \cup Pair(t) /\ at'[t] = "booked"
          /\ at' \in [Calls -> {"idle", "crashed"} \cup Running \cup Answered]
          /\ UNCHANGED <<mode, arg, available, settlements, chainRecords, onramp, outside>>
        BY <1>1, <1>2 DEF BookTransfer, Goto, TypeOK, Running
    <1>6. StepOf(t) /\ UNCHANGED onramp
        BY <1>1, <1>4, <1>5, <1>2
        DEF BookTransfer, Goto, StepOf, RowsOf, outside, TypeOK
    <1>7. TypeOK'
        BY <1>2, <1>4, <1>5 DEF TypeOK, onramp, outside
    <1>8. TablesFinite' /\ OnrampEntries'
        BY <1>1, <1>4, <1>5, EntriesAdded DEF SettlementsInv, TablesFinite, outside
    <1>9. Booked(t)' /\ HasEntry(t)'
        BY <1>4, <1>5 DEF Booked, Pair, HasEntry
    <1>10. CircleAgrees(t)' /\ TransferAgrees(t)' /\ ChainAgrees(t)'
        BY <1>2, <1>3, <1>5, <1>9
        DEF CircleAgrees, TransferAgrees, ChainAgrees, Passed, outside
    <1> QED
        BY <1>1, <1>6, <1>7, <1>8, <1>10, OwnCall

(* The Circle service's steps, which the handler does not see.             *)
LEMMA CircleStepKeeps ==
    ASSUME SettlementsInv, NEW t \in Transfer, CircleStep(t)
    PROVE  SettlementsInv'
    <1>1. /\ t \notin Credit /\ t \notin Create /\ t \notin Confirm
          /\ t \in Recorded /\ t \in Calls
        BY SettlementsAssumption DEF Recorded, Calls
    <1>2. /\ TypeOK /\ CircleAgrees(t) /\ TransferAgrees(t) /\ ChainAgrees(t)
        BY <1>1 DEF SettlementsInv
    <1>3. /\ UNCHANGED <<mode, at, arg, settled, onramp, chain>>
          /\ moved \subseteq moved' /\ moved' \subseteq moved \cup {t}
          /\ circle[t] \notin {"none", "answered"} /\ circle'[t] # "none"
          /\ circle' \in [Transfer -> {"none", "asked", "checked", "signed", "moved",
                                       "answered", "failed"}]
          /\ \A u \in Transfer \ {t} : circle'[u] = circle[u]
        BY <1>2
        DEF CircleStep, CircleChecks, CircleRefuses, CircleSigns, GatewaySettles,
            CircleAnswers, CircleFails, TypeOK
    <1>4. /\ circle'[t] \in {"moved", "answered"} => t \in moved'
          /\ t \in moved' => circle'[t] \in {"moved", "answered", "failed"}
        BY <1>2
        DEF CircleStep, CircleChecks, CircleRefuses, CircleSigns, GatewaySettles,
            CircleAnswers, CircleFails, TypeOK, CircleAgrees
    <1>5. StepOf(t) /\ UNCHANGED onramp
        BY <1>1, <1>3 DEF StepOf, RowsOf, settled
    <1>6. TypeOK'
        <2>1. gateway' \in [Agent -> Nat]
            <3>1. CASE UNCHANGED gateway
                BY <1>2, <3>1 DEF TypeOK
            <3>2. CASE GatewaySettles(t)
                <4>1. arg[t].amount \in Nat
                    BY <1>1, <1>2 DEF TypeOK
                <4>2. \A b \in Agent : gateway[b] \in Nat
                    BY <1>2 DEF TypeOK
                <4>3. gateway' = [b \in Agent |-> gateway[b]
                                   - (IF b = arg[t].from THEN arg[t].amount ELSE 0)
                                   + (IF b = arg[t].to THEN arg[t].amount ELSE 0)]
                      /\ gateway[arg[t].from] >= arg[t].amount
                    BY <3>2 DEF GatewaySettles
                <4>4. ASSUME NEW b \in Agent
                      PROVE  gateway[b] - (IF b = arg[t].from THEN arg[t].amount ELSE 0)
                                 + (IF b = arg[t].to THEN arg[t].amount ELSE 0) \in Nat
                    BY <4>1, <4>2, <4>3
                <4> QED
                    BY <4>3, <4>4
            <3> QED
                BY <3>1, <3>2
                DEF CircleStep, CircleChecks, CircleRefuses, CircleSigns, CircleAnswers,
                    CircleFails
        <2> QED
            BY <1>2, <1>3, <2>1 DEF TypeOK, settled, onramp
    <1>7. TablesFinite' /\ OnrampEntries'
        <2>1. IsFiniteSet(moved \cup {t})
            BY FS_AddElement DEF SettlementsInv, TablesFinite
        <2>2. IsFiniteSet(moved')
            BY <1>3, <2>1, FS_Subset
        <2> QED
            BY <1>3, <2>2, EntriesStay DEF settled, TablesFinite
    <1>8. /\ HasEntry(t)' <=> HasEntry(t)
          /\ HasRecord(t)' <=> HasRecord(t)
          /\ Booked(t)' <=> Booked(t)
        BY <1>3 DEF settled, HasEntry, HasRecord, Booked, Pair
    <1>9. CircleAgrees(t)' /\ TransferAgrees(t)' /\ ChainAgrees(t)'
        BY <1>2, <1>3, <1>4, <1>8
        DEF CircleAgrees, TransferAgrees, ChainAgrees, Passed, settled
    <1> QED
        BY <1>1, <1>5, <1>6, <1>7, <1>9, OwnCall

-----------------------------------------------------------------------------
(* Credits, and the chain recorder.                                        *)

Row == [call : Calls, type : Types, agent : Agent, delta : Int]
Arg == [from : Agent \cup {None}, to : Agent \cup {None}, amount : Nat, key : Key \cup {None}]

LEMMA AskCreditKeeps ==
    ASSUME SettlementsInv, NEW c \in Credit, AskCredit(c)
    PROVE  SettlementsInv'
    <1>1. /\ c \notin Transfer /\ c \notin Create /\ c \notin Confirm
          /\ c \in Recorded /\ c \in Calls
        BY SettlementsAssumption DEF Recorded, Calls
    <1>2. TypeOK /\ ChainAgrees(c) /\ at[c] = "idle" /\ chain[c] = "none"
        BY <1>1 DEF SettlementsInv, AskCredit, ChainAgrees
    <1>3. UNCHANGED <<mode, settlements, chainRecords, onramp, outside>>
        BY DEF AskCredit
    <1>4. CASE /\ Goto(c, "error")
               /\ UNCHANGED <<arg, available, entries>>
        <2>1. /\ at'[c] = "error"
              /\ at' \in [Calls -> {"idle", "crashed"} \cup Running \cup Answered]
            BY <1>1, <1>2, <1>4 DEF Goto, TypeOK, Answered
        <2>2. StepOf(c) /\ UNCHANGED onramp
            BY <1>1, <1>2, <1>3, <1>4 DEF Goto, StepOf, RowsOf, outside, TypeOK
        <2>3. TypeOK'
            BY <1>2, <1>3, <1>4, <2>1 DEF TypeOK, onramp, outside
        <2>4. TablesFinite' /\ OnrampEntries'
            BY <1>3, <1>4, EntriesStay DEF SettlementsInv, TablesFinite, outside
        <2>5. ChainAgrees(c)' /\ CreditAgrees(c)'
            BY <1>2, <1>3, <2>1 DEF ChainAgrees, CreditAgrees, Passed, outside
        <2> QED
            BY <1>1, <2>2, <2>3, <2>4, <2>5, OwnCall
    <1>5. ASSUME NEW agent \in Agent, NEW amount \in Amounts,
                 amount > 0,
                 Ask(c, None, agent, amount, None),
                 available' = [available EXCEPT ![agent] = @ + amount],
                 entries' = entries \cup {Entry(c, "credit", agent, amount)},
                 Goto(c, "booked")
          PROVE  SettlementsInv'
        <2> DEFINE new == Entry(c, "credit", agent, amount)
        <2>1. amount \in Nat
            BY SettlementsAssumption
        <2>2. new \in Row /\ new.call = c /\ new.type = "credit"
            BY <1>1, <2>1 DEF Entry, Row, Types
        <2>3. entries' = entries \cup {new}
            BY <1>5
        <2> HIDE DEF new
        <2>4. /\ at'[c] = "booked"
              /\ at' \in [Calls -> {"idle", "crashed"} \cup Running \cup Answered]
            BY <1>1, <1>2, <1>5 DEF Goto, TypeOK, Running
        <2>5. StepOf(c) /\ UNCHANGED onramp
            BY <1>1, <1>2, <1>3, <1>5, <2>2, <2>3 DEF Goto, Ask, StepOf, RowsOf, outside, TypeOK
        <2>6. arg' \in [Calls -> Arg]
            <3>1. [from |-> None, to |-> agent, amount |-> amount, key |-> None] \in Arg
                BY <2>1 DEF Arg
            <3> QED
                BY <1>1, <1>2, <1>5, <3>1 DEF Ask, TypeOK, Arg
        <2>7. available' \in [Agent -> Nat]
            BY <1>2, <1>5, <2>1 DEF TypeOK
        <2>8. entries' \subseteq Row
            BY <1>2, <2>2, <2>3 DEF TypeOK, Row
        <2>9. TypeOK'
            BY <1>2, <1>3, <2>4, <2>6, <2>7, <2>8 DEF TypeOK, Row, Arg, onramp, outside
        <2>10. TablesFinite' /\ OnrampEntries'
            <3>1. IsFiniteSet({new})
                BY FS_Singleton
            <3>2. OnrampEntries' /\ IsFiniteSet(entries)'
                BY <1>1, <2>2, <2>3, <3>1, EntriesAdded
            <3> QED
                BY <1>3, <3>2 DEF SettlementsInv, TablesFinite, outside
        <2>11. HasEntry(c)'
            BY <2>2, <2>3 DEF HasEntry
        <2>12. ChainAgrees(c)' /\ CreditAgrees(c)'
            BY <1>2, <1>3, <2>4, <2>11 DEF ChainAgrees, CreditAgrees, Passed, outside
        <2> QED
            BY <1>1, <2>5, <2>9, <2>10, <2>12, OwnCall
    <1> QED
        BY <1>4, <1>5 DEF AskCredit

(* What a call that has got as far as the recorder has written.            *)
LEMMA RecorderFacts ==
    ASSUME SettlementsInv, NEW c \in Recorded
    PROVE  /\ c \in Calls /\ c \notin Create /\ c \notin Confirm
           /\ ChainAgrees(c)
           /\ at[c] \in {"booked", "recording", "ok"} => HasEntry(c)
    <1>1. c \in Calls /\ c \notin Create /\ c \notin Confirm /\ ChainAgrees(c)
        BY SettlementsAssumption DEF Recorded, Calls, SettlementsInv
    <1>2. CASE c \in Transfer
        <2>1. TransferAgrees(c) /\ TypeOK /\ CircleAgrees(c)
            BY <1>2 DEF SettlementsInv
        <2>2. ASSUME at[c] \in {"booked", "recording", "ok"} PROVE HasEntry(c)
            <3>1. Booked(c) /\ circle[c] # "none"
                BY <2>1, <2>2 DEF TransferAgrees, Passed
            <3>2. Pair(c) # {} /\ \A e \in Pair(c) : e.call = c
                BY <1>2, <2>1, <3>1, PairIs
            <3> QED
                BY <3>1, <3>2 DEF Booked, HasEntry
        <2> QED
            BY <1>1, <2>2
    <1>3. CASE c \in Credit
        BY <1>1, <1>3 DEF SettlementsInv, CreditAgrees, Passed
    <1> QED
        BY <1>2, <1>3 DEF Recorded

(* A step that moves c on, or its execution request, or its chain record.  *)
LEMMA RecorderKeeps ==
    ASSUME SettlementsInv, NEW c \in Recorded, RecorderStep(c)
    PROVE  SettlementsInv'
    <1>1. /\ c \in Calls /\ c \notin Create /\ c \notin Confirm /\ ChainAgrees(c)
          /\ at[c] \in {"booked", "recording"} => HasEntry(c)
        BY RecorderFacts
    <1>2. TypeOK
        BY DEF SettlementsInv
    <1>3. /\ UNCHANGED <<mode, arg, entries, available, settlements, onramp, circle,
                         gateway, moved>>
          /\ chainRecords \subseteq chainRecords'
          /\ \A d \in Recorded \ {c} : chain'[d] = chain[d]
          /\ \A d \in Calls \ {c} : at'[d] = at[d]
        BY <1>1, <1>2
        DEF RecorderStep, AskRecorder, ChainExecutes, Record, RecordFails, Goto, settled,
            outside, TypeOK
    <1>4. /\ at' \in [Calls -> {"idle", "crashed"} \cup Running \cup Answered]
          /\ chain' \in [Recorded -> {"none", "asked", "executed"}]
          /\ chainRecords' \subseteq [call : Recorded, status : {"submitted", "failed"}]
        <2>1. CASE AskRecorder(c) \/ ChainExecutes(c)
            BY <1>1, <1>2, <2>1
            DEF AskRecorder, ChainExecutes, Goto, settled, TypeOK, Running, Answered
        <2>2. CASE Record(c) \/ RecordFails(c)
            <3>1. \A status \in {"submitted", "failed"} :
                      [call |-> c, status |-> status]
                          \in [call : Recorded, status : {"submitted", "failed"}]
                OBVIOUS
            <3>2. PICK stage \in {"ok", "error"} : Goto(c, stage)
                BY <2>2 DEF Record, RecordFails
            <3>3. at' \in [Calls -> {"idle", "crashed"} \cup Running \cup Answered]
                BY <1>2, <3>2 DEF Goto, TypeOK, Answered
            <3>4. \/ chainRecords' = chainRecords
                  \/ \E status \in {"submitted", "failed"} :
                        chainRecords' = chainRecords \cup {[call |-> c, status |-> status]}
                BY <2>2 DEF Record, RecordFails
            <3>5. chainRecords' \subseteq [call : Recorded, status : {"submitted", "failed"}]
                BY <1>2, <3>1, <3>4 DEF TypeOK
            <3> QED
                BY <1>2, <2>2, <3>3, <3>5 DEF Record, RecordFails, outside, TypeOK
        <2> QED
            BY <2>1, <2>2 DEF RecorderStep
    <1>5. StepOf(c) /\ UNCHANGED onramp
        BY <1>3 DEF StepOf, RowsOf
    <1>6. TypeOK'
        BY <1>2, <1>3, <1>4 DEF TypeOK, onramp
    <1>7. TablesFinite' /\ OnrampEntries'
        BY <1>3, EntriesStay DEF SettlementsInv, TablesFinite
    <1>8. HasEntry(c)' <=> HasEntry(c)
        BY <1>3 DEF HasEntry
    <1>9. ChainAgrees(c)'
        <2>1. CASE AskRecorder(c)
            BY <1>1, <1>2, <1>8, <2>1 DEF AskRecorder, Goto, settled, ChainAgrees, TypeOK
        <2>2. CASE ChainExecutes(c)
            BY <1>1, <1>2, <1>8, <2>2 DEF ChainExecutes, settled, ChainAgrees, TypeOK
        <2>3. CASE Record(c) \/ RecordFails(c)
            <3>1. PICK status \in {"submitted", "failed"} :
                    /\ mode.record = "required" => status = "submitted"
                    /\ at'[c] = "ok" => chainRecords' =
                          chainRecords \cup {[call |-> c, status |-> status]}
                    /\ at'[c] \in {"ok", "error"}
                BY <1>1, <1>2, <2>3 DEF Record, RecordFails, Goto, TypeOK
            <3>2. [call |-> c, status |-> status].call = c
                OBVIOUS
            <3>3. chain' = chain /\ mode' = mode
                BY <2>3 DEF Record, RecordFails, outside
            <3> QED
                BY <1>1, <1>8, <3>1, <3>2, <3>3 DEF ChainAgrees
        <2> QED
            BY <2>1, <2>2, <2>3 DEF RecorderStep
    <1>10. ASSUME c \in Credit PROVE CreditAgrees(c)'
        <2>1. CreditAgrees(c)
            BY <1>10 DEF SettlementsInv
        <2> QED
            BY <1>1, <1>2, <1>8, <2>1
            DEF CreditAgrees, Passed, RecorderStep, AskRecorder, ChainExecutes, Record,
                RecordFails, Goto, TypeOK
    <1>11. ASSUME c \in Transfer PROVE CircleAgrees(c)' /\ TransferAgrees(c)'
        <2>1. /\ CircleAgrees(c) /\ TransferAgrees(c)
              /\ HasRecord(c)' <=> HasRecord(c)
              /\ Booked(c)' <=> Booked(c)
            BY <1>3, <1>11 DEF SettlementsInv, HasRecord, Booked, Pair
        <2>2. \/ at'[c] = at[c]
              \/ /\ at[c] \in {"booked", "recording"}
                 /\ at'[c] \in {"recording", "ok", "error"}
            BY <1>1, <1>2
            DEF RecorderStep, AskRecorder, ChainExecutes, Record, RecordFails, Goto, TypeOK
        <2>3. CircleAgrees(c)'
            BY <1>3, <2>1, <2>2 DEF CircleAgrees
        <2>4. at[c] \in Passed => HasRecord(c)
            BY <2>1 DEF TransferAgrees, HasRecord
        <2>5. TransferAgrees(c)'
            BY <1>3, <1>8, <2>1, <2>2, <2>4 DEF TransferAgrees, Passed
        <2> QED
            BY <2>3, <2>5
    <1> QED
        BY <1>1, <1>5, <1>6, <1>7, <1>9, <1>10, <1>11, OwnCall

-----------------------------------------------------------------------------
(* Onramp sessions.                                                        *)

LEMMA CreateFacts ==
    ASSUME SettlementsInv, NEW c \in Create
    PROVE  /\ c \in Calls /\ c \notin Transfer /\ c \notin Recorded /\ c \notin Confirm
           /\ c \notin Credit
           /\ CreateAgrees(c) /\ SessionAgrees(c)
           /\ session[c].entry \in Confirm \cup {None}
           /\ session[c].entry \in Confirm => session[c].status = "credited"
    <1>1. /\ c \in Calls /\ c \notin Transfer /\ c \notin Recorded /\ c \notin Confirm
          /\ c \notin Credit /\ CreateAgrees(c) /\ SessionAgrees(c)
        BY SettlementsAssumption DEF Recorded, Calls, SettlementsInv
    <1>2. /\ session[c].entry \in Confirm \cup {None}
          /\ session[c].status \in {"none", "created", "credited"}
        BY DEF SettlementsInv, TypeOK
    <1>3. None \notin Confirm
        BY SettlementsAssumption DEF Calls
    <1>4. session[c].status = "none" => session[c].entry = None
        BY <1>1 DEF CreateAgrees, NoSession
    <1> QED
        BY <1>1, <1>2, <1>3, <1>4 DEF SessionAgrees

(* A step of a creation that leaves sessions and entries as they were.     *)
LEMMA CreationKeeps ==
    ASSUME SettlementsInv, NEW c \in Create, StepOf(c),
           UNCHANGED <<entries, moved, session, events>>,
           \A d \in Create \ {c} : got'[d] = got[d],
           TypeOK', CreateAgrees(c)'
    PROVE  SettlementsInv'
    <1>1. /\ c \in Calls /\ c \notin Transfer /\ c \notin Recorded /\ c \notin Confirm
          /\ c \notin Credit
        BY CreateFacts
    <1>2. OthersAgree(c)'
        BY OthersKept
    <1>3. TablesFinite' /\ OnrampEntries'
        BY EntriesStay DEF SettlementsInv, TablesFinite
    <1>4. ASSUME NEW d \in Create PROVE CreateAgrees(d)' /\ SessionAgrees(d)'
        <2>1. CASE d = c
            BY <2>1 DEF SettlementsInv, SessionAgrees
        <2>2. CASE d # c
            <3>1. at'[d] = at[d] /\ arg'[d] = arg[d] /\ got'[d] = got[d]
                BY <2>2 DEF StepOf, Calls
            <3> QED
                BY <3>1 DEF SettlementsInv, CreateAgrees, SessionAgrees
        <2> QED
            BY <2>1, <2>2
    <1>5. KeysUnique' /\ EntriesUnique'
        BY DEF SettlementsInv, KeysUnique, EntriesUnique
    <1> QED
        BY <1>1, <1>2, <1>3, <1>4, <1>5 DEF SettlementsInv, OthersAgree

LEMMA AskSessionKeeps ==
    ASSUME SettlementsInv, NEW c \in Create, AskSession(c)
    PROVE  SettlementsInv'
    <1>1. /\ c \in Calls /\ CreateAgrees(c) /\ TypeOK /\ at[c] = "idle"
          /\ session[c].status = "none" /\ got[c] = None
        BY CreateFacts DEF SettlementsInv, AskSession, CreateAgrees
    <1>2. PICK key \in Key, agent \in Agent :
            /\ Ask(c, None, agent, 0, key)
            /\ \/ \E s \in WithKey(key) :
                    /\ got' = [got EXCEPT ![c] = s]
                    /\ Goto(c, "ok")
               \/ /\ WithKey(key) = {}
                  /\ Goto(c, "tokening")
                  /\ UNCHANGED got
        BY DEF AskSession
    <1>3. /\ UNCHANGED <<mode, settled, session, events, outside>>
          /\ UNCHANGED <<entries, moved, session, events>>
        BY DEF AskSession, settled, outside
    <1>4. /\ arg' \in [Calls -> Arg]
          /\ arg'[c].key = key /\ arg'[c].to = agent
          /\ \A d \in Calls \ {c} : arg'[d] = arg[d]
        <2>1. [from |-> None, to |-> agent, amount |-> 0, key |-> key] \in Arg
            BY DEF Arg
        <2> QED
            BY <1>1, <1>2, <2>1 DEF Ask, TypeOK, Arg
    <1>5. /\ at' \in [Calls -> {"idle", "crashed"} \cup Running \cup Answered]
          /\ \A d \in Calls \ {c} : at'[d] = at[d]
        BY <1>1, <1>2 DEF Goto, TypeOK, Running, Answered
    <1>6. \/ /\ at'[c] = "tokening" /\ UNCHANGED got
          \/ /\ at'[c] = "ok"
             /\ \E s \in WithKey(key) : got' = [got EXCEPT ![c] = s]
        BY <1>1, <1>2 DEF Goto, TypeOK
    <1>7. got' \in [Create -> Create \cup {None}]
        BY <1>1, <1>6 DEF TypeOK, WithKey
    <1>8. TypeOK'
        BY <1>1, <1>3, <1>4, <1>5, <1>7 DEF TypeOK, Arg, settled, outside
    <1>9. StepOf(c)
        BY <1>3, <1>4, <1>5 DEF StepOf, RowsOf, settled, outside
    <1>10. \A d \in Create \ {c} : got'[d] = got[d]
        BY <1>1, <1>6 DEF TypeOK
    <1>11. CreateAgrees(c)'
        <2>1. CASE at'[c] = "tokening" /\ UNCHANGED got
            BY <1>1, <1>3, <1>4, <2>1 DEF CreateAgrees
        <2>2. CASE /\ at'[c] = "ok"
                   /\ \E s \in WithKey(key) : got' = [got EXCEPT ![c] = s]
            <3>1. PICK s \in Create : /\ session[s].status # "none" /\ session[s].key = key
                                      /\ got'[c] = s
                BY <1>1, <2>2 DEF WithKey, TypeOK
            <3> QED
                BY <1>1, <1>2, <1>3, <1>4, <2>2, <3>1 DEF CreateAgrees
        <2> QED
            BY <1>6, <2>1, <2>2
    <1> QED
        BY <1>3, <1>8, <1>9, <1>10, <1>11, CreationKeeps

LEMMA TokenRefusedKeeps ==
    ASSUME SettlementsInv, NEW c \in Create, TokenRefused(c)
    PROVE  SettlementsInv'
    <1>1. /\ c \in Calls /\ CreateAgrees(c) /\ TypeOK /\ at[c] = "tokening"
        BY CreateFacts DEF SettlementsInv, TokenRefused
    <1>2. /\ UNCHANGED <<mode, arg, settled, onramp, outside>>
          /\ UNCHANGED <<entries, moved, session, events, got, arg>>
        BY DEF TokenRefused, settled, onramp, outside
    <1>3. /\ at' \in [Calls -> {"idle", "crashed"} \cup Running \cup Answered]
          /\ \A d \in Calls \ {c} : at'[d] = at[d]
          /\ at'[c] = "error"
        BY <1>1 DEF TokenRefused, Goto, TypeOK, Answered
    <1>4. StepOf(c)
        BY <1>2, <1>3 DEF StepOf, RowsOf, settled, outside
    <1>5. TypeOK'
        BY <1>1, <1>2, <1>3 DEF TypeOK, settled, onramp, outside
    <1>6. CreateAgrees(c)'
        BY <1>1, <1>2, <1>3 DEF CreateAgrees
    <1> QED
        BY <1>2, <1>4, <1>5, <1>6, CreationKeeps

Session == [agent : Agent \cup {None}, key : Key \cup {None},
            status : {"none", "created", "credited"}, entry : Confirm \cup {None}]

LEMMA AddSessionKeeps ==
    ASSUME SettlementsInv, NEW c \in Create, AddSession(c)
    PROVE  SettlementsInv'
    <1>1. /\ c \in Calls /\ c \notin Transfer /\ c \notin Recorded /\ c \notin Confirm
          /\ c \notin Credit
          /\ CreateAgrees(c) /\ TypeOK /\ at[c] = "tokening"
          /\ session[c].status = "none" /\ session[c] = NoSession /\ got[c] = None
          /\ arg[c].key \in Key /\ arg[c].to \in Agent
        BY CreateFacts DEF SettlementsInv, AddSession, CreateAgrees
    <1>2. /\ UNCHANGED <<mode, arg, settled, outside>>
          /\ UNCHANGED <<entries, moved, arg>>
        BY DEF AddSession, settled, outside
    <1>3. /\ at' \in [Calls -> {"idle", "crashed"} \cup Running \cup Answered]
          /\ \A d \in Calls \ {c} : at'[d] = at[d]
          /\ at'[c] = "ok"
        BY <1>1 DEF AddSession, Goto, TypeOK, Answered
    <1>4. StepOf(c)
        BY <1>2, <1>3 DEF StepOf, RowsOf, settled, outside
    <1>5. CASE \E s \in WithKey(arg[c].key) :
                 /\ got' = [got EXCEPT ![c] = s]
                 /\ UNCHANGED <<session, events>>
        <2>1. PICK s \in Create : /\ session[s].status # "none"
                                  /\ session[s].key = arg[c].key
                                  /\ got' = [got EXCEPT ![c] = s]
            BY <1>5 DEF WithKey
        <2>2. /\ got' \in [Create -> Create \cup {None}] /\ got'[c] = s
              /\ \A d \in Create \ {c} : got'[d] = got[d]
            BY <1>1, <2>1 DEF TypeOK
        <2>3. TypeOK'
            BY <1>1, <1>2, <1>3, <1>5, <2>2 DEF TypeOK, settled, outside
        <2>4. CreateAgrees(c)'
            BY <1>1, <1>2, <1>3, <1>5, <2>1, <2>2 DEF CreateAgrees
        <2> QED
            BY <1>2, <1>4, <1>5, <2>2, <2>3, <2>4, CreationKeeps
    <1>6. CASE /\ WithKey(arg[c].key) = {}
               /\ session' = [session EXCEPT ![c] =
                    [agent |-> arg[c].to, key |-> arg[c].key,
                     status |-> "created", entry |-> None]]
               /\ events' = [events EXCEPT ![c].created = @ + 1]
               /\ got' = [got EXCEPT ![c] = c]
        <2> DEFINE new == [agent |-> arg[c].to, key |-> arg[c].key,
                           status |-> "created", entry |-> None]
        <2>1. new \in Session /\ new.agent = arg[c].to /\ new.key = arg[c].key
              /\ new.status = "created" /\ new.entry = None
            BY <1>1 DEF Session
        <2>2. session' = [session EXCEPT ![c] = new]
            BY <1>6
        <2> HIDE DEF new
        <2>3. /\ session' \in [Create -> Session] /\ session'[c] = new
              /\ \A d \in Create \ {c} : session'[d] = session[d]
            BY <1>1, <2>1, <2>2 DEF TypeOK, Session
        <2>4. /\ events' \in [Create -> [created : Nat, credited : Nat]]
              /\ events'[c].created = 1 /\ events'[c].credited = 0
              /\ \A d \in Create \ {c} : events'[d] = events[d]
            BY <1>1, <1>6 DEF TypeOK, CreateAgrees
        <2>5. /\ got' \in [Create -> Create \cup {None}] /\ got'[c] = c
              /\ \A d \in Create \ {c} : got'[d] = got[d]
            BY <1>1, <1>6 DEF TypeOK
        <2>6. TypeOK'
            BY <1>1, <1>2, <1>3, <2>3, <2>4, <2>5 DEF TypeOK, Session, settled, outside
        <2>7. CreateAgrees(c)'
            BY <1>1, <1>2, <1>3, <2>1, <2>3, <2>4, <2>5 DEF CreateAgrees
        <2>8. ASSUME NEW d \in Create, d # c PROVE CreateAgrees(d)'
            <3>1. CreateAgrees(d)
                BY DEF SettlementsInv
            <3>2. /\ at'[d] = at[d] /\ arg'[d] = arg[d] /\ got'[d] = got[d]
                  /\ session'[d] = session[d] /\ events'[d] = events[d]
                BY <1>2, <1>3, <2>3, <2>4, <2>5, <2>8 DEF Calls
            <3>3. got[d] # None => session'[got[d]] = session[got[d]]
                <4>1. got[d] # None => got[d] \in Create /\ got[d] # c
                    BY <1>1, <3>1 DEF CreateAgrees, TypeOK
                <4> QED
                    BY <2>3, <4>1
            <3> QED
                BY <3>1, <3>2, <3>3 DEF CreateAgrees
        <2>9. ASSUME NEW s \in Create PROVE SessionAgrees(s)'
            BY <1>2, <2>1, <2>3 DEF SettlementsInv, SessionAgrees
        <2>10. \A f \in Confirm : ConfirmAgrees(f)'
            <3> SUFFICES ASSUME NEW f \in Confirm PROVE ConfirmAgrees(f)'
                OBVIOUS
            <3>1. f \in Calls /\ f # c /\ f # None /\ ConfirmAgrees(f)
                BY <1>1, SettlementsAssumption DEF Calls, SettlementsInv
            <3>2. /\ at'[f] = at[f]
                  /\ HasEntry(f)' <=> HasEntry(f)
                BY <1>2, <1>3, <3>1 DEF HasEntry
            <3>3. HasEntry(f) => \E s \in Create : session'[s].entry = f
                <4>1. session[c].entry = None
                    BY <1>1 DEF NoSession
                <4> QED
                    BY <2>3, <3>1, <4>1 DEF ConfirmAgrees
            <3> QED
                BY <3>1, <3>2, <3>3 DEF ConfirmAgrees
        <2>11. KeysUnique'
            <3>1. \A d \in Create \ {c} : session[d].key # arg[c].key
                <4>1. ASSUME NEW d \in Create \ {c}, session[d].status = "none"
                      PROVE  session[d].key = None
                    BY <4>1 DEF SettlementsInv, CreateAgrees, NoSession
                <4>2. None \notin Key
                    BY SettlementsAssumption
                <4>3. \A d \in Create : session[d].status # "none" =>
                                            session[d].key # arg[c].key
                    BY <1>6 DEF WithKey
                <4> QED
                    BY <1>1, <4>1, <4>2, <4>3
            <3> QED
                BY <2>1, <2>3, <3>1 DEF SettlementsInv, KeysUnique
        <2>12. EntriesUnique'
            BY <2>1, <2>3 DEF SettlementsInv, EntriesUnique
        <2>13. TablesFinite' /\ OnrampEntries'
            BY <1>2, EntriesStay DEF SettlementsInv, TablesFinite
        <2>14. /\ \A t \in Transfer : CircleAgrees(t)' /\ TransferAgrees(t)'
               /\ \A d \in Recorded : ChainAgrees(d)'
               /\ \A d \in Credit : CreditAgrees(d)'
            <3>1. ASSUME NEW t \in Transfer PROVE CircleAgrees(t)' /\ TransferAgrees(t)'
                BY <1>1, <1>4, <3>1, TransferKept DEF SettlementsInv
            <3>2. ASSUME NEW d \in Recorded PROVE ChainAgrees(d)'
                BY <1>1, <1>4, <3>2, ChainKept DEF SettlementsInv
            <3>3. ASSUME NEW d \in Credit PROVE CreditAgrees(d)'
                <4>1. d \in Calls /\ d # c /\ RowsOf(c) /\ CreditAgrees(d)
                    BY <1>1, <1>4 DEF Calls, StepOf, SettlementsInv
                <4> QED
                    BY <1>3, <4>1, HasEntryKept DEF CreditAgrees
            <3> QED
                BY <3>1, <3>2, <3>3
        <2> QED
            BY <2>6, <2>7, <2>8, <2>9, <2>10, <2>11, <2>12, <2>13, <2>14
            DEF SettlementsInv
    <1> QED
        BY <1>5, <1>6 DEF AddSession

LEMMA ConfirmKeeps ==
    ASSUME SettlementsInv, NEW f \in Confirm, ConfirmSession(f)
    PROVE  SettlementsInv'
    <1>1. /\ f \in Calls /\ f # None
          /\ f \notin Transfer /\ f \notin Recorded /\ f \notin Create /\ f \notin Credit
          /\ TypeOK /\ at[f] = "idle" /\ ConfirmAgrees(f) /\ ~HasEntry(f)
        BY SettlementsAssumption
        DEF Calls, Recorded, SettlementsInv, ConfirmSession, ConfirmAgrees
    <1>2. /\ UNCHANGED <<mode, arg, settlements, chainRecords, got, outside>>
          /\ UNCHANGED <<moved, circle, chain>>
        BY DEF ConfirmSession, outside
    <1>3. /\ at' \in [Calls -> {"idle", "crashed"} \cup Running \cup Answered]
          /\ \A d \in Calls \ {f} : at'[d] = at[d]
          /\ at'[f] \in Answered
        BY <1>1 DEF ConfirmSession, Goto, TypeOK, Answered
    <1>4. CASE UNCHANGED <<available, entries, session, events>>
        <2>1. StepOf(f) /\ UNCHANGED onramp
            BY <1>2, <1>3, <1>4 DEF StepOf, RowsOf, onramp
        <2>2. TypeOK'
            BY <1>1, <1>2, <1>3, <1>4 DEF TypeOK, outside
        <2>3. TablesFinite' /\ OnrampEntries'
            BY <1>2, <1>4, EntriesStay DEF SettlementsInv, TablesFinite
        <2>4. ConfirmAgrees(f)'
            BY <1>1, <1>3, <1>4 DEF ConfirmAgrees, HasEntry, Answered
        <2> QED
            BY <1>1, <2>1, <2>2, <2>3, <2>4, OwnCall
    <1>5. ASSUME NEW s \in Create, NEW amount \in Amounts, amount > 0,
                 session[s].status = "created", CreditSession(f, s, amount)
          PROVE  SettlementsInv'
        <2> DEFINE agent == session[s].agent
                   new == Entry(f, "onramp", agent, amount)
        <2>1. /\ s \in Calls /\ s # f /\ s \notin Confirm /\ CreateAgrees(s)
              /\ SessionAgrees(s) /\ session[s].entry = None
              /\ agent \in Agent /\ amount \in Nat
            BY <1>1, <1>5, CreateFacts, SettlementsAssumption
            DEF CreateAgrees, SessionAgrees
        <2>2. new \in Row /\ new.call = f /\ new.type = "onramp" /\ new.agent = agent
            BY <1>1, <2>1 DEF Entry, Row, Types
        <2>3. /\ entries' = entries \cup {new}
              /\ available' = [available EXCEPT ![agent] = @ + amount]
              /\ session' = [session EXCEPT ![s].status = "credited", ![s].entry = f]
              /\ events' = [events EXCEPT ![s].credited = @ + 1]
            BY <1>5 DEF CreditSession
        <2> HIDE DEF new, agent
        <2>4. /\ session' \in [Create -> Session]
              /\ session'[s].status = "credited" /\ session'[s].entry = f
              /\ session'[s].key = session[s].key /\ session'[s].agent = agent
              /\ \A r \in Create \ {s} : session'[r] = session[r]
            BY <1>1, <2>1, <2>3 DEF TypeOK, Session, agent
        <2>5. /\ events' \in [Create -> [created : Nat, credited : Nat]]
              /\ events'[s].created = 1 /\ events'[s].credited = 1
              /\ \A r \in Create \ {s} : events'[r] = events[r]
            BY <1>1, <1>5, <2>1, <2>3 DEF TypeOK, CreateAgrees
        <2>6. available' \in [Agent -> Nat] /\ entries' \subseteq Row
            BY <1>1, <2>1, <2>2, <2>3 DEF TypeOK, Row
        <2>7. TypeOK'
            BY <1>1, <1>2, <1>3, <2>4, <2>5, <2>6 DEF TypeOK, Session, Row, outside
        <2>8. StepOf(f)
            BY <1>2, <1>3, <2>2, <2>3 DEF StepOf, RowsOf
        <2>9. ASSUME NEW d \in Create PROVE CreateAgrees(d)'
            <3>1. CreateAgrees(d) /\ d \in Calls /\ d # f
                BY <1>1 DEF SettlementsInv, Calls
            <3>2. at'[d] = at[d] /\ arg'[d] = arg[d] /\ got'[d] = got[d]
                BY <1>2, <1>3, <3>1
            <3>3. got[d] # None => got[d] \in Create
                BY <1>1 DEF TypeOK
            <3>4. \A r \in Create : /\ session'[r].key = session[r].key
                                    /\ session'[r].agent = session[r].agent
                                    /\ session[r].status # "none" <=> session'[r].status # "none"
                                    /\ r # s => session'[r] = session[r]
                BY <1>5, <2>4 DEF agent
            <3>5. /\ events'[d].created = IF session'[d].status = "none" THEN 0 ELSE 1
                  /\ events'[d].credited = IF session'[d].status = "credited" THEN 1 ELSE 0
                BY <2>4, <2>5, <3>1 DEF CreateAgrees
            <3> QED
                BY <1>5, <3>1, <3>2, <3>3, <3>4, <3>5 DEF CreateAgrees
        <2>10. ASSUME NEW r \in Create PROVE SessionAgrees(r)'
            <3>1. SessionAgrees(r)
                BY DEF SettlementsInv
            <3>2. CASE r = s
                BY <2>2, <2>3, <2>4, <3>2 DEF SessionAgrees
            <3>3. CASE r # s
                BY <2>3, <2>4, <3>1, <3>3 DEF SessionAgrees
            <3> QED
                BY <3>2, <3>3
        <2>11. ASSUME NEW g \in Confirm PROVE ConfirmAgrees(g)'
            <3>1. ConfirmAgrees(g) /\ g \in Calls /\ g # None
                BY SettlementsAssumption DEF SettlementsInv, Calls
            <3>2. CASE g = f
                BY <1>3, <2>4, <3>2 DEF ConfirmAgrees, Answered
            <3>3. CASE g # f
                <4>1. HasEntry(g)' <=> HasEntry(g)
                    BY <2>8, <3>3, HasEntryKept DEF StepOf
                <4>2. HasEntry(g) => \E r \in Create : session'[r].entry = g
                    BY <2>1, <2>4, <3>1 DEF ConfirmAgrees
                <4> QED
                    BY <1>3, <3>1, <3>3, <4>1, <4>2 DEF ConfirmAgrees
            <3> QED
                BY <3>2, <3>3
        <2>12. KeysUnique'
            <3>1. \A r \in Create : session'[r].key = session[r].key
                BY <2>4
            <3>2. \A r \in Create : session'[r].status # "none" => session[r].status # "none"
                BY <1>5, <2>4
            <3> QED
                BY <3>1, <3>2 DEF SettlementsInv, KeysUnique
        <2>13. EntriesUnique'
            <3>1. ASSUME NEW r \in Create \ {s} PROVE session[r].entry # f
                <4>1. SUFFICES ASSUME session[r].entry = f PROVE FALSE
                    OBVIOUS
                <4>2. session[r].status = "credited" /\ SessionAgrees(r)
                    BY <4>1, CreateFacts
                <4> QED
                    BY <1>1, <4>1, <4>2 DEF SessionAgrees, HasEntry
            <3> QED
                BY <2>4, <3>1 DEF SettlementsInv, EntriesUnique
        <2>14. TablesFinite' /\ OnrampEntries'
            <3>1. IsFiniteSet(entries \cup {new})
                BY FS_AddElement DEF SettlementsInv, TablesFinite
            <3>2. \A e \in entries : e.call # f
                BY <1>1 DEF HasEntry
            <3>3. OnrampEntries'
                BY <2>2, <2>3, <3>2 DEF SettlementsInv, OnrampEntries
            <3> QED
                BY <1>2, <2>3, <3>1, <3>3 DEF SettlementsInv, TablesFinite
        <2>15. /\ \A t \in Transfer : CircleAgrees(t)' /\ TransferAgrees(t)'
               /\ \A d \in Recorded : ChainAgrees(d)'
               /\ \A d \in Credit : CreditAgrees(d)'
            <3>1. ASSUME NEW t \in Transfer PROVE CircleAgrees(t)' /\ TransferAgrees(t)'
                BY <1>1, <2>8, <3>1, TransferKept DEF SettlementsInv
            <3>2. ASSUME NEW d \in Recorded PROVE ChainAgrees(d)'
                BY <1>1, <2>8, <3>2, ChainKept DEF SettlementsInv
            <3>3. ASSUME NEW d \in Credit PROVE CreditAgrees(d)'
                <4>1. d \in Calls /\ d # f /\ RowsOf(f) /\ CreditAgrees(d)
                    BY <1>1, <2>8 DEF Calls, StepOf, SettlementsInv
                <4> QED
                    BY <1>3, <4>1, HasEntryKept DEF CreditAgrees
            <3> QED
                BY <3>1, <3>2, <3>3
        <2> QED
            BY <2>7, <2>9, <2>10, <2>11, <2>12, <2>13, <2>14, <2>15 DEF SettlementsInv
    <1> QED
        BY <1>4, <1>5 DEF ConfirmSession

-----------------------------------------------------------------------------
(* Restarts, and steps that change nothing.                                *)

LEMMA CrashKeeps ==
    ASSUME SettlementsInv, Crash
    PROVE  SettlementsInv'
    <1>1. /\ TypeOK
          /\ at' = [c \in Calls |-> IF at[c] \in Running THEN "crashed" ELSE at[c]]
          /\ UNCHANGED <<mode, arg, settled, onramp, outside>>
        BY DEF SettlementsInv, Crash
    <1>2. /\ UNCHANGED <<mode, arg, entries, available, settlements, chainRecords>>
          /\ UNCHANGED <<session, events, got, circle, gateway, moved, chain>>
        BY <1>1 DEF settled, onramp, outside
    <1>3. /\ at' \in [Calls -> {"idle", "crashed"} \cup Running \cup Answered]
          /\ \A c \in Calls : at'[c] = at[c] \/ (at[c] \in Running /\ at'[c] = "crashed")
        BY <1>1 DEF TypeOK, Running, Answered
    <1>4. TypeOK'
        BY <1>2, <1>3 DEF SettlementsInv, TypeOK
    <1>5. /\ \A c : (HasEntry(c)' <=> HasEntry(c)) /\ (HasRecord(c)' <=> HasRecord(c))
          /\ \A t \in Transfer : Booked(t)' <=> Booked(t)
        BY <1>2 DEF HasEntry, HasRecord, Booked, Pair
    <1>6. ASSUME NEW t \in Transfer PROVE CircleAgrees(t)' /\ TransferAgrees(t)'
        <2>1. /\ CircleAgrees(t) /\ TransferAgrees(t)
              /\ at'[t] = at[t] \/ (at[t] \in Running /\ at'[t] = "crashed")
            BY <1>3 DEF SettlementsInv, Calls
        <2>2. CircleAgrees(t)'
            BY <1>2, <2>1 DEF CircleAgrees, Running
        <2>3. TransferAgrees(t)'
            BY <1>2, <1>5, <2>1 DEF TransferAgrees, Running, Passed
        <2> QED
            BY <2>2, <2>3
    <1>7. ASSUME NEW c \in Recorded PROVE ChainAgrees(c)'
        BY <1>2, <1>3, <1>5 DEF SettlementsInv, ChainAgrees, Running, Calls, Recorded
    <1>8. ASSUME NEW c \in Credit PROVE CreditAgrees(c)'
        BY <1>2, <1>3, <1>5 DEF SettlementsInv, CreditAgrees, Running, Passed, Calls
    <1>9. ASSUME NEW c \in Create PROVE CreateAgrees(c)' /\ SessionAgrees(c)'
        <2>1. /\ CreateAgrees(c) /\ SessionAgrees(c)
              /\ at'[c] = at[c] \/ (at[c] \in Running /\ at'[c] = "crashed")
            BY <1>3 DEF SettlementsInv, Calls
        <2> QED
            BY <1>2, <2>1 DEF CreateAgrees, SessionAgrees, Running
    <1>10. ASSUME NEW f \in Confirm PROVE ConfirmAgrees(f)'
        BY <1>2, <1>3, <1>5 DEF SettlementsInv, ConfirmAgrees, Running, Answered, Calls
    <1>11. KeysUnique' /\ OnrampEntries' /\ EntriesUnique' /\ TablesFinite'
        BY <1>2
        DEF SettlementsInv, KeysUnique, OnrampEntries, EntriesUnique, TablesFinite
    <1> QED
        BY <1>4, <1>6, <1>7, <1>8, <1>9, <1>10, <1>11 DEF SettlementsInv

LEMMA StutterKeeps ==
    ASSUME SettlementsInv, UNCHANGED vars
    PROVE  SettlementsInv'
    <1>1. /\ UNCHANGED <<mode, at, arg, entries, available, settlements, chainRecords>>
          /\ UNCHANGED <<session, events, got, circle, gateway, moved, chain>>
        BY DEF vars, settled, onramp, outside
    <1>2. TypeOK'
        BY <1>1 DEF SettlementsInv, TypeOK
    <1>3. /\ \A c : (HasEntry(c)' <=> HasEntry(c)) /\ (HasRecord(c)' <=> HasRecord(c))
          /\ \A t \in Transfer : Booked(t)' <=> Booked(t)
        BY <1>1 DEF HasEntry, HasRecord, Booked, Pair
    <1>4. \A t \in Transfer : CircleAgrees(t)' /\ TransferAgrees(t)'
        BY <1>1, <1>3 DEF SettlementsInv, CircleAgrees, TransferAgrees
    <1>5. /\ \A c \in Recorded : ChainAgrees(c)'
          /\ \A c \in Credit : CreditAgrees(c)'
          /\ \A f \in Confirm : ConfirmAgrees(f)'
        BY <1>1, <1>3 DEF SettlementsInv, ChainAgrees, CreditAgrees, ConfirmAgrees
    <1>6. \A c \in Create : CreateAgrees(c)' /\ SessionAgrees(c)'
        BY <1>1 DEF SettlementsInv, CreateAgrees, SessionAgrees
    <1>7. KeysUnique' /\ OnrampEntries' /\ EntriesUnique' /\ TablesFinite'
        BY <1>1
        DEF SettlementsInv, KeysUnique, OnrampEntries, EntriesUnique, TablesFinite
    <1> QED
        BY <1>2, <1>4, <1>5, <1>6, <1>7 DEF SettlementsInv

LEMMA InitHolds == Init => SettlementsInv
    <1> SUFFICES ASSUME Init PROVE SettlementsInv
        OBVIOUS
    <1>1. TypeOK
        <2>1. NoArg \in Arg /\ NoSession \in Session
            BY DEF NoArg, NoSession, Arg, Session
        <2> QED
            BY <2>1, SettlementsAssumption DEF Init, TypeOK, Arg, Session
    <1>2. TablesFinite
        BY FS_EmptySet DEF Init, TablesFinite
    <1>3. /\ \A t \in Transfer : CircleAgrees(t) /\ TransferAgrees(t)
          /\ \A c \in Recorded : ChainAgrees(c)
          /\ \A c \in Credit : CreditAgrees(c)
          /\ \A f \in Confirm : ConfirmAgrees(f)
        BY DEF Init, Calls, Recorded, CircleAgrees, TransferAgrees, ChainAgrees, CreditAgrees,
               ConfirmAgrees, HasEntry, HasRecord, Passed
    <1>4. \A c \in Create : CreateAgrees(c) /\ SessionAgrees(c)
        BY DEF Init, Calls, CreateAgrees, SessionAgrees, NoSession
    <1>5. KeysUnique /\ OnrampEntries /\ EntriesUnique
        BY DEF Init, KeysUnique, OnrampEntries, EntriesUnique, NoSession
    <1> QED
        BY <1>1, <1>2, <1>3, <1>4, <1>5 DEF SettlementsInv

LEMMA StepKeeps == SettlementsInv /\ [Next]_vars => SettlementsInv'
    <1> SUFFICES ASSUME SettlementsInv, [Next]_vars PROVE SettlementsInv'
        OBVIOUS
    <1>1. ASSUME NEW t \in Transfer, TransferStep(t) PROVE SettlementsInv'
        BY <1>1, AskTransferKeeps, SettledKeeps, BookTransferKeeps DEF TransferStep
    <1>2. ASSUME NEW t \in Transfer, CircleStep(t) PROVE SettlementsInv'
        BY <1>2, CircleStepKeeps
    <1>3. ASSUME NEW c \in Credit, AskCredit(c) PROVE SettlementsInv'
        BY <1>3, AskCreditKeeps
    <1>4. ASSUME NEW c \in Recorded, RecorderStep(c) PROVE SettlementsInv'
        BY <1>4, RecorderKeeps
    <1>5. ASSUME NEW c \in Create, OnrampStep(c) PROVE SettlementsInv'
        BY <1>5, AskSessionKeeps, TokenRefusedKeeps, AddSessionKeeps DEF OnrampStep
    <1>6. ASSUME NEW f \in Confirm, ConfirmSession(f) PROVE SettlementsInv'
        BY <1>6, ConfirmKeeps
    <1> QED
        BY <1>1, <1>2, <1>3, <1>4, <1>5, <1>6, CrashKeeps, StutterKeeps DEF Next

(* The tables, the handlers, the Circle service and the chain service      *)
(* never tell different stories, whatever was lost or restarted.           *)
THEOREM SettlementsInvariant == Spec => []SettlementsInv
    <1> QED
        BY InitHolds, StepKeeps, PTL DEF Spec

LEMMA MovedIsTracedHolds == SettlementsInv => MovedIsTraced
    <1> SUFFICES ASSUME SettlementsInv, NEW t \in moved, at[t] \in Answered
                 PROVE  \E r \in settlements : r.call = t
        BY DEF MovedIsTraced
    <1>1. t \in Transfer /\ CircleAgrees(t) /\ TransferAgrees(t)
        BY DEF SettlementsInv, TypeOK
    <1>2. CASE at[t] = "ok"
        BY <1>1, <1>2 DEF TransferAgrees, Passed
    <1>3. CASE at[t] = "error"
        BY <1>1, <1>3 DEF CircleAgrees, TransferAgrees, HasRecord
    <1> QED
        BY <1>2, <1>3 DEF Answered

(* No transfer that the Gateway made is answered without a settlement      *)
(* record, not even with an error (services.py:172-220).                   *)
THEOREM TransfersTraced == Spec => []MovedIsTraced
    <1> QED
        BY SettlementsInvariant, MovedIsTracedHolds, PTL

LEMMA AnsweredOkHolds == SettlementsInv => AnsweredOkMeansRecorded
    <1> SUFFICES ASSUME SettlementsInv, NEW c \in Recorded
                 PROVE  /\ at[c] = "ok" =>
                            /\ HasEntry(c)
                            /\ c \in Transfer => /\ Booked(c)
                                                 /\ [call |-> c, status |-> "submitted"] \in settlements
                            /\ mode.record = "required" =>
                                [call |-> c, status |-> "submitted"] \in chainRecords
                            /\ mode.record = "best_effort" =>
                                \E r \in chainRecords : r.call = c
                        /\ chain[c] # "none" => HasEntry(c)
        BY DEF AnsweredOkMeansRecorded, HasEntry
    <1>1. ChainAgrees(c) /\ (at[c] = "ok" => HasEntry(c))
        BY RecorderFacts
    <1>2. c \in Transfer => TransferAgrees(c)
        BY DEF SettlementsInv
    <1> QED
        BY <1>1, <1>2 DEF ChainAgrees, TransferAgrees, Passed

(* An answer of success stands on rows that were written before, and so    *)
(* does what is sent to the chain (main.py:801-822, 977-1033).             *)
THEOREM AnswersRecorded == Spec => []AnsweredOkMeansRecorded
    <1> QED
        BY SettlementsInvariant, AnsweredOkHolds, PTL

LEMMA SameKeyHolds == SettlementsInv => SameKeySameSession
    <1> SUFFICES ASSUME SettlementsInv, NEW c \in Create, NEW d \in Create
                 PROVE  /\ got[c] # None => session[got[c]].key = arg[c].key
                        /\ (got[c] # None /\ got[d] # None /\ arg[c].key = arg[d].key)
                            => got[c] = got[d]
        BY DEF SameKeySameSession
    <1>1. CreateAgrees(c) /\ CreateAgrees(d) /\ KeysUnique
        BY DEF SettlementsInv
    <1>2. got[c] \in Create \cup {None} /\ got[d] \in Create \cup {None}
        BY DEF SettlementsInv, TypeOK
    <1> QED
        BY <1>1, <1>2 DEF CreateAgrees, KeysUnique

(* One key, one session, for any number of concurrent creations            *)
(* (main.py:729-780, store.py:1390-1413).                                  *)
THEOREM KeysShareSessions == Spec => []SameKeySameSession
    <1> QED
        BY SettlementsInvariant, SameKeyHolds, PTL

LEMMA CreditedOnceHolds == SettlementsInv => CreditedOnce
    <1> SUFFICES ASSUME SettlementsInv PROVE CreditedOnce
        OBVIOUS
    <1>1. None \notin Confirm
        BY SettlementsAssumption DEF Calls
    <1>2. ASSUME NEW e \in entries, e.type = "onramp"
          PROVE  \E s \in Create :
                    /\ session[s].entry = e.call /\ session[s].agent = e.agent
                    /\ \A r \in Create : session[r].entry = e.call => r = s
        <2>1. e.call \in Confirm
            BY <1>2 DEF SettlementsInv, OnrampEntries
        <2>2. PICK s \in Create : session[s].entry = e.call
            BY <2>1 DEF SettlementsInv, ConfirmAgrees, HasEntry
        <2>3. SessionAgrees(s) /\ session[s].status = "credited"
            BY <2>1, <2>2, CreateFacts
        <2>4. session[s].agent = e.agent
            BY <2>1, <2>2, <2>3 DEF SessionAgrees, SettlementsInv, OnrampEntries
        <2>5. \A r \in Create : session[r].entry = e.call => r = s
            BY <1>1, <2>1, <2>2 DEF SettlementsInv, EntriesUnique
        <2> QED
            BY <2>2, <2>4, <2>5
    <1>3. ASSUME NEW s \in Create
          PROVE  /\ session[s].status = "credited" <=>
                        \E e \in entries : e.call = session[s].entry /\ e.type = "onramp"
                 /\ events[s] = [created |-> IF session[s].status = "none" THEN 0 ELSE 1,
                                credited |-> IF session[s].status = "credited" THEN 1 ELSE 0]
        <2>1. /\ SessionAgrees(s) /\ CreateAgrees(s)
              /\ session[s].entry \in Confirm => session[s].status = "credited"
            BY CreateFacts
        <2>2. session[s].status = "credited" <=>
                  \E e \in entries : e.call = session[s].entry /\ e.type = "onramp"
            BY <2>1 DEF SessionAgrees, SettlementsInv, OnrampEntries
        <2>3. events[s] \in [created : Nat, credited : Nat]
            BY DEF SettlementsInv, TypeOK
        <2> QED
            BY <2>1, <2>2, <2>3 DEF CreateAgrees
    <1> QED
        BY <1>2, <1>3 DEF CreditedOnce

(* However often a session is confirmed, it is credited once, to the agent *)
(* that opened it (store.py:1430-1494).                                    *)
THEOREM SessionsCreditedOnce == Spec => []CreditedOnce
    <1> QED
        BY SettlementsInvariant, CreditedOnceHolds, PTL

-----------------------------------------------------------------------------
(* The handler and the Circle service implement SettlementPromise.         *)

LEMMA BookedHasEntry ==
    ASSUME NEW t, Booked(t)
    PROVE  HasEntry(t)
    <1>1. Entry(t, "sent", arg[t].from, -arg[t].amount) \in entries
        BY DEF Booked, Pair
    <1>2. Entry(t, "sent", arg[t].from, -arg[t].amount).call = t
        BY DEF Entry
    <1> HIDE DEF Entry
    <1> QED
        BY <1>1, <1>2 DEF HasEntry

LEMMA BookedSame ==
    ASSUME NEW c, RowsOf(c), NEW t, t # c, arg'[t] = arg[t]
    PROVE  Booked(t)' <=> Booked(t)
    <1>1. Pair(t)' = Pair(t)
        BY DEF Pair
    <1>2. \A e \in Pair(t) : e.call = t
        BY DEF Pair, Entry
    <1> QED
        BY <1>1, <1>2 DEF Booked, RowsOf

(* Transfers keep their place in the books while another call steps.       *)
LEMMA OtherTransfersSame ==
    ASSUME NEW c, StepOf(c), NEW t \in Transfer \ {c}
    PROVE  /\ Booked(t)' <=> Booked(t)
           /\ at'[t] = "ok" <=> at[t] = "ok"
    <1>1. at'[t] = at[t] /\ arg'[t] = arg[t] /\ RowsOf(c)
        BY DEF StepOf, Calls
    <1> QED
        BY <1>1, BookedSame

LEMMA TransferStepOf ==
    ASSUME TypeOK, NEW t \in Transfer, TransferStep(t)
    PROVE  StepOf(t)
    <1>1. t \in Calls
        BY DEF Calls
    <1>2. CASE AskTransfer(t)
        BY <1>1, <1>2 DEF AskTransfer, Ask, Goto, StepOf, RowsOf, TypeOK
    <1>3. CASE Settled(t) \/ Unsettled(t)
        BY <1>1, <1>3 DEF Settled, Unsettled, Goto, StepOf, RowsOf, outside, TypeOK
    <1>4. CASE BookTransfer(t)
        <2>1. \A e \in Pair(t) : e.call = t
            BY DEF Pair, Entry
        <2> QED
            BY <1>1, <1>4, <2>1 DEF BookTransfer, Goto, StepOf, RowsOf, outside, TypeOK
    <1> QED
        BY <1>2, <1>3, <1>4 DEF TransferStep

LEMMA CreditStepOf ==
    ASSUME TypeOK, NEW c \in Credit, AskCredit(c)
    PROVE  StepOf(c) /\ UNCHANGED moved
    <1>1. c \in Calls
        BY DEF Calls
    <1>2. \A agent, amount : Entry(c, "credit", agent, amount).call = c
        BY DEF Entry
    <1>3. UNCHANGED <<mode, settlements, chainRecords, circle, moved, chain>>
        BY DEF AskCredit, outside
    <1>4. /\ \A d \in Calls \ {c} : at'[d] = at[d] /\ arg'[d] = arg[d]
          /\ \/ entries' = entries
             \/ \E agent, amount : entries' = entries \cup {Entry(c, "credit", agent, amount)}
        BY <1>1 DEF AskCredit, Ask, Goto, TypeOK
    <1> QED
        BY <1>2, <1>3, <1>4 DEF StepOf, RowsOf

LEMMA RecorderStepOf ==
    ASSUME TypeOK, NEW c \in Recorded, RecorderStep(c)
    PROVE  /\ StepOf(c)
           /\ UNCHANGED <<moved, arg, entries, available, gateway>>
           /\ at'[c] = "ok" => at[c] \in {"booked", "recording", "ok"}
    <1>1. c \in Calls
        BY DEF Calls, Recorded
    <1>2. /\ UNCHANGED <<mode, arg, entries, available, settlements, circle, gateway, moved>>
          /\ \A d \in Recorded \ {c} : chain'[d] = chain[d]
          /\ \A d \in Calls \ {c} : at'[d] = at[d]
          /\ at'[c] = at[c] \/ at[c] \in {"booked", "recording"}
          /\ chainRecords \subseteq chainRecords'
        BY <1>1
        DEF RecorderStep, AskRecorder, ChainExecutes, Record, RecordFails, Goto, settled,
            outside, TypeOK
    <1> QED
        BY <1>2 DEF StepOf, RowsOf

LEMMA OnrampStepOf ==
    ASSUME TypeOK, NEW c \in Create, OnrampStep(c)
    PROVE  StepOf(c) /\ UNCHANGED <<moved, entries, available, gateway>>
    <1>1. c \in Calls
        BY DEF Calls
    <1>2. UNCHANGED <<mode, entries, available, settlements, chainRecords, circle, gateway,
                      moved, chain>>
        BY DEF OnrampStep, AskSession, TokenRefused, AddSession, settled, outside
    <1>3. \A d \in Calls \ {c} : at'[d] = at[d] /\ arg'[d] = arg[d]
        BY <1>1 DEF OnrampStep, AskSession, TokenRefused, AddSession, Ask, Goto, TypeOK
    <1> QED
        BY <1>2, <1>3 DEF StepOf, RowsOf

LEMMA ConfirmStepOf ==
    ASSUME TypeOK, NEW f \in Confirm, ConfirmSession(f)
    PROVE  StepOf(f) /\ UNCHANGED moved
    <1>1. f \in Calls
        BY DEF Calls
    <1>2. UNCHANGED <<mode, arg, settlements, chainRecords, circle, moved, chain>>
        BY DEF ConfirmSession, outside
    <1>3. \A agent, amount : Entry(f, "onramp", agent, amount).call = f
        BY DEF Entry
    <1>4. /\ \A d \in Calls \ {f} : at'[d] = at[d]
          /\ \/ entries' = entries
             \/ \E agent, amount : entries' = entries \cup {Entry(f, "onramp", agent, amount)}
        BY <1>1 DEF ConfirmSession, CreditSession, Goto, TypeOK
    <1> QED
        BY <1>2, <1>3, <1>4 DEF StepOf, RowsOf

BookedTransfers == {t \in Transfer : Booked(t)}
ToldTransfers == {t \in Transfer : at[t] = "ok"}
Seen == <<moved, BookedTransfers, ToldTransfers>>

(* A step of a call that is no transfer is no step of the promise.         *)
LEMMA NotATransfer ==
    ASSUME NEW c, c \notin Transfer, StepOf(c), UNCHANGED moved
    PROVE  UNCHANGED Seen
    <1>1. ASSUME NEW t \in Transfer
          PROVE  (Booked(t)' <=> Booked(t)) /\ (at'[t] = "ok" <=> at[t] = "ok")
        BY OtherTransfersSame
    <1> QED
        BY <1>1 DEF Seen, BookedTransfers, ToldTransfers

(* A step of a transfer shows as what it does to that transfer.            *)
LEMMA OneTransfer ==
    ASSUME NEW t \in Transfer, StepOf(t)
    PROVE  /\ BookedTransfers' = IF Booked(t)' THEN BookedTransfers \cup {t}
                                 ELSE BookedTransfers \ {t}
           /\ ToldTransfers' = IF at'[t] = "ok" THEN ToldTransfers \cup {t}
                               ELSE ToldTransfers \ {t}
    <1>1. ASSUME NEW u \in Transfer, u # t
          PROVE  (Booked(u)' <=> Booked(u)) /\ (at'[u] = "ok" <=> at[u] = "ok")
        BY <1>1, OtherTransfersSame
    <1> QED
        BY <1>1 DEF BookedTransfers, ToldTransfers

LEMMA StepKeepsPromise ==
    ASSUME SettlementsInv, [Next]_vars
    PROVE  (\E t \in Transfer :
               \/ /\ moved' = moved \cup {t} /\ UNCHANGED <<BookedTransfers, ToldTransfers>>
               \/ /\ t \in moved \ BookedTransfers
                  /\ BookedTransfers' = BookedTransfers \cup {t}
                  /\ UNCHANGED <<moved, ToldTransfers>>
               \/ /\ t \in BookedTransfers /\ ToldTransfers' = ToldTransfers \cup {t}
                  /\ UNCHANGED <<moved, BookedTransfers>>)
           \/ UNCHANGED Seen
    <1>1. TypeOK
        BY DEF SettlementsInv
    <1>2. ASSUME NEW t \in Transfer, AskTransfer(t) \/ Settled(t) \/ Unsettled(t)
          PROVE  UNCHANGED Seen
        <2>1. StepOf(t) /\ t \in Calls
            BY <1>1, <1>2, TransferStepOf DEF TransferStep, Calls
        <2>2. /\ UNCHANGED <<moved, entries>> /\ at[t] \in {"idle", "settling"}
              /\ at'[t] \in {"settling", "settled", "error"}
            BY <1>1, <1>2, <2>1 DEF AskTransfer, Settled, Unsettled, Goto, outside, TypeOK
        <2>3. ~HasEntry(t) /\ ~HasEntry(t)'
            BY <2>2 DEF SettlementsInv, TransferAgrees, HasEntry
        <2>4. ~Booked(t) /\ ~Booked(t)'
            BY <2>3, BookedHasEntry DEF Booked, Pair, HasEntry, Entry
        <2> QED
            BY <2>1, <2>2, <2>4, OneTransfer DEF Seen, BookedTransfers, ToldTransfers
    <1>3. ASSUME NEW t \in Transfer, BookTransfer(t)
          PROVE  /\ t \in moved \ BookedTransfers
                 /\ BookedTransfers' = BookedTransfers \cup {t}
                 /\ UNCHANGED <<moved, ToldTransfers>>
        <2>1. StepOf(t) /\ t \in Calls
            BY <1>1, <1>3, TransferStepOf DEF TransferStep, Calls
        <2>2. /\ at[t] = "settled" /\ at'[t] = "booked" /\ UNCHANGED <<moved, arg>>
              /\ entries' = entries \cup Pair(t)
            BY <1>1, <1>3, <2>1 DEF BookTransfer, Goto, outside, TypeOK
        <2>3. t \in moved /\ ~Booked(t)
            BY <2>2, BookedHasEntry DEF SettlementsInv, TransferAgrees, CircleAgrees, Passed
        <2>4. Booked(t)'
            BY <2>2 DEF Booked, Pair
        <2> QED
            BY <2>1, <2>2, <2>3, <2>4, OneTransfer DEF BookedTransfers, ToldTransfers
    <1>4. ASSUME NEW t \in Transfer, CircleStep(t)
          PROVE  /\ UNCHANGED <<BookedTransfers, ToldTransfers>>
                 /\ UNCHANGED moved \/ moved' = moved \cup {t}
        <2>1. UNCHANGED <<at, arg, entries>> /\ (UNCHANGED moved \/ moved' = moved \cup {t})
            BY <1>4
            DEF CircleStep, CircleChecks, CircleRefuses, CircleSigns, GatewaySettles,
                CircleAnswers, CircleFails, settled
        <2> QED
            BY <2>1 DEF BookedTransfers, ToldTransfers, Booked, Pair
    <1>5. ASSUME NEW c \in Recorded, RecorderStep(c)
          PROVE  \/ /\ c \in BookedTransfers /\ ToldTransfers' = ToldTransfers \cup {c}
                    /\ UNCHANGED <<moved, BookedTransfers>>
                 \/ UNCHANGED Seen
        <2>1. /\ StepOf(c) /\ UNCHANGED <<moved, arg, entries>>
              /\ at'[c] = "ok" => at[c] \in {"booked", "recording", "ok"}
              /\ at[c] = "ok" => at'[c] = "ok"
            BY <1>1, <1>5, RecorderStepOf
            DEF RecorderStep, AskRecorder, ChainExecutes, Record, RecordFails
        <2>2. CASE c \notin Transfer
            BY <2>1, <2>2, NotATransfer
        <2>3. CASE c \in Transfer
            <3>1. Booked(c)' <=> Booked(c)
                BY <2>1 DEF Booked, Pair
            <3>2. at'[c] = "ok" => Booked(c)
                BY <2>1, <2>3 DEF SettlementsInv, TransferAgrees, Passed
            <3>3. /\ UNCHANGED BookedTransfers
                  /\ ToldTransfers' = IF at'[c] = "ok" THEN ToldTransfers \cup {c}
                                      ELSE ToldTransfers
                BY <2>1, <2>3, <3>1, OneTransfer DEF BookedTransfers, ToldTransfers
            <3> QED
                BY <2>1, <2>3, <3>2, <3>3 DEF BookedTransfers, Seen
        <2> QED
            BY <2>2, <2>3
    <1>6. ASSUME NEW c \in Credit, AskCredit(c) PROVE UNCHANGED Seen
        BY <1>1, <1>6, CreditStepOf, NotATransfer, SettlementsAssumption
    <1>7. ASSUME NEW c \in Create, OnrampStep(c) PROVE UNCHANGED Seen
        BY <1>1, <1>7, OnrampStepOf, NotATransfer, SettlementsAssumption
    <1>8. ASSUME NEW f \in Confirm, ConfirmSession(f) PROVE UNCHANGED Seen
        BY <1>1, <1>8, ConfirmStepOf, NotATransfer, SettlementsAssumption
    <1>9. CASE Crash
        <2>1. /\ UNCHANGED <<moved, arg, entries>>
              /\ at' = [c \in Calls |-> IF at[c] \in Running THEN "crashed" ELSE at[c]]
            BY <1>9 DEF Crash, settled, outside
        <2>2. \A t \in Transfer : at'[t] = "ok" <=> at[t] = "ok"
            BY <2>1 DEF Calls, Running
        <2> QED
            BY <2>1, <2>2 DEF Seen, BookedTransfers, ToldTransfers, Booked, Pair
    <1>10. CASE UNCHANGED vars
        BY <1>10 DEF vars, settled, onramp, outside, Seen, BookedTransfers, ToldTransfers,
                     Booked, Pair
    <1>11. CASE \E t \in Transfer : TransferStep(t) \/ CircleStep(t)
        BY <1>2, <1>3, <1>4, <1>11 DEF TransferStep, Seen
    <1>12. CASE \E c \in Recorded : RecorderStep(c)
        <2>1. PICK c \in Recorded : RecorderStep(c)
            BY <1>12
        <2> QED
            BY <1>5, <2>1 DEF BookedTransfers
    <1> QED
        BY <1>6, <1>7, <1>8, <1>9, <1>10, <1>11, <1>12 DEF Next

(* Every step is one of the promise's or is not seen there: the books show *)
(* a transfer only after the Gateway made it, and a caller is told of it   *)
(* only when the books show it (main.py:977-1033).                         *)
THEOREM TransfersKeepPromise == Spec => KeepsPromise
    <1>1. Init => Promise!Init
        <2> SUFFICES ASSUME Init PROVE Promise!Init
            OBVIOUS
        <2>1. ASSUME NEW t \in Transfer PROVE ~Booked(t) /\ at[t] # "ok"
            BY BookedHasEntry DEF Init, HasEntry, Calls
        <2> QED
            BY <2>1 DEF Init, Promise!Init
    <1>2. SettlementsInv /\ [Next]_vars =>
            [Promise!Next]_<<moved, {t \in Transfer : Booked(t)}, {t \in Transfer : at[t] = "ok"}>>
        <2> SUFFICES ASSUME SettlementsInv, [Next]_vars
                     PROVE  [Promise!Next]_<<moved, BookedTransfers, ToldTransfers>>
            BY DEF BookedTransfers, ToldTransfers
        <2> QED
            BY StepKeepsPromise
            DEF Seen, BookedTransfers, ToldTransfers, Promise!Next, Promise!Move,
                Promise!Book, Promise!Tell
    <1> QED
        BY <1>1, <1>2, SettlementsInvariant, PTL DEF Spec, KeepsPromise, Promise!Spec

-----------------------------------------------------------------------------
(* Sums, by counting units.                                                *)

LEMMA UnitsOfOne ==
    ASSUME NEW x, NEW n \in Nat
    PROVE  /\ IsFiniteSet({x} \X (1..n))
           /\ Cardinality({x} \X (1..n)) = n
    <1>1. IsFiniteSet(1..n) /\ Cardinality(1..n) = n
        BY FS_Interval
    <1>2. IsFiniteSet({x}) /\ Cardinality({x}) = 1
        BY FS_Singleton
    <1>3. /\ IsFiniteSet({x} \X (1..n))
          /\ Cardinality({x} \X (1..n)) = Cardinality({x}) * Cardinality(1..n)
        BY <1>1, <1>2, FS_Product
    <1> QED
        BY <1>1, <1>2, <1>3

LEMMA UnitsFinite ==
    ASSUME NEW amount, NEW S, IsFiniteSet(S), \A x \in S : amount[x] \in Int
    PROVE  IsFiniteSet(Units(amount, S)) /\ Sum(amount, S) \in Nat
    <1> DEFINE all == {{x} \X (1..amount[x]) : x \in S}
               f == [x \in S |-> {x} \X (1..amount[x])]
    <1>1. f \in Surjection(S, all)
        BY DEF Surjection
    <1>2. IsFiniteSet(all)
        <2> HIDE DEF all, f
        <2> QED BY <1>1, FS_Surjection
    <1>3. \A U \in all : IsFiniteSet(U)
        <2> SUFFICES ASSUME NEW x \in S PROVE IsFiniteSet({x} \X (1..amount[x]))
            OBVIOUS
        <2>1. IsFiniteSet(1..amount[x])
            BY FS_Interval
        <2>2. IsFiniteSet({x})
            BY FS_Singleton
        <2> QED
            BY <2>1, <2>2, FS_Product
    <1>4. IsFiniteSet(UNION all)
        <2> HIDE DEF all
        <2> QED BY <1>2, <1>3, FS_UNION
    <1>5. Units(amount, S) = UNION all
        BY DEF Units
    <1> HIDE DEF all
    <1>6. IsFiniteSet(Units(amount, S))
        BY <1>4, <1>5
    <1> QED
        BY <1>6, FS_CardinalityType DEF Sum

LEMMA SumAdds ==
    ASSUME NEW amount, NEW S, IsFiniteSet(S), \A x \in S : amount[x] \in Int,
           NEW y, y \notin S, amount[y] \in Nat
    PROVE  Sum(amount, S \cup {y}) = Sum(amount, S) + amount[y]
    <1> DEFINE one == {y} \X (1..amount[y])
    <1>1. IsFiniteSet(Units(amount, S))
        BY UnitsFinite
    <1>2. IsFiniteSet(one) /\ Cardinality(one) = amount[y]
        BY UnitsOfOne
    <1>3. Units(amount, S \cup {y}) = Units(amount, S) \cup one
        BY DEF Units
    <1>4. Units(amount, S) \cap one = {}
        BY DEF Units
    <1>5. Cardinality(Units(amount, S) \cup one)
              = Cardinality(Units(amount, S)) + Cardinality(one)
                - Cardinality(Units(amount, S) \cap one)
        <2> HIDE DEF one
        <2> QED BY <1>1, <1>2, FS_Union
    <1>6. Cardinality(Units(amount, S) \cap one) = 0
        <2> HIDE DEF one
        <2> QED BY <1>4, FS_EmptySet
    <1>7. Cardinality(Units(amount, S)) \in Nat
        BY <1>1, FS_CardinalityType
    <1>8. /\ Sum(amount, S \cup {y}) = Cardinality(Units(amount, S) \cup one)
          /\ Sum(amount, S) = Cardinality(Units(amount, S))
        <2> HIDE DEF one
        <2> QED BY <1>3, Zenon DEF Sum
    <1> HIDE DEF one
    <1> QED
        BY <1>2, <1>5, <1>6, <1>7, <1>8

LEMMA SumSame ==
    ASSUME NEW f, NEW g, NEW S, \A x \in S : f[x] = g[x]
    PROVE  Sum(f, S) = Sum(g, S)
    <1>1. Units(f, S) = Units(g, S)
        BY DEF Units
    <1> QED
        BY <1>1 DEF Sum

(* The entries of one agent and one kind, in a given table.                *)
OfIn(E, a, types) == {e \in E : e.agent = a /\ e.type \in types}
RowGain == [e \in Row |-> e.delta]
RowLoss == [e \in Row |-> -e.delta]

(* The sums in BooksReconcile do not depend on the rest of the table.      *)
LEMMA SumsOfRows ==
    ASSUME TypeOK, NEW a, NEW types
    PROVE  /\ Sum(Gain, Of(a, types)) = Sum(RowGain, OfIn(entries, a, types))
           /\ Sum(Loss, Of(a, types)) = Sum(RowLoss, OfIn(entries, a, types))
    <1>1. Of(a, types) = OfIn(entries, a, types)
        BY DEF Of, OfIn
    <1>2. \A e \in OfIn(entries, a, types) : Gain[e] = RowGain[e] /\ Loss[e] = RowLoss[e]
        <2> SUFFICES ASSUME NEW e \in entries
                     PROVE  Gain[e] = RowGain[e] /\ Loss[e] = RowLoss[e]
            BY DEF OfIn
        <2>1. e \in Row
            BY DEF TypeOK, Row
        <2> QED
            BY <2>1 DEF Gain, RowGain, Loss, RowLoss
    <1> QED
        BY <1>1, <1>2, SumSame

LEMMA SumsOfRowsNext ==
    ASSUME TypeOK', NEW a, NEW types
    PROVE  /\ Sum(Gain, Of(a, types))' = Sum(RowGain, OfIn(entries', a, types))
           /\ Sum(Loss, Of(a, types))' = Sum(RowLoss, OfIn(entries', a, types))
    <1>1. Of(a, types)' = OfIn(entries', a, types)
        BY DEF Of, OfIn
    <1>2. \A e \in OfIn(entries', a, types) : Gain'[e] = RowGain[e] /\ Loss'[e] = RowLoss[e]
        <2> SUFFICES ASSUME NEW e \in entries'
                     PROVE  Gain'[e] = RowGain[e] /\ Loss'[e] = RowLoss[e]
            BY DEF OfIn
        <2>1. e \in Row
            BY DEF TypeOK, Row
        <2> QED
            BY <2>1 DEF Gain, RowGain, Loss, RowLoss
    <1>3. /\ Sum(Gain', OfIn(entries', a, types)) = Sum(RowGain, OfIn(entries', a, types))
          /\ Sum(Loss', OfIn(entries', a, types)) = Sum(RowLoss, OfIn(entries', a, types))
        BY <1>2, SumSame
    <1>4. /\ Sum(Gain, Of(a, types))' = Sum(Gain', Of(a, types)')
          /\ Sum(Loss, Of(a, types))' = Sum(Loss', Of(a, types)')
        BY DEF Sum, Units
    <1> QED
        BY <1>1, <1>3, <1>4

(* One more row in a table, of money in.                                   *)
LEMMA GainAdded ==
    ASSUME NEW E, E \subseteq Row, IsFiniteSet(E), NEW e \in Row, e \notin E,
           NEW a, NEW types, e.type \in types, e.delta \in Nat
    PROVE  /\ Sum(RowGain, OfIn(E \cup {e}, a, types))
                = Sum(RowGain, OfIn(E, a, types)) + (IF e.agent = a THEN e.delta ELSE 0)
           /\ Sum(RowGain, OfIn(E, a, types)) \in Nat
    <1> DEFINE S == OfIn(E, a, types)
    <1>1. S \in SUBSET E /\ e \notin S
        BY DEF OfIn
    <1>2. IsFiniteSet(S)
        BY <1>1, FS_Subset
    <1>3. \A x \in S \cup {e} : RowGain[x] = x.delta /\ RowGain[x] \in Int
        BY <1>1 DEF RowGain, Row
    <1>4. OfIn(E \cup {e}, a, types) = IF e.agent = a THEN S \cup {e} ELSE S
        BY DEF OfIn
    <1> HIDE DEF S
    <1>5. Sum(RowGain, S) \in Nat
        BY <1>2, <1>3, UnitsFinite
    <1>6. Sum(RowGain, S \cup {e}) = Sum(RowGain, S) + e.delta
        BY <1>1, <1>2, <1>3, SumAdds
    <1> QED
        BY <1>4, <1>5, <1>6 DEF S

(* One more row in a table, of money out.                                  *)
LEMMA LossAdded ==
    ASSUME NEW E, E \subseteq Row, IsFiniteSet(E), NEW e \in Row, e \notin E,
           NEW a, NEW types, e.type \in types, -e.delta \in Nat
    PROVE  /\ Sum(RowLoss, OfIn(E \cup {e}, a, types))
                = Sum(RowLoss, OfIn(E, a, types)) + (IF e.agent = a THEN -e.delta ELSE 0)
           /\ Sum(RowLoss, OfIn(E, a, types)) \in Nat
    <1> DEFINE S == OfIn(E, a, types)
    <1>1. S \in SUBSET E /\ e \notin S
        BY DEF OfIn
    <1>2. IsFiniteSet(S)
        BY <1>1, FS_Subset
    <1>3. \A x \in S \cup {e} : RowLoss[x] = -x.delta /\ RowLoss[x] \in Int
        BY <1>1 DEF RowLoss, Row
    <1>4. OfIn(E \cup {e}, a, types) = IF e.agent = a THEN S \cup {e} ELSE S
        BY DEF OfIn
    <1> HIDE DEF S
    <1>5. Sum(RowLoss, S) \in Nat
        BY <1>2, <1>3, UnitsFinite
    <1>6. Sum(RowLoss, S \cup {e}) = Sum(RowLoss, S) + (-e.delta)
        BY <1>1, <1>2, <1>3, SumAdds
    <1> QED
        BY <1>4, <1>5, <1>6 DEF S

-----------------------------------------------------------------------------
(* The two balances and the entries.                                       *)

(* The transfers missing in the books are counted the same.                *)
LEMMA UnbookedSame ==
    ASSUME TypeOK, UNCHANGED moved, NEW a,
           \A t \in moved : arg'[t] = arg[t] /\ (Booked(t)' <=> Booked(t))
    PROVE  /\ Sum(AmountOf, UnbookedTo(a))' = Sum(AmountOf, UnbookedTo(a))
           /\ Sum(AmountOf, UnbookedFrom(a))' = Sum(AmountOf, UnbookedFrom(a))
    <1>1. UnbookedTo(a)' = UnbookedTo(a) /\ UnbookedFrom(a)' = UnbookedFrom(a)
        BY DEF UnbookedTo, UnbookedFrom, Unbooked
    <1>2. /\ \A t \in UnbookedTo(a) : AmountOf'[t] = AmountOf[t]
          /\ \A t \in UnbookedFrom(a) : AmountOf'[t] = AmountOf[t]
        BY DEF UnbookedTo, UnbookedFrom, Unbooked, AmountOf, TypeOK
    <1>3. /\ Sum(AmountOf', UnbookedTo(a)) = Sum(AmountOf, UnbookedTo(a))
          /\ Sum(AmountOf', UnbookedFrom(a)) = Sum(AmountOf, UnbookedFrom(a))
        BY <1>2, SumSame
    <1>4. /\ Sum(AmountOf, UnbookedTo(a))' = Sum(AmountOf', UnbookedTo(a)')
          /\ Sum(AmountOf, UnbookedFrom(a))' = Sum(AmountOf', UnbookedFrom(a)')
        BY DEF Sum, Units
    <1> QED
        BY <1>1, <1>3, <1>4

(* Steps that touch neither a balance nor an entry.                        *)
LEMMA QuietKeepsBooks ==
    ASSUME SettlementsInv, SettlementsInv', BooksReconcile,
           UNCHANGED <<entries, available, gateway, moved>>,
           \A t \in moved : arg'[t] = arg[t]
    PROVE  BooksReconcile'
    <1> SUFFICES ASSUME NEW a \in Agent
                 PROVE  /\ available'[a] = Sum(Gain, Of(a, {"credit", "onramp"}))'
                        /\ gateway'[a] = Opening
                            + Sum(Gain, Of(a, {"received"}))' - Sum(Loss, Of(a, {"sent"}))'
                            + Sum(AmountOf, UnbookedTo(a))' - Sum(AmountOf, UnbookedFrom(a))'
        BY DEF BooksReconcile
    <1>1. TypeOK
        BY DEF SettlementsInv
    <1>2. \A t \in moved : Booked(t)' <=> Booked(t)
        BY DEF Booked, Pair
    <1>3. /\ Sum(AmountOf, UnbookedTo(a))' = Sum(AmountOf, UnbookedTo(a))
          /\ Sum(AmountOf, UnbookedFrom(a))' = Sum(AmountOf, UnbookedFrom(a))
        BY <1>1, <1>2, UnbookedSame
    <1>4. \A types : /\ Sum(Gain, Of(a, types))' = Sum(Gain, Of(a, types))
                     /\ Sum(Loss, Of(a, types))' = Sum(Loss, Of(a, types))
        BY DEF Sum, Units, Gain, Loss, Of
    <1> QED
        BY <1>3, <1>4 DEF BooksReconcile

(* A credit or an onramp entry, and the balance it is added to.            *)
LEMMA CreditKeepsBooks ==
    ASSUME SettlementsInv, SettlementsInv', BooksReconcile,
           NEW e, e \notin entries, e.type \in {"credit", "onramp"},
           e.agent \in Agent, e.delta \in Nat, e.call \notin Transfer,
           entries' = entries \cup {e},
           available' = [available EXCEPT ![e.agent] = @ + e.delta],
           UNCHANGED <<gateway, moved>>,
           \A t \in moved : arg'[t] = arg[t]
    PROVE  BooksReconcile'
    <1> SUFFICES ASSUME NEW a \in Agent
                 PROVE  /\ available'[a] = Sum(Gain, Of(a, {"credit", "onramp"}))'
                        /\ gateway'[a] = Opening
                            + Sum(Gain, Of(a, {"received"}))' - Sum(Loss, Of(a, {"sent"}))'
                            + Sum(AmountOf, UnbookedTo(a))' - Sum(AmountOf, UnbookedFrom(a))'
        BY DEF BooksReconcile
    <1>1. TypeOK /\ TypeOK' /\ entries \subseteq Row /\ e \in Row /\ IsFiniteSet(entries)
        BY DEF SettlementsInv, TypeOK, Row, TablesFinite
    <1>2. \A t \in moved : Booked(t)' <=> Booked(t)
        <2> SUFFICES ASSUME NEW t \in moved PROVE Booked(t)' <=> Booked(t)
            OBVIOUS
        <2>1. Pair(t)' = Pair(t)
            BY DEF Pair
        <2>2. \A r \in Pair(t) : r.call = t
            BY DEF Pair, Entry
        <2>3. t \in Transfer
            BY <1>1 DEF TypeOK
        <2> QED
            BY <2>1, <2>2, <2>3 DEF Booked
    <1>3. /\ Sum(AmountOf, UnbookedTo(a))' = Sum(AmountOf, UnbookedTo(a))
          /\ Sum(AmountOf, UnbookedFrom(a))' = Sum(AmountOf, UnbookedFrom(a))
        BY <1>1, <1>2, UnbookedSame
    <1>4. /\ OfIn(entries', a, {"received"}) = OfIn(entries, a, {"received"})
          /\ OfIn(entries', a, {"sent"}) = OfIn(entries, a, {"sent"})
        BY DEF OfIn
    <1>5. /\ Sum(Gain, Of(a, {"received"}))' = Sum(Gain, Of(a, {"received"}))
          /\ Sum(Loss, Of(a, {"sent"}))' = Sum(Loss, Of(a, {"sent"}))
        <2>1. /\ Sum(Gain, Of(a, {"received"}))'
                    = Sum(RowGain, OfIn(entries', a, {"received"}))
              /\ Sum(Loss, Of(a, {"sent"}))' = Sum(RowLoss, OfIn(entries', a, {"sent"}))
            BY <1>1, SumsOfRowsNext
        <2>2. /\ Sum(Gain, Of(a, {"received"})) = Sum(RowGain, OfIn(entries, a, {"received"}))
              /\ Sum(Loss, Of(a, {"sent"})) = Sum(RowLoss, OfIn(entries, a, {"sent"}))
            BY <1>1, SumsOfRows
        <2> QED
            BY <1>4, <2>1, <2>2
    <1> DEFINE kinds == {"credit", "onramp"}
    <1>6. e.type \in kinds
        OBVIOUS
    <1> HIDE DEF kinds
    <1>7. Sum(RowGain, OfIn(entries \cup {e}, a, kinds))
              = Sum(RowGain, OfIn(entries, a, kinds)) + (IF e.agent = a THEN e.delta ELSE 0)
          /\ Sum(RowGain, OfIn(entries, a, kinds)) \in Nat
        BY <1>1, <1>6, GainAdded
    <1>8. /\ Sum(Gain, Of(a, kinds))' = Sum(RowGain, OfIn(entries \cup {e}, a, kinds))
          /\ Sum(Gain, Of(a, kinds)) = Sum(RowGain, OfIn(entries, a, kinds))
        BY <1>1, SumsOfRows, SumsOfRowsNext
    <1>9. available[a] = Sum(Gain, Of(a, kinds))
        BY DEF BooksReconcile, kinds
    <1>10. available'[a] = Sum(Gain, Of(a, kinds))'
        <2>1. available'[a] = available[a] + (IF e.agent = a THEN e.delta ELSE 0)
            BY <1>1 DEF TypeOK
        <2> QED
            BY <1>7, <1>8, <1>9, <2>1
    <1> QED
        BY <1>3, <1>5, <1>10 DEF BooksReconcile, kinds

(* Transfers as sums see them.                                             *)
LEMMA UnbookedFacts ==
    ASSUME SettlementsInv, NEW a
    PROVE  /\ IsFiniteSet(UnbookedTo(a)) /\ IsFiniteSet(UnbookedFrom(a))
           /\ \A t \in Transfer : AmountOf[t] = arg[t].amount /\ arg[t].amount \in Nat
           /\ Sum(AmountOf, UnbookedTo(a)) \in Nat /\ Sum(AmountOf, UnbookedFrom(a)) \in Nat
    <1>1. UnbookedTo(a) \in SUBSET moved /\ UnbookedFrom(a) \in SUBSET moved
        BY DEF UnbookedTo, UnbookedFrom, Unbooked
    <1>2. IsFiniteSet(UnbookedTo(a)) /\ IsFiniteSet(UnbookedFrom(a))
        BY <1>1, FS_Subset DEF SettlementsInv, TablesFinite
    <1>3. \A t \in Transfer : AmountOf[t] = arg[t].amount /\ arg[t].amount \in Nat
        BY DEF AmountOf, SettlementsInv, TypeOK, Calls
    <1>4. \A t \in moved : AmountOf[t] \in Int
        BY <1>3 DEF SettlementsInv, TypeOK
    <1> QED
        BY <1>1, <1>2, <1>3, <1>4, UnitsFinite

(* The Gateway settles t: it is in the balances and missing in the books.  *)
LEMMA GatewayKeepsBooks ==
    ASSUME SettlementsInv, SettlementsInv', BooksReconcile,
           NEW t \in Transfer, GatewaySettles(t)
    PROVE  BooksReconcile'
    <1> SUFFICES ASSUME NEW a \in Agent
                 PROVE  /\ available'[a] = Sum(Gain, Of(a, {"credit", "onramp"}))'
                        /\ gateway'[a] = Opening
                            + Sum(Gain, Of(a, {"received"}))' - Sum(Loss, Of(a, {"sent"}))'
                            + Sum(AmountOf, UnbookedTo(a))' - Sum(AmountOf, UnbookedFrom(a))'
        BY DEF BooksReconcile
    <1> DEFINE n == arg[t].amount
    <1>1. /\ UNCHANGED <<arg, entries, available>> /\ moved' = moved \cup {t}
          /\ gateway' = [b \in Agent |-> gateway[b]
                                   - (IF b = arg[t].from THEN n ELSE 0)
                                   + (IF b = arg[t].to THEN n ELSE 0)]
        BY DEF GatewaySettles, settled
    <1>2. t \notin moved /\ ~Booked(t)
        BY BookedHasEntry DEF GatewaySettles, SettlementsInv, CircleAgrees, TransferAgrees
    <1>3. /\ UNCHANGED AmountOf
          /\ UnbookedTo(a)' = UnbookedTo(a) \cup (IF arg[t].to = a THEN {t} ELSE {})
          /\ UnbookedFrom(a)' = UnbookedFrom(a) \cup (IF arg[t].from = a THEN {t} ELSE {})
        BY <1>1, <1>2 DEF AmountOf, UnbookedTo, UnbookedFrom, Unbooked, Booked, Pair
    <1>4. /\ \A x \in UnbookedTo(a) : AmountOf[x] \in Int
          /\ \A x \in UnbookedFrom(a) : AmountOf[x] \in Int
          /\ IsFiniteSet(UnbookedTo(a)) /\ IsFiniteSet(UnbookedFrom(a))
          /\ t \notin UnbookedTo(a) /\ t \notin UnbookedFrom(a)
          /\ AmountOf[t] = n /\ n \in Nat
          /\ Sum(AmountOf, UnbookedTo(a)) \in Nat /\ Sum(AmountOf, UnbookedFrom(a)) \in Nat
        <2>1. /\ UnbookedTo(a) \subseteq moved /\ UnbookedFrom(a) \subseteq moved
              /\ moved \subseteq Transfer
            BY DEF UnbookedTo, UnbookedFrom, Unbooked, SettlementsInv, TypeOK
        <2>2. /\ IsFiniteSet(UnbookedTo(a)) /\ IsFiniteSet(UnbookedFrom(a))
              /\ \A u \in Transfer : AmountOf[u] = arg[u].amount /\ arg[u].amount \in Nat
              /\ Sum(AmountOf, UnbookedTo(a)) \in Nat
              /\ Sum(AmountOf, UnbookedFrom(a)) \in Nat
            BY UnbookedFacts
        <2> QED
            BY <1>2, <2>1, <2>2
    <1> HIDE DEF n
    <1>5. /\ Sum(AmountOf, UnbookedTo(a) \cup {t}) = Sum(AmountOf, UnbookedTo(a)) + n
          /\ Sum(AmountOf, UnbookedFrom(a) \cup {t}) = Sum(AmountOf, UnbookedFrom(a)) + n
        BY <1>4, SumAdds
    <1>6. /\ Sum(AmountOf, UnbookedTo(a))' = Sum(AmountOf, UnbookedTo(a)')
          /\ Sum(AmountOf, UnbookedFrom(a))' = Sum(AmountOf, UnbookedFrom(a)')
        BY <1>3 DEF Sum, Units
    <1>7. /\ Sum(AmountOf, UnbookedTo(a))' = Sum(AmountOf, UnbookedTo(a))
                                               + (IF arg[t].to = a THEN n ELSE 0)
          /\ Sum(AmountOf, UnbookedFrom(a))' = Sum(AmountOf, UnbookedFrom(a))
                                               + (IF arg[t].from = a THEN n ELSE 0)
        <2>1. Sum(AmountOf, UnbookedTo(a))' = Sum(AmountOf, UnbookedTo(a))
                                               + (IF arg[t].to = a THEN n ELSE 0)
            <3>1. CASE arg[t].to = a
                BY <1>3, <1>5, <1>6, <3>1
            <3>2. CASE arg[t].to # a
                <4>1. UnbookedTo(a)' = UnbookedTo(a)
                    BY <1>3, <3>2
                <4> QED
                    BY <1>4, <1>6, <3>2, <4>1
            <3> QED
                BY <3>1, <3>2
        <2>2. Sum(AmountOf, UnbookedFrom(a))' = Sum(AmountOf, UnbookedFrom(a))
                                               + (IF arg[t].from = a THEN n ELSE 0)
            <3>1. CASE arg[t].from = a
                BY <1>3, <1>5, <1>6, <3>1
            <3>2. CASE arg[t].from # a
                <4>1. UnbookedFrom(a)' = UnbookedFrom(a)
                    BY <1>3, <3>2
                <4> QED
                    BY <1>4, <1>6, <3>2, <4>1
            <3> QED
                BY <3>1, <3>2
        <2> QED
            BY <2>1, <2>2
    <1>8. \A types : /\ Sum(Gain, Of(a, types))' = Sum(Gain, Of(a, types))
                     /\ Sum(Loss, Of(a, types))' = Sum(Loss, Of(a, types))
        BY <1>1 DEF Sum, Units, Gain, Loss, Of
    <1>9. /\ gateway[a] \in Nat /\ Opening \in Nat
          /\ gateway'[a] = gateway[a] - (IF a = arg[t].from THEN n ELSE 0)
                                      + (IF a = arg[t].to THEN n ELSE 0)
        BY <1>1, SettlementsAssumption DEF SettlementsInv, TypeOK
    <1>10. Sum(Gain, Of(a, {"received"})) \in Nat /\ Sum(Loss, Of(a, {"sent"})) \in Nat
        <2>1. TypeOK /\ IsFiniteSet(entries)
            BY DEF SettlementsInv, TablesFinite
        <2>2. \A types : IsFiniteSet(Of(a, types))
            <3>1. \A types : Of(a, types) \in SUBSET entries
                BY DEF Of
            <3> QED
                BY <2>1, <3>1, FS_Subset
        <2>3. \A e \in entries : Gain[e] \in Int /\ Loss[e] \in Int
            BY <2>1 DEF TypeOK, Gain, Loss
        <2> QED
            BY <2>2, <2>3, UnitsFinite DEF Of
    <1>11. /\ available[a] = Sum(Gain, Of(a, {"credit", "onramp"}))
           /\ gateway[a] = Opening
                + Sum(Gain, Of(a, {"received"})) - Sum(Loss, Of(a, {"sent"}))
                + Sum(AmountOf, UnbookedTo(a)) - Sum(AmountOf, UnbookedFrom(a))
        BY DEF BooksReconcile
    <1> QED
        BY <1>1, <1>4, <1>7, <1>8, <1>9, <1>10, <1>11

(* The pair of t is booked: it is no longer missing, and was moved before. *)
LEMMA BookKeepsBooks ==
    ASSUME SettlementsInv, SettlementsInv', BooksReconcile,
           NEW t \in Transfer, BookTransfer(t)
    PROVE  BooksReconcile'
    <1> SUFFICES ASSUME NEW a \in Agent
                 PROVE  /\ available'[a] = Sum(Gain, Of(a, {"credit", "onramp"}))'
                        /\ gateway'[a] = Opening
                            + Sum(Gain, Of(a, {"received"}))' - Sum(Loss, Of(a, {"sent"}))'
                            + Sum(AmountOf, UnbookedTo(a))' - Sum(AmountOf, UnbookedFrom(a))'
        BY DEF BooksReconcile
    <1> DEFINE n == arg[t].amount
               out == Entry(t, "sent", arg[t].from, -n)
               into == Entry(t, "received", arg[t].to, n)
    <1>1. /\ UNCHANGED <<arg, available, gateway, moved>>
          /\ entries' = entries \cup {out, into} /\ at[t] = "settled"
        BY DEF BookTransfer, outside, Pair
    <1>2. /\ TypeOK /\ TypeOK' /\ entries \subseteq Row /\ IsFiniteSet(entries)
          /\ n \in Nat
          /\ moved \subseteq Transfer
        BY DEF SettlementsInv, TypeOK, TablesFinite, Row, Calls
    <1>3. /\ arg[t].from \in Agent /\ arg[t].to \in Agent /\ t \in moved
          /\ ~HasEntry(t)
        BY <1>1 DEF SettlementsInv, CircleAgrees, TransferAgrees, Passed
    <1>4. /\ out \in Row /\ out.type = "sent" /\ out.agent = arg[t].from /\ -out.delta = n
          /\ into \in Row /\ into.type = "received" /\ into.agent = arg[t].to /\ into.delta = n
          /\ out \notin entries /\ into \notin entries
        BY <1>2, <1>3 DEF Entry, Row, Types, Calls, HasEntry
    <1>5. /\ ~Booked(t) /\ Booked(t)'
          /\ \A u \in moved \ {t} : Booked(u)' <=> Booked(u)
        <2>1. RowsOf(t)
            BY <1>2, TransferStepOf DEF TransferStep, StepOf
        <2>2. \A u \in moved \ {t} : Booked(u)' <=> Booked(u)
            BY <1>1, <2>1, BookedSame
        <2>3. Booked(t)'
            BY <1>1 DEF Booked, Pair
        <2> QED
            BY <1>3, <2>2, <2>3, BookedHasEntry
    <1>6. /\ UNCHANGED AmountOf
          /\ UnbookedTo(a) = UnbookedTo(a)' \cup (IF arg[t].to = a THEN {t} ELSE {})
          /\ UnbookedFrom(a) = UnbookedFrom(a)' \cup (IF arg[t].from = a THEN {t} ELSE {})
          /\ t \notin UnbookedTo(a)' /\ t \notin UnbookedFrom(a)'
        BY <1>1, <1>3, <1>5 DEF AmountOf, UnbookedTo, UnbookedFrom, Unbooked
    <1>7. /\ \A x \in UnbookedTo(a)' : AmountOf[x] \in Int
          /\ \A x \in UnbookedFrom(a)' : AmountOf[x] \in Int
          /\ IsFiniteSet(UnbookedTo(a)') /\ IsFiniteSet(UnbookedFrom(a)')
          /\ AmountOf[t] = n
        <2>1. /\ UnbookedTo(a)' \in SUBSET UnbookedTo(a)
              /\ UnbookedFrom(a)' \in SUBSET UnbookedFrom(a)
              /\ UnbookedTo(a) \subseteq Transfer /\ UnbookedFrom(a) \subseteq Transfer
            BY <1>2, <1>6 DEF UnbookedTo, UnbookedFrom, Unbooked
        <2>2. /\ IsFiniteSet(UnbookedTo(a)) /\ IsFiniteSet(UnbookedFrom(a))
              /\ \A u \in Transfer : AmountOf[u] = arg[u].amount /\ arg[u].amount \in Nat
            BY UnbookedFacts
        <2>3. IsFiniteSet(UnbookedTo(a)') /\ IsFiniteSet(UnbookedFrom(a)')
            BY <2>1, <2>2, FS_Subset
        <2> QED
            BY <2>1, <2>2, <2>3
    <1> HIDE DEF n, out, into
    <1>8. /\ Sum(AmountOf, UnbookedTo(a)') \in Nat /\ Sum(AmountOf, UnbookedFrom(a)') \in Nat
          /\ Sum(AmountOf, UnbookedTo(a)' \cup {t}) = Sum(AmountOf, UnbookedTo(a)') + n
          /\ Sum(AmountOf, UnbookedFrom(a)' \cup {t}) = Sum(AmountOf, UnbookedFrom(a)') + n
        BY <1>2, <1>6, <1>7, SumAdds, UnitsFinite
    <1>9. /\ Sum(AmountOf, UnbookedTo(a))' = Sum(AmountOf, UnbookedTo(a)')
          /\ Sum(AmountOf, UnbookedFrom(a))' = Sum(AmountOf, UnbookedFrom(a)')
        BY <1>6 DEF Sum, Units
    <1>10. Sum(AmountOf, UnbookedTo(a)) = Sum(AmountOf, UnbookedTo(a))'
                                             + (IF arg[t].to = a THEN n ELSE 0)
        <2>1. CASE arg[t].to = a
            BY <1>6, <1>8, <1>9, <2>1
        <2>2. CASE arg[t].to # a
            <3>1. UnbookedTo(a) = UnbookedTo(a)'
                BY <1>6, <2>2
            <3> QED
                BY <1>8, <1>9, <2>2, <3>1
        <2> QED
            BY <2>1, <2>2
    <1>11. Sum(AmountOf, UnbookedFrom(a)) = Sum(AmountOf, UnbookedFrom(a))'
                                               + (IF arg[t].from = a THEN n ELSE 0)
        <2>1. CASE arg[t].from = a
            BY <1>6, <1>8, <1>9, <2>1
        <2>2. CASE arg[t].from # a
            <3>1. UnbookedFrom(a) = UnbookedFrom(a)'
                BY <1>6, <2>2
            <3> QED
                BY <1>8, <1>9, <2>2, <3>1
        <2> QED
            BY <2>1, <2>2
    <1>12. /\ OfIn(entries', a, {"received"}) = OfIn(entries \cup {into}, a, {"received"})
           /\ OfIn(entries', a, {"sent"}) = OfIn(entries \cup {out}, a, {"sent"})
           /\ OfIn(entries', a, {"credit", "onramp"}) = OfIn(entries, a, {"credit", "onramp"})
        BY <1>1, <1>4 DEF OfIn
    <1>13. /\ Sum(RowGain, OfIn(entries \cup {into}, a, {"received"}))
                = Sum(RowGain, OfIn(entries, a, {"received"}))
                  + (IF arg[t].to = a THEN n ELSE 0)
           /\ Sum(RowGain, OfIn(entries, a, {"received"})) \in Nat
        <2> DEFINE kinds == {"received"}
        <2>0. entries \subseteq Row /\ IsFiniteSet(entries)
            BY <1>2
        <2>1. into \in Row /\ into \notin entries /\ into.type \in kinds /\ into.delta \in Nat
            BY <1>2, <1>4
        <2> HIDE DEF kinds
        <2>2. /\ Sum(RowGain, OfIn(entries \cup {into}, a, kinds))
                    = Sum(RowGain, OfIn(entries, a, kinds))
                      + (IF into.agent = a THEN into.delta ELSE 0)
              /\ Sum(RowGain, OfIn(entries, a, kinds)) \in Nat
            BY <2>0, <2>1, GainAdded
        <2>3. Sum(RowGain, OfIn(entries \cup {into}, a, kinds))
                  = Sum(RowGain, OfIn(entries, a, kinds)) + (IF arg[t].to = a THEN n ELSE 0)
            BY <1>4, <2>1, <2>2
        <2> QED
            BY <2>2, <2>3 DEF kinds
    <1>14. /\ Sum(RowLoss, OfIn(entries \cup {out}, a, {"sent"}))
                = Sum(RowLoss, OfIn(entries, a, {"sent"}))
                  + (IF arg[t].from = a THEN n ELSE 0)
           /\ Sum(RowLoss, OfIn(entries, a, {"sent"})) \in Nat
        <2> DEFINE kinds == {"sent"}
        <2>0. entries \subseteq Row /\ IsFiniteSet(entries)
            BY <1>2
        <2>1. out \in Row /\ out \notin entries /\ out.type \in kinds /\ -out.delta \in Nat
            BY <1>2, <1>4
        <2> HIDE DEF kinds
        <2>2. /\ Sum(RowLoss, OfIn(entries \cup {out}, a, kinds))
                    = Sum(RowLoss, OfIn(entries, a, kinds))
                      + (IF out.agent = a THEN -out.delta ELSE 0)
              /\ Sum(RowLoss, OfIn(entries, a, kinds)) \in Nat
            BY <2>0, <2>1, LossAdded
        <2>3. Sum(RowLoss, OfIn(entries \cup {out}, a, kinds))
                  = Sum(RowLoss, OfIn(entries, a, kinds)) + (IF arg[t].from = a THEN n ELSE 0)
            BY <1>4, <2>1, <2>2
        <2> QED
            BY <2>2, <2>3 DEF kinds
    <1>15. /\ Sum(Gain, Of(a, {"received"}))' = Sum(Gain, Of(a, {"received"}))
                                                   + (IF arg[t].to = a THEN n ELSE 0)
           /\ Sum(Gain, Of(a, {"received"})) \in Nat
        <2>1. Sum(Gain, Of(a, {"received"}))' = Sum(RowGain, OfIn(entries', a, {"received"}))
            BY <1>2, SumsOfRowsNext
        <2>2. Sum(Gain, Of(a, {"received"})) = Sum(RowGain, OfIn(entries, a, {"received"}))
            BY <1>2, SumsOfRows
        <2> QED
            BY <1>12, <1>13, <2>1, <2>2
    <1>16. /\ Sum(Loss, Of(a, {"sent"}))' = Sum(Loss, Of(a, {"sent"}))
                                               + (IF arg[t].from = a THEN n ELSE 0)
           /\ Sum(Loss, Of(a, {"sent"})) \in Nat
        <2>1. Sum(Loss, Of(a, {"sent"}))' = Sum(RowLoss, OfIn(entries', a, {"sent"}))
            BY <1>2, SumsOfRowsNext
        <2>2. Sum(Loss, Of(a, {"sent"})) = Sum(RowLoss, OfIn(entries, a, {"sent"}))
            BY <1>2, SumsOfRows
        <2> QED
            BY <1>12, <1>14, <2>1, <2>2
    <1>17. Sum(Gain, Of(a, {"credit", "onramp"}))' = Sum(Gain, Of(a, {"credit", "onramp"}))
        <2>1. Sum(Gain, Of(a, {"credit", "onramp"}))'
                  = Sum(RowGain, OfIn(entries', a, {"credit", "onramp"}))
            BY <1>2, SumsOfRowsNext
        <2>2. Sum(Gain, Of(a, {"credit", "onramp"}))
                  = Sum(RowGain, OfIn(entries, a, {"credit", "onramp"}))
            BY <1>2, SumsOfRows
        <2> QED
            BY <1>12, <2>1, <2>2
    <1>18. /\ available[a] = Sum(Gain, Of(a, {"credit", "onramp"}))
           /\ gateway[a] = Opening
                + Sum(Gain, Of(a, {"received"})) - Sum(Loss, Of(a, {"sent"}))
                + Sum(AmountOf, UnbookedTo(a)) - Sum(AmountOf, UnbookedFrom(a))
           /\ Opening \in Nat
        BY SettlementsAssumption DEF BooksReconcile
    <1> QED
        BY <1>1, <1>2, <1>8, <1>9, <1>10, <1>11, <1>15, <1>16, <1>17, <1>18

LEMMA BooksReconcileKept ==
    ASSUME SettlementsInv, SettlementsInv', BooksReconcile, [Next]_vars
    PROVE  BooksReconcile'
    <1>1. TypeOK /\ moved \subseteq Transfer
        BY DEF SettlementsInv, TypeOK
    <1>2. ASSUME NEW t \in Transfer, AskTransfer(t) \/ Settled(t) \/ Unsettled(t)
          PROVE  BooksReconcile'
        <2>1. StepOf(t) /\ UNCHANGED <<entries, available, gateway, moved>>
            BY <1>1, <1>2, TransferStepOf
            DEF TransferStep, AskTransfer, Settled, Unsettled, outside
        <2>2. t \in moved => arg'[t] = arg[t]
            BY <1>2
            DEF AskTransfer, Settled, Unsettled, SettlementsInv, CircleAgrees
        <2>3. \A u \in moved : arg'[u] = arg[u]
            BY <1>1, <2>1, <2>2 DEF StepOf, Calls
        <2> QED
            BY <2>1, <2>3, QuietKeepsBooks
    <1>3. ASSUME NEW t \in Transfer, CircleStep(t) PROVE BooksReconcile'
        <2>1. CASE GatewaySettles(t)
            BY <2>1, GatewayKeepsBooks
        <2>2. CASE ~GatewaySettles(t)
            <3>1. UNCHANGED <<arg, entries, available, gateway, moved>>
                BY <1>3, <2>2
                DEF CircleStep, CircleChecks, CircleRefuses, CircleSigns, CircleAnswers,
                    CircleFails, settled
            <3> QED
                BY <3>1, QuietKeepsBooks
        <2> QED
            BY <2>1, <2>2
    <1>4. ASSUME NEW c \in Recorded, RecorderStep(c) PROVE BooksReconcile'
        BY <1>1, <1>4, RecorderStepOf, QuietKeepsBooks
    <1>5. ASSUME NEW c \in Create, OnrampStep(c) PROVE BooksReconcile'
        <2>1. StepOf(c) /\ UNCHANGED <<moved, entries, available, gateway>>
            BY <1>1, <1>5, OnrampStepOf
        <2>2. \A t \in moved : arg'[t] = arg[t]
            BY <1>1, <2>1, SettlementsAssumption DEF StepOf, Calls
        <2> QED
            BY <2>1, <2>2, QuietKeepsBooks
    <1>6. ASSUME NEW c \in Credit, AskCredit(c) PROVE BooksReconcile'
        <2>1. /\ StepOf(c) /\ UNCHANGED <<gateway, moved>> /\ c \notin Transfer
              /\ at[c] = "idle"
            BY <1>1, <1>6, CreditStepOf, SettlementsAssumption DEF AskCredit, outside
        <2>2. \A t \in moved : arg'[t] = arg[t]
            BY <1>1, <2>1 DEF StepOf, Calls
        <2>3. CASE UNCHANGED <<available, entries>>
            BY <2>1, <2>2, <2>3, QuietKeepsBooks
        <2>4. ASSUME NEW agent \in Agent, NEW amount \in Amounts,
                     available' = [available EXCEPT ![agent] = @ + amount],
                     entries' = entries \cup {Entry(c, "credit", agent, amount)},
                     Goto(c, "booked")
              PROVE  BooksReconcile'
            <3> DEFINE e == Entry(c, "credit", agent, amount)
            <3>1. /\ e.type = "credit" /\ e.agent = agent /\ e.delta = amount /\ e.call = c
                  /\ amount \in Nat
                BY SettlementsAssumption DEF Entry
            <3>2. available' = [available EXCEPT ![e.agent] = @ + e.delta]
                  /\ entries' = entries \cup {e}
                BY <2>4, <3>1
            <3> HIDE DEF e
            <3>3. e \notin entries
                BY <2>1, <3>1 DEF SettlementsInv, CreditAgrees, HasEntry
            <3>4. e.type \in {"credit", "onramp"} /\ e.agent \in Agent /\ e.delta \in Nat
                  /\ e.call \notin Transfer
                BY <2>1, <3>1
            <3> QED
                BY <2>1, <2>2, <3>2, <3>3, <3>4, CreditKeepsBooks
        <2> QED
            BY <1>6, <2>3, <2>4 DEF AskCredit
    <1>7. ASSUME NEW f \in Confirm, ConfirmSession(f) PROVE BooksReconcile'
        <2>1. /\ StepOf(f) /\ UNCHANGED <<arg, gateway, moved>> /\ f \notin Transfer
              /\ at[f] = "idle"
            BY <1>1, <1>7, ConfirmStepOf, SettlementsAssumption DEF ConfirmSession, outside
        <2>2. CASE UNCHANGED <<available, entries>>
            BY <2>1, <2>2, QuietKeepsBooks
        <2>3. ASSUME NEW s \in Create, NEW amount \in Amounts,
                     session[s].status = "created", CreditSession(f, s, amount)
              PROVE  BooksReconcile'
            <3> DEFINE agent == session[s].agent
                       e == Entry(f, "onramp", agent, amount)
            <3>1. agent \in Agent /\ amount \in Nat
                BY <2>3, SettlementsAssumption DEF SettlementsInv, CreateAgrees
            <3>2. e.type = "onramp" /\ e.agent = agent /\ e.delta = amount /\ e.call = f
                BY DEF Entry
            <3>3. available' = [available EXCEPT ![e.agent] = @ + e.delta]
                  /\ entries' = entries \cup {e}
                BY <2>3, <3>2 DEF CreditSession
            <3> HIDE DEF e, agent
            <3>4. e \notin entries
                BY <2>1, <3>2 DEF SettlementsInv, ConfirmAgrees, HasEntry
            <3>5. e.type \in {"credit", "onramp"} /\ e.agent \in Agent /\ e.delta \in Nat
                  /\ e.call \notin Transfer
                BY <2>1, <3>1, <3>2
            <3> QED
                BY <2>1, <3>3, <3>4, <3>5, CreditKeepsBooks
        <2> QED
            BY <1>7, <2>2, <2>3 DEF ConfirmSession
    <1>8. CASE Crash \/ UNCHANGED vars
        <2>1. UNCHANGED <<arg, entries, available, gateway, moved>>
            BY <1>8 DEF Crash, vars, settled, outside
        <2> QED
            BY <2>1, QuietKeepsBooks
    <1> QED
        BY <1>2, <1>3, <1>4, <1>5, <1>6, <1>7, <1>8, BookKeepsBooks DEF Next, TransferStep

LEMMA BooksReconcileAtFirst == Init => BooksReconcile
    <1> SUFFICES ASSUME Init, NEW a \in Agent
                 PROVE  /\ available[a] = Sum(Gain, Of(a, {"credit", "onramp"}))
                        /\ gateway[a] = Opening
                            + Sum(Gain, Of(a, {"received"})) - Sum(Loss, Of(a, {"sent"}))
                            + Sum(AmountOf, UnbookedTo(a)) - Sum(AmountOf, UnbookedFrom(a))
        BY DEF BooksReconcile
    <1>1. /\ \A types : Of(a, types) = {}
          /\ UnbookedTo(a) = {} /\ UnbookedFrom(a) = {}
        BY DEF Init, Of, UnbookedTo, UnbookedFrom, Unbooked
    <1>2. \A f : Sum(f, {}) = 0
        <2>1. \A f : Units(f, {}) = {}
            BY DEF Units
        <2> QED
            BY <2>1, FS_EmptySet DEF Sum
    <1>3. available[a] = 0 /\ gateway[a] = Opening /\ Opening \in Nat
        BY SettlementsAssumption DEF Init
    <1>4. /\ Sum(Gain, Of(a, {"credit", "onramp"})) = 0
          /\ Sum(Gain, Of(a, {"received"})) = 0 /\ Sum(Loss, Of(a, {"sent"})) = 0
          /\ Sum(AmountOf, UnbookedTo(a)) = 0 /\ Sum(AmountOf, UnbookedFrom(a)) = 0
        BY <1>1, <1>2
    <1> QED
        BY <1>3, <1>4

(* The ledger's balances are what credits and onramp sessions brought, and *)
(* the Gateway's are what the booked transfers left, but for the transfers *)
(* it made that the books do not show (main.py:993-1018).                  *)
THEOREM BooksAlwaysReconcile == Spec => []BooksReconcile
    <1>1. SettlementsInv /\ SettlementsInv' /\ BooksReconcile /\ [Next]_vars => BooksReconcile'
        BY BooksReconcileKept
    <1> QED
        BY <1>1, BooksReconcileAtFirst, SettlementsInvariant, PTL DEF Spec

=============================================================================
