---------------------------- MODULE Settlements ----------------------------
(***************************************************************************)
(* The three other ways to change an account's books: transfers between    *)
(* agents, settled by the Circle service through the Gateway, credits, and *)
(* Coinbase onramp sessions that are confirmed into a credit               *)
(* (ledger/main.py, store.py, services.py, clients.py; transfer of         *)
(* chain/src/services/agent-wallet-service.ts).  Transfers and credits are *)
(* also written to the chain by the chain recorder.                        *)
(*                                                                         *)
(* Every store call is one transaction.  A handler may be overtaken at     *)
(* each await, and between two store calls by the onramp handlers, which   *)
(* run on threads, or by a crash.  The Circle service and the chain        *)
(* service go on with what they were asked when the ledger has given up.   *)
(***************************************************************************)
EXTENDS Integers, FiniteSets

CONSTANTS
    Agent,
    Wallets,        \* agents whose account has a Circle wallet
    Transfer,       \* calls of POST /ledger/transfers
    Credit,         \* calls of POST /ledger/accounts/{agent_id}/credit
    Create,         \* calls of POST /onramp/sessions
    Confirm,        \* calls of POST /onramp/sessions/{session_id}/confirm
    Key,            \* idempotency keys
    Amounts,        \* amounts a call may name
    Limit,          \* AGENT_TRANSFER_SINGLE_LIMIT_ATOMIC
    Opening,        \* what each agent's Gateway balance is at first
    None

Calls == Transfer \cup Credit \cup Create \cup Confirm
Recorded == Transfer \cup Credit

ASSUME SettlementsAssumption ==
    /\ Wallets \subseteq Agent
    /\ Amounts \subseteq Nat
    /\ Limit \in Nat
    /\ Opening \in Nat
    /\ Transfer \cap Credit = {}
    /\ Transfer \cap Create = {} /\ Transfer \cap Confirm = {}
    /\ Credit \cap Create = {} /\ Credit \cap Confirm = {}
    /\ Create \cap Confirm = {}
    /\ None \notin Calls \cup Agent \cup Key

VARIABLES
    mode,           \* the LEDGER_SETTLEMENT_* and LEDGER_CHAIN_RECORD_* settings
    at,             \* at[c]: how far the handler of call c is
    arg,            \* arg[c]: what the caller asked for
    entries,        \* ledger_entries; an entry is identified by its call
    available,      \* availableAtomic of the accounts
    settlements,    \* ledger_settlement_records
    chainRecords,   \* ledger_chain_records
    session,        \* ledger_onramp_sessions, by the call that made them
    events,         \* ledger_onramp_events: how often each was written
    got,            \* got[c]: the session that c was answered
    circle,         \* circle[t]: how far the Circle service is with t
    gateway,        \* the agents' Gateway balances
    moved,          \* transfers that the Gateway has settled
    chain           \* chain[c]: what became of c's execution request

settled == <<entries, available, settlements, chainRecords>>
onramp == <<session, events, got>>
outside == <<circle, gateway, moved, chain>>
vars == <<mode, at, arg, settled, onramp, outside>>
-----------------------------------------------------------------------------
NoArg == [from |-> None, to |-> None, amount |-> 0, key |-> None]
NoSession == [agent |-> None, key |-> None, status |-> "none", entry |-> None]

Running == {"settling", "settled", "booked", "recording", "tokening"}
Answered == {"ok", "error"}

Init ==
    /\ mode \in [settle : BOOLEAN, record : {"off", "best_effort", "required"}]
    /\ at = [c \in Calls |-> "idle"]
    /\ arg = [c \in Calls |-> NoArg]
    /\ entries = {}
    /\ available = [a \in Agent |-> 0]
    /\ settlements = {}
    /\ chainRecords = {}
    /\ session = [c \in Create |-> NoSession]
    /\ events = [c \in Create |-> [created |-> 0, credited |-> 0]]
    /\ got = [c \in Create |-> None]
    /\ circle = [t \in Transfer |-> "none"]
    /\ gateway = [a \in Agent |-> Opening]
    /\ moved = {}
    /\ chain = [c \in Recorded |-> "none"]

Goto(c, stage) == at' = [at EXCEPT ![c] = stage]

Entry(c, type, agent, delta) ==
    [call |-> c, type |-> type, agent |-> agent, delta |-> delta]
-----------------------------------------------------------------------------
(* Transfers between agents: transfer_between_agents in main.py.           *)

Transferable(from, to, amount) ==
    /\ {from, to} \subseteq Wallets
    /\ amount > 0
    /\ amount <= Limit

Ask(c, from, to, amount, key) ==
    arg' = [arg EXCEPT ![c] =
        [from |-> from, to |-> to, amount |-> amount, key |-> key]]

AskTransfer(t) ==
    /\ at[t] = "idle"
    /\ \E from, to \in Agent, amount \in Amounts :
        \/ /\ Transferable(from, to, amount) /\ mode.settle
           /\ Ask(t, from, to, amount, None)
           /\ circle' = [circle EXCEPT ![t] = "asked"]
           /\ Goto(t, "settling")
           /\ UNCHANGED settlements
        \/ /\ Transferable(from, to, amount) /\ ~mode.settle
           /\ settlements' = settlements \cup {[call |-> t, status |-> "failed"]}
           /\ Goto(t, "error")
           /\ UNCHANGED <<arg, circle>>
        \/ /\ ~Transferable(from, to, amount)
           /\ Goto(t, "error")
           /\ UNCHANGED <<arg, circle, settlements>>
    /\ UNCHANGED <<mode, entries, available, chainRecords, onramp, gateway,
                   moved, chain>>

(* Seeded fault: an accepted request is taken for a settled one.           *)
SettledEarly(t) ==
    /\ at[t] = "settling"
    /\ circle[t] \in {"checked", "signed", "moved", "answered"}
    /\ settlements' = settlements \cup {[call |-> t, status |-> "submitted"]}
    /\ Goto(t, "settled")
    /\ UNCHANGED <<mode, arg, entries, available, chainRecords, onramp, outside>>

(* settle_agent_transfer has the Circle service's answer and saves it.     *)
Settled(t) ==
    /\ at[t] = "settling"
    /\ circle[t] = "answered"
    /\ settlements' = settlements \cup {[call |-> t, status |-> "submitted"]}
    /\ Goto(t, "settled")
    /\ UNCHANGED <<mode, arg, entries, available, chainRecords, onramp, outside>>

(* Seeded fault: the failed settlement is reported but not saved.          *)
UnsettledUnsaved(t) ==
    /\ at[t] = "settling"
    /\ Goto(t, "error")
    /\ UNCHANGED <<mode, arg, settled, onramp, outside>>

(* An error answer, a timeout or a lost answer: whatever the Circle service *)
(* does or has done, the failure is saved and reported.                    *)
Unsettled(t) ==
    /\ at[t] = "settling"
    /\ settlements' = settlements \cup {[call |-> t, status |-> "failed"]}
    /\ Goto(t, "error")
    /\ UNCHANGED <<mode, arg, entries, available, chainRecords, onramp, outside>>

Pair(t) ==
    { Entry(t, "sent", arg[t].from, -arg[t].amount),
      Entry(t, "received", arg[t].to, arg[t].amount) }

(* Seeded fault: the receiver's entry is not saved.                        *)
BookSender(t) ==
    /\ at[t] = "settled"
    /\ entries' = entries \cup {Entry(t, "sent", arg[t].from, -arg[t].amount)}
    /\ Goto(t, "booked")
    /\ UNCHANGED <<mode, arg, available, settlements, chainRecords, onramp,
                   outside>>

BookTransfer(t) ==
    /\ at[t] = "settled"
    /\ entries' = entries \cup Pair(t)
    /\ Goto(t, "booked")
    /\ UNCHANGED <<mode, arg, available, settlements, chainRecords, onramp,
                   outside>>
-----------------------------------------------------------------------------
(* The Circle service's transfer and gatewayUsdcTransfer.                  *)

CircleChecks(t) ==
    /\ circle[t] = "asked"
    /\ gateway[arg[t].from] >= arg[t].amount
    /\ circle' = [circle EXCEPT ![t] = "checked"]
    /\ UNCHANGED <<mode, at, arg, settled, onramp, gateway, moved, chain>>

CircleRefuses(t) ==
    /\ circle[t] = "asked"
    /\ gateway[arg[t].from] < arg[t].amount
    /\ circle' = [circle EXCEPT ![t] = "failed"]
    /\ UNCHANGED <<mode, at, arg, settled, onramp, gateway, moved, chain>>

(* The payment is signed by the sender's wallet and found valid.           *)
CircleSigns(t) ==
    /\ circle[t] = "checked"
    /\ circle' = [circle EXCEPT ![t] = "signed"]
    /\ UNCHANGED <<mode, at, arg, settled, onramp, gateway, moved, chain>>

GatewaySettles(t) ==
    LET a == arg[t] IN
    /\ circle[t] = "signed"
    /\ gateway[a.from] >= a.amount
    /\ gateway' = [b \in Agent |-> gateway[b]
                                   - (IF b = a.from THEN a.amount ELSE 0)
                                   + (IF b = a.to THEN a.amount ELSE 0)]
    /\ moved' = moved \cup {t}
    /\ circle' = [circle EXCEPT ![t] = "moved"]
    /\ UNCHANGED <<mode, at, arg, settled, onramp, chain>>

CircleAnswers(t) ==
    /\ circle[t] = "moved"
    /\ circle' = [circle EXCEPT ![t] = "answered"]
    /\ UNCHANGED <<mode, at, arg, settled, onramp, gateway, moved, chain>>

(* No binding, not an EOA wallet, a failed lookup or signature, an invalid *)
(* or rejected payment, a settle call that breaks off, a restart.          *)
CircleFails(t) ==
    /\ circle[t] \in {"asked", "checked", "signed", "moved"}
    /\ circle' = [circle EXCEPT ![t] = "failed"]
    /\ UNCHANGED <<mode, at, arg, settled, onramp, gateway, moved, chain>>

-----------------------------------------------------------------------------
(* credit_agent_balance.                                                   *)
AskCredit(c) ==
    /\ at[c] = "idle"
    /\ \E agent \in Agent, amount \in Amounts :
        \/ /\ amount > 0
           /\ Ask(c, None, agent, amount, None)
           /\ available' = [available EXCEPT ![agent] = @ + amount]
           /\ entries' = entries \cup {Entry(c, "credit", agent, amount)}
           /\ Goto(c, "booked")
        \/ /\ amount = 0
           /\ Goto(c, "error")
           /\ UNCHANGED <<arg, available, entries>>
    /\ UNCHANGED <<mode, settlements, chainRecords, onramp, outside>>

(* Seeded fault: the event goes to the chain before its entry is saved.    *)
RecorderFirst(c) ==
    /\ at[c] \in {"settled", "booked"}
    /\ mode.record # "off"
    /\ Goto(c, "recording")
    /\ chain' = [chain EXCEPT ![c] = "asked"]
    /\ UNCHANGED <<mode, arg, settled, onramp, circle, gateway, moved>>

(* record_ledger_chain_event, after a transfer or a credit is booked.      *)
AskRecorder(c) ==
    /\ at[c] = "booked"
    /\ \/ /\ mode.record = "off"
          /\ Goto(c, "ok")
          /\ UNCHANGED chain
       \/ /\ mode.record # "off"
          /\ Goto(c, "recording")
          /\ chain' = [chain EXCEPT ![c] = "asked"]
    /\ UNCHANGED <<mode, arg, settled, onramp, circle, gateway, moved>>

(* The chain service submits the execution, perhaps after the ledger gave  *)
(* up waiting for it.                                                      *)
ChainExecutes(c) ==
    /\ chain[c] = "asked"
    /\ chain' = [chain EXCEPT ![c] = "executed"]
    /\ UNCHANGED <<mode, at, arg, settled, onramp, circle, gateway, moved>>

Record(c) ==
    /\ at[c] = "recording"
    /\ chain[c] = "executed"
    /\ chainRecords' = chainRecords \cup {[call |-> c, status |-> "submitted"]}
    /\ Goto(c, "ok")
    /\ UNCHANGED <<mode, arg, entries, available, settlements, onramp, outside>>

(* Seeded fault: the error is reported only if nothing was required.       *)
RecordFailsQuietly(c) ==
    /\ at[c] = "recording"
    /\ Goto(c, "ok")
    /\ UNCHANGED <<mode, arg, settled, onramp, outside>>

(* The payload is too large, the request fails or times out.               *)
RecordFails(c) ==
    /\ at[c] = "recording"
    /\ \/ /\ mode.record = "required"
          /\ Goto(c, "error")
          /\ UNCHANGED chainRecords
       \/ /\ mode.record = "best_effort"
          /\ chainRecords' = chainRecords \cup {[call |-> c, status |-> "failed"]}
          /\ Goto(c, "ok")
    /\ UNCHANGED <<mode, arg, entries, available, settlements, onramp, outside>>
-----------------------------------------------------------------------------
(* Onramp sessions.                                                        *)

WithKey(key) == {s \in Create : session[s].status # "none" /\ session[s].key = key}

AskSession(c) ==
    /\ at[c] = "idle"
    /\ \E key \in Key, agent \in Agent :
        /\ Ask(c, None, agent, 0, key)
        /\ \/ \E s \in WithKey(key) :
                /\ got' = [got EXCEPT ![c] = s]
                /\ Goto(c, "ok")
           \/ /\ WithKey(key) = {}
              /\ Goto(c, "tokening")
              /\ UNCHANGED got
    /\ UNCHANGED <<mode, settled, session, events, outside>>

TokenRefused(c) ==
    /\ at[c] = "tokening"
    /\ Goto(c, "error")
    /\ UNCHANGED <<mode, arg, settled, onramp, outside>>

(* Seeded fault: the key is not looked for again in the transaction.       *)
AddSessionBlindly(c) ==
    /\ at[c] = "tokening"
    /\ session' = [session EXCEPT ![c] =
            [agent |-> arg[c].to, key |-> arg[c].key,
             status |-> "created", entry |-> None]]
    /\ events' = [events EXCEPT ![c].created = @ + 1]
    /\ got' = [got EXCEPT ![c] = c]
    /\ Goto(c, "ok")
    /\ UNCHANGED <<mode, arg, settled, outside>>

(* Coinbase has answered; add_onramp_session looks for the key once more.  *)
AddSession(c) ==
    /\ at[c] = "tokening"
    /\ \/ \E s \in WithKey(arg[c].key) :
            /\ got' = [got EXCEPT ![c] = s]
            /\ UNCHANGED <<session, events>>
       \/ /\ WithKey(arg[c].key) = {}
          /\ session' = [session EXCEPT ![c] =
                [agent |-> arg[c].to, key |-> arg[c].key,
                 status |-> "created", entry |-> None]]
          /\ events' = [events EXCEPT ![c].created = @ + 1]
          /\ got' = [got EXCEPT ![c] = c]
    /\ Goto(c, "ok")
    /\ UNCHANGED <<mode, arg, settled, outside>>

CreditSession(f, s, amount) ==
    LET agent == session[s].agent IN
    /\ available' = [available EXCEPT ![agent] = @ + amount]
    /\ entries' = entries \cup {Entry(f, "onramp", agent, amount)}
    /\ session' = [session EXCEPT ![s].status = "credited", ![s].entry = f]
    /\ events' = [events EXCEPT ![s].credited = @ + 1]

(* Seeded fault: a credited session is credited again.                     *)
ConfirmAgain(f) ==
    /\ at[f] = "idle"
    /\ \E s \in Create, amount \in Amounts \ {0} :
        /\ session[s].status # "none"
        /\ CreditSession(f, s, amount)
    /\ Goto(f, "ok")
    /\ UNCHANGED <<mode, arg, settlements, chainRecords, got, outside>>

ConfirmSession(f) ==
    /\ at[f] = "idle"
    /\ \E s \in Create, amount \in Amounts :
        \/ /\ amount = 0 \/ session[s].status = "none"
           /\ Goto(f, "error")
           /\ UNCHANGED <<available, entries, session, events>>
        \/ /\ amount > 0 /\ session[s].status = "credited"
           /\ Goto(f, "ok")
           /\ UNCHANGED <<available, entries, session, events>>
        \/ /\ amount > 0 /\ session[s].status = "created"
           /\ CreditSession(f, s, amount)
           /\ Goto(f, "ok")
    /\ UNCHANGED <<mode, arg, settlements, chainRecords, got, outside>>
-----------------------------------------------------------------------------
(* The ledger restarts: its handlers are gone, its tables and what other   *)
(* services were asked are not.                                            *)
Crash ==
    /\ \E c \in Calls : at[c] \in Running
    /\ at' = [c \in Calls |-> IF at[c] \in Running THEN "crashed" ELSE at[c]]
    /\ UNCHANGED <<mode, arg, settled, onramp, outside>>

TransferStep(t) ==
    AskTransfer(t) \/ Settled(t) \/ Unsettled(t) \/ BookTransfer(t)

CircleStep(t) ==
    \/ CircleChecks(t) \/ CircleRefuses(t) \/ CircleSigns(t)
    \/ GatewaySettles(t) \/ CircleAnswers(t) \/ CircleFails(t)

RecorderStep(c) == AskRecorder(c) \/ ChainExecutes(c) \/ Record(c) \/ RecordFails(c)

OnrampStep(c) == AskSession(c) \/ TokenRefused(c) \/ AddSession(c)

Next ==
    \/ \E t \in Transfer : TransferStep(t) \/ CircleStep(t)
    \/ \E c \in Credit : AskCredit(c)
    \/ \E c \in Recorded : RecorderStep(c)
    \/ \E c \in Create : OnrampStep(c)
    \/ \E f \in Confirm : ConfirmSession(f)
    \/ Crash

Spec == Init /\ [][Next]_vars
-----------------------------------------------------------------------------
Types == {"credit", "onramp", "sent", "received"}

TypeOK ==
    /\ mode \in [settle : BOOLEAN, record : {"off", "best_effort", "required"}]
    /\ at \in [Calls -> {"idle", "crashed"} \cup Running \cup Answered]
    /\ arg \in [Calls -> [from : Agent \cup {None}, to : Agent \cup {None},
                          amount : Nat, key : Key \cup {None}]]
    /\ entries \subseteq [call : Calls, type : Types, agent : Agent, delta : Int]
    /\ available \in [Agent -> Nat]
    /\ settlements \subseteq [call : Transfer, status : {"submitted", "failed"}]
    /\ chainRecords \subseteq [call : Recorded, status : {"submitted", "failed"}]
    /\ session \in [Create -> [agent : Agent \cup {None}, key : Key \cup {None},
                               status : {"none", "created", "credited"},
                               entry : Confirm \cup {None}]]
    /\ events \in [Create -> [created : Nat, credited : Nat]]
    /\ got \in [Create -> Create \cup {None}]
    /\ circle \in [Transfer -> {"none", "asked", "checked", "signed", "moved",
                                "answered", "failed"}]
    /\ gateway \in [Agent -> Nat]
    /\ moved \subseteq Transfer
    /\ chain \in [Recorded -> {"none", "asked", "executed"}]

Booked(t) == Pair(t) \subseteq entries

(* The sum of the amounts of S: the number of its units, each a pair of    *)
(* an element and a number up to its amount.                               *)
Units(amount, S) == UNION {{x} \X (1..amount[x]) : x \in S}
Sum(amount, S) == Cardinality(Units(amount, S))

Gain == [e \in entries |-> e.delta]
Loss == [e \in entries |-> -e.delta]
AmountOf == [t \in Transfer |-> arg[t].amount]

Of(a, types) == {e \in entries : e.agent = a /\ e.type \in types}

(* Transfers that the Gateway made and the books do not show.              *)
Unbooked == {t \in moved : ~Booked(t)}
UnbookedTo(a)   == {t \in Unbooked : arg[t].to = a}
UnbookedFrom(a) == {t \in Unbooked : arg[t].from = a}

(* The two balances of an agent and the one table of entries agree: the    *)
(* ledger's balance is what credits and onramp sessions brought, and the   *)
(* Gateway's is what the transfers in the books left, but for transfers    *)
(* the Gateway made that the books do not show (main.py:993-1018).         *)
BooksReconcile ==
    \A a \in Agent :
        /\ available[a] = Sum(Gain, Of(a, {"credit", "onramp"}))
        /\ gateway[a] = Opening
                + Sum(Gain, Of(a, {"received"})) - Sum(Loss, Of(a, {"sent"}))
                + Sum(AmountOf, UnbookedTo(a)) - Sum(AmountOf, UnbookedFrom(a))

(* A transfer that the Gateway made and whose caller has an answer left a  *)
(* settlement record, also when the answer was an error: what is missing   *)
(* in the books can be found in the records, unless the process died       *)
(* (services.py:172-220).                                                  *)
MovedIsTraced ==
    \A t \in moved : at[t] \in Answered => \E r \in settlements : r.call = t

(* Whoever is told "done" has the entries, the settlement record and, as   *)
(* the settings ask, the chain record, and nothing reaches the chain that  *)
(* is not in the books (main.py:801-822, 977-1033).                        *)
AnsweredOkMeansRecorded ==
    \A c \in Recorded :
        /\ at[c] = "ok" =>
            /\ \E e \in entries : e.call = c
            /\ c \in Transfer =>
                Booked(c) /\ [call |-> c, status |-> "submitted"] \in settlements
            /\ mode.record = "required" =>
                [call |-> c, status |-> "submitted"] \in chainRecords
            /\ mode.record = "best_effort" =>
                \E r \in chainRecords : r.call = c
        /\ chain[c] # "none" => \E e \in entries : e.call = c

(* However two creations with one key interleave with Coinbase's answers,  *)
(* both callers get the one session that is stored (main.py:729-780,       *)
(* store.py:1390-1413; README.md:173 says a repeated key reuses it).       *)
SameKeySameSession ==
    \A c, d \in Create :
        /\ got[c] # None => session[got[c]].key = arg[c].key
        /\ (got[c] # None /\ got[d] # None /\ arg[c].key = arg[d].key)
            => got[c] = got[d]

(* A session is credited once, however often it is confirmed: its status,  *)
(* its trail of events and the entries tell the same (store.py:1430-1494). *)
CreditedOnce ==
    /\ \A e \in entries : e.type = "onramp" =>
        \E s \in Create :
            /\ session[s].entry = e.call /\ session[s].agent = e.agent
            /\ \A r \in Create : session[r].entry = e.call => r = s
    /\ \A s \in Create :
        /\ session[s].status = "credited" <=>
            \E e \in entries : e.call = session[s].entry /\ e.type = "onramp"
        /\ events[s] = [created |-> IF session[s].status = "none" THEN 0 ELSE 1,
                       credited |-> IF session[s].status = "credited" THEN 1 ELSE 0]
-----------------------------------------------------------------------------
(* The inductive invariant behind these properties.                        *)

Passed == {"settled", "booked", "recording", "ok"}

HasEntry(c) == \E e \in entries : e.call = c
HasRecord(t) == \E r \in settlements : r.call = t

(* What the Circle service was asked, and whether the money moved.         *)
CircleAgrees(t) ==
    /\ circle[t] # "none" =>
        /\ at[t] # "idle"
        /\ arg[t].from \in Agent /\ arg[t].to \in Agent /\ arg[t].amount > 0
    /\ circle[t] = "none" => at[t] \in {"idle", "error"}
    /\ circle[t] \in {"moved", "answered"} => t \in moved
    /\ t \in moved => circle[t] \in {"moved", "answered", "failed"}

(* The records and the entries of a transfer follow its handler.           *)
TransferAgrees(t) ==
    /\ at[t] \in Passed =>
        /\ circle[t] = "answered"
        /\ [call |-> t, status |-> "submitted"] \in settlements
    /\ at[t] \in {"idle", "settling"} => ~HasRecord(t)
    /\ at[t] \in {"idle", "settling", "settled"} => ~HasEntry(t)
    /\ at[t] \in Passed \ {"settled"} => Booked(t)
    /\ HasEntry(t) => Booked(t) /\ circle[t] = "answered"
    /\ at[t] = "error" /\ circle[t] # "none" => HasRecord(t)
    /\ at[t] # "tokening"

(* The chain is asked only about booked calls.                             *)
ChainAgrees(c) ==
    /\ chain[c] # "none" => HasEntry(c) /\ mode.record # "off"
    /\ at[c] \in {"idle", "booked"} => chain[c] = "none"
    /\ at[c] = "ok" =>
        /\ mode.record = "required" =>
            [call |-> c, status |-> "submitted"] \in chainRecords
        /\ mode.record = "best_effort" =>
            \E r \in chainRecords : r.call = c
    /\ at[c] = "recording" => mode.record # "off"

CreditAgrees(c) ==
    /\ at[c] \notin {"settling", "settled", "tokening"}
    /\ at[c] = "idle" => ~HasEntry(c)
    /\ at[c] \in Passed => HasEntry(c)

(* The sessions, the calls that made them and the calls they answered.     *)
CreateAgrees(c) ==
    /\ session[c].status = "none" => session[c] = NoSession
    /\ session[c].status # "none" =>
        /\ at[c] = "ok" /\ session[c].agent \in Agent
        /\ session[c].key = arg[c].key
    /\ got[c] # None =>
        /\ session[got[c]].status # "none"
        /\ session[got[c]].key = arg[c].key
    /\ at[c] = "tokening" => arg[c].key \in Key /\ arg[c].to \in Agent
    /\ got[c] # None => at[c] = "ok" /\ arg[c].key \in Key
    /\ events[c].created = IF session[c].status = "none" THEN 0 ELSE 1
    /\ events[c].credited = IF session[c].status = "credited" THEN 1 ELSE 0
    /\ at[c] \in {"idle", "tokening", "ok", "error", "crashed"}

KeysUnique ==
    \A c, d \in Create :
        session[c].status # "none" /\ session[c].key = session[d].key => c = d

(* Each onramp entry belongs to the one session that names it.             *)
ConfirmAgrees(f) ==
    /\ at[f] \in {"idle"} \cup Answered
    /\ at[f] = "idle" => ~HasEntry(f)
    /\ HasEntry(f) => \E s \in Create : session[s].entry = f

SessionAgrees(s) ==
    /\ session[s].status = "credited" =>
        /\ session[s].entry \in Confirm
        /\ \E e \in entries : e.call = session[s].entry /\ e.agent = session[s].agent
    /\ session[s].status = "created" => session[s].entry = None

OnrampEntries ==
    /\ \A e \in entries : e.type = "onramp" <=> e.call \in Confirm
    /\ \A d, e \in entries : d.call = e.call /\ d.call \in Confirm => d = e

EntriesUnique ==
    \A r, s \in Create :
        session[r].entry = session[s].entry /\ session[r].entry # None => r = s

(* The tables only ever grow, by one or two rows at a time.                *)
TablesFinite == IsFiniteSet(entries) /\ IsFiniteSet(moved)

SettlementsInv ==
    /\ TypeOK /\ TablesFinite
    /\ \A t \in Transfer : CircleAgrees(t) /\ TransferAgrees(t)
    /\ \A c \in Recorded : ChainAgrees(c)
    /\ \A c \in Credit : CreditAgrees(c)
    /\ \A c \in Create : CreateAgrees(c) /\ SessionAgrees(c)
    /\ \A f \in Confirm : ConfirmAgrees(f)
    /\ KeysUnique /\ OnrampEntries /\ EntriesUnique
-----------------------------------------------------------------------------
Promise == INSTANCE SettlementPromise WITH
    booked <- {t \in Transfer : Booked(t)},
    told <- {t \in Transfer : at[t] = "ok"}

(* The handler and the Circle service implement SettlementPromise.         *)
KeepsPromise == Promise!Spec
=============================================================================
