--------------------------- MODULE InboundCredit ---------------------------
(***************************************************************************)
(* How the ledger turns Circle webhook notifications about inbound USDC    *)
(* into credits of one agent's account: process_circle_wallet_webhook and  *)
(* the gas top-up resume task of ledger/webhooks.py, the store they write  *)
(* (ledger/store.py) and the Circle service they call                      *)
(* (chain/src/services/agent-wallet-service.ts).                           *)
(*                                                                         *)
(* The ledger is one asyncio process.  A handler or a task runs without    *)
(* interruption from one await to the next, so other handlers interleave   *)
(* only at awaits; but every store call is a database transaction of its   *)
(* own, so a crash can fall between any two of them.  "loop" is the owner  *)
(* of the event loop in the middle of a stretch with several store calls.  *)
(***************************************************************************)
EXTENDS Integers, Sequences, FiniteSets

CONSTANTS
    Tx,         \* Circle transactions that pay USDC into the agent's wallet
    Value,      \* Value[t]: atomic USDC that t pays in
    Note,       \* webhook notifications about transactions
    TxOf,       \* TxOf[n]: the transaction n is about (n carries its id)
    Usable,     \* notifications that are inbound, complete and in USDC
    Legacy,     \* notifications that may be "processed" from the beginning,
                \* since before entries were recorded for payments
    EOA,        \* the wallet is an EOA account that pays its own gas
    Intent,     \* gas top-ups Circle may create within its daily limit;
                \* the notification of top-up i has the identifier i
    Handler,    \* webhook requests the ledger serves at a time
    Task,       \* resume tasks that may be alive at a time
    Faults,     \* which faults may happen in a run, see below
    None        \* no notification, no task, nobody on the loop

FaultKinds ==
    { "crash",          \* the ledger process restarts
      "duplicate",      \* Circle delivers a notification it had a 200 for
      "hook_error",     \* the Circle service fails the gas top-up hook
      "circle_error",   \* a status or deposit call fails, nothing moves
      "lost_reply",     \* a deposit lands, its caller times out before
      "window" }        \* a pending top-up is too old to be reused

ASSUME InboundAssumption ==
    /\ Value \in [Tx -> Nat \ {0}]
    /\ TxOf \in [Note -> Tx]
    /\ Usable \subseteq Note
    /\ Legacy \subseteq Usable
    /\ EOA \in BOOLEAN
    /\ Faults \subseteq FaultKinds
    /\ Note \cap Intent = {}
    /\ Handler \cap Task = {}
    /\ None \notin Note \cup Intent \cup Handler \cup Task

Hook == Note \cup Intent

VARIABLES
    arrived,    \* transactions confirmed on chain
    bound,      \* the wallet is bound to the agent's account
    acked,      \* notifications answered with a 200
    events,     \* events[n]: status of the CircleWebhookEventRecord of n
    pendings,   \* pending_inbound entries, in the order of their position
    credits,    \* credit entries, in the order of their position
    available,  \* availableAtomic of the account
    wallet,     \* USDC in the agent's Circle wallet
    gateway,    \* USDC moved to the Gateway
    gas,        \* the wallet holds enough ETH for a Gateway deposit
    intents,    \* gas top-up intents of the Circle service
    req,        \* req[h]: the webhook request h serves
    job,        \* job[k]: the resume task in slot k
    loop        \* who runs between two store calls of one stretch

ledgerVars == <<events, pendings, credits, available>>
circleVars == <<wallet, gateway, gas, intents>>
worldVars  == <<arrived, bound>>
vars == <<worldVars, acked, ledgerVars, circleVars, req, job, loop>>

Status  == {"none", "received", "processed", "skipped", "failed"}
Pending == [tx : Tx, note : Note]
Credit  == [link : Nat, tx : Tx]
TopUp   == [status : {"none", "pending", "topup_complete", "completed", "failed"},
            ref : Note \cup {None}, amount : Nat, arrived : BOOLEAN]
Request == [pc : {"idle", "hook", "topup_complete", "topup_known", "status",
                  "balance", "deposit", "deposited", "gas_pending", "failed",
                  "crediting", "marking"},
            note : Hook \cup {None}, seen : Status, entry : Nat,
            amount : Nat, batch : SUBSET Nat, current : Nat]
Resume  == [pc : {"idle", "scheduled", "deposit", "resumed", "marking"},
            intent : Intent \cup {None}, current : Nat]

TypeOK ==
    /\ arrived \subseteq Tx
    /\ bound \in BOOLEAN
    /\ acked \subseteq Hook
    /\ events \in [Hook -> Status]
    /\ pendings \in Seq(Pending)
    /\ credits \in Seq(Credit)
    /\ available \in Nat
    /\ wallet \in Nat
    /\ gateway \in Nat
    /\ gas \in BOOLEAN
    /\ intents \in [Intent -> TopUp]
    /\ req \in [Handler -> Request]
    /\ job \in [Task -> Resume]
    /\ loop \in Handler \cup Task \cup {None}

NoTopUp   == [status |-> "none", ref |-> None, amount |-> 0, arrived |-> FALSE]
NoRequest == [pc |-> "idle", note |-> None, seen |-> "none", entry |-> 0,
              amount |-> 0, batch |-> {}, current |-> 0]
NoResume  == [pc |-> "idle", intent |-> None, current |-> 0]

Init ==
    /\ acked \in SUBSET Legacy
    /\ arrived = {TxOf[n] : n \in acked}
    /\ bound \in BOOLEAN
    /\ events = [n \in Hook |-> IF n \in acked THEN "processed" ELSE "none"]
    /\ pendings = << >>
    /\ credits = << >>
    /\ available = 0
    /\ wallet = 0
    /\ gateway = 0
    /\ gas \in IF EOA THEN BOOLEAN ELSE {TRUE}
    /\ intents = [i \in Intent |-> NoTopUp]
    /\ req = [h \in Handler |-> NoRequest]
    /\ job = [k \in Task |-> NoResume]
    /\ loop = None

-----------------------------------------------------------------------------
(* What the handlers look up in the account's entries.                     *)

(* i is the first element of S, in entry order; 0 when there is none.      *)
IsFirst(i, S) == IF S = {} THEN i = 0
                           ELSE i \in S /\ \A j \in S : i <= j

MatchingPending(n) ==
    {i \in DOMAIN pendings : pendings[i].note = n \/ pendings[i].tx = TxOf[n]}

CreditedTx(t) == \E c \in DOMAIN credits : credits[c].tx = t

(* A credit records the notification of the entry it is linked to.         *)
MatchingCredit(n) ==
    \E c \in DOMAIN credits :
        \/ pendings[credits[c].link].note = n
        \/ credits[c].tx = TxOf[n]

LinkedCredit(i) == \E c \in DOMAIN credits : credits[c].link = i

CreditLinkedToPending(i) == LinkedCredit(i) \/ CreditedTx(pendings[i].tx)

(* Greedy cover of the uncredited pendings by a swept amount: Left[i] is   *)
(* what remains of it after the first i entries.                           *)
CoveredBySweep(amount) ==
    LET Uncredited == {i \in DOMAIN pendings : ~CreditLinkedToPending(i)}
        Cost(i) == Value[pendings[i].tx]
        Left[i \in 0..Len(pendings)] ==
            IF i = 0 THEN amount
            ELSE IF i \in Uncredited /\ Cost(i) <= Left[i - 1]
                 THEN Left[i - 1] - Cost(i)
                 ELSE Left[i - 1]
    IN {i \in Uncredited : Cost(i) <= Left[i - 1]}

(* Ensure a pending entry for notification n; p is the one found, or 0.    *)
EnsurePending(n, p) ==
    pendings' = IF p # 0 THEN pendings
                ELSE Append(pendings, [tx |-> TxOf[n], note |-> n])

Ensured(p) == IF p # 0 THEN p ELSE Len(pendings) + 1

(* Seeded fault: the entry is appended, the balance forgotten.             *)
CreditEntryOnly(i) ==
    /\ credits' = Append(credits, [link |-> i, tx |-> pendings[i].tx])
    /\ UNCHANGED available

(* store.credit: one transaction for the balance and the entry.            *)
CreditPending(i) ==
    /\ credits' = Append(credits, [link |-> i, tx |-> pendings[i].tx])
    /\ available' = available + Value[pendings[i].tx]

-----------------------------------------------------------------------------
(* The world: payments, wallet binding, native gas.                        *)

Arrive(t) ==
    /\ t \notin arrived
    /\ arrived' = arrived \cup {t}
    /\ wallet' = wallet + Value[t]
    /\ UNCHANGED <<bound, acked, ledgerVars, gateway, gas, intents, req, job, loop>>

BindWallet ==
    /\ ~bound
    /\ bound' = TRUE
    /\ UNCHANGED <<arrived, acked, ledgerVars, circleVars, req, job, loop>>

GasArrives(i) ==
    /\ intents[i].status # "none"
    /\ ~intents[i].arrived
    /\ intents' = [intents EXCEPT ![i].arrived = TRUE]
    /\ gas' = TRUE
    /\ UNCHANGED <<worldVars, acked, ledgerVars, wallet, gateway, req, job, loop>>

(* A deposit of amount is executed; it may use up an EOA wallet's gas.     *)
Sweep(amount) ==
    /\ amount > 0
    /\ gas
    /\ amount <= wallet
    /\ wallet' = wallet - amount
    /\ gateway' = gateway + amount
    /\ gas' \in IF EOA THEN BOOLEAN ELSE {TRUE}

(* The local state of request h, or of the resume task in slot k, is r.    *)
Goto(h, r)   == req' = [req EXCEPT ![h] = r]
Become(k, r) == job' = [job EXCEPT ![k] = r]

-----------------------------------------------------------------------------
(* The webhook handler, from one await to the next.                        *)

Deliverable(n) ==
    /\ n \in Note => TxOf[n] \in arrived
    /\ n \in Intent => intents[n].arrived
    /\ n \in acked => "duplicate" \in Faults

Reply(h, n) ==
    /\ acked' = acked \cup {n}
    /\ Goto(h, NoRequest)

Save(n, status) == events' = [events EXCEPT ![n] = status]

Deliver(h, n) ==
    /\ loop = None
    /\ req[h].pc = "idle"
    /\ Deliverable(n)
    /\ IF events[n] = "skipped"
       THEN Reply(h, n)
       ELSE /\ Goto(h, [NoRequest EXCEPT !.pc = "hook",
                                             !.note = n, !.seen = events[n]])
            /\ UNCHANGED acked
    /\ UNCHANGED <<worldVars, ledgerVars, circleVars, job, loop>>

(* The Circle service recognises the notification of one of its top-ups.   *)
CircleHook(h, i) ==
    /\ req[h].pc = "hook"
    /\ req[h].note = i
    /\ i \in Intent
    /\ IF intents[i].status \in {"pending", "topup_complete"}
       THEN /\ intents' = [intents EXCEPT ![i].status = "topup_complete"]
            /\ Goto(h, [req[h] EXCEPT !.pc = "topup_complete"])
       ELSE /\ UNCHANGED intents
            /\ Goto(h, [req[h] EXCEPT !.pc = "topup_known"])
    /\ UNCHANGED <<worldVars, acked, ledgerVars, wallet, gateway, gas, job, loop>>

(* Seeded fault: a completed top-up is recorded but nothing is resumed.    *)
TopUpRecorded(h, i) ==
    /\ loop = None
    /\ req[h].pc \in {"topup_complete", "topup_known"}
    /\ req[h].note = i
    /\ i \in Intent
    /\ Save(i, "processed")
    /\ Reply(h, i)
    /\ UNCHANGED <<worldVars, pendings, credits, available, circleVars, job, loop>>

(* The ledger schedules the resume task, which lives in memory only.       *)
TopUpNoticed(h, i) ==
    /\ loop = None
    /\ req[h].pc \in {"topup_complete", "topup_known"}
    /\ req[h].note = i
    /\ i \in Intent
    /\ IF req[h].pc = "topup_complete"
       THEN \E k \in Task :
                /\ job[k].pc = "idle"
                /\ Become(k, [NoResume EXCEPT !.pc = "scheduled", !.intent = i])
       ELSE UNCHANGED job
    /\ Save(i, "processed")
    /\ Reply(h, i)
    /\ UNCHANGED <<worldVars, pendings, credits, available, circleVars, loop>>

(* The handler skips what is not a complete inbound USDC payment into a    *)
(* bound wallet, a top-up among them when the gas top-up hook failed, be   *)
(* it before or after the Circle service updated the intent.               *)
Skip(h, n) ==
    /\ loop = None
    /\ req[h].note = n
    /\ \/ /\ req[h].pc = "hook"
          /\ n \in Note
          /\ n \notin Usable \/ ~bound
       \/ /\ req[h].pc \in {"hook", "topup_complete", "topup_known"}
          /\ n \in Intent
          /\ "hook_error" \in Faults
    /\ Save(n, "skipped")
    /\ Reply(h, n)
    /\ UNCHANGED <<worldVars, pendings, credits, available, circleVars, job, loop>>

(* An inbound payment, past the filters.                                   *)
Inbound(h, n) ==
    /\ loop = None
    /\ req[h].pc = "hook"
    /\ req[h].note = n
    /\ n \in Usable
    /\ bound

Duplicate(h, n) ==
    /\ Inbound(h, n)
    /\ MatchingCredit(n)
    /\ req[h].seen = "processed" => MatchingPending(n) # {}
    /\ IF req[h].seen = "processed" THEN UNCHANGED events ELSE Save(n, "processed")
    /\ Reply(h, n)
    /\ UNCHANGED <<worldVars, pendings, credits, available, circleVars, job, loop>>

Receive(h, n) ==
    /\ Inbound(h, n)
    /\ ~MatchingCredit(n)
    /\ req[h].seen # "processed"
    /\ IF req[h].seen = "received" THEN UNCHANGED events ELSE Save(n, "received")
    /\ \E p \in 0..Len(pendings) :
        /\ IsFirst(p, MatchingPending(n))
        /\ Goto(h, [req[h] EXCEPT !.pc = "status", !.seen = "none", !.entry = p])
    /\ UNCHANGED <<worldVars, acked, pendings, credits, available, circleVars, job, loop>>

(* Seeded fault: an event that was only received is taken for processed.   *)
ReplayReceived(h, n) ==
    /\ Inbound(h, n)
    /\ req[h].seen \in {"received", "processed"}
    /\ ~(MatchingCredit(n) /\ MatchingPending(n) # {})
    /\ \E p \in 0..Len(pendings) :
        /\ IsFirst(p, MatchingPending(n))
        /\ EnsurePending(n, p)
        /\ Goto(h, [req[h] EXCEPT !.pc = "crediting", !.entry = Ensured(p)])
    /\ loop' = h
    /\ UNCHANGED <<worldVars, acked, events, credits, available, circleVars, job>>

(* The event was processed already but an entry is missing: no deposit.    *)
ReplayProcessed(h, n) ==
    /\ Inbound(h, n)
    /\ req[h].seen = "processed"
    /\ ~(MatchingCredit(n) /\ MatchingPending(n) # {})
    /\ \E p \in 0..Len(pendings) :
        /\ IsFirst(p, MatchingPending(n))
        /\ EnsurePending(n, p)
        /\ Goto(h, [req[h] EXCEPT !.pc = "crediting", !.entry = Ensured(p)])
    /\ loop' = h
    /\ UNCHANGED <<worldVars, acked, events, credits, available, circleVars, job>>

(* The Circle service answers the status call.                             *)
CircleStatus(h) ==
    /\ req[h].pc = "status"
    /\ \/ Goto(h, [req[h] EXCEPT !.pc = "balance", !.amount = wallet])
       \/ /\ "circle_error" \in Faults
          /\ Goto(h, [req[h] EXCEPT !.pc = "failed"])
    /\ UNCHANGED <<worldVars, acked, ledgerVars, circleVars, job, loop>>

(* The handler asks to deposit the whole balance it was told.  Whether a   *)
(* pending entry exists was read before the status call.                   *)
StartDeposit(h) ==
    /\ loop = None
    /\ req[h].pc = "balance"
    /\ EnsurePending(req[h].note, req[h].entry)
    /\ Goto(h, [req[h] EXCEPT !.pc = "deposit", !.entry = Ensured(req[h].entry)])
    /\ UNCHANGED <<worldVars, acked, events, credits, available, circleVars, job, loop>>

CircleDeposits(h) ==
    /\ req[h].pc = "deposit"
    /\ Sweep(req[h].amount)
    /\ \/ Goto(h, [req[h] EXCEPT !.pc = "deposited"])
       \/ /\ "lost_reply" \in Faults
          /\ Goto(h, [req[h] EXCEPT !.pc = "failed"])
    /\ UNCHANGED <<worldVars, acked, ledgerVars, intents, job, loop>>

PendingTopUps == {i \in Intent : intents[i].status = "pending"}
UnusedTopUps  == {i \in Intent : intents[i].status = "none"}

(* Seeded fault: a top-up still pending is taken for a deposit.            *)
TopUpTakenForDeposit(h) ==
    /\ req[h].pc = "deposit"
    /\ req[h].amount > 0
    /\ ~gas
    /\ \/ PendingTopUps # {} /\ UNCHANGED intents
       \/ /\ PendingTopUps # {} => "window" \in Faults
          /\ \E i \in UnusedTopUps :
                intents' = [intents EXCEPT ![i] =
                              [status |-> "pending", ref |-> req[h].note,
                               amount |-> req[h].amount, arrived |-> FALSE]]
    /\ Goto(h, [req[h] EXCEPT !.pc = IF PendingTopUps = {} THEN "gas_pending"
                                                          ELSE "deposited"])
    /\ UNCHANGED <<worldVars, acked, ledgerVars, wallet, gateway, gas, job, loop>>

(* Not enough gas: a top-up still pending is reused, else one is created   *)
(* that remembers this deposit alone.                                      *)
CircleTopsUp(h) ==
    /\ req[h].pc = "deposit"
    /\ req[h].amount > 0
    /\ ~gas
    /\ \/ PendingTopUps # {} /\ UNCHANGED intents
       \/ /\ PendingTopUps # {} => "window" \in Faults
          /\ \E i \in UnusedTopUps :
                intents' = [intents EXCEPT ![i] =
                              [status |-> "pending", ref |-> req[h].note,
                               amount |-> req[h].amount, arrived |-> FALSE]]
    /\ Goto(h, [req[h] EXCEPT !.pc = "gas_pending"])
    /\ UNCHANGED <<worldVars, acked, ledgerVars, wallet, gateway, gas, job, loop>>

(* Amount zero, funds swept by someone else since the status call, top-up  *)
(* limit reached, or an error of the service.                              *)
CircleRefuses(h) ==
    /\ req[h].pc = "deposit"
    /\ \/ req[h].amount = 0
       \/ gas /\ req[h].amount > wallet
       \/ ~gas /\ PendingTopUps = {} /\ UnusedTopUps = {}
       \/ "circle_error" \in Faults
    /\ Goto(h, [req[h] EXCEPT !.pc = "failed"])
    /\ UNCHANGED <<worldVars, acked, ledgerVars, circleVars, job, loop>>

(* The request is answered with an error, which Circle redelivers.         *)
DepositFailed(h) ==
    /\ loop = None
    /\ req[h].pc = "failed"
    /\ Save(req[h].note, "failed")
    /\ Goto(h, NoRequest)
    /\ UNCHANGED <<worldVars, acked, pendings, credits, available, circleVars, job, loop>>

DepositAwaitsGas(h) ==
    /\ loop = None
    /\ req[h].pc = "gas_pending"
    /\ Save(req[h].note, "received")
    /\ Reply(h, req[h].note)
    /\ UNCHANGED <<worldVars, pendings, credits, available, circleVars, job, loop>>

(* Seeded fault: the event is saved as processed before the credits.       *)
ProcessedBeforeCredits(h) ==
    /\ loop = None
    /\ req[h].pc = "deposited"
    /\ loop' = h
    /\ Save(req[h].note, "processed")
    /\ Goto(h, [req[h] EXCEPT !.pc = "crediting",
                              !.batch = CoveredBySweep(req[h].amount)])
    /\ UNCHANGED <<worldVars, acked, pendings, credits, available, circleVars, job>>

DepositCompleted(h) ==
    /\ loop = None
    /\ req[h].pc = "deposited"
    /\ loop' = h
    /\ Goto(h, [req[h] EXCEPT !.pc = "crediting",
                              !.batch = CoveredBySweep(req[h].amount)])
    /\ UNCHANGED <<worldVars, acked, ledgerVars, circleVars, job>>

(* Candidates of the credit loop that have no credit yet; the handler's    *)
(* own entry comes last unless the sweep covers it.                        *)
OpenBatch(h) == {i \in req[h].batch : ~CreditLinkedToPending(i)}

(* Seeded fault: that the handler's own entry has no credit is believed    *)
(* since before the deposit, except for one linked to the entry itself.    *)
CreditOnOldLookup(h, i) ==
    /\ loop = h
    /\ req[h].pc = "crediting"
    /\ IF OpenBatch(h) # {} THEN IsFirst(i, OpenBatch(h))
                            ELSE i = req[h].entry /\ ~LinkedCredit(i)
    /\ CreditPending(i)
    /\ Goto(h, [req[h] EXCEPT !.pc = "marking", !.current = i])
    /\ UNCHANGED <<worldVars, acked, events, pendings, circleVars, job, loop>>

CreditNext(h, i) ==
    /\ loop = h
    /\ req[h].pc = "crediting"
    /\ IF OpenBatch(h) # {} THEN IsFirst(i, OpenBatch(h))
                            ELSE i = req[h].entry /\ ~CreditLinkedToPending(i)
    /\ CreditPending(i)
    /\ Goto(h, [req[h] EXCEPT !.pc = "marking", !.current = i])
    /\ UNCHANGED <<worldVars, acked, events, pendings, circleVars, job, loop>>

MarkProcessed(h) ==
    /\ loop = h
    /\ req[h].pc = "marking"
    /\ LET n == pendings[req[h].current].note IN
           IF events[n] = "none" THEN UNCHANGED events ELSE Save(n, "processed")
    /\ Goto(h, [req[h] EXCEPT !.pc = "crediting"])
    /\ UNCHANGED <<worldVars, acked, pendings, credits, available, circleVars, job, loop>>

Finish(h) ==
    /\ loop = h
    /\ req[h].pc = "crediting"
    /\ OpenBatch(h) = {}
    /\ CreditLinkedToPending(req[h].entry)
    /\ Save(req[h].note, "processed")
    /\ Reply(h, req[h].note)
    /\ loop' = None
    /\ UNCHANGED <<worldVars, pendings, credits, available, circleVars, job>>

-----------------------------------------------------------------------------
(* The resume task: Circle repeats the deposit the top-up remembers, then  *)
(* the ledger credits the one pending entry with its reference.            *)

ResumeCall(k) ==
    /\ job[k].pc = "scheduled"
    /\ LET s == intents[job[k].intent].status IN
           Become(k, CASE s = "completed" -> [job[k] EXCEPT !.pc = "resumed"]
                       [] s \in {"pending", "topup_complete"} ->
                            [job[k] EXCEPT !.pc = "deposit"]
                       [] OTHER -> NoResume)
    /\ UNCHANGED <<worldVars, acked, ledgerVars, circleVars, req, loop>>

ResumeDeposits(k) ==
    /\ job[k].pc = "deposit"
    /\ Sweep(intents[job[k].intent].amount)
    /\ intents' = [intents EXCEPT ![job[k].intent].status = "completed"]
    /\ \/ Become(k, [job[k] EXCEPT !.pc = "resumed"])
       \/ /\ "lost_reply" \in Faults
          /\ Become(k, NoResume)
    /\ UNCHANGED <<worldVars, acked, ledgerVars, req, loop>>

ResumeRefused(k) ==
    /\ job[k].pc = "deposit"
    /\ \/ ~gas
       \/ intents[job[k].intent].amount > wallet
       \/ "circle_error" \in Faults
    /\ intents' = [intents EXCEPT ![job[k].intent].status = "failed"]
    /\ Become(k, NoResume)
    /\ UNCHANGED <<worldVars, acked, ledgerVars, wallet, gateway, gas, req, loop>>

ResumedEntry(k, i) ==
    /\ loop = None
    /\ job[k].pc = "resumed"
    /\ IsFirst(i, {j \in DOMAIN pendings : pendings[j].note = intents[job[k].intent].ref})

(* Seeded fault: the task does not look for an earlier credit.             *)
ResumeCreditsAgain(k, i) ==
    /\ ResumedEntry(k, i)
    /\ i # 0
    /\ CreditPending(i)
    /\ loop' = k
    /\ Become(k, [job[k] EXCEPT !.pc = "marking", !.current = i])
    /\ UNCHANGED <<worldVars, acked, events, pendings, circleVars, req>>

ResumeCredits(k, i) ==
    /\ ResumedEntry(k, i)
    /\ i # 0
    /\ ~LinkedCredit(i)
    /\ CreditPending(i)
    /\ loop' = k
    /\ Become(k, [job[k] EXCEPT !.pc = "marking", !.current = i])
    /\ UNCHANGED <<worldVars, acked, events, pendings, circleVars, req>>

ResumeFindsCredit(k, i) ==
    /\ ResumedEntry(k, i)
    /\ i = 0 \/ LinkedCredit(i)
    /\ Become(k, NoResume)
    /\ UNCHANGED <<worldVars, acked, ledgerVars, circleVars, req, loop>>

ResumeMarks(k) ==
    /\ loop = k
    /\ job[k].pc = "marking"
    /\ LET n == pendings[job[k].current].note IN
           IF events[n] = "none" THEN UNCHANGED events ELSE Save(n, "processed")
    /\ Become(k, NoResume)
    /\ loop' = None
    /\ UNCHANGED <<worldVars, acked, pendings, credits, available, circleVars, req>>

-----------------------------------------------------------------------------
Crash ==
    /\ "crash" \in Faults
    /\ req' = [h \in Handler |-> NoRequest]
    /\ job' = [k \in Task |-> NoResume]
    /\ loop' = None
    /\ UNCHANGED <<worldVars, acked, ledgerVars, circleVars>>

HandlerStep(h) ==
    \/ \E n \in Hook : Skip(h, n) \/ Duplicate(h, n) \/ Receive(h, n)
                       \/ ReplayProcessed(h, n) \/ TopUpNoticed(h, n)
    \/ StartDeposit(h) \/ DepositFailed(h) \/ DepositAwaitsGas(h)
    \/ DepositCompleted(h) \/ MarkProcessed(h) \/ Finish(h)
    \/ \E i \in DOMAIN pendings : CreditNext(h, i)

CircleStep(h) ==
    \/ \E i \in Intent : CircleHook(h, i)
    \/ CircleStatus(h) \/ CircleDeposits(h) \/ CircleTopsUp(h) \/ CircleRefuses(h)

TaskStep(k) ==
    \/ ResumeCall(k) \/ ResumeDeposits(k) \/ ResumeRefused(k) \/ ResumeMarks(k)
    \/ \E i \in 0..Len(pendings) : ResumeCredits(k, i) \/ ResumeFindsCredit(k, i)

Next ==
    \/ \E t \in Tx : Arrive(t)
    \/ BindWallet
    \/ \E i \in Intent : GasArrives(i)
    \/ \E h \in Handler : \/ \E n \in Hook : Deliver(h, n)
                          \/ HandlerStep(h)
                          \/ CircleStep(h)
    \/ \E k \in Task : TaskStep(k)
    \/ Crash

Spec == Init /\ [][Next]_vars

(* asyncio runs every ready coroutine, the Circle service answers every    *)
(* call, a top-up sent is mined, and Circle redelivers a notification      *)
(* until it gets a 200.                                                    *)
Fairness ==
    /\ \A n \in Hook : SF_vars(n \notin acked /\ \E h \in Handler : Deliver(h, n))
    /\ \A h \in Handler : WF_vars(HandlerStep(h)) /\ WF_vars(CircleStep(h))
    /\ \A k \in Task : WF_vars(TaskStep(k))
    /\ \A i \in Intent : WF_vars(GasArrives(i))

FairSpec == Spec /\ Fairness

-----------------------------------------------------------------------------
(* No pending_inbound entry is credited twice: the credit loop of the      *)
(* webhook handler and the resume task never both credit one entry.        *)
CreditOncePerPending ==
    \A c, d \in DOMAIN credits : credits[c].link = credits[d].link => c = d

(* No transaction is credited twice, however many notifications about it   *)
(* arrive and however their handlers interleave.                           *)
CreditOncePerTransaction ==
    \A c, d \in DOMAIN credits : credits[c].tx = credits[d].tx => c = d

(* An event is only ever left "processed" when the payment it announces    *)
(* has its credit: nothing reports a payment as done that is not.          *)
ProcessedMeansCredited ==
    \A n \in Note \ Legacy : events[n] = "processed" => CreditedTx(TxOf[n])

(* What is spendable has been swept: the account holds no more than was    *)
(* moved to the Gateway.                                                   *)
CreditIsBacked == available <= gateway

(* Why the two hold: what entries, requests and resume tasks remember of   *)
(* one another stays true while other handlers run between their awaits.   *)
EntriesAgree ==
    /\ \A i \in DOMAIN pendings :
        /\ pendings[i].tx = TxOf[pendings[i].note]
        /\ pendings[i].tx \in arrived
    /\ \A c \in DOMAIN credits :
        /\ credits[c].link \in DOMAIN pendings
        /\ credits[c].tx = pendings[credits[c].link].tx

RequestAgrees(r) ==
    /\ r.pc # "idle" => r.note \in Hook
    /\ r.note \in Note => TxOf[r.note] \in arrived
    /\ r.pc \notin {"idle", "hook", "topup_complete", "topup_known"} => r.note \in Usable
    /\ r.entry \in 0..Len(pendings)
    /\ r.entry # 0 => r.note \in Usable /\ pendings[r.entry].tx = TxOf[r.note]
    /\ r.pc \in {"deposit", "deposited", "gas_pending", "crediting", "marking"}
          => r.entry # 0
    /\ r.batch \subseteq DOMAIN pendings
    /\ r.pc = "marking" => /\ r.current \in DOMAIN pendings
                           /\ CreditedTx(pendings[r.current].tx)

ResumeAgrees(r) ==
    /\ r.pc # "idle" => r.intent \in Intent
    /\ r.pc = "marking" => /\ r.current \in DOMAIN pendings
                           /\ CreditedTx(pendings[r.current].tx)

InboundInv ==
    /\ TypeOK
    /\ EntriesAgree
    /\ \A h \in Handler : RequestAgrees(req[h])
    /\ \A k \in Task : ResumeAgrees(job[k])
    /\ CreditOncePerPending
    /\ ProcessedMeansCredited

(* The handlers implement the promise made to the account's owner: every   *)
(* credit pays out one arrived payment, in full, that was not paid before. *)
Promise == INSTANCE InboundPromise
    WITH paid <- {credits[c].tx : c \in DOMAIN credits}, balance <- available

KeepsPromise == Promise!Spec

(* A payment into a wallet bound from the beginning is credited in the     *)
(* end.  (One announced before the binding is skipped for good.)           *)
InboundEventuallyCredited ==
    []bound => \A n \in Usable : TxOf[n] \in arrived ~> CreditedTx(TxOf[n])
=============================================================================
