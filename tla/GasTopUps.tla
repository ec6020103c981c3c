----------------------------- MODULE GasTopUps -----------------------------
(***************************************************************************)
(* Gas top-ups of the Circle service: a Gateway deposit of a wallet that   *)
(* cannot pay for gas sends it native coin first and is resumed when the   *)
(* coin has arrived (chain/src/services/agent-wallet-service.ts), the      *)
(* intents it keeps in the state file (agent-wallet-state-store.ts), and   *)
(* the deposit itself (circle-wallet-service.ts).                          *)
(*                                                                         *)
(* Every read and write of the file and every call of Circle is awaited:   *)
(* other requests run in between, and write back files they read earlier.  *)
(***************************************************************************)
EXTENDS Integers, FiniteSets

CONSTANTS
    Request,        \* slots for requests in progress at the same time
    Wallet,         \* wallets of agents, all of them EOA
    TopUp,          \* top-up transactions; an intent has its transaction's name
    NoTopUp,
    NoWallet,
    Usdc,           \* Usdc[w]: the deposits wallet w has money for
    MinGas,         \* GAS_TOP_UP minWei ...
    TargetGas,      \* ... and targetWei
    WalletLimit,    \* what one wallet gets in a day
    GlobalLimit,    \* what all wallets get in a day
    Reuse,          \* how long a pending top-up is waited for
    DayLength,      \* in instants
    Horizon,        \* bound: the last instant
    Faults          \* what may happen in a run, see below

FaultKinds ==
    { "refused",      \* a call of Circle fails and has no effect
      "lost_reply",   \* it has its effect and the service sees an error
      "restart" }     \* the Circle service or the ledger restarts

ASSUME GasAssumption ==
    /\ IsFiniteSet(TopUp) /\ NoTopUp \notin TopUp /\ NoWallet \notin Wallet
    /\ Usdc \in [Wallet -> Nat]
    /\ MinGas \in Nat /\ TargetGas \in Nat /\ MinGas <= TargetGas
    /\ WalletLimit \in Nat /\ GlobalLimit \in Nat
    /\ Reuse \in Nat /\ DayLength \in Nat \ {0} /\ Horizon \in Nat
    /\ Faults \subseteq FaultKinds

VARIABLES
    now,            \* the clock
    file,           \* file[t]: the intent of t in gasTopUpIntents
    top,            \* top[t]: the transfer itself
    gas,            \* gas[w]: native coin of wallet w
    allowed,        \* allowed[w]: deposits the Gateway contract may take
    usdc,           \* usdc[w]: deposits the wallet still has money for
    wanted,         \* intents the ledger has been told to resume
    req,            \* req[r]: locals of the request in slot r
    deposited,      \* history: intents whose resumed deposit has moved money
    unseen,         \* history: top-ups not in the file when a later one was
                    \* held to the limits
    calm            \* history: no fault, no notification before its intent, no
                    \* write of what another write had overtaken

chainVars == <<top, gas, allowed, usdc>>
vars == <<now, file, chainVars, wanted, req, deposited, unseen, calm>>

Status == {"pending", "topup_complete", "gateway_deposit_completed", "failed"}
Final  == {"gateway_deposit_completed", "failed"}
NoIntent == [status |-> "none", created |-> 0]
Intent   == [status : Status, created : Nat] \cup {NoIntent}
File     == [TopUp -> Intent]

Transfer == [state : {"none", "admitted", "sent", "mined", "void"},
             wallet : Wallet \cup {NoWallet}, amount : Nat, day : Nat]

Req == [pc : {"idle", "balance", "reuse", "spent", "send", "approve",
              "deposit", "read", "write"},
        kind : {"deposit", "notice", "resume"},
        wallet : Wallet \cup {NoWallet},
        amount : Nat,                   \* what is missing to TargetGas
        topup : TopUp \cup {NoTopUp},
        found : Intent,                 \* the intent as read
        intent : Intent,                \* the intent to be saved
        copy : File]                    \* the file as read by saveGasTopUpIntent

EmptyFile == [t \in TopUp |-> NoIntent]
Idle == [pc |-> "idle", kind |-> "deposit", wallet |-> NoWallet,
         amount |-> 0, topup |-> NoTopUp, found |-> NoIntent,
         intent |-> NoIntent, copy |-> EmptyFile]

TypeOK ==
    /\ now \in Nat
    /\ file \in File
    /\ top \in [TopUp -> Transfer]
    /\ gas \in [Wallet -> Nat]
    /\ allowed \in [Wallet -> Nat]
    /\ usdc \in [Wallet -> Nat]
    /\ wanted \subseteq TopUp
    /\ req \in [Request -> Req]
    /\ deposited \subseteq TopUp
    /\ unseen \subseteq TopUp
    /\ calm \in BOOLEAN

Init ==
    /\ now = 0
    /\ file = EmptyFile
    /\ top = [t \in TopUp |-> [state |-> "none", wallet |-> NoWallet,
                               amount |-> 0, day |-> 0]]
    /\ gas = [w \in Wallet |-> 0]
    /\ allowed = [w \in Wallet |-> 0]
    /\ usdc = Usdc
    /\ wanted = {}
    /\ req = [r \in Request |-> Idle]
    /\ deposited = {}
    /\ unseen = {}
    /\ calm = TRUE

-----------------------------------------------------------------------------
(* Helpers.                                                                *)

May(fault) == fault \in Faults
At(r, pc) == req[r].pc = pc
Become(r, q) == req' = [req EXCEPT ![r] = q]
Goto(r, pc) == Become(r, [req[r] EXCEPT !.pc = pc])
Answer(r) == Become(r, Idle)

Day(instant) == instant \div DayLength
Live(t)  == top[t].state \in {"admitted", "sent", "mined"}
Known(t) == file[t] # NoIntent

(* The units of a set of top-ups, each of each a pair, so that a sum of    *)
(* amounts is the number of elements of a set.                             *)
Units(T) == UNION {{t} \X (1..top[t].amount) : t \in T}
Total(T) == Cardinality(Units(T))

(* Seeded fault: completed top-ups are not counted.                        *)
SpentOnPending(day) ==
    {t \in TopUp : file[t].status = "pending" /\ Day(file[t].created) >= day}

(* What gasTopUpSpentSince counts from the start of today.                 *)
SpentOn(day)      == {t \in TopUp : Known(t) /\ Day(file[t].created) >= day}
SpentBy(w, day)   == {t \in SpentOn(day) : top[t].wallet = w}

WithinLimits(w, amount) ==
    /\ Total(SpentBy(w, Day(now))) + amount <= WalletLimit
    /\ Total(SpentOn(Day(now))) + amount <= GlobalLimit

Fresh == {t \in TopUp : top[t].state = "none"}

-----------------------------------------------------------------------------
(* A deposit up to the gas it needs (depositToGateway and                  *)
(* ensureNativeGasForGatewayDeposit).                                      *)

(* The ledger asks to deposit what the wallet holds; an amount of nothing  *)
(* is refused at once.                                                     *)
Ask(r, w) ==
    /\ At(r, "idle") /\ usdc[w] > 0
    /\ Become(r, [Idle EXCEPT !.pc = "balance", !.wallet = w])
    /\ UNCHANGED <<now, file, chainVars, wanted, deposited, unseen, calm>>

Balance(r) ==
    /\ At(r, "balance")
    /\ IF gas[req[r].wallet] >= MinGas
       THEN Goto(r, "approve")
       ELSE Become(r, [req[r] EXCEPT !.pc = "reuse",
                                     !.amount = TargetGas - gas[req[r].wallet]])
    /\ UNCHANGED <<now, file, chainVars, wanted, deposited, unseen, calm>>

(* findPendingGasTopUpForWallet: a top-up under way is waited for.         *)
Awaited(w) == \E t \in TopUp : /\ file[t].status = "pending"
                               /\ top[t].wallet = w
                               /\ file[t].created >= now - Reuse

(* The ledger is told to wait: a notification will bring the deposit back. *)
gasTopUpPendingResult(r) == Answer(r)

FindPending(r) ==
    /\ At(r, "reuse")
    /\ IF Awaited(req[r].wallet) THEN gasTopUpPendingResult(r) ELSE Goto(r, "spent")
    /\ UNCHANGED <<now, file, chainVars, wanted, deposited, unseen, calm>>

(* gasTopUpSpentSince and the two limits. The transfer that will be asked  *)
(* for gets its name here.                                                 *)
Admit(r, t) ==
    /\ At(r, "spent")
    /\ t \in Fresh
    /\ WithinLimits(req[r].wallet, req[r].amount)
    /\ top' = [top EXCEPT ![t] = [state |-> "admitted", wallet |-> req[r].wallet,
                                  amount |-> req[r].amount, day |-> Day(now)]]
    /\ unseen' = unseen \cup {u \in TopUp : Live(u) /\ ~Known(u)}
    /\ Become(r, [req[r] EXCEPT !.pc = "send", !.topup = t, !.amount = 0])
    /\ UNCHANGED <<now, file, gas, allowed, usdc, wanted, deposited, calm>>

(* 429, or no name is left (the bound on the number of top-ups).           *)
Refuse(r) ==
    /\ At(r, "spent")
    /\ ~WithinLimits(req[r].wallet, req[r].amount) \/ Fresh = {}
    /\ Answer(r)
    /\ UNCHANGED <<now, file, chainVars, wanted, deposited, unseen, calm>>

createNativeTransfer(t, outcome) == top' = [top EXCEPT ![t].state = outcome]

(* The transfer from the seed wallet; the intent is made when it has been  *)
(* answered.                                                               *)
Send(r) ==
    /\ At(r, "send")
    /\ createNativeTransfer(req[r].topup, "sent")
    /\ Become(r, [req[r] EXCEPT !.pc = "read",
                                !.intent = [status |-> "pending", created |-> now]])
    /\ UNCHANGED <<now, file, gas, allowed, usdc, wanted, deposited, unseen, calm>>

(* The transfer is refused, or is sent and the answer is lost or has no    *)
(* transaction id.                                                         *)
SendFails(r) ==
    /\ At(r, "send")
    /\ \E outcome \in {"void", "sent"} :
          /\ May(IF outcome = "void" THEN "refused" ELSE "lost_reply")
          /\ createNativeTransfer(req[r].topup, outcome)
    /\ Answer(r)
    /\ calm' = FALSE
    /\ UNCHANGED <<now, file, gas, allowed, usdc, wanted, deposited, unseen>>

(* saveGasTopUpIntent reads the whole file ...                             *)
ReadToSave(r) ==
    /\ At(r, "read")
    /\ Become(r, [req[r] EXCEPT !.pc = "write", !.copy = file])
    /\ UNCHANGED <<now, file, chainVars, wanted, deposited, unseen, calm>>

(* Seeded fault: the file is written with this intent only.                *)
WriteAlone(r) ==
    LET t == req[r].topup IN
    /\ At(r, "write")
    /\ file' = [EmptyFile EXCEPT ![t] = req[r].intent]
    /\ wanted' = IF req[r].kind = "notice" THEN wanted \cup {t} ELSE wanted
    /\ calm' = (calm /\ req[r].copy = file /\ req[r].found = file[t])
    /\ Answer(r)
    /\ UNCHANGED <<now, chainVars, deposited, unseen>>

(* Seeded fault: the ledger is not told to resume the deposit.             *)
WriteUntold(r) ==
    LET t == req[r].topup IN
    /\ At(r, "write")
    /\ file' = [req[r].copy EXCEPT ![t] = req[r].intent]
    /\ calm' = (calm /\ req[r].copy = file /\ req[r].found = file[t])
    /\ Answer(r)
    /\ UNCHANGED <<now, chainVars, wanted, deposited, unseen>>

(* ... and writes it back with the intent in it. A notice answers the      *)
(* ledger that the deposit has to be resumed.                              *)
Write(r) ==
    LET t == req[r].topup IN
    /\ At(r, "write")
    /\ file' = [req[r].copy EXCEPT ![t] = req[r].intent]
    /\ wanted' = IF req[r].kind = "notice" THEN wanted \cup {t} ELSE wanted
    /\ calm' = (calm /\ req[r].copy = file /\ req[r].found = file[t])
    /\ Answer(r)
    /\ UNCHANGED <<now, chainVars, deposited, unseen>>

-----------------------------------------------------------------------------
(* The top-up arrives, is noticed, and its deposit resumed.                *)

Mine(t) ==
    /\ top[t].state = "sent"
    /\ top' = [top EXCEPT ![t].state = "mined"]
    /\ gas' = [gas EXCEPT ![top[t].wallet] = @ + top[t].amount]
    /\ UNCHANGED <<now, file, allowed, usdc, wanted, req, deposited, unseen, calm>>

(* The intent of a transaction, or of the ledger's call.                   *)
findGasTopUpIntent(t) == file[t]

(* Seeded fault: a notification of any state completes the top-up.         *)
NoticeAnyState(r, t) ==
    /\ At(r, "idle") /\ top[t].state \in {"sent", "mined"}
    /\ findGasTopUpIntent(t).status = "pending"
    /\ Become(r, [Idle EXCEPT !.pc = "read", !.kind = "notice",
                              !.wallet = top[t].wallet, !.topup = t, !.found = file[t],
                              !.intent = [file[t] EXCEPT !.status = "topup_complete"]])
    /\ UNCHANGED <<now, file, chainVars, wanted, deposited, unseen, calm>>

(* handleGasTopUpWebhook with the state of a mined transaction: an intent  *)
(* that waits for it is to be saved ...                                    *)
Notice(r, t) ==
    /\ At(r, "idle") /\ top[t].state = "mined"
    /\ findGasTopUpIntent(t).status = "pending"
    /\ Become(r, [Idle EXCEPT !.pc = "read", !.kind = "notice",
                              !.wallet = top[t].wallet, !.topup = t, !.found = file[t],
                              !.intent = [file[t] EXCEPT !.status = "topup_complete"]])
    /\ UNCHANGED <<now, file, chainVars, wanted, deposited, unseen, calm>>

(* ... any other, or none, is answered at once.                            *)
NoticeAnswered(r, t) ==
    /\ At(r, "idle") /\ top[t].state = "mined"
    /\ findGasTopUpIntent(t).status # "pending"
    /\ wanted' = IF findGasTopUpIntent(t).status = "topup_complete" THEN wanted \cup {t} ELSE wanted
    /\ calm' = (calm /\ Known(t))
    /\ UNCHANGED <<now, file, chainVars, req, deposited, unseen>>

(* The deposit that was put off, whatever gas the wallet has by now.       *)
depositToGatewayWithoutGasTopUp(r, t) ==
    Become(r, [Idle EXCEPT !.pc = "approve", !.kind = "resume",
                           !.wallet = top[t].wallet, !.topup = t,
                           !.found = findGasTopUpIntent(t)])

(* resumeGasTopUpGatewayDeposit: the stored result, an error, or the       *)
(* deposit.                                                                *)
Resume(r, t) ==
    /\ At(r, "idle") /\ t \in wanted
    /\ wanted' = wanted \ {t}
    /\ IF findGasTopUpIntent(t).status \in {"topup_complete", "pending"}
       THEN depositToGatewayWithoutGasTopUp(r, t)
       ELSE UNCHANGED req
    /\ UNCHANGED <<now, file, chainVars, deposited, unseen, calm>>

-----------------------------------------------------------------------------
(* The deposit: two transactions of the wallet, each waited for.           *)

(* What the service does with the outcome: a resumed deposit is recorded.  *)
Conclude(r, status) ==
    IF req[r].kind = "resume"
    THEN Become(r, [req[r] EXCEPT !.pc = "read",
                                  !.intent = [req[r].found EXCEPT !.status = status]])
    ELSE Answer(r)

CanApprove(w) == gas[w] > 0
CanDeposit(w) == gas[w] > 0 /\ allowed[w] > 0 /\ usdc[w] > 0

ApproveMined(w) ==
    /\ gas' = [gas EXCEPT ![w] = @ - 1]
    /\ allowed' = [allowed EXCEPT ![w] = 1]
    /\ UNCHANGED <<top, usdc, deposited>>

DepositMined(r) ==
    LET w == req[r].wallet IN
    /\ gas' = [gas EXCEPT ![w] = @ - 1]
    /\ allowed' = [allowed EXCEPT ![w] = @ - 1]
    /\ usdc' = [usdc EXCEPT ![w] = @ - 1]
    /\ deposited' = IF req[r].kind = "resume" THEN deposited \cup {req[r].topup}
                                              ELSE deposited
    /\ UNCHANGED top

Approve(r) ==
    /\ At(r, "approve") /\ CanApprove(req[r].wallet)
    /\ ApproveMined(req[r].wallet)
    /\ Goto(r, "deposit")
    /\ UNCHANGED <<now, file, wanted, unseen, calm>>

Deposit(r) ==
    /\ At(r, "deposit") /\ CanDeposit(req[r].wallet)
    /\ DepositMined(r)
    /\ Conclude(r, "gateway_deposit_completed")
    /\ UNCHANGED <<now, file, wanted, unseen, calm>>

(* Seeded fault: the result is saved before the deposit has been waited for. *)
FailsCompleted(r) ==
    /\ \/ At(r, "approve") /\ (CanApprove(req[r].wallet) => May("refused"))
       \/ At(r, "deposit") /\ (CanDeposit(req[r].wallet) => May("refused"))
    /\ Conclude(r, IF At(r, "deposit") THEN "gateway_deposit_completed" ELSE "failed")
    /\ UNCHANGED <<now, file, chainVars, wanted, deposited, unseen, calm>>

(* A transaction is refused or reverts, for want of gas, of an allowance   *)
(* another deposit has used, or of money ...                               *)
Fails(r) ==
    /\ \/ At(r, "approve") /\ (CanApprove(req[r].wallet) => May("refused"))
       \/ At(r, "deposit") /\ (CanDeposit(req[r].wallet) => May("refused"))
    /\ Conclude(r, "failed")
    /\ UNCHANGED <<now, file, chainVars, wanted, deposited, unseen, calm>>

(* ... or is mined after waitForCircleTransaction has given up, or the     *)
(* balance asked for after it is not answered.                             *)
MinedUnheard(r) ==
    /\ May("lost_reply")
    /\ \/ At(r, "approve") /\ CanApprove(req[r].wallet) /\ ApproveMined(req[r].wallet)
       \/ At(r, "deposit") /\ CanDeposit(req[r].wallet) /\ DepositMined(r)
    /\ Conclude(r, "failed")
    /\ UNCHANGED <<now, file, wanted, unseen, calm>>

(* A call before the transfer fails: balances or file cannot be read.      *)
LookupFails(r) ==
    /\ May("refused")
    /\ req[r].pc \in {"balance", "reuse", "spent"}
    /\ Answer(r)
    /\ UNCHANGED <<now, file, chainVars, wanted, deposited, unseen, calm>>

Restart ==
    /\ May("restart")
    /\ \/ /\ req' = [r \in Request |-> Idle]
          /\ UNCHANGED wanted
       \/ /\ wanted' = {}
          /\ UNCHANGED req
    /\ calm' = FALSE
    /\ UNCHANGED <<now, file, chainVars, deposited, unseen>>

Tick ==
    /\ now < Horizon
    /\ now' = now + 1
    /\ UNCHANGED <<file, chainVars, wanted, req, deposited, unseen, calm>>

-----------------------------------------------------------------------------
Work(r) ==
    \/ Balance(r) \/ FindPending(r) \/ (\E t \in TopUp : Admit(r, t)) \/ Refuse(r)
    \/ Send(r) \/ SendFails(r) \/ ReadToSave(r) \/ Write(r)
    \/ Approve(r) \/ Deposit(r) \/ Fails(r) \/ MinedUnheard(r) \/ LookupFails(r)

Deliver(t) == \E r \in Request : Notice(r, t) \/ NoticeAnswered(r, t)

Next ==
    \/ \E r \in Request : Work(r)
    \/ \E r \in Request, w \in Wallet : Ask(r, w)
    \/ \E t \in TopUp : Mine(t) \/ Deliver(t)
    \/ \E r \in Request, t \in TopUp : Resume(r, t)
    \/ Restart \/ Tick

(* The service goes on with every request, what was sent is mined, Circle  *)
(* repeats a notification until it is answered with a 200 (while all is    *)
(* calm, an intent that is pending has not been), and the ledger's task    *)
(* asks to resume; strongly fair, because all slots may be taken.          *)
Fairness ==
    /\ \A r \in Request : WF_vars(Work(r))
    /\ \A t \in TopUp : WF_vars(Mine(t))
    /\ \A t \in TopUp : SF_vars(\E r \in Request : Notice(r, t))
    /\ \A t \in TopUp : SF_vars(\E r \in Request : Resume(r, t))

Spec == Init /\ [][Next]_vars
FairSpec == Spec /\ Fairness

-----------------------------------------------------------------------------
(* Properties.                                                             *)

(* The top-ups of a day, as the limits were asked for them.                *)
AdmittedOn(day)    == {t \in TopUp : Live(t) /\ top[t].day = day}
AdmittedFor(w, day) == {t \in AdmittedOn(day) : top[t].wallet = w}

(* The day's top-ups, of a wallet and in total, stay within the limits but *)
(* for those that the file did not show when a later one was judged        *)
(* (agent-wallet-service.ts:726): still in the hands of a concurrent       *)
(* request, lost by a restart or an error before saveGasTopUpIntent, or    *)
(* overwritten by a request that had read the file earlier.                *)
DayWithinLimits(day) ==
    /\ Total(AdmittedOn(day)) <= GlobalLimit + Total(AdmittedOn(day) \cap unseen)
    /\ \A w \in Wallet :
          Total(AdmittedFor(w, day)) <= WalletLimit + Total(AdmittedFor(w, day) \cap unseen)

TopUpsWithinLimits == \A day \in {top[t].day : t \in TopUp} : DayWithinLimits(day)

(* While nothing is lost and no write overtakes another, every top-up that *)
(* was sent is in the file or about to be written to it: the next limit    *)
(* check will count it (agent-wallet-service.ts:745).                      *)
SentIsKnown ==
    calm => \A t \in TopUp : top[t].state \in {"sent", "mined"} =>
                Known(t) \/ \E r \in Request : /\ req[r].topup = t
                                               /\ req[r].pc \in {"read", "write"}

(* The file tells the truth about the chain whatever writes overtake each  *)
(* other: an intent stands for a transfer that was sent, one that is past  *)
(* pending for coin that has arrived, and a completed one for a deposit    *)
(* that has moved (agent-wallet-service.ts:544 and :572).                  *)
Honest(t, intent) ==
    /\ intent # NoIntent => top[t].state \in {"sent", "mined"}
    /\ intent.status \in Final \cup {"topup_complete"} => top[t].state = "mined"
    /\ intent.status = "gateway_deposit_completed" => t \in deposited

IntentsHonest == \A t \in TopUp : Honest(t, file[t])

(* A deposit put off for gas is concluded: once the coin has arrived, the  *)
(* intent leaves pending and topup_complete for good or for bad, unless a  *)
(* fault or an overtaken write has come in between                         *)
(* (agent-wallet-service.ts:525 and :553).                                 *)
Waiting(t) == top[t].state = "mined" /\ file[t].status \in Status \ Final
PutOffIsConcluded == \A t \in TopUp : Waiting(t) ~> (~Waiting(t) \/ ~calm)

(* The inductive invariant of the proofs: what a request carries from one  *)
(* await to the next is as honest as the file, and no two requests carry   *)
(* one transfer (agent-wallet-service.ts:735).                             *)
Dated(t, intent) == intent # NoIntent => top[t].day <= Day(intent.created)

RequestHonest(r) ==
    LET q == req[r] IN
    /\ q.pc # "idle" => q.wallet \in Wallet
    /\ q.pc \in {"balance", "reuse", "spent", "send"} => q.kind = "deposit"
    /\ q.pc = "send" => q.topup \in TopUp /\ top[q.topup].state = "admitted"
    /\ q.pc \in {"approve", "deposit"} /\ q.kind = "resume" =>
          /\ q.topup \in TopUp /\ top[q.topup].state = "mined"
          /\ q.found # NoIntent /\ Dated(q.topup, q.found)
    /\ q.pc \in {"read", "write"} =>
          /\ q.topup \in TopUp /\ q.intent # NoIntent
          /\ Honest(q.topup, q.intent) /\ Dated(q.topup, q.intent)
          /\ q.kind = "notice" => top[q.topup].state = "mined"
    /\ q.pc = "write" => \A t \in TopUp : Honest(t, q.copy[t]) /\ Dated(t, q.copy[t])

GasTopUpInv ==
    /\ TypeOK
    /\ \A t \in TopUp :
          /\ Dated(t, file[t]) /\ top[t].day <= Day(now)
          /\ top[t].state # "none" => top[t].wallet \in Wallet
    /\ \A t \in wanted : top[t].state = "mined"
    /\ \A r \in Request : RequestHonest(r)
    /\ \A r, s \in Request : At(r, "send") /\ At(s, "send") /\ r # s
                                => req[r].topup # req[s].topup
    /\ TopUpsWithinLimits
    /\ SentIsKnown
    /\ IntentsHonest
============================================================================
