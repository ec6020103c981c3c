----------------------------- MODULE Withdrawal -----------------------------
(***************************************************************************)
(* Withdrawals of one agent's USDC from the Circle Gateway to an external  *)
(* address: the handler withdraw_agent_wallet (ledger/main.py), the store  *)
(* operations and the risk limits it relies on (ledger/store.py), and the  *)
(* Circle service's withdrawFromGateway (chain/src/services), which runs   *)
(* on when its caller has timed out or crashed.                            *)
(*                                                                         *)
(* The ledger is one asyncio process: a handler runs without interruption  *)
(* from one await to the next, and a crash can fall between two store      *)
(* calls of such a stretch ("loop" is who is in the middle of one).        *)
(***************************************************************************)
EXTENDS Integers, FiniteSets

CONSTANTS
    Request,        \* withdrawal requests; a client's retry is a new one
    Amount,         \* Amount[r]: atomic USDC that r withdraws
    Day, Week,      \* lengths of the two limit windows
    DailyLimit, WeeklyLimit,
    Horizon,        \* bound: the last instant
    Opening,        \* what the account and the Gateway hold at first
    Incoming,       \* bound: units that inbound payments still bring
    Faults,         \* what may happen in a run, see below
    None

FaultKinds ==
    { "crash",          \* the ledger process restarts
      "timeout",        \* the ledger stops waiting for the Circle service
      "status_error",   \* the wallet status call fails
      "mint_error",     \* the mint after a Gateway transfer fails
      "chain_error",    \* the chain recorder fails
      "spend" }         \* transfers and x402 payments use Gateway money

ASSUME WithdrawalAssumption ==
    /\ IsFiniteSet(Request)
    /\ Amount \in [Request -> Nat \ {0}]
    /\ Day \in Nat /\ Week \in Nat /\ Day <= Week
    /\ DailyLimit \in Nat /\ WeeklyLimit \in Nat
    /\ Horizon \in Nat
    /\ Opening \in Nat
    /\ Incoming \in Nat
    /\ Faults \subseteq FaultKinds
    /\ None \notin Request

VARIABLES
    now,            \* the clock
    entries,        \* entries[r]: the ledger entry of withdrawal r
    settlements,    \* settlements[r]: status of its settlement record
    chained,        \* withdrawals with a chain record
    available,      \* availableAtomic of the account
    gateway,        \* the Circle Gateway's available balance
    incoming,       \* units not yet paid in
    swept,          \* units in the Gateway that are not credited yet
    spent,          \* units paid out of the Gateway for anything else
    circle,         \* circle[r]: how far the Circle service is with r
    req,            \* req[r]: how far the ledger's handler is with r
    loop            \* who runs between two store calls of one stretch

booksVars == <<entries, settlements, chained, available>>
fundsVars == <<gateway, incoming, swept, spent>>
vars == <<now, booksVars, fundsVars, circle, req, loop>>

Entry    == [status : {"none", "submitted", "withdrawn", "failed"},
             created : Nat]
Progress == {"none", "requested", "checked", "burned", "minted", "unminted",
             "refused"}
Handling == [pc : {"new", "balance", "answered", "settling", "completing",
                   "failing", "recording", "done", "gone"},
             basis : Nat]   \* the balance the request is held to

TypeOK ==
    /\ now \in Nat
    /\ entries \in [Request -> Entry]
    /\ settlements \in [Request -> {"none", "submitted", "failed"}]
    /\ chained \subseteq Request
    /\ available \in Nat
    /\ gateway \in Nat
    /\ incoming \in Nat
    /\ swept \in Nat
    /\ spent \in Nat
    /\ circle \in [Request -> Progress]
    /\ req \in [Request -> Handling]
    /\ loop \in Request \cup {None}

Init ==
    /\ now = 0
    /\ entries = [r \in Request |-> [status |-> "none", created |-> 0]]
    /\ settlements = [r \in Request |-> "none"]
    /\ chained = {}
    /\ available = Opening
    /\ gateway = Opening
    /\ incoming = Incoming
    /\ swept = 0
    /\ spent = 0
    /\ circle = [r \in Request |-> "none"]
    /\ req = [r \in Request |-> [pc |-> "new", basis |-> 0]]
    /\ loop = None

-----------------------------------------------------------------------------
(* Amounts and limits.                                                     *)

(* The atomic units of a set of withdrawals, each unit of each a pair; so  *)
(* that a sum of amounts is the number of elements of a set.               *)
Units(S) == UNION {{r} \X (1..Amount[r]) : r \in S}
Total(S) == Cardinality(Units(S))

Recorded == {r \in Request : entries[r].status # "none"}
Counted  == {r \in Recorded : entries[r].status # "failed"}

(* What counts in a window of the given length that ends at instant t.     *)
InWindow(t, length) ==
    {r \in Counted : t - length <= entries[r].created /\ entries[r].created <= t}

WithinLimits(r) ==
    /\ Total(InWindow(now, Day)) + Amount[r] <= DailyLimit
    /\ Total(InWindow(now, Week)) + Amount[r] <= WeeklyLimit

-----------------------------------------------------------------------------
(* The world: time, inbound payments, other payments out of the Gateway.   *)

Tick ==
    /\ now < Horizon
    /\ now' = now + 1
    /\ UNCHANGED <<booksVars, fundsVars, circle, req, loop>>

Sweep ==
    /\ incoming > 0
    /\ incoming' = incoming - 1
    /\ gateway' = gateway + 1
    /\ swept' = swept + 1
    /\ UNCHANGED <<now, booksVars, spent, circle, req, loop>>

Credit ==
    /\ loop = None
    /\ swept > 0
    /\ swept' = swept - 1
    /\ available' = available + 1
    /\ UNCHANGED <<now, entries, settlements, chained, gateway, incoming, spent,
                   circle, req, loop>>

Spend ==
    /\ "spend" \in Faults
    /\ gateway > 0
    /\ gateway' = gateway - 1
    /\ spent' = spent + 1
    /\ UNCHANGED <<now, booksVars, incoming, swept, circle, req, loop>>

-----------------------------------------------------------------------------
(* The ledger's handler, from one await to the next.                       *)

Goto(r, pc) == req' = [req EXCEPT ![r].pc = pc]
Advance(r, step) == circle' = [circle EXCEPT ![r] = step]

(* The account is read, then the wallet status is asked for.               *)
Ask(r) ==
    /\ loop = None
    /\ req[r].pc = "new"
    /\ req' = [req EXCEPT ![r] = [pc |-> "balance", basis |-> available]]
    /\ UNCHANGED <<now, booksVars, fundsVars, circle, loop>>

(* Seeded fault: the limits count completed withdrawals only.              *)
SubmitUncounted(r) ==
    LET Withdrawn(S) == {e \in S : entries[e].status = "withdrawn"}
    IN  /\ loop = None
        /\ req[r].pc = "answered"
        /\ Amount[r] <= req[r].basis
        /\ Total(Withdrawn(InWindow(now, Day))) + Amount[r] <= DailyLimit
        /\ Total(Withdrawn(InWindow(now, Week))) + Amount[r] <= WeeklyLimit
        /\ entries' = [entries EXCEPT ![r] = [status |-> "submitted", created |-> now]]
        /\ Goto(r, "settling")
        /\ Advance(r, "requested")
        /\ UNCHANGED <<now, settlements, chained, available, fundsVars, loop>>

(* Validation and withdrawal_submitted, then the call of the Circle service. *)
Submit(r) ==
    /\ loop = None
    /\ req[r].pc = "answered"
    /\ Amount[r] <= req[r].basis
    /\ WithinLimits(r)
    /\ entries' = [entries EXCEPT ![r] = [status |-> "submitted", created |-> now]]
    /\ Goto(r, "settling")
    /\ Advance(r, "requested")
    /\ UNCHANGED <<now, settlements, chained, available, fundsVars, loop>>

Reject(r) ==
    /\ loop = None
    /\ req[r].pc = "answered"
    /\ Amount[r] > req[r].basis \/ ~WithinLimits(r)
    /\ Goto(r, "done")
    /\ UNCHANGED <<now, booksVars, fundsVars, circle, loop>>

(* Seeded fault: the answer is waited for even after a timeout.            *)
SettledLate(r) ==
    /\ loop = None
    /\ req[r].pc \in {"settling", "done"}
    /\ circle[r] = "minted"
    /\ entries[r].status # "withdrawn"
    /\ settlements' = [settlements EXCEPT ![r] = "submitted"]
    /\ Goto(r, "completing")
    /\ loop' = r
    /\ UNCHANGED <<now, entries, chained, available, fundsVars, circle>>

(* Seeded fault: the answer is taken before the mint is final.             *)
SettledEarly(r) ==
    /\ loop = None
    /\ req[r].pc = "settling"
    /\ circle[r] \in {"burned", "minted"}
    /\ settlements' = [settlements EXCEPT ![r] = "submitted"]
    /\ Goto(r, "completing")
    /\ loop' = r
    /\ UNCHANGED <<now, entries, chained, available, fundsVars, circle>>

(* The Circle service answered: the settlement record is added ...         *)
Settled(r) ==
    /\ loop = None
    /\ req[r].pc = "settling"
    /\ circle[r] = "minted"
    /\ settlements' = [settlements EXCEPT ![r] = "submitted"]
    /\ Goto(r, "completing")
    /\ loop' = r
    /\ UNCHANGED <<now, entries, chained, available, fundsVars, circle>>

(* Seeded fault: the entry is completed, the account left alone.           *)
CompletedUncharged(r) ==
    /\ req[r].pc = "completing"
    /\ entries' = [entries EXCEPT ![r].status = "withdrawn"]
    /\ UNCHANGED available
    /\ Goto(r, "recording")
    /\ loop' = None
    /\ UNCHANGED <<now, settlements, chained, fundsVars, circle>>

(* ... then withdrawal_completed: the account is charged if it can be.     *)
Completed(r) ==
    /\ req[r].pc = "completing"
    /\ entries' = [entries EXCEPT ![r].status = "withdrawn"]
    /\ available' = IF Amount[r] <= available THEN available - Amount[r] ELSE available
    /\ Goto(r, "recording")
    /\ loop' = None
    /\ UNCHANGED <<now, settlements, chained, fundsVars, circle>>

(* The chain recorder answers; the client gets a 502 when it failed and    *)
(* success is required, although the withdrawal is completed.              *)
Chained(r) ==
    /\ loop = None
    /\ req[r].pc = "recording"
    /\ \/ chained' = chained \cup {r}
       \/ "chain_error" \in Faults /\ UNCHANGED chained
    /\ Goto(r, "done")
    /\ UNCHANGED <<now, entries, settlements, available, fundsVars, circle, loop>>

(* Seeded fault: the failure is answered to the client but not recorded.   *)
FailedUnrecorded(r) ==
    /\ loop = None
    /\ req[r].pc = "settling"
    /\ \/ circle[r] \in {"refused", "unminted"}
       \/ "timeout" \in Faults
    /\ Goto(r, "done")
    /\ UNCHANGED <<now, booksVars, fundsVars, circle, loop>>

(* An error or a timeout: withdrawal_failed, then the settlement record.   *)
Failed(r) ==
    /\ loop = None
    /\ req[r].pc = "settling"
    /\ \/ circle[r] \in {"refused", "unminted"}
       \/ "timeout" \in Faults
    /\ entries' = [entries EXCEPT ![r].status = "failed"]
    /\ Goto(r, "failing")
    /\ loop' = r
    /\ UNCHANGED <<now, settlements, chained, available, fundsVars, circle>>

FailureSettled(r) ==
    /\ req[r].pc = "failing"
    /\ settlements' = [settlements EXCEPT ![r] = "failed"]
    /\ Goto(r, "done")
    /\ loop' = None
    /\ UNCHANGED <<now, entries, chained, available, fundsVars, circle>>

(* The process restarts: every handler is gone, whatever it had reached.   *)
AtWork(r) == req[r].pc \notin {"new", "done", "gone"}

Crash ==
    /\ "crash" \in Faults
    /\ \E r \in Request : AtWork(r)
    /\ req' = [r \in Request |-> IF AtWork(r) THEN [req[r] EXCEPT !.pc = "gone"]
                                 ELSE req[r]]
    /\ loop' = None
    /\ UNCHANGED <<now, booksVars, fundsVars, circle>>

-----------------------------------------------------------------------------
(* The Circle service, which does not know whether its caller still waits. *)

(* The status call: the balance a request is held to is what the Gateway   *)
(* reports or, if the call fails, the account as read before it.           *)
Balance(r) ==
    /\ req[r].pc = "balance"
    /\ \/ req' = [req EXCEPT ![r] = [pc |-> "answered", basis |-> gateway]]
       \/ "status_error" \in Faults /\ Goto(r, "answered")
    /\ UNCHANGED <<now, booksVars, fundsVars, circle, loop>>

(* The Gateway balance is looked at before the burn intent is signed.      *)
CheckBalance(r) ==
    /\ circle[r] = "requested"
    /\ Advance(r, IF Amount[r] <= gateway THEN "checked" ELSE "refused")
    /\ UNCHANGED <<now, booksVars, fundsVars, req, loop>>

(* POST /transfer: the Gateway burns the amount or refuses the intent.     *)
Burn(r) ==
    /\ circle[r] = "checked"
    /\ IF Amount[r] <= gateway
       THEN gateway' = gateway - Amount[r] /\ Advance(r, "burned")
       ELSE UNCHANGED gateway /\ Advance(r, "refused")
    /\ UNCHANGED <<now, booksVars, incoming, swept, spent, req, loop>>

Mint(r) ==
    /\ circle[r] = "burned"
    /\ \/ Advance(r, "minted")
       \/ "mint_error" \in Faults /\ Advance(r, "unminted")
    /\ UNCHANGED <<now, booksVars, fundsVars, req, loop>>

-----------------------------------------------------------------------------
HandlerStep(r) ==
    \/ Ask(r)
    \/ Submit(r)
    \/ Reject(r)
    \/ Settled(r)
    \/ Completed(r)
    \/ Chained(r)
    \/ Failed(r)
    \/ FailureSettled(r)

CircleStep(r) == Balance(r) \/ CheckBalance(r) \/ Burn(r) \/ Mint(r)

Next ==
    \/ Tick
    \/ Sweep
    \/ Credit
    \/ Spend
    \/ Crash
    \/ \E r \in Request : HandlerStep(r) \/ CircleStep(r)

Spec == Init /\ [][Next]_vars

(* The event loop runs every handler whose await is over and the Circle    *)
(* service works off every call it accepted.                               *)
Fairness == \A r \in Request : WF_vars(HandlerStep(r)) /\ WF_vars(CircleStep(r))

FairSpec == Spec /\ Fairness

-----------------------------------------------------------------------------
(* Whatever the interleaving, the withdrawals created in any day and in    *)
(* any week that have not failed stay within the limits: the check and the *)
(* entry that later checks count are one step.                             *)
LimitsHold ==
    \A t \in 0..now : /\ Total(InWindow(t, Day)) <= DailyLimit
                      /\ Total(InWindow(t, Week)) <= WeeklyLimit

(* A withdrawal shown as withdrawn was minted at its destination and has   *)
(* its settlement record, whatever crashes.                                *)
WithdrawnMeansPaid ==
    \A r \in Request : entries[r].status = "withdrawn" =>
        circle[r] = "minted" /\ settlements[r] = "submitted"

(* A terminal entry is final: no late answer changes it.                   *)
TerminalEntry(r) ==
    entries[r].status \in {"withdrawn", "failed"} => entries'[r] = entries[r]
TerminalIsFinal == [][\A r \in Request : TerminalEntry(r)]_vars

(* Money that left the Gateway and is not charged to the account yet.      *)
Unsettled ==
    {r \in Request : /\ circle[r] \in {"burned", "minted", "unminted"}
                     /\ entries[r].status # "withdrawn"}

(* Account and Gateway can be reconciled from the withdrawals' entries and *)
(* what was paid otherwise, whatever fails, is late or is forgotten.       *)
BooksReconcile == available + swept = gateway + spent + Total(Unsettled)

(* A submitted withdrawal is withdrawn or failed in the end, unless a      *)
(* restart has taken its handler: then no one decides it.                  *)
WithdrawalDecided ==
    \A r \in Request :
        entries[r].status = "submitted" ~>
            entries[r].status \in {"withdrawn", "failed"} \/ req[r].pc = "gone"

(* How handler, entry and Circle service depend on one another.            *)
Agrees(r) ==
    /\ req[r].pc \in {"new", "balance", "answered"} => entries[r].status = "none"
    /\ entries[r].status = "none" <=> circle[r] = "none"
    /\ req[r].pc \in {"settling", "completing"} => entries[r].status = "submitted"
    /\ req[r].pc = "completing" =>
          circle[r] = "minted" /\ settlements[r] = "submitted"
    /\ req[r].pc = "failing" => entries[r].status = "failed"
    /\ entries[r].created <= now

WithdrawalInv ==
    /\ TypeOK
    /\ \A r \in Request : Agrees(r)
    /\ WithdrawnMeansPaid
    /\ LimitsHold
=============================================================================
