# Verification of Kovaloop's money paths

TLA+ models of the parts of this repository that move an agent's USDC, the TLC
runs that check them on small instances, and TLAPS proofs of what matters most
for every instance. Paths below are relative to `src/`.

- [1. The system](#1-the-system)
- [2. The modules and how they correspond to the code](#2-the-modules)
- [3. Runs: what is checked, and with which bounds](#3-runs)
- [4. Where the code and its documents disagree](#4-disagreements)
- [5. Fairness](#5-fairness)
- [6. Proofs](#6-proofs)
- [7. Abstractions, and what is not modelled](#7-abstractions)
- [8. Plan](#8-plan)

## 1. The system

| Component | State it keeps | Operations | Talks to |
|---|---|---|---|
| Ledger service (`ledger/`, FastAPI, one asyncio process) | SQLite or Postgres tables: accounts, entries, webhook events, settlement and chain records, onramp sessions; resume tasks in memory | Circle webhooks, withdrawals, agent transfers, credits, onramp, claims, wallet binding, dashboards | Circle service, chain service, Coinbase (REST calls that may time out) |
| Circle service (`chain/src/services/agent-wallet-service.ts`, `circle-wallet-service.ts`) | one JSON file: wallets, agent bindings, gas top-up intents | wallet get-or-create, status, Gateway deposit with gas top-up, Gateway withdrawal, transfers | Circle's API, the Gateway API, Base |
| Chain service (`chain/src/services`) | daily spend counters in memory (`policies/policy-guard.ts`) | transaction submission, transfer signing, x402 buyer | RPC node, x402 sellers |
| x402 seller (`x402-seller/`) | none | challenge, verify, settle | facilitator |
| Agent runtime (`agent/`) | chat sessions in memory | sessions, messages, tool calls | ledger and chain services |
| Dashboard (`ledger/web/dashboard-src/`, React in the browser) | the signed session cookie, the wallets in `localStorage`, each tab's page | sign in and out, claim an agent, keep addresses (pasted, scanned, uploaded), withdraw | ledger |
| Admin pages, website | none | presentation | ledger |

What is hard about it:

- **Awaits.** The ledger runs handlers on one event loop: a handler is atomic
  from one `await` to the next and anything can happen during an `await`.
  Handlers read entries, await the Circle service for up to a minute and act
  on what they read.
- **Many small transactions.** Each store call is one database transaction of
  its own (`ledger/store.py:299-332`). A restart can fall between any two.
- **Answers that do not come.** The ledger's client times out after 60 s
  (`ledger/services.py:100`); the Circle service goes on and waits 120 s for a
  transaction (`circle-wallet-service.ts:950`).
- **At-least-once notifications.** Circle repeats a webhook until it is
  answered with a 200, announces one payment in several notifications, and
  announces the service's own gas top-ups too.
- **One file, rewritten whole.** The Circle service reads its state file,
  awaits, and writes all of it back; concurrent requests overwrite one another.
- **Pages that outlive what they show.** Tabs share a cookie and `localStorage`;
  fetches, camera requests, file reads and withdrawals answer after their
  component, their user or their tab's page has changed.
- **Money in three places.** On-chain wallet, Circle Gateway and the ledger's
  `availableAtomic` change at different times by different hands.

What makes each part correct:

- *Inbound crediting*: every payment is credited once, in full, only after it
  was swept to the Gateway, and in the end; nothing is reported processed that
  is not credited.
- *Withdrawals*: the limits hold whatever runs concurrently; the books can be
  reconciled with the Gateway; an entry that is final stays so, and says what
  happened; every withdrawal is decided.
- *Agent wallets*: no two accounts share a wallet nobody has asked to share; an
  account keeps its wallet; the wallet the ledger shows is the one the Circle
  service pays from.
- *Gas top-ups*: the limits count every top-up the file shows; a top-up that was
  sent is in the file; an intent never claims what has not happened; a deposit
  put off for gas is concluded.
- *Transfers, credits, onramp*: both balances follow from the entries; a move of
  money leaves a record whatever its caller is told; success is told only of
  what is recorded; one key makes one session, which is credited once.
- *Claims*: a page shows an agent and commands its withdrawals only as its
  user's; it keeps up with its own list, and never waits for nothing.
- *Funding*: the camera is on only while it is watched; no address is kept
  twice; a form that waits will be answered and shows what was paid; an amount
  is read as it was written.
- *Spending limits*: what is paid in a day stays within the limit, but for what
  concurrent calls and hidden payments account for; the seller delivers only
  for money that has moved.

`PROJECT.json` lists the hazards line by line with the properties that would
catch them.

## 2. The modules

### InboundCredit (and InboundPromise, InboundBacking, InboundCreditProofs, MCInboundCredit, MCInboundBacking)

One agent's inbound payments: `process_circle_wallet_webhook` and the resume
task in `ledger/webhooks.py`, the store writes they make, and the calls they
make to the Circle service.

| State | Code |
|---|---|
| `arrived`, `wallet`, `gateway`, `gas` | what is on chain, in the Circle wallet, in the Gateway; whether the EOA wallet can pay for a deposit |
| `bound` | whether the account has the wallet (`bind_account_wallet`) |
| `acked` | notifications Circle has a 200 for |
| `events` | status of the `CircleWebhookEventRecord` of each notification |
| `pendings`, `credits`, `available` | `pending_inbound` and `credit` entries in the order of their position, `availableAtomic` |
| `intents` | gas top-up intents of the state file |
| `req`, `job`, `loop` | locals of each handler and resume task; who is between two store calls of one stretch |

`Deliver` is the handler up to the gas top-up hook; `CircleHook` is the hook in
the Circle service; `TopUpNoticed`, `Skip`, `Duplicate`, `Receive` and
`ReplayProcessed` are what the handler does with its answer; `CircleStatus`,
`StartDeposit`, `CircleDeposits`/`CircleTopsUp`/`CircleRefuses` are status call
and deposit; `DepositFailed`, `DepositAwaitsGas`, `DepositCompleted` the three
outcomes; `CreditNext`, `MarkProcessed` and `Finish` the credit loop, one store
call each. `ResumeCall` to `ResumeMarks` are the resume task. `Crash` forgets
every handler and task. `CoveredBySweep` is the greedy cover of
`pending_inbounds_covered_by_sweep`.

`InboundPromise` is what the account's owner is promised: each payment is paid
out at most once, in full, after it arrived. `KeepsPromise` is the refinement.

`InboundBacking` adds history variables to InboundCredit, and no behaviour, to say
which credits the sweeps account for:

| State | Code |
|---|---|
| `old` | payments of before the beginning |
| `asked`, `kept` | the payments that had come in when a handler was told the balance it deposits (`webhooks.py:690`); the same of the request a top-up was made for |
| `stray` | USDC credited for a payment that came in after the balance of the deposit was asked for, is old, or has a credit |

`SpendableIsSwept` says that nothing else is ever credited beyond what was swept.

### Withdrawal (and WithdrawalProofs, MCWithdrawal)

One agent's withdrawals: `withdraw_agent_wallet` in `ledger/main.py`, the
limits and the store operations, and the Circle service's `withdrawFromGateway`.

| State | Code |
|---|---|
| `now` | the clock the limits look at |
| `entries` | status and `createdAt` of each withdrawal's entry |
| `settlements`, `chained` | settlement and chain records |
| `available`, `gateway` | `availableAtomic`, the Gateway's balance |
| `incoming`, `swept` | units not yet paid in; units in the Gateway but not credited (the other module's business, one unit at a time) |
| `spent` | history: units paid out of the Gateway for anything else |
| `circle` | how far the Circle service is with each withdrawal |
| `req`, `loop` | how far each handler is, and the balance it holds the request to |

`Ask` and `Balance` are the status call, `Submit` or `Reject` validation and
the submitted entry in one stretch, `CheckBalance`, `Burn` and `Mint` the
Circle service, `Settled` and `Completed` two store calls of one stretch,
`Chained` the chain recorder, `Failed` and `FailureSettled` the error path,
which a timeout takes at any moment while the Circle service carries on.
`Crash` takes every handler at work with it (`gone`).

### SpendPolicy (and SpendPolicyProofs, MCSpendPolicy)

The chain service's daily limits: `PolicyGuard`, the four services that ask it
before a payment and tell it afterwards, and the x402 seller.

| State | Code |
|---|---|
| `day` | the UTC date of `buildDayKey` |
| `dayKey`, `spent` | `currentDayKey`, `spentTodayWei` and `spentTodayUsdcAtomic` |
| `calls` | how far each call in progress is: sent to the seller or node, verified by the seller, answered (`done`, `failed`); whether the service still waits |
| `balance` | what the buyer's key owns of each asset |
| `paid`, `missed` | history: today's payments, and those of them the guard will never be told of |

A call is of kind `x402` (`X402FetchService.execute`), `submit`
(`ExecutionService` and `UserOperationService`) or `sign`
(`SignTransferService`). `Authorize` is everything up to the await: roll the
day, check cap and limit, send. `SellerVerifies` and `SellerSettles` are the
two facilitator calls of `authorize_or_challenge`; `NodeSubmits` and
`NodeSigns` the other kinds' awaits; `Refused` and `PaidButFailed` what can go
wrong in them. `Record` is `record` and `recordX402` after a good answer,
`GiveUp` an error thrown past it, `LoseReply` a request that breaks off (the
payment may still happen), `Restart` the loss of the counters and of every
call's caller, `Midnight` the clock.

### AgentWallets (and AgentWalletsProofs, MCAgentWallets)

Which wallet belongs to which agent: `getOrCreate` and the import of wallets in
the Circle service, its state file, and the ledger's binding of the account.

| State | Code |
|---|---|
| `madeFor` | Circle's wallets and the agent whose name each carries |
| `file` | the JSON file: whether it can be parsed, `wallets`, `agentWalletBindings`, the bindings of mode `mock` |
| `account` | the wallet of each ledger account |
| `req` | locals of each request: agent, the wallet the caller names, the wallet found, the file as last read |
| `chosen`, `orphaned` | history: wallets bound or unbound because a caller named one; wallets created and never bound |
| `disturbed` | history: agents whose binding fell to another request's write, or whose request was overtaken by one |

A request is one action per await: `FindNamed` (`status`), `FindById`,
`FindByName`, then `ListWallets`, `ReadForWallets` and `SaveWallets`
(`importUnusedCircleWallet` and the import route), `FindUnboundWallet`,
`CreateWallet` (`init`), `ReadForBinding` and `SaveBinding` (`saveBinding`),
and `Answer`, which is the rest of `get_or_create_agent_wallet` in the ledger.
`UpsertBinding` is the function of that name; agents have names and ids of
their own, so that only the owner's e-mail can remove another's binding.
`ReadForIntent` and `SaveIntent` are `saveGasTopUpIntent`, the third writer of
the file. Any number of requests run at a time. `Save` is where one request
harms another's agent, and says whom: agents whose binding the writer's copy is
stale about (`StaleIn`), agents of the same owner (`Replaced`), and agents whose
request has read what is written over (`OvertakenBy`).
`Crash` may leave the file torn, after which every read fails (`Fail`).

### GasTopUps (and GasTopUpsProofs, MCGasTopUps)

`depositToGateway` of the Circle service with everything below it: the gas
check and top-up (`ensureNativeGasForGatewayDeposit`), the notification of a
top-up (`handleGasTopUpWebhook`), the resumed deposit
(`resumeGasTopUpGatewayDeposit`), and the intents in the state file.
InboundCredit sees these three calls from the ledger's side, as one step each
and with at most one top-up in a window; here every await is a step.

| State | Code |
|---|---|
| `now` | the clock of `createdAt`, the reuse window and the daily limits |
| `file` | `gasTopUpIntents` of the state file: status and `createdAt` |
| `top` | each native transfer: admitted by the limits, sent, mined, void |
| `gas`, `allowed`, `usdc` | per wallet: native coin, deposits the allowance covers, deposits there is money for |
| `wanted` | intents the ledger has been told to resume and may resume at any time |
| `req` | locals of each request, among them the whole file as last read |
| `deposited`, `unseen`, `calm` | history: deposits that moved, top-ups the file did not show a later check, whether nothing was lost or overtaken |

`Ask`, `Balance`, `FindPending`, `Admit`/`Refuse`, `Send`/`SendFails`,
`ReadToSave` and `Write` are a deposit that runs out of gas, one action per
await; `Approve`, `Deposit`, `Fails` and `MinedUnheard` the two transactions of
a deposit that does not; `Notice` and `NoticeAnswered` the notification;
`Resume` the resumed deposit, which ends in `ReadToSave` and `Write` with
`Conclude`'s status. `Restart` forgets every request.

### Settlements and SettlementPromise (and SettlementsProofs, MCSettlements)

The three other handlers that change books: `transfer_between_agents`,
`credit_agent_balance`, and the onramp's `create_onramp_session` and
`confirm_onramp_session`; `settle_agent_transfer` and
`record_ledger_chain_event` of `services.py`; the Circle service's `transfer`.

| State | Code |
|---|---|
| `mode` | the settings `LEDGER_SETTLEMENT_ENABLED` and `LEDGER_CHAIN_RECORD_*`, chosen once |
| `at`, `arg` | how far each handler is, and what it was asked |
| `entries`, `available`, `settlements`, `chainRecords`, `session`, `events` | the tables |
| `got` | the session each creation was answered |
| `circle`, `gateway`, `moved` | the Circle service's calls, the agents' Gateway balances, the transfers that moved money |
| `chain` | execution requests of the chain recorder |

`AskTransfer`, `Settled`/`Unsettled`, `BookTransfer` are a transfer;
`CircleChecks` to `CircleFails` what the Circle service does with it, also when
the ledger has given up (`Unsettled` needs no failure of Circle's);
`AskRecorder`, `Record`, `RecordFails` the chain recorder; `AskSession`,
`TokenRefused`, `AddSession`, `ConfirmSession` the onramp. `SettlementPromise`
is what transfers promise: the books show only what the Gateway has moved, and
success is told only of what the books show; `KeepsPromise` is the refinement.

### Claims (and ClaimsProofs, MCClaims)

Who sees and who commands an account: the dashboard pages of one browser and
the ledger's handlers for sessions, portfolios, claims and withdrawals.

| State | Code |
|---|---|
| `account` | `dashboardClaimedAt`, `dashboardClaimedByEmail` and the claim code of each account |
| `cookie` | the signed session cookie, one for all tabs |
| `page` | each tab's React state: session checked, user, agents, portfolio, claim form |
| `calls` | fetches whose answers have not arrived, with the cookie they carried |
| `granted`, `moved` | history: which agent the ledger gave to whom, itself or by a claim; withdrawals paid, with the claimant that was checked and whom the page shows at the payment |
| `loads`, `posts`, `upsets` | counters of the bounds |

A handler of the ledger is one action (`auth_session`, `ledger_portfolio`,
`ledger_claim_candidates`, `ledger_claim`,
`auth_logout`, `create_claim_link`, `debug_reset_dashboard_claims`), but for a
withdrawal, which awaits the balances between its check
(`require_dashboard_withdrawal_access`) and its payment
(`withdraw_agent_wallet`); what the answer does to the page is another (`SessionArrives` to `ClaimArrives`), or the
call is lost (`Lose`). `Show` turns a tab from one page to the next and, like
React's effects, cancels and makes the fetches that depend on what changed
(`Refetch`, `Relist`, `Cancelled`, `Fetched`). A page remembers in `foreign` which
agents a claim of its own gave to another person than it shows.

### Funding (and FundingProofs, MCFunding), Amounts

The Funding and Settings views: the address book, the capture of an address,
and the form that withdraws to one.

| State | Code |
|---|---|
| `stored`, `book` | the wallets and the default in `localStorage`; each tab's copy of both |
| `address` | the address behind each wallet id |
| `page` | each tab's view, account data, withdrawal form and modal |
| `scan` | each tab's scanner: status, camera stream, video |
| `asks`, `reads`, `calls` | camera requests, file reads and withdrawals under way |
| `held`, `moved` | what the ledger has for the agent; history: withdrawals made |

`addWallet` to `resetAll` are the provider's callbacks; `OpenModal` to
`handleSave` the modal; `CameraGranted`, `CameraRefused`, `CameraUnwanted`,
`Plays`, `DecodeFrame`, `PickFile`, `handleUpload`, `handleRetry` the scanner;
`handleConfirm`, `LedgerMoves`/`LedgerRefuses`, `Answer`, `Another` the form.
`Turn` unmounts what a step takes off the page. `LedgerMoves` stands for all of
Withdrawal: in the form's eyes one step.

`Amounts` has no state. Its operators are the conversions an amount passes
between the form and Circle and back, on sequences of digits of any base, and
what is read out of a Gateway balance (with recursive functions, so that they
can be reasoned about): `formatUnits` (viem),
`atomicUsdcToDecimal`, `formatEthAmount`, `formatAmount`, `usdcToAtomic`,
`parseEthToWei`, `parseGatewayAmount`, `parseGatewayDepositAmount`,
`getGatewayBalance` and what it calls. `ConversionsExact` says that each reader
reads what its writer wrote, `GatewayReadsFunds` that the same funds are read
however the Gateway says them; `AmountsSurvive` of Funding checks both and the
amounts in the pages' calls.

The definitions whose comment begins "Seeded fault" are single mistakes someone
could make in the code (a check dropped, an order swapped). They take no part
in any specification; each run is repeated with one of them in place of the
action it varies, to show that the property would notice.

## 3. Runs

Deadlock is not checked: the system may stop when everything is answered and no
notification is outstanding. The runs use every symmetry that is sound (slots,
agents, tabs, addresses, keys, notifications of one payment); those with a liveness property use none.

| Run | Instance | Shows |
|---|---|---|
| `inbound_handlers` | 2 handlers, payment x announced twice, y once, of different values; crash, repeated delivery, lost reply; symmetric in x's two notifications | no double credit per payment, nothing processed uncredited, refinement of InboundPromise, nothing credited beyond what was swept but late payments. Two handlers are the least for every read-before-await hazard; two notifications of one payment for every duplicate; two payments for sweeps that cover another payment. |
| `inbound_gas` | EOA wallet, 2 handlers, 2 resume task slots, one top-up, every fault; the notification may have been processed before entries were recorded | no entry credited twice by handlers and resume tasks |
| `inbound_live` | 1 handler, x announced twice, y never in full, gas top-up | x is credited in the end; one handler at a time never credits more than was swept |
| `inbound_double` | see section 4 | counterexample |
| `withdrawals` | 2 withdrawals of 1 and 2 units, limits of 2 a day and 2 a week, 3 instants with a day of one and a week of two, an inbound unit; every fault | limits hold, books reconcile, withdrawn means paid, final entries stay, every withdrawal decided. Both withdrawals are admitted only when one has failed or both windows have passed, which refuses by the week alone and, on one day, by both limits at once; the daily limit never decides alone. `LimitsAlwaysHold` covers every pair of limits |
| `spend_guard` | 2 concurrent calls of any kind, amounts 1 to 3 against a cap of 2 (so that 3 is refused), a daily limit of 2, two days; every fault | the day's payments stay within limit, overlap and hidden payments; delivered means paid. USDC is plentiful (5, more than limit and overlap together, so that an excess would show), native coin is short (1, so that a payment fails for want of it) |
| `wallets` | 2 agents with owners of their own, 2 requests at a time, gas top-up intents written to the same file; Circle has two wallets at first, one a smart account, and may create a third; restart, torn file, failing Circle calls, lost answers. A second request starts only while no agent is disturbed, no wallet chosen or orphaned (constraint `Together`) | exclusive and stable wallets and bindings that back accounts, of agents that no other request has disturbed. Two agents and two requests are the least for sharing and for overtaking; one unused EOA wallet and one that can be created make both import and creation happen, and run out |
| `gas_topups` | 2 wallets, 2 request slots, 2 top-ups, two days of one instant; limits of 2 a wallet and 3 in total with top-ups of up to 2, so that a second top-up of one wallet is refused by the wallet's limit alone (1 + 1 needs none, 2 + 1 passes in total) and one of another wallet by the total alone (2 + 2); lost answers, restarts. The second wallet is at work while nothing is lost and no top-up is mined (`Guests`, constraint `Brief`); once all are mined and something was lost, requests come one at a time (`Late`) | the limits hold but for top-ups the file did not show; what was sent is known; the file never claims what has not happened; the invariant behind them |
| `gas_live` | as above, one top-up, two deposits, refusals | a deposit put off for gas is concluded |
| `settlements` | 2 transfers that one Gateway balance cannot both pay, a credit, 2 creations and 2 confirmations, 2 agents, 2 keys, amounts 0 to 2 with a limit of 1 on a transfer, every setting; refusals, lost answers, restarts | books reconcile, a move of money is traced, success means recorded, one key one session, credited once, refinement of SettlementPromise, the invariant behind them. A behaviour has either transfers or the other calls (constraint `Apart`): they share only the table of entries, which single transactions write |
| `claims` | 2 tabs, 2 people, 2 agents of one owner of which one was claimed before claims bore names; 2 page loads, 2 claims or withdrawals, 1 reset, changed wallet or lost call, four of these in all, or five with a reset and one call at a time (constraint `Together`) | a page lists what was granted, keeps up with it, pays only for whom it shows or showed, never waits for nothing; the invariant behind them. Two of each are the least for a stale tab, a replaced session and a claim taken over |
| `funding` | 2 tabs (one scans, one pastes and pays), 2 addresses, 3 works, and a fourth with one withdrawal or picture under way at most (constraint `Together`), digits 0 and 1 with three after the point, balance 17 of which MAX rounds | the camera is off unwatched, no address twice, a waiting form has its call, a settled one its payment, the invariant behind them; amounts survive. All amounts up to four whole units are converted. |

Every variable's type is part of the module's inductive invariant, for which
section 6 has a theorem: `InboundInv`, `WithdrawalInv`, `SpendInv`,
`WalletsInv`, `GasTopUpInv`, `SettlementsInv`, `ClaimsInv`, `FundingInv`. The
last four are also invariants of runs.

## 4. Disagreements

One is kept as a run, a counterexample of a few steps:

1. `inbound_double` - the resume task looks only for a credit of the entry it
   found (`webhooks.py:367`). Two handlers have recorded two entries for one
   payment; a later sweep credited it under one, the resumed top-up credits the
   other: credited twice. `ledger/tests/test_webhooks.py:565` tests that a
   payment's second notification does not credit it again.

The others are seen by changing a configuration of section 3 as told:

2. The handler credits its own entry although its sweep covered another
   payment's (`webhooks.py:759`): the account counts money that is still in the
   wallet and, by `docs/superpowers/specs/2026-05-22-dashboard-pending-gateway-gas-design.md:47`,
   not spendable. (`Inbound_handlers.cfg` with no fault and the invariant
   `CreditIsBacked`.) By `SpendableIsSwept` this takes a payment that came in
   after the handler was told the balance.
3. The ledger's timeout (60 s, `services.py:100`) is shorter than the Circle
   service's (120 s, `circle-wallet-service.ts:950`): the entry says failed,
   which line 55 of the same document calls terminal, the money has gone, and
   the amount no longer counts against the limits. (`Withdrawals.cfg` with the
   fault `timeout`: a state with `entries[r].status = "failed"` and
   `circle[r] = "minted"`.)
4. `authorizeX402` compares with what has been recorded (`policy-guard.ts:100`),
   and the record comes after the paid request is awaited
   (`x402-fetch-service.ts:60`, `:89`): two concurrent calls pass and together
   exceed the daily cap of `README.md:424`. (`Spend_guard.cfg` with no fault:
   `paid["USDC"]` above `DailyLimit["USDC"]`.) What does hold, with the excess
   bounded, is `PaidWithinOverlap`.
5. A binding removes the bindings of every agent with the same owner e-mail
   (`agent-wallet-state-store.ts:376`); the wallet of the agent that lost its
   binding is then taken for unused and imported for another agent, while the
   first agent's account still shows it.
   `chain/test/agent-wallet-service.test.ts:634` promises an "unused Circle
   wallet". (`Wallets.cfg` with `Common = {a, b}`, one request and no fault:
   `WalletsExclusive` without its exception for `disturbed`.)
6. A payment swept by another payment's handler before it has an entry is never
   credited: every redelivery asks to deposit a zero balance and fails
   (`webhooks.py:698`; `InboundEventuallyCredited`, 2 handlers, 2 payments with
   one notification each, no fault).
7. The resume task finds the entry by the notification the top-up remembers; an
   entry recorded for the payment's other notification is not found
   (`webhooks.py:359`; `InboundEventuallyCredited`, as `inbound_live` with 2
   handlers).
8. After a restart between the submitted entry and the answer the withdrawal
   stays `withdraw_submitted` for ever (`main.py:905`; the exception that
   `WithdrawalDecided` makes).
9. A withdrawal larger than the local balance leaves the balance alone
   (`store.py:1292`); a credit that comes later shows money that has left.
   (`Withdrawals.cfg` with `Opening = 0`, `Incoming = 2` and no fault:
   `BooksReconcile`.)
10. Two get-or-create requests at the same time read the file before either has
    written it: both import the same wallet, or the later write drops the
    earlier one's binding (`agent-wallet-state-store.ts:195`); a gas top-up
    intent saved meanwhile does the same (`:226`). No lock serialises requests in
    the Circle service. (`Wallets.cfg` with no fault: `WalletsExclusive` and
    `BindingBacksAccount` without their exception.) What is left is what the two
    say: only the agents in `disturbed` suffer.
11. In the same way any write of the file drops gas top-up intents saved since it
    was read (`agent-wallet-state-store.ts:226`): they count against no limit
    and nothing resumes their deposits. CONFIRMED and COMPLETE both ask for a
    resume (`agent-wallet-service.ts:544`); of two that run together the second
    finds no money and overwrites `gateway_deposit_completed` with `failed`.
    `TopUpsWithinLimits`, `SentIsKnown` and `PutOffIsConcluded` say what is left.
12. A transfer whose answer comes after the ledger's timeout leaves a `failed`
    settlement record although the money has moved, and a client that tries
    again gets a new transfer id and pays twice (`services.py:172`); no key
    relates the two.
13. A session is looked up by its idempotency key alone (`store.py:1415`): an
    agent that uses another's key gets that agent's session. `README.md:173`
    speaks of a repeated request.
14. An account claimed before claims bore names appears in its owner's
    portfolio, and its withdrawals are refused until it is claimed again
    (`main.py:213`).
15. A withdrawal form that is reset or remounted while its request is under way
    (`FundingView.jsx:40`) lets the user withdraw a second time. A form that is
    only reset still hears the first request, whose answer then settles or fails
    the second: `PendingHasCall` and `SettledHasMoved` say what is left. The header
    comment of the file asks for at least 5 USDC, the code for 1 (`:51`).
16. `netAmount` of a withdrawal of 3000 atomic units or less throws after the
    money has moved (`agent-wallet-service.ts:906`); the form does not let such
    amounts through, the ledger does.
17. `getGatewayPendingDeposits` builds its address without the network
    (`circle-wallet-service.ts:506`), the balance with it (`:468`): on the main
    network with the default facilitator, deposits are asked of the test
    network. Not modelled: addresses of services are not.
18. A claim is made for whom the cookie names (`main.py:671`), which another tab
    may have replaced; the page adds the agent all the same
    (`MvpAppStateProvider.jsx:352`) and lists what belongs to somebody else. This
    is the exception of `PageIsBacked`, which shows that there is no other way.
19. The claim is checked at `main.py:870` and not again after the balances were
    awaited (`:887`; `validate_withdrawal` is given the owner and does not look at
    it, `store.py:918`): a withdrawal is paid although the claim was reset or taken
    over meanwhile. `MovedAsShown` says for whom it is paid.
20. From 1000 USDC on `formatAmount` writes thousands separators, and the
    withdrawal form reads such a text as nothing (`FundingView.jsx:78`). A pending
    deposit said in whole USDC is read as so many atomic units
    (`circle-wallet-service.ts:1332`). `AmountsSurvive` states both.

## 5. Fairness

`InboundCredit!Fairness`: the event loop runs every coroutine whose await is
over and the Circle service answers every call (weak fairness per handler and
task); a top-up that was sent is mined; Circle redelivers a notification until
it gets a 200 (strong fairness of the delivery of each unanswered notification,
strong because a busy handler disables it). Nothing is assumed of the arrival
of payments, of faults, or of a successful answer where a failing one is
possible.

`Withdrawal!Fairness`: the same for handlers and the Circle service. Time need
not pass, and neither success nor a timeout is assumed.

`GasTopUps!Fairness`: requests in progress go on (weak, per slot) and a transfer
that was sent is mined (weak, per top-up); the notification of a top-up is
delivered, again as long as it has not been answered (`Notice`), and a resume
that the ledger has been told of is called (`Resume`). The last two are strong,
per top-up, for some slot: all slots may be busy for a while. The second rests
on the ledger's resume task, so the run `gas_live` assumes no restart of it.

Settlements, Claims and Funding state no fairness: a lost call, a closed tab or
a setting that is off may end every one of their stories, and what must not be
left waiting is said as an invariant (`WaitsForAnswer`, `PendingHasCall`): who
waits has a call under way that will answer.

## 6. Proofs

Each of the eight modules with state has an inductive invariant, a theorem that
it always holds and, from it, a theorem for each invariant, action property and
refinement of the runs; only the three liveness properties are left to TLC. What
every proof needs of the constants is one named assumption of the module, which
the runs evaluate; only NoTransactionCreditedTwice, HandlersKeepPromise and
Withdrawal's BooksAlwaysReconcile need more, and say so in their statements.

InboundCredit and Withdrawal: for any finite or infinite number of payments,
notifications, handlers, tasks, top-ups (`InboundCreditProofs`) and for any
finite set of requests, amounts and limits (`WithdrawalProofs`), from the
constants' assumptions `InboundAssumption` and `WithdrawalAssumption` only.

**InboundCredit.** The invariant `InboundInv` strengthens what is wanted by what
handlers remember across awaits: a request that found or made an entry still
has an entry of its payment (`RequestAgrees`), a resume task that is about to
mark an entry has credited it (`ResumeAgrees`), entries and credits name the
same payment (`EntriesAgree`). It is needed because the handlers write from
stale reads: only "entries are append-only and never change" makes those reads
still mean something, which `Grow` and the lemmas `RequestKept` and `BooksClosed`
carry once for all actions. `CreditOncePerPending` is then inductive because
`CreditNext` and `ResumeCredits` look for a credit in the step that adds one.
Proved: `InboundInvariant`, `TypeCorrect`, `NoEntryCreditedTwice`,
`NothingProcessedUncredited`.

That no more is credited than was swept has to survive handlers that sweep one
another's payments and credit entries their own sweep did not cover. `BackedInv`
(of InboundBacking) compares what the wallet holds with what may still be
credited. For each set of payments that somebody's balance was asked with, and
for the empty one, `LaterThan` bounds the wallet by what that somebody will
still deposit and by the uncredited payments that came in later; who is about to
credit has nothing left to deposit. The sets are of earlier and later times and
so form a chain. That is what lets one request credit a payment without
breaking another's bound: a set that does not have the payment is an earlier
one, and the creditor's own bound implies it (`AskedCredit`). A credit outside the
creditor's set is `stray` and pays for itself (`LateCredit`). Nothing is asked of
which entries the covering picks, so that no induction over it is needed; sums
of payments are the numbers of elements of sets of units, as below. Proved, from
`InboundAssumption` only and so for any number of handlers, resume tasks,
top-ups and legacy notifications and under every fault: `WalletMoneyAccounted`,
`SweptBeforeSpendable`. `CreditIsBacked`, without strays, holds of one handler
at a time and is only model-checked.

`NoTransactionCreditedTwice` and the refinement `HandlersKeepPromise` rest on one
entry per payment (`OneEntryEach`), which resume tasks need in order not to pay
one payment twice. They are therefore proved under `Serial`: there is no resume task
(no EOA wallet runs out of gas), with any number of handlers; or one handler
at a time and no legacy notification, with any number of resume tasks.
`inbound_double` is the counterexample with two handlers and a resume task.

**Withdrawal.** `WithdrawalInv` relates handler, entry and Circle service
(`Agrees`). A sum of amounts is written as the number of elements of a set of
units (`Units`, `Total`), so that sums follow from the library's facts about
finite sets rather than from an induction over data. `LimitsHold` quantifies over every window
up to now; the step of `Submit` extends only windows that contain now, each of
which the check has just bounded. Proved: `WithdrawalInvariant`,
`WithdrawalTypeCorrect`, `LimitsAlwaysHold`, `WithdrawnIsPaid`,
`TerminalStaysFinal`, and `BooksAlwaysReconcile` if nothing is paid in or the
opening balance is enough for all requests (`Solvent`, which the run's instance
satisfies; disagreement 9 refutes it otherwise). The account is then never
charged less than has left the Gateway, because `available` and what was withdrawn
are together at least the opening balance.

**SpendPolicy.** Any finite number of concurrent calls, any amounts, caps and
limits, any number of days and every fault, from `SpendAssumption`. What is wanted is a bound on payments; it is not
inductive, because the guard never sees payments, only records. `SpendInv`
goes through the guard: `AdmittedWithinOverlap` bounds what is counted plus
what is admitted and not yet counted, `PaymentsAccounted` says that every
payment is in one of those two or known to be hidden. Each step changes one
call, so `Apart` splits the sums into that call's share and the others', and
`OneCallKeeps` states once what the share has to satisfy; each action then has
a lemma of its own. Proved: `SpendInvariant`, `SpendTypeCorrect`,
`DeliveredIsPaid`, `PaidStaysWithinOverlap`.

**AgentWallets.** Any agents, any wallets, every fault, from
`WalletAssumption`; any number of requests at a time, any owners with any number
of agents. Requests do overtake one another (disagreements 5 and 10), so the
invariant is about the agents that are not in `disturbed`. What is wanted relates accounts,
and accounts change only in the last step of a request, long after it has
looked for a wallet; `WalletsInv` therefore follows the wallet through the
request: until `SaveBinding` it is its agent's own, or nobody's
(`WalletFree`), and a wallet created for an agent is bound, abandoned or in the
hands of the request that created it (`MadeAgrees`), so that finding a wallet
by name while there is no binding means that it was abandoned. `RequestOnly`
carries the steps that change nothing but the request, `EndedEarly` errors and
restarts. Proved: `WalletsInvariant`, `WalletsStayExclusive`,
`BindingsBackAccounts`, `WalletsStayStable`, `WalletsTypeCorrect`.

**GasTopUps.** Any requests, wallets, limits, windows and every fault, a finite
set of top-ups, from `GasAssumption`. The file is written whole from a copy read
before an await, so the file alone says nothing that lasts: `GasTopUpInv` asks of
each copy a request holds what it asks of the file (`RequestHonest`, `Dated`),
and that no two requests are about to send the same top-up. The limits are
proved in another form than the run states them: `LimitsMean` turns "what was
admitted, less what the file hid" into a total over the top-ups no check has missed
(`SeenWithinLimits`), in which each step changes at most one summand. Proved: `GasTopUpInvariant`,
`TopUpsStayWithinLimits`, `SentAlwaysKnown`, `IntentsAlwaysHonest`.

**Settlements.** Any agents, calls, keys, amounts, every setting and any number of
restarts and lost answers, from `SettlementsAssumption`: the sets of calls of
different handlers are disjoint. `SettlementsInv` follows each call through
tables, Circle and recorder (`TransferAgrees`, `CircleAgrees`, `ChainAgrees`
and their like). A step belongs to one call (`StepOf`), adds only that call's
rows (`RowsOf`), and leaves what the invariant says of the others
(`OthersKept`). It is enough for all but `BooksReconcile`, which is inductive on
top of it: both balances are sums over the entries, written as the numbers of
elements of sets of units, and `GainAdded` and `LossAdded` say what the rows of
one step add. Proved: `SettlementsInvariant`, `BooksAlwaysReconcile`,
`TransfersTraced`, `AnswersRecorded`, `KeysShareSessions`,
`SessionsCreditedOnce`, and the refinement of SettlementPromise,
`TransfersKeepPromise`: each step moves one transfer one step of the promise, or
stutters.

**Claims.** Any tabs, people and agents, any claims made before, any number of
loads and mishaps, from `ClaimsAssumption`. The wanted properties speak of
pages; pages change when answers arrive, so `ClaimsInv` carries them over to
the calls under way: an answer in flight tells what the ledger granted to the
person it was asked for (`CallHonest`), it fits the page that would hear it
(`CallFits`), a session being fetched has no other fetch beside it
(`SessionAlone`), and who holds a claim was given the agent
(`AccountsGranted`), and a withdrawal that has been checked is of somebody who
was given the agent and whom its page shows, if anybody (`MovedAsShown` then
follows from the payment). `CallFits` is what a test would hardly reach: it holds only
because the effects cancel what was asked for a former user. Proved:
`ClaimsInvariant`, `PagesAlwaysBacked`, `RostersKeepUp`,
`MovedOnlyAsShown`, `AlwaysWaitsForAnswer`.

**Funding.** Any tabs, addresses, works, amounts and any base of the digits,
from `FundingAssumption`. `FundingInv` falls into four parts that read different
variables (`BookOK`, `CameraOK`, `PayOK`, `PageOK`), so that an action has to
be followed through one or two of them. Cameras: a request for one and a
picture being read belong to a scanner that is shown (`CameraTidy`,
`FilesTidy`). Address book: an id is saved before it is listed (`Saved`), in
every tab and in storage, so that one tab's list, written over another's, still
names known and distinct addresses. Withdrawals: a call answered with success
has its receipt (`AnsweredHasMoved`), before the form hears of it. Proved:
`FundingInvariant`, `CameraAlwaysWatched`, `AddressesStayDistinct`,
`PendingAlwaysHasCall`, `SettledAlwaysMoved`.

**Amounts.** Any base, any number of decimals and any fee below one unit (3000
atomic units of a million), from `AmountsAssumption`. An induction over numbers is
made with the least element of a set instead of a predicate (`Least`, `Induct`),
and `Recursion` says once that a function defined from its value at `n - 1`
exists, which `PowerIs` and `ReadIs` apply to `Power` and `Read`. The main lemma is
`NumberOfDigits`: the first i of d digits of n stand for n ÷ base^(d-i).
Padding adds zeros at the end (`PadEndIs`), trimming takes only those off
(`TrimmedIs`), and shown cents are the digits of a shorter number
(`ShiftedDigits`). Proved: `WrittenIsRead`, what each reader makes of what its
writer wrote, for every positive amount: the amount, but for the dashboard's
separators from a thousand units on and for deposits said in whole units; `FundsAreRead`, that a Gateway
balance is read alike in each of its forms; and with them
`AmountsAlwaysSurvive`, for which `AboveMinimum` (a call under way is of a unit
at least, as the form asks) is inductive on top of `FundingInv`.

**Model-checked only.**

- Liveness (`InboundEventuallyCredited`, `WithdrawalDecided`,
  `PutOffIsConcluded`): it rests on fairness, and so on ENABLED, which is out of
  the prover's reach.
- `CreditIsBacked`, for the one handler at a time it is true of.

## 7. Abstractions

- One agent's account, with one wallet. Payments to different agents touch
  disjoint rows.
- Every inbound notification carries a transaction id. (Two without one would
  compare equal at `webhooks.py:506`.)
- A webhook's signature, parsing and the filters on state, asset and direction
  are one set, `Usable`.
- One notification per gas top-up, identified with the top-up.
- A Circle call in flight when the ledger restarts is either answered before or
  has no effect in InboundCredit; in Withdrawal it continues. The Circle
  service itself does not restart.
- The number of resume tasks alive at a time, of top-ups a day and of requests
  are constants (`Task`, `Intent`, `Request`); `Horizon` bounds the clock and
  `Incoming` the inbound units. The clock does not go back.
- A withdrawal's metadata carries no `amountAtomic` of the client's own, which
  `withdrawal_limit_amount` would read after completion.
- Fees are left out: the ledger charges the gross amount.
- FastAPI runs the non-async handlers (onramp confirmation) in a thread pool, so
  they can fall between two store calls of a handler; they write no row the two
  modules read except the balance, which every store operation reads and writes
  in one transaction.

- In SpendPolicy recipient, network and asset are on the lists; an
  authorisation that is refused rolls the day and does nothing else, which is
  `Snapshot`. The seller an x402 call pays is this repository's; a user
  operation pays the amount that was authorised (the service passes the raw
  operation on unread). A failed transaction costs no gas. `LastDay` bounds the
  days.

- In AgentWallets an agent has one id and one name, no other agent's, and its
  requests one e-mail. `status` reads the file twice; the two reads are one
  step, so that no write falls between them. Which of
  several wallets Circle lists first is a choice. The file is empty at first
  and `AGENT_WALLET_STATE_PATH` is set; the chain is not mocked. Every wallet is
  on the configured chain. The init route is left out. An intent written to the
  same file is a write of the wallets and bindings read before it; what intents say
  is GasTopUps, which leaves the bindings fixed in its turn.

- In GasTopUps every deposit is of one unit, an allowance counts deposits, a
  mined transaction costs one unit of gas and one that reverts none. The state
  file can always be parsed (AgentWallets has the torn file). `Horizon` bounds
  the clock, `DayLength` and `Reuse` are the windows of the limits and of the
  reuse of an intent, `TopUp` the number of native transfers and `Deposits` of
  deposits.

- In Settlements the settings are chosen in Init and stay. Everything the
  Circle service may object to (no wallet, not an EOA, a bad address, an API
  error) is `CircleFails`; it may fail before or after the transfer moved money.
  Entries of kind `agent_transfer` do not change `availableAtomic`, as in the
  store. The settlement client's `require_success` is read nowhere in the code
  and is not in the module. Each handler is called once, except that a session
  may be created and confirmed as often as `Create` and `Confirm` have members.

- In Claims a claim's code is a number that grows when the account's wallet
  changes (in the code a hash of owner, agent and wallet); a
  session is its e-mail, since the server keeps none. The Google exchange, the
  cookie of the OAuth state, the expiry of a session and the development
  parameters `?reset` and `?seed` are left out. A portfolio that fails or is
  empty leaves the page with what it shows (the `missed` flag records it), at
  first a fixture, which holds no agent of the ledger.
  `Visits`, `Posts` and `Upsets` bound page loads, claims and withdrawals, and
  resets, changed wallets and lost calls.

- In Funding an address has one text; a QR code holds an address or something
  else; layout and animations are left out. `Works` bounds what the user does.
  `Scanners`, `Pasters` and `Payers` say which tab does what, to keep the
  instance small; the storage they share is the same for all. Base 2, three
  digits after the point and a fee of 3 stand for 10, six and 3000: what the
  conversions do depends on carries, padding and trailing zeros, all of which
  occur with two digits.

Not modelled, with the reasons:

- *Rendering*: texts in two languages, charts, tables, avatars and icons, the
  website and the admin pages keep no state another part reads.
  `CoinbaseOnrampModal` is loaded and never mounted.
- *Agent runtime*: a language model loop around REST calls. Two messages sent to
  one session at the same time overwrite each other's history
  (`agent/main.py:333`, `:337`); what either says is not determined by the code.
- *Postgres store, migration, legacy import*: the same operations on another
  database, and a one-off copy of rows before the service serves.
- *Read-only views* of ledger and chain service, the payment router (a
  stateless table), the x402 mock, wallet-state reads from the node, user
  operation hashing, type declarations and configuration parsing.

## 8. Plan

1. **Composition**: InboundBacking's `SpendableIsSwept` and Withdrawal's books over
   the one Gateway balance they share.
2. **Several handlers**: `CreditIsBacked` without strays, and the refinement of
   InboundPromise with resume tasks, once the code keeps one entry per payment and credits only
   what its sweep covered (disagreements 1 and 2 of section 4).
3. **Liveness** by hand-written arguments beside the proofs, for as long as the
   prover has no ENABLED.

At most a dozen runs are kept, each for one question; a run for a new module
takes the place of a counterexample that has been fixed or is of less weight.
