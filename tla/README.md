# Synthetic order executor: TLA+ specification

Users deposit tokens in an on-chain vault and place *synthetic* orders ("sell 0.01
ETH when the price falls to 3500") in an off-chain database. A worker watches the
price, claims the orders that are reached, has the vault contract swap through
Uniswap, and then finds out, from an unreliable view of the chain, what became of
the transaction. The code that must be right is the code that decides *what happened*:
an order must not be traded twice, a trade must not be lost, and a failure must not
be claimed that the chain contradicts.

## 1. Inventory

| Component | State | Operations | What makes it correct |
|---|---|---|---|
| Order row (`packages/core`, Prisma) | status, version, txHash, submittedAt | compare-and-swap on (status, version); `recordTxHash`; `markConfirmed`/`markFailed` (status only); `forceExecutedFromReconciliation` | the status tells what the chain did |
| Execution service (`apps/worker`) | a job's locals, the job's lock | `executeOrder`: read, ask the chain, preflight, claim, sign, record, broadcast, hand off; `handleFailure` | one transaction per claim; nothing on the network without a record |
| Transaction monitor | monitor jobs | `check` = `getOutcome` (receipt, transaction, contract) then `apply`; re-check; stuck sweep | no verdict without evidence; a drop verdict is final; every submitted order resolves |
| Reconciler | checkpoint | stuck sweep, log backfill, FAILED audit, EXECUTED audit (logs only) | the chain wins; no log is skipped; the checkpoint only advances |
| Queues (BullMQ/Redis) | jobs by id, attempts, locks | add (deduplicated by id), retry, stalled-job recovery | redelivery is harmless |
| Trigger engine, price guards | none between passes | validated price, candidate query, claims, hand-off | fires once, on a trusted price, and does fire |
| Vault contract | balances, totals, allowlist, limits, executed ids, roles, pause | deposits, withdrawals, `executeSwap`, administration, sweep | solvent; users can always leave |
| Order API (`apps/backend`) | none | create (admission checks), list, cancel, markTriggered | a cancelled order is not traded; what is admitted can be traded |
| DEX adapter, contract client (`packages/chain`) | none | quote over the fee tiers, parameters, simulate, submit | the fill is near the best quote and not late |
| Price API | one cached quote | get, fetch, validate, cache | no stale price; the answer is about the pair asked for (it is not, section 4) |
| Deployment scripts | a record file per network | deploy, configure, verify, depositVault | no trading before the limits are set; the record tells the truth |
| Frontend | wallet connection, table, busy flags | connect, switch, poll, create, cancel, ticker | the table settles on the database; nothing stays disabled |

**Interaction.** The parts share one Postgres table (all writes are single conditional
UPDATEs), two work queues and two timers in Redis, and the chain. There are no locks
between processes: the trigger loop, executor, monitor (concurrency 5), sweeps and
reconciler of every worker process, the backend and the network interleave at every
`await`.

**What is hard.** Any process may die between two awaits; the answer to a request that
took effect may be lost; jobs are redelivered when a lock lapses; the node asked may
not show a live transaction; the chain reorganises; two reads of a moving source are
combined into one decision. `PROJECT.json` lists these as hazards, each at its line.

## 2. Modules

| Module | Models | Used by |
|---|---|---|
| `OrderLifecycle` | abstract: what an order promises its owner | `OrderEngine` implements it |
| `OrderEngine` | row, queues, executor, monitor, reconciler's writes, cancellation and `markTriggered`, transactions and the contract's replay and deadline guards | `MCOrderEngine`, `OrderEngine_proofs`, `OrderClaims_proofs` |
| `LogScan` | `backfillFromLogs`: window, logs, checkpoint, growing and reorganising chain | `MCLogScan`, `LogScan_proofs` |
| `TriggerLoop` | Chainlink provider, `PriceService`, `findTriggerable`, the claims of `TriggerEngine.run` | `MCTriggerLoop`, `TriggerLoop_proofs` |
| `Vault` | `SyntheticOrderExecutor.sol` | `MCVault`, `Vault_proofs` |
| `TradePath` | `createOrder`'s checks, the preflight, `UniswapAdapter`, simulation and submission, composed with `Vault` (`V == INSTANCE Vault`) | `MCTradePath`, `TradePath_proofs` |
| `Deployment` | `contracts/script`: deploy and preflight, configure, verify, depositVault; the worker's start-up check | `MCDeployment`, `Deployment_proofs` |
| `Dashboard` | `apps/frontend`, the list / create / cancel routes as it sees them, the price route with its cache | `MCDashboard`, `Dashboard_proofs` |
| `*_proofs` | the theorems about the module they are named after; `OrderClaims_proofs` extends `OrderEngine_proofs` | |
| `MC*` | symmetry sets and structured constants for TLC | the `.cfg` files |

An operator whose comment starts with "Fault:" is not part of a specification. It is
a plausible wrong version of the definition that follows it; substituting it for that
definition must make TLC find the named property violated, which shows that the
property has something to say about that code.

### OrderEngine

One action per `await` of a handler. `exec[p]` is the executor of process `p` with its
program point and the locals that survive an await (the version read, the deadline, the
signed hash); `bg[p]` is one background check (a monitor job, a sweep, a backfill or an
audit step); `hand[p]` the order a trigger loop has claimed but not enqueued; `cancel[o]`
a cancel request that has read its row. `tx` holds every transaction the executor key
signed and `swaps[o]` the number of swaps the contract performed; `IsExecuted` is `swaps[o] > 0`, so that an order is traded at
most once is built into the model and claimed nowhere (the contract's own guard is one line). `MarkTriggered` is the order
service's operation for a second attempt; no route or worker calls it yet, and `MaxRetriggers = 0` is the program as it is wired
today.

| Code | Actions |
|---|---|
| `TriggerEngine.run` | `TriggerClaim`, `TriggerEnqueue`, `TriggerEnqueueFails` |
| `executeOrder` | `ExecStart`, `ExecAskChain`, `ExecSettle`, `ExecPreflight`, `ExecClaim`, `ExecSign`, `ExecRecord`, `ExecBroadcast`, `ExecHandoff`; `ExecError` (caught), `ExecThrow` (not caught) |
| `handleFailure` | `FailRead`, `FailWrite` |
| `check`, `getOutcome`, `apply` | `MonitorJob` / `SweepStuck`, `GetReceipt`, `TxFound`, `TxMissing`, `AskContract`, `RpcError`, `Apply`, `BgThrow` |
| `applyLog`, `auditFailed` | `BackfillRead`, `AuditRead`, `AuditAsk`, `ReconcileForce` |
| `cancelOrder`, `markTriggered` | `CancelRead`, `CancelWrite`, `MarkTriggered` |
| BullMQ | `RecoverDeadJob`, `LockLapses`, inside the others `PipelineEnqueue`, `MonitorEnqueue`, `JobCompletes`, `JobThrows` |
| network, clock, crash | `Mine`, `Vanish`, `Tick`, `Crash` |

An error of a database or RPC request may or may not have taken effect, so the error
actions offer both; likewise the completion of a job may not reach Redis, and the job is then
delivered again although its work is done. The node asked may deny a pending transaction (`TxMissing` needs only
that it is not mined). Time is kept as distances: `age` = now - submittedAt and `ttl` =
deadline - now, saturated, so that the clock may tick for ever in a finite state space;
Window, Grace and StuckAfter are in the same unit.

### LogScan, TriggerLoop, Vault

`LogScan` keeps for each order the block of its log, lets the last blocks be rewritten, and
runs one pass per process: head, checkpoint and window, logs, application, and then
`setCheckpoint` as the two statements it is. `floor` is a history variable: where the first
scan began. `TriggerLoop` lets both price sources move between the awaits of a pass; an order
is numbered by creation so that `take BatchSize` has a meaning, prices are integers, and
`basis` remembers the quote of a claim. `Vault` has one atomic action per external
function; a call that reverts is no step. The router pays what it reports and pulls at most
the approval (`pulled`), a token may deliver less than was sent (`received`), and
anybody may send tokens (`Donate`). Role checks of administrative functions are implicit: their
caller holds the role. Since a call is one step, replay is excluded by its guard alone; the order of effects around the external call,
which is what makes replay hard, is not in the model, and no property or theorem about `Vault` claims anything of it.

### OrderLifecycle

The abstract specification has three variables per order: what the owner was `told`, whether the order is
`committed` (a transaction for it exists) and how often it was traded. `OrderEngine` maps `told` to the
row's status, `committed` to the signed transactions and `trades` to the contract's swaps; a refinement run
then says that through all interleavings an order is cancelled only while nothing is
committed, committed once, traded at most once, and reported as executed only after the trade. `Withdraw` is there because
the code needs it: a late failure handler may turn a final answer back into an open one (section 4).
The engine implements the lifecycle for orders nobody re-triggers; a re-trigger commits a second time, and what then holds is
`ExecutedHasEvidence`, and for a first re-trigger `AttemptsDoNotOverlap`.

### TradePath

One order's way through everything that may change under it. `api[o]` is a `createOrder` call: the schema, the state,
then `isTokenAllowed` twice and `getMaxTradeAmount` as the three independent reads they are, then the comparison and the
insert. `job[o]` is the execution: state, balance, one answer per fee tier (each with its own time), `buildExecutionParams`,
claim, simulation, fee, block. The contract is the module `Vault`, whose `SwapChecks`, `ExecuteSwap` and administration
are used as they are. Conversions are modelled by what they do: an amount is counted in 10^-7 of a token,
`ParseUnits` rounds half up to the token's base unit, and `PlainDecimal` says when `Decimal.toString` uses an
exponent, which `parseUnits` refuses. `ApiAddress` and `ExecutorAddress` are the token addresses from the environments of the two
processes. `steady` remembers the orders whose limits nobody has touched since they were read.

### Deployment

One step per await of a script, in `Terminals` that work side by side; `may` divides the scripts among them. A transaction stays in
`pending`, in nonce order, when the script that sent it dies (`Abort`), and lands later. `Sites` enumerates the network name,
the chain the RPC URL really leads to and `ALLOW_LOCAL_DEPLOY`. Every run of a script reads its own environment: `Deploy` and
`StartConfigure` take any admin and any executor, so executors are rotated, by overlapping runs too; `used` remembers for which
executors `configure` was run. `record` is the file per network, loaded once and written back
whole. Caps are fixed, so "listed" includes "with its cap"; a deposit is always one unit.

### Dashboard

`page` is what React keeps (address, network, orders, the busy flags), `wallet` the extension, `list` the polls under way and `call` the
creations and cancellations. A request is answered by the API at one time and delivered to the page at another. A form or table that is no longer
rendered loses its state (`Render`), and the call it has made answers to nothing (`mounted`); a form rendered anew may submit while the
old one's call is in flight. Of the table's buttons only that of the order clicked last is disabled, so the same order may be cancelled twice
at once. `prompt` is what `connect` and `switchNetwork` wait for: the popup, then `getChainId`, which may fail. `cache`, `ask` and `ticker`
are the price route and its users; `provider` is any of the three that the backend's environment allows, the static one included, which
answers for every pair. The two halves of the page share no state, so a behaviour exercises one of them (`half`), which adds their state spaces
instead of multiplying them.

## 3. Runs

Passing runs (distinct states; each takes between a few seconds and about three minutes with two TLC workers):

| Run | Checks | States |
|---|---|---|
| `engine_one_process` | `BroadcastIsRecorded`, `DroppedIsFinal`, `FailureHidesNoTrade`, `SubmittedResolves`, `SettlementIsReported`; Window < Grace, one crash, one redelivery | 21 thousand |
| `engine_two_processes` | `TypeOK`, `OneTransactionPerOrder`, `CancelledNeverTrades`, `ImplementsLifecycle` with lapsing locks | 1.2 million |
| `engine_retrigger` | `AttemptsDoNotOverlap`, `ExecutedHasEvidence`; a re-trigger and a crash | 2.2 million |
| `vault` | `TypeOK`, `Solvent`, `AccountsBalance`, `FundsNeverTrapped`, `ListedMeansLimited` | 47 thousand |
| `log_scan` | `TypeOK`, `NoLogSkipped`, `EverySwapSeen`; two overlapping passes, one with a node a block behind, reorganisations of 2 with a buffer of 1 | 60 thousand |
| `trigger` | `TypeOK`, `FiredOnTrustedPrice`, `FiresOnce`, `ReachedFires`; one watcher with two orders, or two watchers after one | 220 thousand |
| `trade_path` | `TypeOK`, `FillNearBestQuote`, `FillNotLate`, `FilledAsAdmitted`, `AdmittedWithinLimits` | 1.8 million |
| `deployment` | `TypeOK`, `ExecutorLast`, `RecordTellsTruth`, `DepositsAreReal`, `WorkerAuthorised`; set-up, rotations under a running worker, deposits | 1.1 million |
| `dashboard` | `TypeOK`, `ServedFresh`, `TableSettles`, `NothingStaysBusy` | 417 thousand |

**Why the bounds are enough.** Orders do not interact in the engine except through the
executor's single slot, so one order suffices; `h1, h2` allow a second transaction, which
is what the properties must exclude or survive (`engine_one_process` has one, since without
re-triggers there never is a second, by `OneTransactionPerOrder`); two processes give every pairwise race, one
re-trigger gives a second attempt while checks of the first are still under way, one crash hits every program
point. Window/Grace/StuckAfter of 1 to 3 cover every order in which they can elapse.
`DroppedIsFinal` and `NoLogSkipped` are tight: a Window longer than Grace, or a
reorganisation two blocks deeper than the buffer, violates them. `log_scan` is on the progressing side of
one more boundary: with `MaxRange` at most `ReorgBuffer`, which the configuration allows, the scan repeats one window for ever and
`EverySwapSeen` fails. `engine_retrigger` has one process and no lapsing lock; with one re-trigger it covers the overlap of a first and a second
attempt, not of later ones. In the vault, amounts of 1 and 2 with
two tokens and two ids give partial fills and short deliveries. `trigger` starts
in one of two scenes (`Starts`): one watcher with a batch of one and two orders, where one order could starve the other, or two watchers
that compete for the same order, where a claim could be won twice; their product is out of reach in time, and any number of both is proved safe
(section 5).
In `trade_path` the requests contain every case of the conversions (an amount that is rounded up, one that rounds to zero, one below
10^-6, equal and unknown tokens), the caps lie on, above and below them, two tiers may answer 0, nothing, or amounts
on both sides of the 1% tolerance (97, 99, 100), and three ticks exceed quote age plus window. `deployment` starts in one of four scenes (`Scenes`). In the first two one
operator deploys while the other configures or verifies; two contracts make a stale record possible, and a transaction of a script that
died lands under the next one. In the others two operators use a configured contract with two pending transactions: both configure it, for the
same or different executors, under a running worker, or both deposit while one configures. `dashboard` has two budgets (`Budgets`): one click and two changes by the
wallet or the workers, with two polls in flight, give every late answer to a table limited to one of two orders; four clicks
reach two cancellations of the same order in flight, a busy flag released
by the first of two, and a submission from a form rendered anew while the old one's call is under way. Three ticks outlive a cache entry that was
stale when it was written. One `connect` and one `switchNetwork` wait
at a time. The runs of `TradePath` and `Dashboard` do not check for deadlock: their clocks and orders
are bounded, and a finished order or an idle page is a legitimate end.

**Fairness.** Liveness runs assume what timers and restarts give: a running process takes its
next step (weak fairness); the repeatable sweep, audit, scan and watcher jobs are run
again and again, and a request that is repeated for ever is answered at last (strong fairness of the
individual requests). In `log_scan` only the processes of `Steady` keep running, the other may stop
in the middle of a pass. Nothing is assumed of users, of monitor jobs (all may be lost), of the log
backfill in `engine_one_process`, or of the feeds; errors stay possible everywhere. In `dashboard` the poll timer fires for ever, a call of the user ends with an answer or an
error (`fetch` does), and of the polls, which repeat for ever and may fail, some succeed (strong fairness of the answer). The
network mines or forgets a pending transaction. No fairness is put on failure steps.

## 4. Where the code and its documentation disagree

Three runs are expected to be violated; `findings` in `PROJECT.json` quotes the sentences.

| Run | What TLC shows |
|---|---|
| `engine_terminal` | cancel wins while the executor is in preflight, the preflight fails, and `handleFailure` writes FAILED over CANCELLED |
| `engine_unrecorded` | with a lapsed lock, a row that left EXECUTING makes `recordTxHash` match nothing; the result is ignored and the transaction is sent |
| `engine_stuck` | a failed hand-off leaves the order TRIGGERED for ever, despite the comment that the reconciler sweeps it up (the counterexample TLC prints); and EXECUTING without `submittedAt`, left by a process lost before `recordTxHash`, is selected by no sweep either |

Further observations, from exploring the models, that are not runs of their own:

- `DroppedIsFinal` needs the grace period to
outlast the deadline window; the configuration checks each (`DEADLINE_WINDOW_SEC` up to 300,
`PENDING_GRACE_MS` from 10 000) and never compares them, and with Window = 3, Grace = 2 TLC finds a
transaction that settles after it was declared dropped.
- `FailureHidesNoTrade` ("marking it FAILED on a local exception would be a lie if the swap subsequently lands",
  `execution.service.ts:210-212`) holds under the conditions of its theorem only. After a re-trigger, a monitor that saw the first
  attempt's transaction reverted may write FAILED over the second attempt, whose transaction is live: `markFailed` compares the
  status and not the hash. With lapsed locks the unrecorded broadcast of `engine_unrecorded` has the same effect. In both cases it
  is left to the audit to repair the row once the swap has settled.
- `setExecutor` revokes the recorded executor
only: an account that the inherited `grantRole` made an executor stays one, although the comment above
it says that rotation cannot leave two live executors.
- `setCheckpoint` reads and upserts in two statements, so two overlapping passes, one with a lagging head, do rewind the
  checkpoint, which `reconciliation.repository.ts:27` excludes ("Never moves backwards"). `NoLogSkipped` and `EverySwapSeen` hold all the same.
- `createOrder` compares the rounded amount with the cap only, so dust such as 0.0000004 USDC, which `parseUnits` rounds to 0 base
  units, is within every cap and stored, though `executeSwap` refuses 0 (`ZeroAmount`, `SyntheticOrderExecutor.sol:327`) and `order.service.ts:37-40`
  sets out to reject such orders. Of all amounts below 10^-6 the contract is not even asked: Prisma's `Decimal.toString` writes
  them with an exponent, which the worker's `parseUnits` refuses (`PlainDecimal`).
  `AdmittedWithinLimits` is therefore stated about the pause, the tokens and the trade limit, and not about amounts that are too small.
- `FilledAsAdmitted` and the theorem `FundsAreSpentAsOrdered` rest on `SameAddresses`: backend and worker read `WETH_ADDRESS` and `USDC_ADDRESS` each from its
  own environment, and nothing compares the two. With addresses that differ, an order is filled in other tokens than were admitted.
- A node that estimates a tip above `MAX_FEE_PER_GAS_GWEI` makes every submission fail: only the fee is capped, and the
  request is refused because its tip exceeds its fee.
- `configure` with `EXECUTOR_ADDRESS` equal to the deployer sends `setExecutor` and fails only in the assertion that follows,
  with the role granted. A contract whose admin is not the deployer cannot be configured by `configure` at all. Overlapping scripts lose
  each other's record updates (never consistency, by `RecordTellsTruth`).
- A rotation takes the role from a worker that is running: its start-up check is made once, and from then on its swaps revert
  (`WorkerAuthorised` says that nothing but a rotation does so). When `configure` runs for two executors, overlap or are left unfinished, the record may
  name the one and the contract the other.
- The table's `finally` clears the single busy flag whichever order is being cancelled by now, so a button is enabled again while its
  call is in flight, and the same order may be cancelled twice; the second call is refused by the state machine.
- After an account change the table shows the previous account's orders until the next answer. The restore of
  `useWallet` may overwrite a newer `accountsChanged` for good, so the page may stay with an address the wallet has
  left; `TableSettles` is about the address shown. A `createOrder` whose answer is lost looks failed, and submitting again
  creates a second order.
- The price route looks its one cache entry up without the pair asked for (`price.routes.ts:41`, `CacheFresh`), so for the life of an
  entry every request is answered with it, though line 7 of the file documents the answer as the pair's. With Chainlink and CoinGecko, which
  know ETH/USD only, another pair is answered with ETH/USD, which they would have refused; the ticker sees nothing of it. With `PRICE_PROVIDER=static`, which the
  backend accepts in any environment (the worker refuses it in production), the ticker may be given another pair's quote; its price is then the same
  static price.

The passing runs bound the damage: `ExecutedHasEvidence` holds in all of the engine's
settings, and `SettlementIsReported` shows that the audit repairs a FAILED row of a settled
order whose signing left a trace.

## 5. Theorems

TLAPS proves the following for every value of the constants that satisfies the named assumptions, which TLC evaluates in
every run of the module:

| Assumption | Says |
|---|---|
| `SentinelsAssumption`, `BoundsAssumption` | the "none" values of the engine are not members; its parameters are naturals |
| `VaultAssumption` | Nobody is not a key, finitely many users (there are finitely many addresses), WETH is a token, bounds are naturals |
| `TriggerAssumption`, `ScanAssumption` | the parameters of the trigger loop and of the scan are naturals |
| `SameAddresses` | backend and worker have the same token addresses |
| `ConfigAssumption`, `TradeAssumption` | the bounds of `chainEnvSchema`; finitely many users, requests, quotes and fees made of naturals, limits within `MaxAmount`, at least one fee tier |
| `DeploymentAssumption` | the accounts, contracts and sentinels are what their names say; finitely many terminals |
| `DashboardAssumption` | there is an account, orders are numbered, limits and lives are positive |

Where a theorem needs more than this, its statement says so, and the condition is needed: without `Grace > Window`, `OneExecutorPerJob`
or `Shallow` TLC finds the counterexamples of sections 3 and 4, and after one re-trigger each of `OneTransactionPerOrder`, `CancelledNeverTrades`,
`DroppedIsFinal`, `BroadcastIsRecorded` and `FailureHidesNoTrade` fails (the row forgets the first attempt, whose transaction may
still be there; `age` then belongs to one transaction and the other can be declared dropped on the strength of it).

- `VaultTypeCorrect`, `VaultSolvent`, `VaultListedMeansLimited`. Each property is
  inductive together with `TypeOK`. Solvency does not need `AccountsBalance`: the code's checked
  subtraction guards `totalAccounted` itself, and a swap pulls at most what it debits.
- `VaultAccountsBalance`, `VaultClaimsPayable`. Every call moves a token's column of the ledger in one user's entry, together with
  the token's total, or not at all (`ColumnsMove`). What this does to the sum over all users is a fact about the library's
  recursive fold, for any finite set of users. The provers cannot instantiate an induction theorem, so each such fact is shown by a smallest
  counterexample (`SmallestSet`): the sums exist and are unique (`SumsExist`, `SumsUnique`), `MapThenSumSet` is that sum (`SumOfIs`),
  and it shifts with an entry (`SumOfShift`). With `Solvent` it follows that all claims together are covered by the holding, and each by
  `totalAccounted`; these are all the guards of `withdraw`, so nothing the contract does traps a balance.
- `EngineTypeCorrect`. `TypeOK` is not inductive: it does not say that a process past its
  signature holds a real hash and order, without which a step would write to a
  row or transaction that does not exist. `Shape` adds this, program point by program
  point. Each part of the state has a lemma on how it may be updated, so that every action needs only the
  parts it touches.
- `EngineExecutedHasEvidence`. The inductive invariant `Evidence` says where
  evidence lives: a successful transaction belongs to a swapped order (`TxEvidence`), an EXECUTED
  row to a swapped order (`RowEvidence`), an executor about to settle has seen the id consumed
  (`ExecEvidence`), and a background check that will write EXECUTED holds a verdict that only a
  swap could have produced (`BgEvidence`). Evidence is stable because the chain only grows
  (lemma `ChainGrows`): a stale verdict stays true however late it is applied. That is why a
  status-only `markConfirmed` is harmless to this property.

- `TypeCorrect`, `TrustedPrice`, `FiresAtMostOnce` (`TriggerLoop_proofs`): any number of watchers and orders. The
  invariant adds that the quote of a pass past its cross-check passed `Agree` (`QuotesAgreed`) and that a PENDING order has
  not fired (`PendingUnfired`). `QuotientBound` is the arithmetic: the truncated quotient of the guard admits nothing that the
  rational bound refuses.

- `FillIsNearBestQuote`, `FillIsNotLate`, `FillIsAsAdmitted`, `AdmissionIsWithinLimits` (`TradePath_proofs`): any orders, requests,
  tiers, tolerance, quote age, deadline window and limits. None of the four is inductive: each relates a fill or a stored order to
  something read many steps before. The invariant `IInv` carries that along per order: a request past the schema is well formed
  (`GoodApi`), what an admission has read still holds while the order is in `steady` (`Watched`), a job past its conversion holds the
  admitted tokens and amount (`Converted`), and one past `buildExecutionParams` holds a minimum and a deadline derived from the best
  of its quotes (`Priced`). `BestExists` shows that the `reduce` over the tiers has a maximum, `MinBound` and
  `ParseBound` bound the two roundings. Steps of a job or an admission go
  through the lemmas `JobKeeps` and `AdmissionKeeps`, which reduce them to the one record they write.
  `FundsAreSpentAsOrdered` (a user's balance falls only by the owner's withdrawal or by the amount of an order the owner had stored, at its first fill: `SpentAsOrdered`, which only the
  proofs state, since it takes two users and two orders to be violated) is an action property and reads the same invariant at the moment of a swap: `Converted` says whose order it is and
  for how much, `SwapChecks` that its id is new. `VaultIsSafe` carries `Solvent` and `NoReplay` over to the composition, where amounts are not
  bounded as in `Vault`'s own `Next`, and adds that contract and executor agree on which orders were traded; only the proofs state it.
  `TradePathTypeCorrect` adds `Bounds`: the contract's own types and how large the recorded times and caps get.

- `EngineOneTransaction`, `EngineCancelledNeverTrades`, `EngineImplementsLifecycle`, `EngineDroppedIsFinal`,
  `EngineBroadcastIsRecorded`, `EngineFailureHidesNoTrade` (`OrderClaims_proofs`). Five layers on top of `Shape` and `Evidence`:

  | Layer | Invariant | Used for |
  |---|---|---|
  | `Claims` | a row that was never claimed has no transaction and nobody about to sign one; at most one executor is between its claim and its signature, and then there is no transaction yet | one transaction per order, cancelled orders, the refinement |
  | `Clock` | the age of a row, or of a check that has read it, plus the time its transactions have left is at most the window | a dropped verdict comes after every deadline |
  | `Owned`, `Exclusive` | a busy executor holds the lock of its job, so a job has one | the next layer |
  | `Recorded` | until its hash is recorded, the executor has the row to itself: only rows with `submittedAt` are watched | what is broadcast is recorded |
  | `Verdicts` | `handleFailure` that is about to fail an EXECUTING row still sees no hash in it; a check about to write FAILED saw its transaction reverted, or all deadlines pass | no failure hides a trade |

  All but the third say what holds as long as nobody has called `markTriggered` (`NotRetriggered`), which is the program as it is wired today; after
  a re-trigger an order may well have two transactions. `EngineImplementsLifecycle`
  (`MaxRetriggers = 0`) is the step simulation: every action of the engine commits, trades, reports, cancels or withdraws one order as
  `OrderLifecycle` allows, or changes nothing an owner sees. `EngineDroppedIsFinal` needs `Grace > Window`, which the
  defaults satisfy (`PENDING_GRACE_MS` 180 s, `DEADLINE_WINDOW_SEC` 120 s) and the configuration does not enforce.
  `EngineBroadcastIsRecorded` needs `OneExecutorPerJob` (locks do not lapse, or there is one process); `engine_unrecorded` is the counterexample
  without it. `EngineFailureHidesNoTrade` uses all five layers: what `handleFailure` fails has no recorded hash, hence by `Recorded` no
  transaction; what the monitor fails has one transaction, by `Claims`, and that one is reverted or, by `Clock`, too late. It needs the
  conditions of all of them.

- `ScanTypeCorrect`, `ScanNoLogSkipped` (`LogScan_proofs`): any number of overlapping, failing and lagging passes. The second needs
  `Shallow`: reorganisations at most one block deeper than `ReorgBuffer`. That bound is exact: with a buffer of 1
  and reorganisations of 3 TLC finds a log that is skipped. The invariant says of each pass (`Good`) that from its window on every log below what it is about to
  store was applied or lies where it is scanned again, whatever the other passes have stored since; a checkpoint that moves backwards is
  therefore harmless.

- `DeploymentTypeCorrect`, `DeploymentExecutorLast`, `DeploymentRecordTellsTruth`, `DeploymentDepositsAreReal`,
  `DeploymentWorkerAuthorised`, `DeploymentConfiguredStays` (`Deployment_proofs`): any number of terminals and contracts. The scripts decide on what they read steps before,
  and their transactions land after they have died, so the invariant says what each program point of a script still knows
  (`ScriptOK`) and what each pending transaction may rely on when it is mined (`TxOK`); both survive other scripts because a contract's
  configuration only grows (`Grown`): tokens stay listed and an executor is replaced, never removed. `VaultOK` says that the role is the executor's
  alone and that the executor is one `configure` was run for, which makes the start-up check on `executor()` one on the role through every rotation.
  `ConfiguredStays`, which only the proofs state, says so of what `configure` set up. Deposits are counted: confirmed ones and the scripts about to confirm
  one are together no more than the balance (`DepositsOK`), which is why the weak read-back of `depositVault` suffices.

- `DashboardTypeCorrect`, `DashboardServedFresh` (`Dashboard_proofs`). `PriceOK` says that what is in the
  cache was validated when it was written. `ListIsFew` shows that `take: limit` leaves at most
  `Limit` rows: the number of newer orders is an injection from the rows into 0..Limit-1.

**Only model-checked.** Liveness under fairness (`SubmittedResolves`, `SettlementIsReported`, `EverySwapSeen`, `ReachedFires`, `TableSettles`,
`NothingStaysBusy`) and `FundsNeverTrapped`, which uses ENABLED, are beyond the proof system; `VaultClaimsPayable` proves the guards that
ENABLED stands for there. `AttemptsDoNotOverlap` is model-checked too, for one re-trigger: the claims of
`OrderClaims_proofs` are about orders nobody re-triggers. Every other invariant, every action property and the refinement of the passing runs is
proved.

## 6. Assumptions of the models

- A read of the chain sees one consistent chain. `isExecuted` and receipts are never taken back in
  `OrderEngine` (reorganisations are in `LogScan`); a node that lags on contract reads is not modelled.
- Execution ids are collision free, so an order stands for its id.
- `txHash` and `submittedAt` keep their last values through a re-trigger, as in the code.
- Allowlisted tokens have no transfer hooks, and the router reports truthfully; `nonReentrant` is not modelled.
- A process runs one background check at a time; two processes stand for concurrent checks.
- Log wording, revert-reason decoding, gas, amounts in the order row and the audit-trail rows are left out.
- Prices are integers: the conversion between feed answers, decimal strings and 18-digit integers
  (`formatUnits`, `toScaled`) is not modelled.
- The caps and the amount of a deposit are the same in every run of the scripts; executor, admin and network are not.
- Backend and worker have the same token addresses (`SameAddresses`); the code does not compare them.
- A deployment bytecode mismatch is only warned about by the code, so it has no effect in `Deployment`.

## 7. Not modelled, and the plan

Not modelled, with the reason:

- the shared package and the stubs in `apps/backend` and `apps/worker` that no running code uses;
- ABIs (generated), mocks and tests, infrastructure files;
- `postDeployChecks` and `preflight` run alone (they read and print), diagnostics such as `hasLiquidity`;
- the mapping of errors to HTTP status codes (every error is a refusal to its caller), serialisation and layout;
- validation of the worker's and the backend's environment beyond the bounds that appear as assumptions.

Order of work so far: `OrderEngine`, `Vault`, `LogScan`, `TriggerLoop` and their first theorems; then `OrderLifecycle` and the
refinement, `Deployment`, `TradePath`, `Dashboard`; then the proofs of all of them. What may follow:

1. what of `DroppedIsFinal`, `CancelledNeverTrades` and `FailureHidesNoTrade` remains in engines with re-triggers, per attempt instead of per order;
2. `AccountsBalance` in `TradePath`, whose steps are `Vault`'s actions but not `Vault`'s `Next`: the lemmas on sums would have to be stated for both;
3. safety halves of the liveness properties, such as that a sweep that runs finds every overdue row.
