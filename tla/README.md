# TLA+ models of the Pano testnet load generator

This directory holds TLA+ models of the load-generation client in
`src/testnet/`. The models are checked with TLC. The core is the 8-hour
stress test, `src/testnet/8hour-stress-test.mjs`. The other scripts are
short wrappers around a few RPC calls. The spec (`spec.md`) puts them out of
scope, but they share the node and the signing keys with the core. They are
modelled too, each in a module of its own.

## 1. Inventory

### Components and their state

| Component | Code | State it keeps | Operations |
|---|---|---|---|
| Nonce-Ordered Sender | `sendBatch` lines 115-160 | the `nonce` read for the current submission | `wallet.getNonce()`, `wallet.sendTransaction(tx)`, the catch block |
| Batch Composer | `sendBatch` lines 99-163 | `batchStats` (`transactions`, `success`, `failed`), the loop index `i` | sender and recipient selection (lines 117 and 125), submission, a 500 ms pause |
| Confirmation Poller | `sendBatch` lines 165-187 | the local `confirmed` counter, each record's `status` | a 3000 ms settle delay, then one `getTransactionReceipt` per record, then classification |
| Session Scheduler | `main` lines 273-320, `cleanup` lines 261-270 | the loop variable `batch`, process liveness | startup checks (a failure is fatal, exit 1), the batch loop, the interval sleep, completion, and the SIGINT/SIGTERM handler |
| Stats Aggregator & Reporter | `stats` lines 51-58, `updateStatsFile` lines 198-229, `displaySummary` | the cumulative counters, `stats.batches`, `STATS_FILE`, the log file | the counter updates in `sendBatch`, the snapshot write, the summary print |
| Ledger node (external) | none: it is reached over JSON-RPC | each sender's pending and latest nonce, blocks, receipts | accepts a signed transfer, includes it in a block, answers queries |
| Ten-transfer stress test | `src/testnet/stress-test.js` | the list of sent transactions | 10 sequential sends. Each one re-queries the gas price (with a 10 gwei fallback). An error returns `null`. The script sleeps 10 s between sends |
| One-shot transfer CLIs | `send-transaction.js`, `send-transaction2.js` | none | a fee query and one send. `send-transaction.js` also waits for the receipt |
| Fee structure check | `test-fee-structure.js` | balances before and after | one transfer, then a comparison of the fee arithmetic |
| Token scripts | `smart-contracts/scripts/*.js`, `hardhat.config.js` | none (`deploy-ethers.js` writes `deployment.json`) | a deployment followed by the token's details, or one `interact.js` command: a set of view calls, or a transaction, its receipt and, for mint and burn, two supply reads. The spec puts these out of scope; they are modelled all the same |

### How the components interact

The 8-hour client runs on one async timeline. `main()` awaits
`sendBatch(b)` for each batch, then sleeps `INTERVAL_MINUTES`.
`sendBatch` submits `TX_PER_BATCH` transfers strictly one after another and
waits 3 s. It then asks once for each receipt, pushes the batch onto
`stats.batches` and rewrites the stats file.

The only concurrency comes from two sources:

- **The ledger node.** It mines pending transfers at any time, independently
  of the client.
- **The signal handler `cleanup`.** Node.js runs it whenever the timeline is
  parked at an await. It writes the stats file from the counters as they are,
  prints the summary and calls `process.exit(0)`. The code at the await never
  resumes.

`ethers` adds a second nonce read that is hidden inside the client:

- `wallet.getNonce()` (line 122) asks for the **latest** transaction count,
  which counts only mined transfers.
- `wallet.sendTransaction()` (line 137) fills in the **pending** count
  itself.

### What is hard here

- **A signal during a batch.** The signal can arrive after some attempts were
  counted but before the batch is pushed.
- **A lost answer.** `sendTransaction` can throw after the node took the
  transfer. The attempt is then counted as failed although it is pending on
  chain.
- **A single receipt check.** The receipt is checked once. A transfer mined
  later stays `pending` forever, and the session must never wait for it.
- **A stale nonce.** The recorded nonce is stale whenever an earlier transfer
  of the same sender has not been mined yet.
- **The confirmed count.** It is stored only when it is positive.
- **Write order.** The stats file is written after the push, and again on
  completion.

### What makes each component correct

- **Sender:** each record carries the hash the node accepted and the nonce
  that transfer used.
- **Composer:** every sealed batch has `success + failed = TX_PER_BATCH` and
  one record per success. Recipient rotation is continuous across batches.
- **Poller:** a record is `confirmed` or `failed` only if the node has a
  receipt with status 1 or 0. The `confirmed` count of a sealed batch equals
  its confirmed records, and `confirmed <= success`.
- **Scheduler:** the session always ends. Batches are sealed in order,
  numbered from 1.
- **Stats:** the counters equal the sealed batches plus the batch in flight.
  The stats file shows the sealed batches only.

## 2. Modules

| Module | Models |
|---|---|
| `RoundRobin` | `SenderIdx` (line 117) and `RecipientIdx` (line 125) as pure operators |
| `MCRoundRobin` | a walk over the batch and submission loops for every pool size up to 4 and batch size up to 4. It checks `RecipientIdx` against a reference cursor that advances one recipient per submission for the whole session |
| `StressSession` | the 8-hour client composed with the ledger node. See below |
| `SessionAbstract` | what the session promises through the stats file. Batches are sealed one at a time with `success + failed = N` and `confirmed <= success`. The file always equals the file the sealed batches determine. The session stops after a flush, or before anything is written |
| `MCStressSession` | the instance for TLC. It defines the signal-point sets the runs use |
| `MCSessionLengths` | `StressSession` instantiated for each session length in `Lengths`. The length is a variable chosen once in `Init`. It restates the session invariants for the chosen length and adds `CompletedFileIsWhole` |
| `OneShotTransfer` | `send-transaction.js` and `send-transaction2.js`. The script's steps are `GetFeeData`, `Populate` and `Broadcast` (the two round trips inside `wallet.sendTransaction`: pending-nonce read, then broadcast), `Wait` (only for the first script) and `Fail` (the catch block). The environment steps are `OtherClientSends` (another script signing with the same key, as every script here does) and `Mine`. `WaitFails` is the receipt poll inside `txResponse.wait()` failing (ethers asks for the receipt and checks for a replacement; an RPC error lands in the catch block with the transfer taken) |
| `TokenScripts` | `deploy-ethers.js`, `deploy.js` and `interact.js`. The `interact.js` steps are `InteractMain` (the dispatch and its argument and key checks), `Views`, `Balance`, `Send`, `Wait` and `SupplyRead`. The deploy steps are `DeployMain`, `Deploy`, `WaitForDeployment`, then `Details` (`deploy-ethers.js`) or `HardhatDetails` (`deploy.js`), both built on `DetailReads` (the view calls after the deployment, any of which may throw). The callbacks queued after `main()` returns are `Exit` and the unawaited `WriteDeploymentFile`. `WaitFails` and `WaitForDeploymentFails` are the RPC errors of `tx.wait()` and `waitForDeployment()`. `CommandFunction` includes a malformed `PRIVATE_KEY` throwing in `new ethers.Wallet`, outside the try block, into `main()`'s `.catch`. The contract is abstract: its transaction is rejected, answered, or answered and lost, and is mined with status 1 or 0. `OtherTokenTx` mines other clients' token transactions |
| `BurstStressTest`, `MCBurstStressTest` | `stress-test.js`. Each iteration is a fee query (`GetFeeData`), a send (`SendTransaction`: rejected, accepted, or accepted with the answer lost), then `AfterSend` (list a non-null result, then sleep or summarize) and `Sleep`. The ledger is reduced to the pending nonce per sender |
| `FeeCheck`, `MCFeeCheck` | `test-fee-structure.js`. The script steps are `ReadBefore`, `GetFeeData`, `SendTransaction` (taken and answered, or taken with the answer lost; a rejection is an `RpcError`), `Wait` and `ReadAfter` (with the verdicts of lines 94-105), plus `RpcError` for the catch block. The ledger steps are `MineCheck` (the fee rule), `MineExternal` (another client's transfer from User 4 or User 5 to the other user or to an outside account, as the stress tests and `send-transaction.js`/`send-transaction2.js` send; at most `MaxExternal` account touches) and `PriceMoves`. `extBefore`/`extAfter` are observation variables: the counts of external transfers touching each account at the two reads |

### How `StressSession` corresponds to the code

Client variables keep the names used in the code: `batch`, `i`, `nonce`,
`confirmed`, `batchStats` and `stats`. `pc` names the await the timeline is
parked at, and `j` is the index of the receipt loop. `statsFile` is the
content of `STATS_FILE`. The text between two awaits runs as one action.

| Action | Code |
|---|---|
| `Startup` | `main` 273-307: the network and balance checks, then the first batch |
| `GetNonce` | line 122 |
| `SendTransaction` | lines 128-150. The node may reject the transfer, accept it and answer, or accept it while the call throws |
| `Pause` | line 153 |
| `Settle` | line 166 and the start of the receipt loop |
| `PollReceipt` | lines 170-181, then `Seal` after the last record |
| `Seal` | lines 183-194 plus `main` 309/317-319: store the confirmed count, push the batch, write the file, then sleep or complete |
| `Interval` | line 313, then the next `sendBatch` |
| `Interrupt` | `cleanup` 261-267 |

The ledger variables are `accepted[s]` (the pending nonce), `mined[s]` (the
latest nonce) and `receipt`. `Mine(s)` includes the oldest pending transfer
of `s`, with receipt status 1 or 0. A transaction hash is the pair
(sender, nonce) it was signed with.

Data left out:

- amounts, gas limit and gas price;
- timestamps and elapsed time (functions of the clock). The two rates of
  the stats file are kept, by `Rate`, in hundredths of a percent with
  `toFixed(2)`'s rounding and the `totalTxSent > 0` guard. The refinement
  does not check them: `SessionAbstract`'s `Percent` is the same formula,
  so the rate fields of the abstract file agree by construction, and only
  the counters they are computed from are really compared;
- the log and the console output.

## 3. Runs

| Run | Config | Expect | What it shows |
|---|---|---|---|
| `session` | `MCSessionLengths.cfg` (module `MCSessionLengths`) | pass | Sessions of 0, 1 and 2 batches. Signals may arrive at every await. The run also covers lost answers, receipt-query errors, both receipt statuses and arbitrary block production. Under all of these, `SessionTotals`, `ClassificationMatchesLedger` and `BatchesWellFormed` hold. `CompletedFileIsWhole` holds: a completed session's stats file accounts for every planned batch and attempt, also when `totalBatches` is 0 and the loop never runs. `Termination` holds without any fairness on block production |
| `sealed_snapshot` | `MCLongSession.cfg` | pass | Six batches of one transfer, with signals only during startup or the sleep between batches (Scenario D of the spec). The client refines `SessionAbstract` (`AbstractSpec`), including after the `recent_batches` window starts sliding at the sixth batch |
| `interrupt_mid_batch` | `MCInterruptMidBatch.cfg` | violation | With a signal mid-batch, `FileReflectsSealed` fails. The stats file counts attempts of a batch that is never sealed, against spec 4.4 and Scenario D |
| `recorded_nonce` | `MCRecordedNonce.cfg` | violation | `RecordedNonceIsUsedNonce` fails. A record keeps the latest nonce, not the pending one it was sent with, against spec 4.1 and section 8 |
| `round_robin` | `MCRoundRobin.cfg` | pass | `RecipientContinuity` holds |
| `burst` | `MCBurstStressTest.cfg` | pass | All ten amounts of the source, two senders. The run fires fee-query errors, rejected sends, lost answers, the listing, the sleeps and the summary under `TypeOK`. A transfer whose answer was lost is taken by the node and left out of the list; that is the code's choice, and the summary's error is `burst_total` |
| `burst_total` | `MCBurstTotal.cfg` | violation | `ReportedTotalIsSent` fails. "Total PANO sent" adds up every amount, including those of failed sends |
| `fee_check` | `MCFeeCheck.cfg` | pass | Other clients' transfers from either account, to the other or to an outside account, may be mined (up to 3 account touches), and the gas price moves. `VerdictExact` holds: the check reports a match for an account exactly when no other transfer to or from that account landed between its two reads. (A debit and credits could cancel in principle; with these amounts, amount 10 and gas 21 or 42, they cannot.) |
| `fee_check_shared` | `MCFeeCheckShared.cfg` | violation | `VerdictSound` fails. Under concurrent use of the accounts, the check reports a fee mismatch although the ledger charged exactly amount plus gas |
| `one_shot` | `MCOneShotTransfer.cfg` | pass | Both one-shot scripts run while other clients of the same key send up to 2 transfers. `Termination` holds: each script ends, with its transfer confirmed or in the catch block, provided the node keeps including transfers, also when the receipt poll of `txResponse.wait()` fails. An operator who reruns after `Error:` may pay twice: after a lost broadcast answer, and equally after a failing receipt poll. The rerun is outside the code and not modelled |
| `token` | `MCTokenScripts.cfg` | pass | Every token script and every `interact.js` command, with and without arguments and `PRIVATE_KEY`, and one token transaction of another client. This includes a malformed `PRIVATE_KEY` and failing receipt polls of `tx.wait()` and `waitForDeployment()`. `Termination` holds: every run ends in `process.exit`, given that the node mines the script's own transaction |
| `deployment_file` | `MCDeploymentFile.cfg` | violation | `DeploymentRecorded` fails. A contract `deploy-ethers.js` deploys can be left out of `deployment.json`. TLC's shortest trace loses the answer to `factory.deploy()`: exit 1, and the deployment is mined afterwards. The other two paths are a failed view call after `waitForDeployment()`, and `process.exit(0)` running before the unawaited write |

**Bounds.** Two senders and three recipients match the source. Two transfers
per batch and two batches give:

- a sleep between batches;
- a sender reused in the next batch, whose earlier transfer may still be
  unmined;
- recipients that carry over from one batch to the next.

`MCBurstStressTest.cfg` runs the whole list of 10 amounts, as the source
does: 59,165 states in a few seconds. `MCBurstTotal.cfg` uses the first 4,
which is enough for each sender to send twice and gives a short trace. `MCFeeCheck` scales amounts and gas down. It allows
3 account touches, so a transfer between the two users and a further
debit, or one account three times, can land between the reads.

`MCRecordedNonce` uses one batch of three transfers, so that sender 0 submits
twice within a batch. Three batches of two senders, or three transfers in two
batches, produce more than 4 million states. That is past the 5-minute
budget.

The `recent_batches` window of 5 slides only from the sixth batch on.
`MCLongSession` reaches it with one sender and one transfer per batch
(222,000 states). That is enough: the window depends only on the number of
sealed batches. It checks the refinement, in which `SessionAbstract` states
the window independently, as the batches numbered above
`batches_completed - 5`.

`MCSessionLengths` turns `TotalBatches` into a variable fixed in the initial
state. One run then covers 0, 1 and 2 batches: `main()` computes
`totalBatches` once, before anything else.

`MCOneShotTransfer` allows 2 transfers of other clients. One can land
between ethers' nonce read and its broadcast, and one can land after.
`MCTokenScripts` allows one token transaction of another client. It can land
between the script's block and each of its two supply reads.

**Fairness.** `Spec` has weak fairness on the client's steps only. Timers
fire, and ethers times out each RPC request, so every await of the client
resolves. Neither the operator's signal nor block production is assumed to
happen. `Termination` therefore shows the session ends even if the node never
mines. Deadlock is not checked, because the process really stops: after the
summary, in `cleanup`, or with `process.exit(1)`.

`OneShotTransfer!Spec` also has weak fairness on `Mine`. `txResponse.wait()`
has no timeout, so `send-transaction.js` can only end if the node keeps
including transfers. This is an assumption about the node, not about the
code. `WaitFails` has no fairness: an RPC error is possible, never owed,
so a script that waits forever for a receipt is still a counterexample.
`TokenScripts!Spec` has the same two fairness conditions, for the
same reasons: every await of a script settles or throws, and `tx.wait()`
and `waitForDeployment()` wait for the node to mine. Their RPC errors
(`WaitFails`, `WaitForDeploymentFails`) are outside fairness. Other clients'
transactions are never assumed.

## 4. Findings

1. **The stats file includes a batch that is never sealed**
   (`8hour-stress-test.mjs:264`). A signal during a batch makes `cleanup()`
   write totals that include the in-flight batch's attempts. In the same
   file, `batches_completed` and `recent_batches` exclude that batch. The
   batch is then abandoned by `process.exit(0)`. Spec 4.4 says a tick in
   progress completes and only the next tick is skipped.
2. **The recorded nonce is not the nonce used** (`:122`). `wallet.getNonce()`
   uses block tag `latest`, and ethers signs with `pending`. When an earlier
   transfer of the sender is unmined, or was taken by the node although the
   call threw, the record keeps a lower nonce that repeats across records.
3. **The burst summary overstates the total** (`stress-test.js:122`).
   "Total PANO sent" is the sum of all ten amounts, whatever failed.
4. **The fee check raises false alarms** (`test-fee-structure.js:101`). Its
   verdict is not isolated from other transfers of User 4 and User 5, and
   this repository's stress tests send from exactly those accounts, and its
   one-shot scripts send between them. It can
   report a mismatch although the fee rule held.
5. **`deploy-ethers.js` can deploy a contract and not record it**
   (`deploy-ethers.js:101`). There are three paths. The answer to
   `factory.deploy()` can be lost after the node took the transaction. A view
   call after `waitForDeployment()` can fail. In both cases `main()` rejects
   with exit code 1 and no file, although the contract is, or will be,
   deployed. The third path is a race. The write is started by
   `import('fs').then(...)`, which `main()` does not await. `main()` returns,
   and the `process.exit(0)` in `main().then(...)` is queued alongside the
   write. Nothing orders the two. When the exit runs first, the process ends
   with code 0 and no file. (Resolving a dynamic import takes more than the
   one microtask the exit needs, so this is the likely order.)
6. **The gas price is fixed** (line 133, not checked). The 8-hour client
   always uses 1 gwei. Spec 4.1 says the gas price is re-queried for each
   submission, with a fallback floor, as `stress-test.js` does. The model
   abstracts the gas price into the node's "rejected" outcome.
7. **`deploy.js` signs with another account than its comment says**
   (`hardhat.config.js:18-19`, not checked). The `pano` network's only
   account is commented "User 4 private key (has ~87,160 PANO)". Its key is
   not the User 4 key that `deploy-ethers.js`, `send-transaction.js` and the
   stress tests sign with. So `deploy.js` deploys from a different address
   than `deploy-ethers.js`, and that account's balance is not the one the
   comment gives. This is a fact of the configuration, with no behaviour
   for TLC to explore.

## 5. Plan

Done: `RoundRobin`, `StressSession`, `SessionAbstract`, `BurstStressTest`,
`FeeCheck`, then `MCSessionLengths` (zero-batch sessions), `MCLongSession`
(the sliding window), `OneShotTransfer` and `TokenScripts`; then the
stats file's rates, termination of the token scripts, and the lost-answer
paths of `factory.deploy()` and of the fee check's send; then the RPC
errors of the receipt waits and the credits other scripts make to the fee
check's accounts.

Next, in order:

1. **Fee market in the 8-hour model.** Add the gas price: the node rejects
   transfers priced below its current price. This would make the fixed
   1 gwei of line 133 checkable against spec 4.1. It needs a violation run,
   and the project is at its budget of 12 runs.
2. **`interact.js`'s two supply reads**, once the contract's code is in the
   repository: the model keeps the block each read saw, not the supply
   values, so no property yet compares the two printed numbers.

Considered and left out:

- **A common composer abstraction** for one batch of `StressSession` and
  the whole of `BurstStressTest`. The 8-hour records carry no attempt
  position to map onto it.
- **Composing the 8-hour test with the one-shot scripts on one ledger.**
  The scripts meet only through the shared keys of User 4 and User 5. In
  `StressSession` a transfer taken by another client is one more reason
  for `SendTransaction`'s rejected outcome, which the model already has.
  In `OneShotTransfer` it is `OtherClientSends`. A composed run would
  explore the product of both state spaces and show nothing more.

Not modelled:

- the contract `GreenGoblinToken` itself, whose source is not in the
  repository. Its calls are abstract transactions and view calls;
- `hardhat.config.js`, which is configuration data. Its one observation is
  finding 7;
- the console output, and the log file that `log()` appends to (it is
  written and never read, so it has no effect on any behaviour). This is
  why the Stats Aggregator & Reporter is only partly modelled;
- the ledger node beyond what the clients observe: per-sender nonces,
  inclusion in blocks, receipt status, balances for the fee check. There is
  no node code in the repository.
