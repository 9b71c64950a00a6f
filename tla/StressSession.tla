---------------------------- MODULE StressSession ----------------------------
(***************************************************************************)
(* The 8-hour stress test client (src/testnet/8hour-stress-test.mjs) and   *)
(* the ledger node it drives.                                              *)
(*                                                                         *)
(* The client is one async timeline: main() runs the batches in order and  *)
(* sendBatch() submits TX_PER_BATCH transfers one after the other, waits,  *)
(* and asks once for every receipt.  Each await is a program-counter value *)
(* of its own; the JavaScript that runs between two awaits is one atomic  *)
(* step, because Node.js runs a signal handler (cleanup) only when the     *)
(* timeline is parked at an await.                                         *)
(*                                                                         *)
(* The ledger is the environment: it accepts a submitted transfer at the   *)
(* sender's next pending nonce and includes accepted transfers in blocks   *)
(* in nonce order, at any time, with a receipt status of 1 or 0.           *)
(***************************************************************************)
EXTENDS Naturals, Sequences, FiniteSets, SequencesExt

CONSTANTS
    NumSenders,       \* SENDERS.length
    NumRecipients,    \* RECIPIENTS.length
    TxPerBatch,       \* TX_PER_BATCH
    TotalBatches,     \* floor(DURATION_HOURS * 60 / INTERVAL_MINUTES)
    SignalPoints,     \* the awaits at which SIGINT/SIGTERM may be delivered
    ReceiptStatuses,  \* receipt.status values the node may produce
    NoFile            \* model value: the stats file has not been written

Senders == 0..NumSenders - 1

\* Every await of main() and sendBatch().
AwaitPoints == {"startup", "nonce", "send", "pause", "settle", "receipt", "interval"}
Terminal == {"done", "interrupted", "exited"}

ASSUME /\ NumSenders >= 1 /\ NumRecipients >= 1 /\ TxPerBatch >= 1
       /\ TotalBatches \in Nat
       /\ SignalPoints \subseteq AwaitPoints
       /\ ReceiptStatuses \subseteq {0, 1}

RR == INSTANCE RoundRobin

\* One nonce per submission is the most a session can consume.
MaxNonce == TotalBatches * TxPerBatch
\* A transaction hash stands for the (sender, nonce) pair it was signed with.
TxIds == Senders \X (0..MaxNonce)

VARIABLES
    \* ledger node
    accepted,    \* accepted[s]: pending nonce of s (transactions the node took)
    mined,       \* mined[s]: latest nonce of s (transactions included in blocks)
    receipt,     \* receipt[h]: status of the receipt of mined transaction h
    \* client
    pc,          \* the await the timeline is parked at, or how it ended
    batch,       \* loop variable of main()
    i,           \* loop variable of the submission loop of sendBatch
    j,           \* position in batchStats.transactions of the receipt loop
    nonce,       \* the value wallet.getNonce() returned for submission i
    confirmed,   \* local counter of the receipt loop
    batchStats,  \* the batch being built by sendBatch
    stats,       \* the session-wide stats object
    statsFile    \* the content of STATS_FILE

ledgerVars == <<accepted, mined, receipt>>
clientVars == <<pc, batch, i, j, nonce, confirmed, batchStats, stats, statsFile>>
vars == <<ledgerVars, clientVars>>

-----------------------------------------------------------------------------
(* Data of the client.                                                     *)

TxRecord == [hash: TxIds, to: 0..NumRecipients - 1, nonce: 0..MaxNonce,
             status: {"pending", "confirmed", "failed"}]

BatchRecord == [batchNumber: 0..TotalBatches, transactions: Seq(TxRecord),
                success: 0..TxPerBatch, failed: 0..TxPerBatch, confirmed: 0..TxPerBatch]

\* The batchStats object sendBatch creates (lines 103-110).
NewBatch(b) == [batchNumber |-> b, transactions |-> <<>>,
                success |-> 0, failed |-> 0, confirmed |-> 0]

\* One entry of recent_batches (lines 219-225).
Summary(b) == [batch |-> b.batchNumber, success |-> b.success,
               failed |-> b.failed, confirmed |-> b.confirmed]

\* Mutant: stats.batches.slice(0, 5) -- the five oldest batches.
RecentBatchesOldest(bs) == SubSeq(bs, 1, IF Len(bs) > 5 THEN 5 ELSE Len(bs))

\* stats.batches.slice(-5)
RecentBatches(bs) == SubSeq(bs, IF Len(bs) > 5 THEN Len(bs) - 4 ELSE 1, Len(bs))

\* successRate and confirmRate: ((n / sent) * 100).toFixed(2) once anything
\* was sent, else 0; in hundredths of a percent, rounded half up as
\* toFixed does.
Rate(n, sent) == IF sent > 0 THEN (20000 * n + sent) \div (2 * sent) ELSE 0

\* updateStatsFile(): the JSON snapshot of the counters and rates (elapsed
\* time and the dates are functions of the clock).
StatsFileOf(st) ==
    [total_transactions_sent |-> st.totalTxSent,
     total_success           |-> st.totalTxSuccess,
     total_failed            |-> st.totalTxFailed,
     total_confirmed         |-> st.totalConfirmed,
     success_rate            |-> Rate(st.totalTxSuccess, st.totalTxSent),
     confirmation_rate       |-> Rate(st.totalConfirmed, st.totalTxSent),
     batches_completed       |-> Len(st.batches),
     recent_batches          |-> LET r == RecentBatches(st.batches)
                                 IN [k \in DOMAIN r |-> Summary(r[k])]]

\* getTransactionReceipt(hash): the receipt, as the set of its status, or
\* {} for null when the transaction is not in a block yet.
ReceiptOf(h) == IF h \in DOMAIN receipt THEN {receipt[h]} ELSE {}

-----------------------------------------------------------------------------
(* Ledger node.                                                            *)

\* The node includes the oldest pending transaction of sender s in a block.
Mine(s) ==
    /\ mined[s] < accepted[s]
    /\ \E st \in ReceiptStatuses :
           receipt' = receipt @@ (<<s, mined[s]>> :> st)
    /\ mined' = [mined EXCEPT ![s] = @ + 1]
    /\ UNCHANGED <<accepted, clientVars>>

\* The node takes a signed transfer of s at its pending nonce.
NodeAccepts(s) == accepted' = [accepted EXCEPT ![s] = @ + 1]

-----------------------------------------------------------------------------
(* Client.                                                                 *)

Init ==
    /\ accepted = [s \in Senders |-> 0]
    /\ mined = [s \in Senders |-> 0]
    /\ receipt = <<>>
    /\ pc = "startup"
    /\ batch = 0
    /\ i = 0
    /\ j = 0
    /\ nonce = 0
    /\ confirmed = 0
    /\ batchStats = NewBatch(0)
    /\ stats = [totalTxSent |-> 0, totalTxSuccess |-> 0, totalTxFailed |-> 0,
                totalConfirmed |-> 0, batches |-> <<>>]
    /\ statsFile = NoFile

\* Mutant: batchStats hoisted out of sendBatch and never reset.
BeginBatchNoReset(b) ==
    /\ batch' = b
    /\ i' = 0
    /\ batchStats' = [batchStats EXCEPT !.batchNumber = b]
    /\ pc' = "nonce"

\* sendBatch(b) up to its first await, wallet.getNonce() of submission 0.
BeginBatch(b) ==
    /\ batch' = b
    /\ i' = 0
    /\ batchStats' = NewBatch(b)
    /\ pc' = "nonce"

\* Mutant: the loop condition i <= TX_PER_BATCH.
NextSubmissionInclusive ==
    /\ i' = i + 1
    /\ pc' = IF i + 1 <= TxPerBatch THEN "nonce" ELSE "settle"

\* The end of the for-loop body: the next submission, or the log line of the
\* batch result and the await of the 3000 ms settle delay.
NextSubmission ==
    /\ i' = i + 1
    /\ pc' = IF i + 1 < TxPerBatch THEN "nonce" ELSE "settle"

\* Mutant: the catch block forgets stats.totalTxSent++.
SubmitFailedUncountedSent ==
    /\ batchStats' = [batchStats EXCEPT !.failed = @ + 1]
    /\ stats' = [stats EXCEPT !.totalTxFailed = @ + 1]
    /\ NextSubmission

\* The catch block of one submission (lines 155-160).
SubmitFailed ==
    /\ batchStats' = [batchStats EXCEPT !.failed = @ + 1]
    /\ stats' = [stats EXCEPT !.totalTxFailed = @ + 1, !.totalTxSent = @ + 1]
    /\ NextSubmission

\* Mutant: updateStatsFile() called before stats.batches.push(batchStats).
SealFileFirst(bs, c) ==
    LET sealed == IF c > 0 THEN [bs EXCEPT !.confirmed = c] ELSE bs
    IN /\ batchStats' = sealed
       /\ stats' = [stats EXCEPT !.totalConfirmed = @ + c,
                                 !.batches = Append(@, sealed)]
       /\ statsFile' = StatsFileOf([stats EXCEPT !.totalConfirmed = @ + c])
       /\ pc' = IF batch < TotalBatches THEN "interval" ELSE "done"

\* The tail of sendBatch after its last await, and of main() up to its next
\* await: the confirmed count is stored only when positive, the batch is
\* pushed and the stats file written; then main() either sleeps until the
\* next batch or logs completion, rewrites the stats file and prints the
\* summary, after which the process exits.
Seal(bs, c) ==
    LET sealed == IF c > 0 THEN [bs EXCEPT !.confirmed = c] ELSE bs
        st     == [stats EXCEPT !.totalConfirmed = @ + c,
                                !.batches = Append(@, sealed)]
    IN /\ batchStats' = sealed
       /\ stats' = st
       /\ statsFile' = StatsFileOf(st)
       /\ pc' = IF batch < TotalBatches THEN "interval" ELSE "done"

\* Mutant: the final updateStatsFile() of main() dropped, as every batch
\* already rewrites the file.
FinishWithoutFlush == pc' = "done" /\ UNCHANGED statsFile

\* main() after its batch loop: log completion, updateStatsFile() and
\* displaySummary(), after which the process exits.
Finish == pc' = "done" /\ statsFile' = StatsFileOf(stats)

\* main(): connection and balance checks, then the first batch or, when
\* totalBatches is 0, completion.  A failed check ends the process with
\* exit code 1 and writes no stats file.
Startup ==
    /\ pc = "startup"
    /\ \/ /\ TotalBatches >= 1
          /\ BeginBatch(1)
          /\ UNCHANGED <<j, nonce, confirmed, stats, statsFile>>
       \/ /\ TotalBatches = 0
          /\ Finish
          /\ UNCHANGED <<batch, i, j, nonce, confirmed, batchStats, stats>>
       \/ /\ pc' = "exited"
          /\ UNCHANGED <<batch, i, j, nonce, confirmed, batchStats, stats, statsFile>>
    /\ UNCHANGED ledgerVars

\* const nonce = await wallet.getNonce(): the "latest" transaction count.
GetNonce ==
    LET s == RR!SenderIdx(i) IN
    /\ pc = "nonce"
    /\ \/ /\ nonce' = mined[s]
          /\ pc' = "send"
          /\ UNCHANGED <<i, batchStats, stats>>
       \/ /\ SubmitFailed
          /\ UNCHANGED nonce
    /\ UNCHANGED <<ledgerVars, batch, j, confirmed, statsFile>>

\* await wallet.sendTransaction(tx): ethers fills in the "pending" nonce
\* itself, signs and broadcasts.  The node may reject the transfer, take it
\* and answer, or take it while the answer is lost (the call throws).
SendTransaction ==
    LET s  == RR!SenderIdx(i)
        tx == [hash |-> <<s, accepted[s]>>, to |-> RR!RecipientIdx(batch, i),
               nonce |-> nonce, status |-> "pending"]
    IN
    /\ pc = "send"
    /\ \/ /\ NodeAccepts(s)
          /\ batchStats' = [batchStats EXCEPT !.transactions = Append(@, tx),
                                              !.success = @ + 1]
          /\ stats' = [stats EXCEPT !.totalTxSuccess = @ + 1, !.totalTxSent = @ + 1]
          /\ pc' = "pause"
          /\ UNCHANGED i
       \/ /\ SubmitFailed
          /\ UNCHANGED accepted
       \/ /\ NodeAccepts(s)
          /\ SubmitFailed
    /\ UNCHANGED <<mined, receipt, batch, j, nonce, confirmed, statsFile>>

\* The 500 ms pause after a successful submission.
Pause ==
    /\ pc = "pause"
    /\ NextSubmission
    /\ UNCHANGED <<ledgerVars, batch, j, nonce, confirmed, batchStats, stats, statsFile>>

\* After the 3000 ms settle delay the receipt loop starts; with no
\* transaction to look at it finishes at once.
Settle ==
    /\ pc = "settle"
    /\ IF batchStats.transactions = <<>>
         THEN Seal(batchStats, 0) /\ UNCHANGED j
         ELSE pc' = "receipt" /\ j' = 1 /\ UNCHANGED <<batchStats, stats, statsFile>>
    /\ confirmed' = 0
    /\ UNCHANGED <<ledgerVars, batch, i, nonce>>

\* Mutant: if (!receipt || receipt.status === 1) -- no receipt taken as success.
ClassifyNullAsConfirmed(tx, r) ==
    IF r = {} \/ 1 \in r THEN "confirmed" ELSE IF 0 \in r THEN "failed" ELSE tx.status

\* The status a record gets from receipt r (lines 172-177).
Classify(tx, r) ==
    IF 1 \in r THEN "confirmed" ELSE IF 0 \in r THEN "failed" ELSE tx.status

\* Mutant: await txResponse.wait() as in send-transaction.js -- blocks until
\* the transaction is in a block and then returns its receipt.
ReceiptQueryWaiting(h) == IF h \in DOMAIN receipt THEN {{receipt[h]}} ELSE {}

\* The outcomes of provider.getTransactionReceipt(h): the receipt (null while
\* h is not in a block), or a query error, which the catch block ignores.
ReceiptQuery(h) == {ReceiptOf(h), {}}

\* await provider.getTransactionReceipt(tx.txHash) for record j, asked once:
\* a query error or a null receipt leaves the record pending.
PollReceipt ==
    LET tx == batchStats.transactions[j] IN
    /\ pc = "receipt"
    /\ \E r \in ReceiptQuery(tx.hash) :
         LET bs == [batchStats EXCEPT !.transactions[j].status = Classify(tx, r)]
             c  == IF 1 \in r THEN confirmed + 1 ELSE confirmed
         IN /\ confirmed' = c
            /\ IF j < Len(batchStats.transactions)
                 THEN j' = j + 1 /\ batchStats' = bs /\ UNCHANGED <<stats, statsFile, pc>>
                 ELSE Seal(bs, c) /\ UNCHANGED j
    /\ UNCHANGED <<ledgerVars, batch, i, nonce>>

\* The INTERVAL_MINUTES sleep of main(), then the next batch.
Interval ==
    /\ pc = "interval"
    /\ BeginBatch(batch + 1)
    /\ UNCHANGED <<ledgerVars, j, nonce, confirmed, stats, statsFile>>

\* cleanup(), the SIGINT/SIGTERM handler: write the stats file from the
\* counters as they are, print the summary and process.exit(0).  Whatever
\* the timeline was awaiting never resumes.
Interrupt ==
    /\ pc \in SignalPoints
    /\ statsFile' = StatsFileOf(stats)
    /\ pc' = "interrupted"
    /\ UNCHANGED <<ledgerVars, batch, i, j, nonce, confirmed, batchStats, stats>>

ClientStep ==
    \/ Startup \/ GetNonce \/ SendTransaction \/ Pause
    \/ Settle \/ PollReceipt \/ Interval

Next ==
    \/ ClientStep
    \/ Interrupt
    \/ \E s \in Senders : Mine(s)

\* Every await of the client resolves: timers fire and every RPC call
\* either answers or fails (ethers times requests out).  Neither the
\* operator's signal nor block production is assumed to happen.
Spec == Init /\ [][Next]_vars /\ WF_vars(ClientStep)

-----------------------------------------------------------------------------
(* Properties.                                                             *)

TypeOK ==
    /\ accepted \in [Senders -> 0..MaxNonce]
    /\ mined \in [Senders -> 0..MaxNonce]
    /\ \A h \in DOMAIN receipt : h \in TxIds /\ receipt[h] \in ReceiptStatuses
    /\ pc \in AwaitPoints \cup Terminal
    /\ batch \in 0..TotalBatches
    /\ i \in 0..TxPerBatch
    /\ j \in 0..TxPerBatch
    /\ nonce \in 0..MaxNonce
    /\ confirmed \in 0..TxPerBatch
    /\ batchStats \in BatchRecord
    /\ stats.batches \in Seq(BatchRecord)
    /\ {stats.totalTxSent, stats.totalTxSuccess, stats.totalTxFailed,
        stats.totalConfirmed} \subseteq 0..MaxNonce

\* Sum of F over the batches pushed to stats.batches.
SealedTotal(F(_)) == FoldLeft(LAMBDA acc, b : acc + F(b), 0, stats.batches)

\* batchStats is still being built: sendBatch has not pushed it.
InFlight == Len(stats.batches) < batch

(***************************************************************************)
(* The session counters that sendBatch bumps submission by submission      *)
(* agree with the batches it pushes: every attempt is counted once as      *)
(* sent and once as success or failure, the sealed batches account for    *)
(* all of them except those of the batch in flight, and confirmations are *)
(* added to the total only together with the batch that holds them.       *)
(***************************************************************************)
SessionTotals ==
    LET inflight(F(_)) == IF InFlight THEN F(batchStats) ELSE 0
        succ(b) == b.success
        fail(b) == b.failed
        conf(b) == b.confirmed
    IN /\ stats.totalTxSent = stats.totalTxSuccess + stats.totalTxFailed
       /\ stats.totalTxSuccess = SealedTotal(succ) + inflight(succ)
       /\ stats.totalTxFailed = SealedTotal(fail) + inflight(fail)
       /\ stats.totalConfirmed = SealedTotal(conf)

\* Every transaction record of the session, sealed or in flight.
Records ==
    UNION {Range(b.transactions) : b \in Range(stats.batches) \cup {batchStats}}

(***************************************************************************)
(* What the receipt loop records agrees with the ledger: a record marked   *)
(* confirmed (failed) is a transaction the node included with status 1     *)
(* (0), the record's hash is one the node accepted, and the confirmed      *)
(* count of every sealed batch is the number of its confirmed records.     *)
(***************************************************************************)
ClassificationMatchesLedger ==
    /\ \A tx \in Records :
         /\ tx.hash[2] < accepted[tx.hash[1]]
         /\ tx.status = "confirmed" => ReceiptOf(tx.hash) = {1}
         /\ tx.status = "failed" => ReceiptOf(tx.hash) = {0}
    /\ \A b \in Range(stats.batches) :
         b.confirmed = Cardinality({k \in DOMAIN b.transactions :
                                      b.transactions[k].status = "confirmed"})

(***************************************************************************)
(* Every batch main() has sealed has its own number, in order from 1, made *)
(* exactly TX_PER_BATCH attempts (success + failed), holds one record per  *)
(* success and never more confirmations than successes.                    *)
(***************************************************************************)
BatchesWellFormed ==
    \A k \in DOMAIN stats.batches :
        LET b == stats.batches[k] IN
        /\ b.batchNumber = k
        /\ b.success + b.failed = TxPerBatch
        /\ Len(b.transactions) = b.success
        /\ b.confirmed <= b.success

(***************************************************************************)
(* The session ends (completion, interruption or failed startup) whether   *)
(* or not the node ever includes the submitted transfers: the receipt      *)
(* check is single-shot and never waits for a block.                       *)
(***************************************************************************)
Termination == <>(pc \in Terminal)

(***************************************************************************)
(* Scenario D of the spec: the stats file reflects the sealed batches only *)
(* -- its totals are the sums over the batches_completed batches.          *)
(***************************************************************************)
FileReflectsSealed ==
    LET succ(b) == b.success
        fail(b) == b.failed
        conf(b) == b.confirmed
    IN statsFile # NoFile =>
         /\ statsFile.batches_completed = Len(stats.batches)
         /\ statsFile.total_success = SealedTotal(succ)
         /\ statsFile.total_failed = SealedTotal(fail)
         /\ statsFile.total_confirmed = SealedTotal(conf)

(***************************************************************************)
(* Section 4.1/8 of the spec: the nonce recorded for a transaction is the  *)
(* nonce it was sent with, so a sender's recorded nonces rise by one.      *)
(***************************************************************************)
RecordedNonceIsUsedNonce ==
    \A tx \in Records : tx.nonce = tx.hash[2]


(***************************************************************************)
(* The client implements SessionAbstract: seen through stats.batches, the  *)
(* stats file and whether the process has ended, every step is a sealing  *)
(* of one well-formed batch with the file rewritten from the sealed        *)
(* batches, a flush-and-stop, a failed startup, or invisible.              *)
(***************************************************************************)
Abstract == INSTANCE SessionAbstract
    WITH sealed <- [k \in DOMAIN stats.batches |-> Summary(stats.batches[k])],
         file   <- statsFile,
         phase  <- IF pc \in Terminal THEN "stopped" ELSE "running"

AbstractSpec == Abstract!Spec

=============================================================================
