-------------------------- MODULE MCSessionLengths --------------------------
(***************************************************************************)
(* StressSession for every session length in Lengths at once.  main()     *)
(* computes totalBatches = floor(DURATION_HOURS * 60 / INTERVAL_MINUTES)   *)
(* once, before anything else; an INTERVAL_MINUTES longer than the         *)
(* duration gives 0, and main() then skips the batch loop altogether.      *)
(***************************************************************************)
EXTENDS Naturals

CONSTANTS NumSenders, NumRecipients, TxPerBatch, SignalPoints,
          ReceiptStatuses, NoFile,
          Lengths   \* the values totalBatches may take

VARIABLES accepted, mined, receipt, pc, batch, i, j, nonce, confirmed,
          batchStats, stats, statsFile,
          totalBatches  \* the session length main() computed

Session(n) == INSTANCE StressSession WITH TotalBatches <- n

sessionVars == <<accepted, mined, receipt, pc, batch, i, j, nonce, confirmed,
                 batchStats, stats, statsFile>>
allVars == <<sessionVars, totalBatches>>

Init == \E n \in Lengths : totalBatches = n /\ Session(n)!Init

Next == \E n \in Lengths : totalBatches = n /\ Session(n)!Next /\ UNCHANGED totalBatches

ClientStep ==
    \E n \in Lengths : totalBatches = n /\ Session(n)!ClientStep /\ UNCHANGED totalBatches

Spec == Init /\ [][Next]_allVars /\ WF_allVars(ClientStep)

\* The invariants of StressSession, for the session length main() computed.
TypeOK == \A n \in Lengths : totalBatches = n => Session(n)!TypeOK
SessionTotals == \A n \in Lengths : totalBatches = n => Session(n)!SessionTotals
ClassificationMatchesLedger ==
    \A n \in Lengths : totalBatches = n => Session(n)!ClassificationMatchesLedger
BatchesWellFormed == \A n \in Lengths : totalBatches = n => Session(n)!BatchesWellFormed

\* StressSession!Termination: the timeline reaches a terminal pc.
Termination == <>(pc \in Session(0)!Terminal)

(***************************************************************************)
(* A session that runs to completion (main() logs "completed", then       *)
(* updateStatsFile()) leaves a stats file that accounts for every batch   *)
(* it planned and for every one of their TX_PER_BATCH attempts -- also    *)
(* when it planned none and the loop never ran.                            *)
(***************************************************************************)
CompletedFileIsWhole ==
    pc = "done" =>
        /\ statsFile # NoFile
        /\ statsFile.batches_completed = totalBatches
        /\ statsFile.total_transactions_sent = totalBatches * TxPerBatch

=============================================================================
