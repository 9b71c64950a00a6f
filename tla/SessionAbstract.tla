--------------------------- MODULE SessionAbstract ---------------------------
(***************************************************************************)
(* What a stress-test session promises its operator through the stats     *)
(* file: batches are sealed one at a time, in order, each with exactly     *)
(* TX_PER_BATCH attempts and no more confirmations than successes, and     *)
(* whenever the file is written its totals are those of the sealed         *)
(* batches, of which it lists the five most recent.  The session ends     *)
(* after the last batch, on a signal (after a final flush), or before    *)
(* any batch when startup fails.                                           *)
(***************************************************************************)
EXTENDS Naturals, Sequences, SequencesExt

CONSTANTS
    TxPerBatch,    \* attempts per batch
    TotalBatches,  \* batches of a complete session
    NoFile         \* the stats file has not been written

VARIABLES
    sealed,  \* summaries of the sealed batches, in order
    file,    \* content of the stats file
    phase    \* "running" or "stopped"

vars == <<sealed, file, phase>>

Summaries == [batch: 1..TotalBatches, success: 0..TxPerBatch,
              failed: 0..TxPerBatch, confirmed: 0..TxPerBatch]

SumOver(seq, F(_)) == FoldLeft(LAMBDA acc, b : acc + F(b), 0, seq)

\* The stats file a sequence of sealed batches determines.
\* A share in hundredths of a percent, rounded half up; 0 of nothing.
Percent(n, total) == IF total > 0 THEN (20000 * n + total) \div (2 * total) ELSE 0

FileOf(seq) ==
    LET succ(b) == b.success
        fail(b) == b.failed
        conf(b) == b.confirmed
        sent == SumOver(seq, succ) + SumOver(seq, fail)
    IN [total_transactions_sent |-> sent,
        success_rate            |-> Percent(SumOver(seq, succ), sent),
        confirmation_rate       |-> Percent(SumOver(seq, conf), sent),
        total_success           |-> SumOver(seq, succ),
        total_failed            |-> SumOver(seq, fail),
        total_confirmed         |-> SumOver(seq, conf),
        batches_completed       |-> Len(seq),
        recent_batches          |-> SelectSeq(seq, LAMBDA b : b.batch > Len(seq) - 5)]

Init ==
    /\ sealed = <<>>
    /\ file = NoFile
    /\ phase = "running"

\* A batch is sealed and the file rewritten; the last one ends the session.
SealBatch ==
    /\ phase = "running"
    /\ Len(sealed) < TotalBatches
    /\ \E s \in 0..TxPerBatch, c \in 0..TxPerBatch :
         LET new == Append(sealed, [batch |-> Len(sealed) + 1, success |-> s,
                                    failed |-> TxPerBatch - s, confirmed |-> c])
         IN /\ c <= s
            /\ sealed' = new
            /\ file' = FileOf(new)
            /\ phase' = IF Len(new) = TotalBatches THEN "stopped" ELSE "running"

\* The session stops after flushing the file.
Stop ==
    /\ phase = "running"
    /\ file' = FileOf(sealed)
    /\ phase' = "stopped"
    /\ UNCHANGED sealed

\* Startup fails before anything was written.
Abort ==
    /\ phase = "running"
    /\ file = NoFile
    /\ phase' = "stopped"
    /\ UNCHANGED <<sealed, file>>

Next == SealBatch \/ Stop \/ Abort

Spec == Init /\ [][Next]_vars

=============================================================================
