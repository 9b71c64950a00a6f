---------------------------- MODULE MCRoundRobin ----------------------------
(***************************************************************************)
(* Checks the recipient selection of RoundRobin against a reference        *)
(* cursor that moves one recipient forward per submission for the whole   *)
(* session, for every pool size and batch size up to the bounds below.    *)
(***************************************************************************)
EXTENDS Naturals

CONSTANTS
    MaxRecipients,   \* largest RECIPIENTS.length tried
    MaxTxPerBatch,   \* largest TX_PER_BATCH tried
    Batches          \* batches walked through (totalBatches)

VARIABLES
    nr,      \* RECIPIENTS.length of this configuration
    n,       \* TX_PER_BATCH of this configuration
    batch,   \* loop variable batch of main()
    i,       \* loop variable i of sendBatch
    cursor   \* reference: recipient of the next submission of the session

vars == <<nr, n, batch, i, cursor>>

RR == INSTANCE RoundRobin WITH NumSenders <- 1, NumRecipients <- nr, TxPerBatch <- n

Init ==
    /\ nr \in 1..MaxRecipients
    /\ n \in 1..MaxTxPerBatch
    /\ batch = 1
    /\ i = 0
    \* main() numbers the first batch 1, so the session starts at n % nr.
    /\ cursor = n % nr

\* One submission: the batch loop of sendBatch nested in the loop of main().
Submit ==
    /\ batch <= Batches
    /\ cursor' = (cursor + 1) % nr
    /\ IF i + 1 < n
         THEN i' = i + 1 /\ batch' = batch
         ELSE i' = 0 /\ batch' = batch + 1
    /\ UNCHANGED <<nr, n>>

Spec == Init /\ [][Submit]_vars

(***************************************************************************)
(* Recipient rotation is continuous across batch boundaries: the recipient *)
(* chosen by sendBatch for position i of batch b is the one that follows   *)
(* the last recipient of batch b-1, never a restart at recipient 0.        *)
(***************************************************************************)
RecipientContinuity ==
    batch <= Batches => RR!RecipientIdx(batch, i) = cursor

=============================================================================
