----------------------------- MODULE RoundRobin -----------------------------
(***************************************************************************)
(* Sender and recipient selection of sendBatch in                          *)
(* src/testnet/8hour-stress-test.mjs.  The sender cursor restarts with     *)
(* every batch (it only depends on the position i inside the batch); the   *)
(* recipient cursor is continuous across batches because it is offset by  *)
(* batchNumber * TX_PER_BATCH.                                             *)
(***************************************************************************)
EXTENDS Naturals

CONSTANTS
    NumSenders,     \* SENDERS.length (wallets.length)
    NumRecipients,  \* RECIPIENTS.length
    TxPerBatch      \* TX_PER_BATCH

\* const senderIdx = i % wallets.length;
SenderIdx(i) == i % NumSenders

\* Mutant: the recipient cursor of stress-test.js, which restarts every batch.
RecipientIdxReset(batchNumber, i) == i % NumRecipients

\* const recipientIdx = (batchNumber * TX_PER_BATCH + i) % RECIPIENTS.length;
RecipientIdx(batchNumber, i) == (batchNumber * TxPerBatch + i) % NumRecipients

=============================================================================
