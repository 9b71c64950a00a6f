CONSTANTS
    MaxRecipients = 4
    MaxTxPerBatch = 4
    Batches = 3
SPECIFICATION Spec
INVARIANT RecipientContinuity
\* The session loop of main() ends after totalBatches batches.
CHECK_DEADLOCK FALSE
