CONSTANTS
    NumSenders = 2
    NumRecipients = 3
    TxPerBatch = 3
    TotalBatches = 1
    SignalPoints = {}
    ReceiptStatuses = {1}
    NoFile = NoFile
SPECIFICATION Spec
INVARIANT RecordedNonceIsUsedNonce
\* The process exits after the summary or on a failed startup.
CHECK_DEADLOCK FALSE
