CONSTANTS
    NumSenders = 2
    NumRecipients = 3
    TxPerBatch = 2
    TotalBatches = 2
    SignalPoints <- SignalAnywhere
    ReceiptStatuses = {0, 1}
    NoFile = NoFile
SPECIFICATION Spec
INVARIANT FileReflectsSealed
\* The process exits after the summary, on a signal or on a failed startup.
CHECK_DEADLOCK FALSE
