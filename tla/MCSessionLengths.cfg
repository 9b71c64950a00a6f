\* Sessions of 0, 1 and 2 batches, two senders and three recipients as in the
\* source, two transfers per batch, SIGINT at any await.
CONSTANTS
    NumSenders = 2
    NumRecipients = 3
    TxPerBatch = 2
    Lengths = {0, 1, 2}
    SignalPoints = {"startup", "nonce", "send", "pause", "settle", "receipt", "interval"}
    ReceiptStatuses = {0, 1}
    NoFile = NoFile
SPECIFICATION Spec
INVARIANT TypeOK SessionTotals ClassificationMatchesLedger BatchesWellFormed
INVARIANT CompletedFileIsWhole
PROPERTY Termination
\* The process exits after the summary, on a signal or on a failed startup.
CHECK_DEADLOCK FALSE
