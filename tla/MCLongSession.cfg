\* A session long enough for the recent_batches window of the stats file
\* to slide: six batches of one transfer from one sender.
CONSTANTS
    NumSenders = 1
    NumRecipients = 2
    TxPerBatch = 1
    TotalBatches = 6
    SignalPoints <- SignalBetweenBatches
    ReceiptStatuses = {1}
    NoFile = NoFile
SPECIFICATION Spec
PROPERTY AbstractSpec
\* The process exits after the summary, on a signal or on a failed startup.
CHECK_DEADLOCK FALSE
