\* Both scripts, each with up to two transfers of other clients of its key.
CONSTANTS
    Scripts = {"send-transaction.js", "send-transaction2.js"}
    ReceiptStatuses = {0, 1}
    MaxOther = 2
    None = None
SPECIFICATION Spec
PROPERTY Termination
\* The script ends, leaving the node idle.
CHECK_DEADLOCK FALSE
