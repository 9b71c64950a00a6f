CONSTANTS
    NumSenders = 2
    Amounts <- SourceAmounts
SPECIFICATION Spec
INVARIANT TypeOK
\* The script ends after printing its summary.
CHECK_DEADLOCK FALSE
