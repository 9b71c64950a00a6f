CONSTANTS
    NumSenders = 2
    Amounts <- FirstAmounts
SPECIFICATION Spec
INVARIANT ReportedTotalIsSent
\* The script ends after printing its summary.
CHECK_DEADLOCK FALSE
