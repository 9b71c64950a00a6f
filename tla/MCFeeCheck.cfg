CONSTANTS
    Amount = 100
    GasUsed = 21
    GasPrices = {1, 2}
    InitBalance = 1000
    ExternalSenders = {"user4", "user5"}
    ExternalAmount = 10
    MaxExternal = 3
SPECIFICATION Spec
INVARIANT TypeOK
INVARIANT VerdictExact
\* The script ends after the verification or in its catch block.
CHECK_DEADLOCK FALSE
