CONSTANTS
    Amount = 100
    GasUsed = 21
    GasPrices = {1, 2}
    InitBalance = 1000
    ExternalSenders = {"user4", "user5"}
    ExternalAmount = 10
    MaxExternal = 2
SPECIFICATION Spec
INVARIANT VerdictSound
\* The script ends after the verification or in its catch block.
CHECK_DEADLOCK FALSE
