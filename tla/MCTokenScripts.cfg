\* Every script and every interact.js command, with or without arguments and
\* PRIVATE_KEY, and one token transaction of another client.
CONSTANTS
    Scripts = {"deploy-ethers.js", "deploy.js", "interact.js"}
    Commands = {"", "info", "supply", "balance", "transfer", "mint", "burn", "help", "other"}
    MaxOther = 1
    None = None
SPECIFICATION Spec
INVARIANT TypeOK
PROPERTY Termination
\* Every script ends with process.exit.
CHECK_DEADLOCK FALSE
